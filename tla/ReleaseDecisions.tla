-------------------------- MODULE ReleaseDecisions --------------------------
(***************************************************************************)
(* Release decisions over the evaluations of the deployment gate, and the  *)
(* append-only actions that change what a decision stands for              *)
(* (backend/app/services/release_decisions.py), composed with the gate:    *)
(* the transaction that makes an evaluation stale also records the fact on *)
(* the releases approved over it.                                          *)
(*                                                                         *)
(* A request checks the gate and the earlier actions without a lock and    *)
(* commits later.                                                          *)
(***************************************************************************)
EXTENDS DeploymentGate

CONSTANTS
    Clients,       \* API sessions of operators
    MaxDecisions   \* bound of the model on decisions

ASSUME ReleaseAssumption == MaxDecisions \in Nat

VARIABLES
    decisions,  \* decisions[d]: the decision with id d, in order of commit
    request,    \* request[c]: the open request of client c
    seen        \* seen[o]: the decisions that existed when o locked the gates

releaseVars == <<decisions, request, seen>>
vars == <<evidence, gates, baselines, tx, decisions, request, seen>>

-----------------------------------------------------------------------------
(* Records *)

Decisions == 1..MaxDecisions

OperatorAction == {"review_requested", "acknowledged", "revoked"}

\* other: REJECT_RELEASE or REQUEST_CHANGES.  actions: the kinds of action
\* recorded so far.  Of review requests only review is kept: the latest one
\* is later than the latest acknowledgement.
Decision == [decision: {"absent", "approve", "other"},
             gate: Gates \cup {0},
             replaces: Decisions \cup {0},
             actions: SUBSET {"acknowledged", "revoked", "stale_detected", "replaced"},
             review: BOOLEAN]

NoDecision == [decision |-> "absent", gate |-> 0, replaces |-> 0, actions |-> {},
               review |-> FALSE]

Signed == {d \in Decisions : decisions[d].decision # "absent"}

Request == [op: {"none", "decide", "operate"},
            decision: {"approve", "other"}, gate: Gates \cup {0},
            target: Decisions \cup {0}, action: OperatorAction]

NoRequest == [op |-> "none", decision |-> "other", gate |-> 0, target |-> 0,
              action |-> "revoked"]

\* Mutant of OperationalStatus: the warning is looked at first.
OperationalStatusWarnsFirst(d) ==
    LET record == decisions[d]
        stale == gates[record.gate].status = "stale" \/ "stale_detected" \in record.actions
    IN  CASE record.decision = "approve" /\ stale -> "needs_review"
          [] record.review -> "needs_review"
          [] "replaced" \in record.actions -> "replaced"
          [] "revoked" \in record.actions -> "revoked"
          [] OTHER -> IF record.decision = "approve" THEN "active" ELSE "recorded"

\* Mutant of OperationalStatus: only the recorded action warns.
OperationalStatusActionsOnly(d) ==
    LET record == decisions[d] IN
        IF "replaced" \in record.actions THEN "replaced"
        ELSE IF "revoked" \in record.actions THEN "revoked"
        ELSE IF "stale_detected" \in record.actions \/ record.review THEN "needs_review"
        ELSE IF record.decision = "approve" THEN "active"
        ELSE "recorded"

\* operational_status of release_decision_read.
OperationalStatus(d) ==
    LET record == decisions[d]
        stale == gates[record.gate].status = "stale" \/ "stale_detected" \in record.actions
    IN  IF "replaced" \in record.actions THEN "replaced"
        ELSE IF "revoked" \in record.actions THEN "revoked"
        ELSE IF (record.decision = "approve" /\ stale) \/ record.review THEN "needs_review"
        ELSE IF record.decision = "approve" THEN "active"
        ELSE "recorded"

ReleaseInit ==
    /\ Init
    /\ decisions = [d \in Decisions |-> NoDecision]
    /\ request = [c \in Clients |-> NoRequest]
    /\ seen = [o \in AllSessions |-> {}]

-----------------------------------------------------------------------------
(* The gate's transactions, with what they do to the decisions *)

\* Mutant of RecordStale: the decisions of evaluations that stay completed
\* are not left out.
RecordStaleAll(visible) ==
    decisions' = [d \in Decisions |->
                    IF d \in visible /\ decisions[d].decision = "approve"
                       /\ gates' # gates
                    THEN [decisions[d] EXCEPT !.actions = @ \cup {"stale_detected"}]
                    ELSE decisions[d]]

\* record_stale_release_actions, for the evaluations this transaction marks
\* and the decisions it can see.
RecordStale(visible) ==
    decisions' = [d \in Decisions |->
                    IF /\ d \in visible
                       /\ decisions[d].decision = "approve"
                       /\ gates[decisions[d].gate].status = "completed"
                       /\ gates'[decisions[d].gate].status = "stale"
                    THEN [decisions[d] EXCEPT !.actions = @ \cup {"stale_detected"}]
                    ELSE decisions[d]]

\* An evaluation looks the decisions up with its lock, and commits later.
LockAndLook(o) ==
    /\ LockGates(o)
    /\ seen' = [seen EXCEPT ![o] = Signed]
    /\ UNCHANGED <<decisions, request>>

CommitAndRecord(o) ==
    /\ CommitEvaluation(o)
    /\ RecordStale(seen[o])
    /\ seen' = [seen EXCEPT ![o] = {}]
    /\ UNCHANGED request

ReviseAndRecord ==
    /\ ReviseEvidence
    /\ RecordStale(Signed)
    /\ UNCHANGED <<request, seen>>

ReconcileAndRecord(o) ==
    /\ ReconcileWrite(o)
    /\ RecordStale(Signed)
    /\ UNCHANGED <<request, seen>>

\* Steps of the gate that do not touch the decisions.
OtherGateStep ==
    /\ \/ ReviseSilently
       \/ \E o \in Sessions, policy \in Policies : Collect(o, policy)
       \/ \E o \in Sessions : LockStale(o)
       \/ \E o \in Sessions : ReadGate(o)
       \/ \E o \in AllSessions : ReconcileRead(o)
    /\ UNCHANGED releaseVars

AbortSession(o) ==
    /\ Abort(o)
    /\ seen' = [seen EXCEPT ![o] = {}]
    /\ UNCHANGED <<decisions, request>>

-----------------------------------------------------------------------------
(* create_release_decision *)

\* _validated_replaced_decision
Replaceable(d, g) ==
    /\ d \in Signed
    /\ decisions[d].gate # g
    /\ gates[decisions[d].gate].policy = gates[g].policy
    /\ OperationalStatus(d) # "replaced"

\* The checks: an approval needs readiness READY or READY_TO_PROMOTE, which
\* no stale or unapproved evaluation gives.
Decide(c, g, decision, replaced) ==
    /\ request[c] = NoRequest
    /\ gates[g].status # "absent"
    /\ replaced # 0 => Replaceable(replaced, g)
    /\ decision = "approve" => gates[g].status = "completed" /\ gates[g].approved
    /\ request' = [request EXCEPT ![c] = [NoRequest EXCEPT !.op = "decide", !.gate = g,
                                             !.decision = decision, !.target = replaced]]
    /\ UNCHANGED <<gateVars, decisions, seen>>

NextDecision == Cardinality(Signed) + 1

CommitDecision(c) ==
    /\ request[c].op = "decide"
    /\ NextDecision \in Decisions
    /\ decisions' = [d \in Decisions |->
                       IF d = NextDecision
                       THEN [NoDecision EXCEPT !.decision = request[c].decision,
                                               !.gate = request[c].gate,
                                               !.replaces = request[c].target]
                       ELSE IF d = request[c].target
                       THEN [decisions[d] EXCEPT !.actions = @ \cup {"replaced"}]
                       ELSE decisions[d]]
    /\ request' = [request EXCEPT ![c] = NoRequest]
    /\ UNCHANGED <<gateVars, seen>>

-----------------------------------------------------------------------------
(* create_release_decision_action *)

Operate(c, d, action) ==
    /\ request[c] = NoRequest
    /\ d \in Signed
    /\ OperationalStatus(d) # "replaced"
    /\ action = "revoked" => /\ decisions[d].decision = "approve"
                             /\ OperationalStatus(d) # "revoked"
    /\ action = "acknowledged" => OperationalStatus(d) = "needs_review"
    /\ request' = [request EXCEPT ![c] = [NoRequest EXCEPT !.op = "operate", !.target = d,
                                                           !.action = action]]
    /\ UNCHANGED <<gateVars, decisions, seen>>

\* occurred_at has whole seconds and was taken before the commit, so which of
\* two close requests and acknowledgements counts as the later one is open.
Reviews(record, action) ==
    CASE action = "revoked" -> {record.review}
      [] action = "review_requested" -> {TRUE} \cup {"acknowledged" \notin record.actions}
      [] action = "acknowledged" -> {FALSE} \cup {record.review}

CommitOperation(c) ==
    /\ request[c].op = "operate"
    /\ LET d == request[c].target IN
         \E review \in Reviews(decisions[d], request[c].action) :
           decisions' = [decisions EXCEPT
                           ![d].actions = @ \cup ({request[c].action} \ {"review_requested"}),
                           ![d].review = review]
    /\ request' = [request EXCEPT ![c] = NoRequest]
    /\ UNCHANGED <<gateVars, seen>>

-----------------------------------------------------------------------------
Next ==
    \/ \E o \in Sessions : LockAndLook(o)
    \/ \E o \in Sessions : CommitAndRecord(o)
    \/ ReviseAndRecord
    \/ \E o \in AllSessions : ReconcileAndRecord(o)
    \/ OtherGateStep
    \/ \E o \in Sessions : AbortSession(o)
    \/ \E c \in Clients, g \in Gates, decision \in {"approve", "other"},
          replaced \in Decisions \cup {0} : Decide(c, g, decision, replaced)
    \/ \E c \in Clients : CommitDecision(c)
    \/ \E c \in Clients, d \in Decisions, action \in OperatorAction : Operate(c, d, action)
    \/ \E c \in Clients : CommitOperation(c)

Spec == ReleaseInit /\ [][Next]_vars

\* A session that holds row locks goes on to its end.
EndEvaluation(o) ==
    \/ LockStale(o) /\ UNCHANGED releaseVars
    \/ CommitAndRecord(o)
    \/ AbortSession(o)

\* As for the gate: the reconciliation comes round and gets its locks.
ReleaseFairness ==
    /\ WF_vars(ReconcileRead(Worker) /\ UNCHANGED releaseVars)
    /\ SF_vars(ReconcileAndRecord(Worker))
    /\ \A o \in Sessions : WF_vars(EndEvaluation(o))

FairSpec == Spec /\ ReleaseFairness

-----------------------------------------------------------------------------
(* Properties *)

\* Every variable keeps its type.
TypeOK ==
    /\ GateTypeOK
    /\ decisions \in [Decisions -> Decision]
    /\ request \in [Clients -> Request]
    /\ seen \in [AllSessions -> SUBSET Decisions]
    /\ \A o \in AllSessions : seen[o] # {} => tx[o].op \in {"mark", "replace"}

\* A stale_detected action is true of the release that carries it: it was
\* approved over an evaluation that is stale now.
StaleActionsAreTrue ==
    \A d \in Signed :
        "stale_detected" \in decisions[d].actions =>
            /\ decisions[d].decision = "approve"
            /\ gates[decisions[d].gate].status = "stale"

\* A release that was revoked or replaced never looks open again, whatever an
\* evaluation, a reconciliation or an operator adds to it.
ClosedReleasesStayClosed ==
    [][\A d \in Signed :
         OperationalStatus(d) \in {"revoked", "replaced"} =>
            OperationalStatus(d)' \in {"revoked", "replaced"}]_vars

\* A release approved over evidence that has moved on does not stay active:
\* it ends up for review, revoked or replaced, also when the approval was
\* committed after its evaluation had become stale.
OutdatedReleasesAreFlagged ==
    \A d \in Decisions :
        (d \in Signed /\ gates[decisions[d].gate].evidence_revision_hash # evidence)
            ~> d \in Signed /\ OperationalStatus(d) # "active"
=============================================================================
