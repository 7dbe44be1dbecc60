------------------------ MODULE ApprovalCheckpoints ------------------------
(***************************************************************************)
(* The approval checkpoints of one agent execution and the append-only     *)
(* result revisions that deciding and resuming them creates                *)
(* (backend/app/services/agent_control_plane.py and                        *)
(*  backend/app/services/agent_approval_policy.py).                        *)
(*                                                                         *)
(* A trace stops at its first undecided checkpoint, so a result has at     *)
(* most one checkpoint row and a row is named by its result.  Requests are *)
(* database transactions of concurrent sessions under READ COMMITTED: one  *)
(* that decides, revokes or resumes locks the row and checks it (Begin), a *)
(* denial or a resume re-executes the plan (Deny, Resume), and what it     *)
(* wrote appears at its commit.  A read that finds the row past its expiry *)
(* writes it back without having locked it (ReadDue, WriteExpired).        *)
(***************************************************************************)
EXTENDS Naturals, FiniteSets, FiniteSetsExt

CONSTANTS
    Keys,         \* checkpoint ids of the agent's plan
    NoKey,        \* the trace reached no undecided checkpoint
    Sessions,     \* database sessions: API requests and worker jobs
    Subjects,     \* operators
    NoOne,        \* the NULL of approver_identity_json
    Requester,    \* who requested the execution
    Approvers,    \* subjects verified and in allowed_roles
    Resumers,     \* subjects verified and in resume_roles
    Separated,    \* keys whose policy demands separation of duties
    Lifetime,     \* Lifetime[k]: expires_in_seconds of the policy of key k
    MaxTime       \* bound of the model on the clock

ASSUME CheckpointAssumption ==
    /\ IsFiniteSet(Keys)
    /\ NoKey \notin Keys
    /\ Requester \in Subjects
    /\ NoOne \notin Subjects
    /\ Approvers \subseteq Subjects
    /\ Resumers \subseteq Subjects
    /\ Separated \subseteq Keys
    /\ Lifetime \in [Keys -> Nat \ {0}]
    /\ MaxTime \in Nat

VARIABLES
    clock,      \* _utcnow()
    results,    \* results[r]: the benchmark result with id r; 1 is the root
    rows,       \* rows[r]: the checkpoint row of result r
    tx          \* tx[o]: the open transaction of session o

vars == <<clock, results, rows, tx>>

-----------------------------------------------------------------------------
(* Records *)

\* Each revision decides one more key, so there are at most this many.
Results == 1..(Cardinality(Keys) + 1)

Status == {"absent", "pending", "approved", "denied", "revoked", "expired", "resumed"}

Row == [key: Keys \cup {NoKey},
        status: Status,
        version: 0..3,           \* one request, at most two mutations
        requester: Subjects \cup {NoOne},
        approver: Subjects \cup {NoOne},
        expires_at: Nat,
        resumed_at: Nat,
        transition: Results \cup {0}]

NoRow == [key |-> NoKey, status |-> "absent", version |-> 0, requester |-> NoOne,
          approver |-> NoOne, expires_at |-> 0, resumed_at |-> 0, transition |-> 0]

\* approvals: the checkpoints the trace of the result passed as approved.
Result == [parent: Results \cup {0},
           revision: Nat,
           reason: {"none", "root", "denied", "resumed"},
           approvals: SUBSET Keys]

NoResult == [parent |-> 0, revision |-> 0, reason |-> "none", approvals |-> {}]

Stored == {r \in Results : results[r].reason # "none"}

\* materialize_pending_agent_checkpoints: a pending row for the key at which
\* the trace stopped, if it stopped.
Materialized(key, requester, now) ==
    IF key = NoKey
    THEN NoRow
    ELSE [NoRow EXCEPT !.key = key, !.status = "pending", !.version = 1,
                       !.requester = requester, !.expires_at = now + Lifetime[key]]

\* Mutant of IsDue: an approval does not expire.
IsDuePending(row, now) == row.status = "pending" /\ row.expires_at <= now

\* _checkpoint_is_due
IsDue(row, now) == row.status \in {"pending", "approved"} /\ row.expires_at <= now

\* _mark_checkpoint_expired, with the version the session loaded.
Expired(row, version) == [row EXCEPT !.status = "expired", !.version = version + 1]

\* What a decision, a revocation and a resume write to the row they locked.
Decided(row, decision, subject) ==
    [row EXCEPT !.status = decision, !.approver = subject, !.version = @ + 1]

Revoked(row) == [row EXCEPT !.status = "revoked", !.version = @ + 1]

Resumed(row, now) ==
    [row EXCEPT !.status = "resumed", !.version = @ + 1, !.resumed_at = now]

\* transition_benchmark_result_id
Linked(row, child) == [row EXCEPT !.transition = child]

\* evaluate_agent_checkpoint_policy: verified, in the role, and for a decision
\* not the requester.
Allowed(subject, operation, row) ==
    /\ subject \in (IF operation = "resume" THEN Resumers ELSE Approvers)
    /\ operation \in {"approve", "deny"} /\ row.key \in Separated => subject # row.requester

-----------------------------------------------------------------------------
(* Transactions *)

Operation == {"approve", "deny", "revoke", "resume"}

\* op "read" has loaded a row it will expire; done: the plan was re-executed
\* and its revision, approvals and next stop are ready to commit.
Transaction == [op: Operation \cup {"none", "read"},
                result: Results, subject: Subjects, now: Nat, version: Nat,
                done: BOOLEAN, revision: Nat,
                approvals: SUBSET Keys, stop: Keys \cup {NoKey}]

\* The plan was executed again.
Redone(t, revision, approvals, stop) ==
    [t EXCEPT !.done = TRUE, !.revision = revision, !.approvals = approvals, !.stop = stop]

Idle == [op |-> "none", result |-> 1, subject |-> Requester, now |-> 0, version |-> 0,
         done |-> FALSE, revision |-> 0, approvals |-> {}, stop |-> NoKey]

\* No transaction holds the row lock of result r's checkpoint.
Free(r) == \A o \in Sessions : ~(tx[o].op \in Operation /\ tx[o].result = r)

Init ==
    /\ clock = 0
    /\ results = [r \in Results |->
                    IF r = 1 THEN [NoResult EXCEPT !.revision = 1, !.reason = "root"]
                             ELSE NoResult]
    /\ \E key \in Keys :
         rows = [r \in Results |-> IF r = 1 THEN Materialized(key, Requester, 0) ELSE NoRow]
    /\ tx = [o \in Sessions |-> Idle]

-----------------------------------------------------------------------------
(* Requests *)

\* Mutant of Begin: the row is read without a lock.
BeginUnlocked(o, r, s, operation, expected_version) ==
    /\ tx[o] = Idle
    /\ ~IsDue(rows[r], clock)
    /\ rows[r].version = expected_version
    /\ rows[r].status = (IF operation \in {"approve", "deny"} THEN "pending" ELSE "approved")
    /\ Allowed(s, operation, rows[r])
    /\ tx' = [tx EXCEPT ![o] = [Idle EXCEPT !.op = operation, !.result = r,
                                            !.subject = s, !.now = clock]]
    /\ UNCHANGED <<clock, results, rows>>

\* decide_, revoke_ and resume_agent_approval_checkpoint up to the policy:
\* _locked_checkpoint, not due, the expected version, the status, the policy.
Begin(o, r, s, operation, expected_version) ==
    /\ tx[o] = Idle
    /\ Free(r)
    /\ ~IsDue(rows[r], clock)
    /\ rows[r].version = expected_version
    /\ rows[r].status = (IF operation \in {"approve", "deny"} THEN "pending" ELSE "approved")
    /\ Allowed(s, operation, rows[r])
    /\ tx' = [tx EXCEPT ![o] = [Idle EXCEPT !.op = operation, !.result = r,
                                            !.subject = s, !.now = clock]]
    /\ UNCHANGED <<clock, results, rows>>

\* _expire_and_reject_if_due: the request is refused and the expiry committed.
RejectDue(o, r) ==
    /\ tx[o] = Idle
    /\ Free(r)
    /\ IsDue(rows[r], clock)
    /\ rows' = [rows EXCEPT ![r] = Expired(@, @.version)]
    /\ UNCHANGED <<clock, results, tx>>

CommitApproval(o) ==
    /\ tx[o].op = "approve"
    /\ rows' = [rows EXCEPT ![tx[o].result] = Decided(@, "approved", tx[o].subject)]
    /\ tx' = [tx EXCEPT ![o] = Idle]
    /\ UNCHANGED <<clock, results>>

CommitRevocation(o) ==
    /\ tx[o].op = "revoke"
    /\ rows' = [rows EXCEPT ![tx[o].result] = Revoked(@)]
    /\ tx' = [tx EXCEPT ![o] = Idle]
    /\ UNCHANGED <<clock, results>>

LatestRevision == Max({results[r].revision : r \in Stored})

\* _apply_persisted_decisions: the stored plan runs again with the decisions
\* of the parent trace and of the record, stops at a key, and takes the
\* revision after the latest one the session can see.
Reexecute(o, approved, key) ==
    tx' = [tx EXCEPT ![o] =
              Redone(@, LatestRevision + 1,
                     results[tx[o].result].approvals \cup approved, key)]

\* A denied step halts the trace, and decide_ materializes no checkpoint.
Deny(o) ==
    /\ tx[o].op = "deny" /\ ~tx[o].done
    /\ Reexecute(o, {}, NoKey)
    /\ UNCHANGED <<clock, results, rows>>

\* The plan goes on to its end or to a key that is not decided yet.
Resume(o) ==
    /\ tx[o].op = "resume" /\ ~tx[o].done
    /\ LET r == tx[o].result
           passed == results[r].approvals \cup {rows[r].key}
       IN  \E key \in (Keys \ passed) \cup {NoKey} : Reexecute(o, {rows[r].key}, key)
    /\ UNCHANGED <<clock, results, rows>>

NextResult == Cardinality(Stored) + 1

\* The child result of _apply_persisted_decisions becomes visible.
StoreChild(o, reason) ==
    results' = [results EXCEPT ![NextResult] =
                   [parent |-> tx[o].result, revision |-> tx[o].revision,
                    reason |-> reason, approvals |-> tx[o].approvals]]

CommitDenial(o) ==
    /\ tx[o].op = "deny" /\ tx[o].done
    /\ StoreChild(o, "denied")
    /\ rows' = [rows EXCEPT ![tx[o].result] =
                   Linked(Decided(@, "denied", tx[o].subject), NextResult)]
    /\ tx' = [tx EXCEPT ![o] = Idle]
    /\ UNCHANGED clock

\* Mutant of CommitResume: the next checkpoint is requested by the resumer.
CommitResumeAsSelf(o) ==
    /\ tx[o].op = "resume" /\ tx[o].done
    /\ StoreChild(o, "resumed")
    /\ rows' = [rows EXCEPT
                  ![tx[o].result] = Linked(Resumed(@, tx[o].now), NextResult),
                  ![NextResult] = Materialized(tx[o].stop, tx[o].subject, tx[o].now)]
    /\ tx' = [tx EXCEPT ![o] = Idle]
    /\ UNCHANGED clock

\* The approval is consumed; a checkpoint the child's trace stopped at is
\* requested in the name of the original requester.
CommitResume(o) ==
    /\ tx[o].op = "resume" /\ tx[o].done
    /\ StoreChild(o, "resumed")
    /\ rows' = [rows EXCEPT
                  ![tx[o].result] = Linked(Resumed(@, tx[o].now), NextResult),
                  ![NextResult] = Materialized(tx[o].stop, rows[tx[o].result].requester,
                                               tx[o].now)]
    /\ tx' = [tx EXCEPT ![o] = Idle]
    /\ UNCHANGED clock

\* The session of a resume is lost, or the plan raises: nothing is stored.
Rollback(o) ==
    /\ tx[o].op # "none"
    /\ tx' = [tx EXCEPT ![o] = Idle]
    /\ UNCHANGED <<clock, results, rows>>

-----------------------------------------------------------------------------
(* Expiry *)

\* get_agent_approval_checkpoint loads the row without a lock...
ReadDue(o, r) ==
    /\ tx[o] = Idle
    /\ IsDue(rows[r], clock)
    /\ tx' = [tx EXCEPT ![o] = [Idle EXCEPT !.op = "read", !.result = r,
                                            !.version = rows[r].version]]
    /\ UNCHANGED <<clock, results, rows>>

\* ... and writes status and version over whatever was committed meanwhile.
WriteExpired(o) ==
    /\ tx[o].op = "read"
    /\ Free(tx[o].result)
    /\ rows' = [rows EXCEPT ![tx[o].result] = Expired(@, tx[o].version)]
    /\ tx' = [tx EXCEPT ![o] = Idle]
    /\ UNCHANGED <<clock, results>>

\* Mutant of Reconcile: due rows are not locked.
ReconcileUnlocked ==
    LET due == {r \in Results : IsDue(rows[r], clock)} IN
    /\ due # {}
    /\ rows' = [r \in Results |-> IF r \in due THEN Expired(rows[r], rows[r].version)
                                               ELSE rows[r]]
    /\ UNCHANGED <<clock, results, tx>>

\* reconcile_agent_approval_checkpoints, for a list request or as the
\* reconciliation job: locks every due row and expires it.
Reconcile ==
    LET due == {r \in Results : IsDue(rows[r], clock)} IN
    /\ due # {}
    /\ \A r \in due : Free(r)
    /\ rows' = [r \in Results |-> IF r \in due THEN Expired(rows[r], rows[r].version)
                                               ELSE rows[r]]
    /\ UNCHANGED <<clock, results, tx>>

Tick ==
    /\ clock < MaxTime
    /\ clock' = clock + 1
    /\ UNCHANGED <<results, rows, tx>>

-----------------------------------------------------------------------------
\* The values of expected_version a client may send.
Versions == 1..3

Next ==
    \/ \E o \in Sessions, r \in Results, s \in Subjects, operation \in Operation,
          v \in Versions : Begin(o, r, s, operation, v)
    \/ \E o \in Sessions, r \in Results : RejectDue(o, r)
    \/ \E o \in Sessions : CommitApproval(o)
    \/ \E o \in Sessions : CommitRevocation(o)
    \/ \E o \in Sessions : Deny(o)
    \/ \E o \in Sessions : Resume(o)
    \/ \E o \in Sessions : CommitDenial(o)
    \/ \E o \in Sessions : CommitResume(o)
    \/ \E o \in Sessions : Rollback(o)
    \/ \E o \in Sessions, r \in Results : ReadDue(o, r)
    \/ \E o \in Sessions : WriteExpired(o)
    \/ Reconcile
    \/ Tick

Spec == Init /\ [][Next]_vars

\* Transactions end, the clock runs, and the reconciliation job that the
\* workers enqueue each interval comes round.
Finish(o) ==
    \/ CommitApproval(o) \/ CommitRevocation(o) \/ Deny(o) \/ Resume(o)
    \/ CommitDenial(o) \/ CommitResume(o) \/ Rollback(o) \/ WriteExpired(o)

Fairness ==
    /\ WF_vars(Tick)
    /\ \A o \in Sessions : WF_vars(Finish(o))
    /\ WF_vars(Reconcile)

FairSpec == Spec /\ Fairness

-----------------------------------------------------------------------------
(* Properties *)

\* Every variable keeps its type.
TypeOK ==
    /\ clock \in 0..MaxTime
    /\ results \in [Results -> Result]
    /\ rows \in [Results -> Row]
    /\ tx \in [Sessions -> Transaction]

\* The revisions of an execution form a chain: deciding, resuming, retrying
\* and expiring from several sessions at once never gives a result two
\* children or a lineage two revisions of the same number.
RevisionsFormAChain ==
    \A m, n \in Stored :
        m # n => /\ results[m].parent # results[n].parent
                 /\ results[m].revision # results[n].revision

\* Nothing runs past a checkpoint that was not approved: each approval a
\* revision was executed with was given on its parent, before it expired, by
\* someone other than the requester of the whole execution where the policy
\* separates duties, or was already in the parent's trace.
ApprovalsAreCovered ==
    \A n \in Stored : \A k \in results[n].approvals :
        LET row == rows[results[n].parent] IN
        \/ k \in results[results[n].parent].approvals
        \/ /\ row.key = k /\ row.transition = n
           /\ row.resumed_at < row.expires_at
           /\ k \in Separated => row.approver \in Approvers \ {Requester}

\* An expired, denied or revoked checkpoint is never resumed or approved
\* later, also by a request that had started before.
RefusalIsFinal ==
    [][\A r \in Results :
         rows[r].status \in {"expired", "denied", "revoked"} =>
            rows'[r].status \notin {"pending", "approved", "resumed"}]_vars

\* The state diagram of docs/agent_control_plane.md: denied, revoked, expired
\* and resumed are final.
FinalStatuses ==
    [][\A r \in Results :
         rows[r].status \in {"denied", "revoked", "expired", "resumed"} =>
            rows'[r].status = rows[r].status]_vars

\* No approval outlives its expiry for long: a checkpoint that is pending or
\* approved when its time is over is closed by a reader, a request or the
\* reconciliation job.
DueAreClosed ==
    \A r \in Results :
        rows[r].status \in {"pending", "approved"} /\ rows[r].expires_at <= clock
            ~> rows[r].status \notin {"pending", "approved"}
=============================================================================
