--------------------------- MODULE DeploymentGate ---------------------------
(***************************************************************************)
(* The deployment gate of one configuration and suite: evaluations of the  *)
(* evidence, their staleness when the evidence moves on, and the baselines *)
(* promoted from them (backend/app/services/deployment_gate/evaluator.py,  *)
(* staleness.py and baselines.py).                                         *)
(*                                                                         *)
(* Requests are transactions of concurrent sessions under READ COMMITTED.  *)
(* The evidence is read without a lock, so an evaluation and a             *)
(* reconciliation act on the evidence they collected earlier; gate rows    *)
(* are then selected FOR UPDATE.  A hash of the evidence is the number of  *)
(* changes it covers: no two contents of the evidence hash alike.          *)
(***************************************************************************)
EXTENDS Naturals, FiniteSets

CONSTANTS
    Policies,     \* acceptance policies of the scope
    NoPolicy,
    Sessions,     \* API sessions
    Worker,       \* the session of the scheduled reconciliation
    MaxRevision,  \* bound of the model on changes of the evidence
    MaxGates,     \* bound of the model on evaluations
    MaxBaselines  \* bound of the model on promotions

ASSUME GateAssumption ==
    /\ NoPolicy \notin Policies
    /\ Worker \notin Sessions
    /\ MaxRevision \in Nat
    /\ MaxGates \in Nat
    /\ MaxBaselines \in Nat

VARIABLES
    evidence,   \* hash of the evidence that is committed
    gates,      \* gates[g]: the gate evaluation with id g, in order of commit
    baselines,  \* baselines[b]: the promoted baseline b, in order of commit
    tx          \* tx[o]: the open transaction of session o

gateVars == <<evidence, gates, baselines, tx>>

-----------------------------------------------------------------------------
(* Records *)

Gates == 1..MaxGates
Baselines == 1..MaxBaselines
AllSessions == Sessions \cup {Worker}

\* approved: the verdict is APPROVED, whatever else it may be.
Gate == [status: {"absent", "completed", "stale"},
         evidence_revision_hash: 0..MaxRevision,
         policy: Policies \cup {NoPolicy},
         approved: BOOLEAN,
         superseded_by: Gates \cup {0}]

NoGate == [status |-> "absent", evidence_revision_hash |-> 0, policy |-> NoPolicy,
           approved |-> FALSE, superseded_by |-> 0]

Baseline == [status: {"absent", "active", "superseded"}, gate: Gates \cup {0}]

NoBaseline == [status |-> "absent", gate |-> 0]

Completed == {g \in Gates : gates[g].status = "completed"}

\* Stale evaluations that no evaluation has replaced.
Unreplaced == {g \in Gates : gates[g].status = "stale" /\ gates[g].superseded_by = 0}

NextGate == Cardinality({g \in Gates : gates[g].status # "absent"}) + 1
NextBaseline == Cardinality({b \in Baselines : baselines[b].status # "absent"}) + 1

\* op: what the session does next.  hash, policy and approved are what an
\* evaluation or a reconciliation collected; locked are the gate rows it
\* holds; gate and previous are what a promotion read.
Transaction == [op: {"none", "evaluate", "mark", "replace", "reread", "reconcile",
                     "promote"},
                hash: 0..MaxRevision, policy: Policies \cup {NoPolicy},
                approved: BOOLEAN, locked: SUBSET Gates,
                gate: Gates \cup {0}, previous: SUBSET Baselines]

Idle == [op |-> "none", hash |-> 0, policy |-> NoPolicy, approved |-> FALSE,
         locked |-> {}, gate |-> 0, previous |-> {}]

\* No session holds a lock on one of these gate rows.
Unlocked(rows) == \A o \in AllSessions : tx[o].locked \cap rows = {}

\* mark_scope_gates_stale: the completed rows with another hash.
Outdated(hash) == {g \in Completed : gates[g].evidence_revision_hash # hash}

MarkedStale(hash) ==
    [g \in Gates |-> IF g \in Outdated(hash)
                     THEN [gates[g] EXCEPT !.status = "stale"] ELSE gates[g]]

Init ==
    /\ evidence = 0
    /\ gates = [g \in Gates |-> NoGate]
    /\ baselines = [b \in Baselines |-> NoBaseline]
    /\ tx = [o \in AllSessions |-> Idle]

-----------------------------------------------------------------------------
(* The evidence *)

\* A benchmark run completes, a checkpoint is decided or resumed, or captured
\* evidence is imported: the same transaction marks the evaluations stale.
ReviseEvidence ==
    /\ evidence < MaxRevision
    /\ Unlocked(Completed)
    /\ evidence' = evidence + 1
    /\ gates' = MarkedStale(evidence + 1)
    /\ UNCHANGED <<baselines, tx>>

\* create_judge_label_review_decision and create_benchmark_result change the
\* evidence and mark nothing.
ReviseSilently ==
    /\ evidence < MaxRevision
    /\ evidence' = evidence + 1
    /\ UNCHANGED <<gates, baselines, tx>>

-----------------------------------------------------------------------------
(* create_gate_evaluation *)

\* collect_evidence and the verdict on it.
Collect(o, policy) ==
    /\ tx[o] = Idle
    /\ \E approved \in BOOLEAN :
         tx' = [tx EXCEPT ![o] = [Idle EXCEPT !.op = "evaluate", !.hash = evidence,
                                              !.policy = policy, !.approved = approved]]
    /\ UNCHANGED <<evidence, gates, baselines>>

\* mark_scope_gates_stale with the hash of the new evaluation: it locks the
\* completed rows, and what it writes to them is visible at the commit.
LockGates(o) ==
    /\ tx[o].op = "evaluate"
    /\ Unlocked(Completed)
    /\ tx' = [tx EXCEPT ![o].op = "mark", ![o].locked = Completed]
    /\ UNCHANGED <<evidence, gates, baselines>>

\* Mutant of LockStale: no FOR UPDATE.
LockStaleUnlocked(o) ==
    /\ tx[o].op = "mark"
    /\ tx' = [tx EXCEPT ![o].op = "replace", ![o].locked = @ \cup Unreplaced]
    /\ UNCHANGED <<evidence, gates, baselines>>

\* supersede_stale_gates locks the stale rows without a replacement; the
\* ones just marked are its own.
LockStale(o) ==
    /\ tx[o].op = "mark"
    /\ Unlocked(Unreplaced)
    /\ tx' = [tx EXCEPT ![o].op = "replace", ![o].locked = @ \cup Unreplaced]
    /\ UNCHANGED <<evidence, gates, baselines>>

\* Rows a replacing session marks as superseded.
Replaced(o) ==
    {g \in tx[o].locked : \/ gates[g].status = "stale"
                          \/ gates[g].evidence_revision_hash # tx[o].hash}

\* The new evaluation, the evaluations it makes stale, and the links of the
\* stale ones become visible; get_gate_evaluation reconciles next.
CommitEvaluation(o) ==
    /\ tx[o].op = "replace"
    /\ NextGate \in Gates
    /\ gates' = [g \in Gates |->
                   IF g = NextGate
                   THEN [NoGate EXCEPT !.status = "completed", !.policy = tx[o].policy,
                                       !.evidence_revision_hash = tx[o].hash,
                                       !.approved = tx[o].approved]
                   ELSE IF g \in Replaced(o)
                   THEN [gates[g] EXCEPT !.status = "stale", !.superseded_by = NextGate]
                   ELSE gates[g]]
    /\ tx' = [tx EXCEPT ![o] = [Idle EXCEPT !.op = "reread"]]
    /\ UNCHANGED <<evidence, baselines>>

-----------------------------------------------------------------------------
(* reconcile_all_gate_staleness: before an evaluation is read or listed, and *)
(* as the scheduled job                                                      *)

\* The current hash is collected without a lock, for a scope that has a
\* completed evaluation...
ReconcileRead(o) ==
    /\ tx[o].op \in {"none", "reread"}
    /\ Completed # {}
    /\ tx' = [tx EXCEPT ![o] = [Idle EXCEPT !.op = "reconcile", !.hash = evidence]]
    /\ UNCHANGED <<evidence, gates, baselines>>

\* Nothing to reconcile after an evaluation.
ReadGate(o) ==
    /\ tx[o].op = "reread"
    /\ Completed = {}
    /\ tx' = [tx EXCEPT ![o] = Idle]
    /\ UNCHANGED <<evidence, gates, baselines>>

\* Mutant of ReconcileWrite: the newest evaluation is taken as current.
ReconcileWriteKeepsNewest(o) ==
    /\ tx[o].op = "reconcile"
    /\ Unlocked(Completed)
    /\ gates' = [MarkedStale(tx[o].hash) EXCEPT ![NextGate - 1] = gates[NextGate - 1]]
    /\ tx' = [tx EXCEPT ![o] = Idle]
    /\ UNCHANGED <<evidence, baselines>>

\* ... and the rows that differ from it are locked and marked.
ReconcileWrite(o) ==
    /\ tx[o].op = "reconcile"
    /\ Unlocked(Completed)
    /\ gates' = MarkedStale(tx[o].hash)
    /\ tx' = [tx EXCEPT ![o] = Idle]
    /\ UNCHANGED <<evidence, baselines>>

-----------------------------------------------------------------------------
(* promote_gate_evaluation_as_baseline *)

\* _active_baselines_for_scope
ActiveBaselines(policy) ==
    {b \in Baselines : baselines[b].status = "active" /\ gates[baselines[b].gate].policy = policy}

\* The evaluation and the active baselines are read without a lock...
Promote(o, g) ==
    /\ tx[o] = Idle
    /\ NextBaseline \in Baselines
    /\ gates[g].status = "completed"
    /\ gates[g].approved
    /\ tx' = [tx EXCEPT ![o] = [Idle EXCEPT !.op = "promote", !.gate = g,
                                            !.previous = ActiveBaselines(gates[g].policy)]]
    /\ UNCHANGED <<evidence, gates, baselines>>

\* ... and the baselines read then are superseded with the new one's commit.
CommitPromotion(o) ==
    /\ tx[o].op = "promote"
    /\ NextBaseline \in Baselines
    /\ baselines' = [b \in Baselines |->
                       IF b = NextBaseline
                       THEN [status |-> "active", gate |-> tx[o].gate]
                       ELSE IF b \in tx[o].previous
                       THEN [baselines[b] EXCEPT !.status = "superseded"]
                       ELSE baselines[b]]
    /\ tx' = [tx EXCEPT ![o] = Idle]
    /\ UNCHANGED <<evidence, gates>>

\* The session is lost, or the request fails: nothing of it is stored.
Abort(o) ==
    /\ tx[o].op # "none"
    /\ tx' = [tx EXCEPT ![o] = Idle]
    /\ UNCHANGED <<evidence, gates, baselines>>

-----------------------------------------------------------------------------
GateNext ==
    \/ ReviseEvidence
    \/ ReviseSilently
    \/ \E o \in Sessions, policy \in Policies : Collect(o, policy)
    \/ \E o \in Sessions : LockGates(o)
    \/ \E o \in Sessions : LockStale(o)
    \/ \E o \in Sessions : CommitEvaluation(o)
    \/ \E o \in Sessions : ReadGate(o)
    \/ \E o \in AllSessions : ReconcileRead(o)
    \/ \E o \in AllSessions : ReconcileWrite(o)
    \/ \E o \in Sessions, g \in Gates : Promote(o, g)
    \/ \E o \in Sessions : CommitPromotion(o)
    \/ \E o \in Sessions : Abort(o)

GateSpec == Init /\ [][GateNext]_gateVars

\* The reconciliation job comes round, and a session that waits for row locks
\* gets its turn: the database queues for them.  Sessions that hold locks
\* end.
GateFairness ==
    /\ WF_gateVars(ReconcileRead(Worker))
    /\ SF_gateVars(ReconcileWrite(Worker))
    /\ \A o \in Sessions : WF_gateVars(LockStale(o) \/ CommitEvaluation(o) \/ Abort(o))

GateFairSpec == GateSpec /\ GateFairness

-----------------------------------------------------------------------------
(* Properties *)

\* Every variable keeps its type, and no two sessions hold a lock on one row.
GateTypeOK ==
    /\ evidence \in 0..MaxRevision
    /\ gates \in [Gates -> Gate]
    /\ baselines \in [Baselines -> Baseline]
    /\ tx \in [AllSessions -> Transaction]
    /\ \A o, p \in AllSessions : o # p => tx[o].locked \cap tx[p].locked = {}

\* Replacing stale evaluations is final and sound, also when evaluations,
\* reconciliations and changes of the evidence overlap: a replacement is
\* written once, for an evaluation that stays stale, by the evaluation that
\* commits in the same transaction, so following
\* superseded_by_gate_evaluation_id ends.
ReplacementsAreSound ==
    [][\A g \in Gates :
         /\ gates[g].status = "stale" => gates'[g].status = "stale"
         /\ gates[g].superseded_by # 0 => gates'[g].superseded_by = gates[g].superseded_by
         /\ gates'[g].superseded_by # gates[g].superseded_by =>
               LET replacement == gates'[g].superseded_by
               IN  /\ gates'[g].status = "stale"
                   /\ gates[replacement].status = "absent"
                   /\ gates'[replacement].status # "absent"]_gateVars

\* Evidence that changed is noticed, although two of its writers mark nothing
\* and an evaluation or a reconciliation may act on evidence of the past: an
\* evaluation that does not match the evidence becomes stale.
DriftIsCaught ==
    \A g \in Gates :
        gates[g].status = "completed" /\ gates[g].evidence_revision_hash # evidence
            ~> gates[g].status = "stale"

\* "A completed Gate changes to operational status stale when current evidence
\* no longer matches its stored revision hash": only then.
StaleOnlyOnDrift ==
    [][\A g \in Gates :
         gates[g].status = "completed" /\ gates'[g].status = "stale" =>
            gates[g].evidence_revision_hash # evidence']_gateVars

\* "Only one active baseline is kept per deployment configuration, suite, and
\* policy scope."
OneActiveBaseline ==
    \A policy \in Policies : Cardinality(ActiveBaselines(policy)) <= 1
=============================================================================
