----------------------------- MODULE GateProofs -----------------------------
(* What the deployment gate and the release decisions over it guarantee    *)
(* for every set of policies, sessions and clients and every bound on      *)
(* evidence, evaluations, baselines and decisions; and what its verdict    *)
(* guarantees for every suite, policy and result.                          *)
EXTENDS ReleaseDecisions, GateVerdict, FiniteSetTheorems, SequenceTheorems,
        WellFoundedInduction, TLAPS

-----------------------------------------------------------------------------
(* Rows in order of commit *)

LEMMA GateConstants ==
    /\ NoPolicy \notin Policies /\ Worker \notin Sessions
    /\ MaxRevision \in Nat /\ MaxGates \in Nat /\ MaxBaselines \in Nat /\ MaxDecisions \in Nat
    /\ Gates = 1..MaxGates /\ Baselines = 1..MaxBaselines /\ Decisions = 1..MaxDecisions
    /\ 0 \notin Gates /\ 0 \notin Decisions
  BY GateAssumption, ReleaseAssumption DEF Gates, Baselines, Decisions

LEMMA PrefixCount ==
    ASSUME NEW n \in Nat
    PROVE  Cardinality(1..n) = n
  <1>1. CASE n = 0
    <2>1. 1..n = {}
      BY <1>1
    <2> QED
      BY <1>1, <2>1, FS_EmptySet
  <1>2. CASE n # 0
    BY <1>2, FS_Interval
  <1> QED
    BY <1>1, <1>2

\* Evaluations that exist.
Present(rows) == {g \in Gates : rows[g].status # "absent"}

(***************************************************************************)
(* The evaluations are numbered without a gap, and only a stale one is     *)
(* superseded.                                                             *)
(***************************************************************************)
EvaluationsSound(rows) ==
    /\ rows \in [Gates -> Gate]
    /\ \E n \in 0..MaxGates : Present(rows) = 1..n
    /\ \A g \in Gates : rows[g].superseded_by # 0 => rows[g].status = "stale"

(***************************************************************************)
(* No two sessions hold one row, and what a session holds has no           *)
(* replacement yet: hence it may write one.                                *)
(***************************************************************************)
LocksSound(rows, txs) ==
    /\ txs \in [AllSessions -> Transaction]
    /\ \A o, p \in AllSessions : o # p => txs[o].locked \cap txs[p].locked = {}
    /\ \A o \in AllSessions : \A g \in txs[o].locked :
         rows[g].status # "absent" /\ rows[g].superseded_by = 0

GateInv ==
    /\ evidence \in 0..MaxRevision
    /\ baselines \in [Baselines -> Baseline]
    /\ EvaluationsSound(gates)
    /\ LocksSound(gates, tx)

\* What ReplacementsAreSound says of one step.
Replacing(before, after) ==
    \A g \in Gates :
        /\ before[g].status = "stale" => after[g].status = "stale"
        /\ before[g].superseded_by # 0 => after[g].superseded_by = before[g].superseded_by
        /\ after[g].superseded_by # before[g].superseded_by =>
              /\ after[g].status = "stale"
              /\ before[after[g].superseded_by].status = "absent"
              /\ after[after[g].superseded_by].status # "absent"

LEMMA NextGateIsNew ==
    ASSUME EvaluationsSound(gates)
    PROVE  /\ NextGate \in Nat \ {0}
           /\ \A g \in Gates : gates[g].status # "absent" <=> g < NextGate
           /\ Present(gates) = 1..(NextGate - 1)
  <1>1. PICK n \in 0..MaxGates : Present(gates) = 1..n
    BY DEF EvaluationsSound
  <1>2. n \in Nat
    BY <1>1, GateConstants
  <1>3. NextGate = n + 1
    BY <1>1, <1>2, PrefixCount DEF NextGate, Present
  <1>4. ASSUME NEW g \in Gates
        PROVE  gates[g].status # "absent" <=> g < NextGate
    <2>1. gates[g].status # "absent" <=> g \in 1..n
      BY <1>1 DEF Present
    <2>2. g \in Nat \ {0}
      BY GateConstants
    <2> QED
      BY <1>2, <1>3, <2>1, <2>2
  <1> QED
    BY <1>1, <1>2, <1>3, <1>4

-----------------------------------------------------------------------------
(* Steps on the evaluations *)

\* A row that is marked stale.
LEMMA StaleRow ==
    ASSUME NEW x \in Gate, NEW y, y = [x EXCEPT !.status = "stale"]
    PROVE  y \in Gate /\ y.status = "stale" /\ y.superseded_by = x.superseded_by
  BY DEF Gate

LEMMA MarkingIsSound ==
    ASSUME EvaluationsSound(gates), NEW txs, LocksSound(gates, txs), NEW hash,
           NEW after, after = MarkedStale(hash)
    PROVE  EvaluationsSound(after) /\ LocksSound(after, txs) /\ Replacing(gates, after)
  <1>1. gates \in [Gates -> Gate]
    BY DEF EvaluationsSound
  <1>2. ASSUME NEW g \in Gates
        PROVE  /\ after[g] \in Gate /\ after[g].superseded_by = gates[g].superseded_by
               /\ after[g].status = gates[g].status \/
                    (gates[g].status = "completed" /\ after[g].status = "stale")
    <2>1. CASE g \in Outdated(hash)
      <3>1. after[g] = [gates[g] EXCEPT !.status = "stale"]
        BY <2>1 DEF MarkedStale
      <3>2. gates[g].status = "completed"
        BY <2>1 DEF Outdated, Completed
      <3> QED
        BY <1>1, <3>1, <3>2, StaleRow
    <2>2. CASE g \notin Outdated(hash)
      BY <1>1, <2>2 DEF MarkedStale
    <2> QED
      BY <2>1, <2>2
  <1>3. after \in [Gates -> Gate]
    <2>1. DOMAIN after = Gates /\ after = [g \in Gates |-> after[g]]
      BY DEF MarkedStale
    <2> QED
      BY <1>2, <2>1
  <1>4. Present(after) = Present(gates)
    BY <1>2 DEF Present
  <1>5. \A g \in Gates : after[g].superseded_by # 0 => after[g].status = "stale"
    BY <1>2 DEF EvaluationsSound
  <1>6. EvaluationsSound(after)
    BY <1>3, <1>4, <1>5 DEF EvaluationsSound
  <1>7. \A o \in AllSessions : txs[o].locked \subseteq Gates
    BY DEF LocksSound, Transaction
  <1>8. LocksSound(after, txs)
    BY <1>2, <1>7 DEF LocksSound
  <1>9. Replacing(gates, after)
    BY <1>2 DEF Replacing
  <1> QED
    BY <1>6, <1>8, <1>9

\* One session takes another transaction.
LEMMA LocksChange ==
    ASSUME NEW rows, NEW txs, LocksSound(rows, txs), NEW o \in AllSessions,
           NEW t \in Transaction, \A p \in AllSessions \ {o} : t.locked \cap txs[p].locked = {},
           \A g \in t.locked : rows[g].status # "absent" /\ rows[g].superseded_by = 0,
           NEW after, after = [txs EXCEPT ![o] = t]
    PROVE  LocksSound(rows, after)
  <1>1. txs \in [AllSessions -> Transaction]
    BY DEF LocksSound
  <1>2. /\ after \in [AllSessions -> Transaction]
        /\ \A p \in AllSessions : after[p] = IF p = o THEN t ELSE txs[p]
    BY <1>1
  <1>3. ASSUME NEW p \in AllSessions, NEW q \in AllSessions, p # q
        PROVE  after[p].locked \cap after[q].locked = {}
    <2>1. CASE p = o
      <3>1. after[p] = t /\ after[q] = txs[q] /\ q \in AllSessions \ {o}
        BY <1>2, <1>3, <2>1
      <3> QED
        BY <3>1
    <2>2. CASE q = o
      <3>1. after[q] = t /\ after[p] = txs[p] /\ p \in AllSessions \ {o}
        BY <1>2, <1>3, <2>2
      <3> QED
        BY <3>1
    <2>3. CASE p # o /\ q # o
      <3>1. after[p] = txs[p] /\ after[q] = txs[q]
        BY <1>2, <2>3
      <3> QED
        BY <1>3, <3>1 DEF LocksSound
    <2> QED
      BY <2>1, <2>2, <2>3
  <1>4. ASSUME NEW p \in AllSessions, NEW g \in after[p].locked
        PROVE  rows[g].status # "absent" /\ rows[g].superseded_by = 0
    <2>1. CASE p = o
      BY <1>2, <1>4, <2>1
    <2>2. CASE p # o
      <3>1. after[p] = txs[p]
        BY <1>2, <2>2
      <3> QED
        BY <1>4, <3>1 DEF LocksSound
    <2> QED
      BY <2>1, <2>2
  <1> QED
    BY <1>2, <1>3, <1>4 DEF LocksSound

LEMMA IdleTransaction ==
    /\ Idle \in Transaction /\ Idle.locked = {} /\ Idle.op = "none"
    /\ \A op \in {"evaluate", "reread", "reconcile", "promote"} :
         [Idle EXCEPT !.op = op] \in Transaction /\ [Idle EXCEPT !.op = op].locked = {}
  <1>1. 0 \in 0..MaxRevision
    BY GateConstants
  <1> QED
    BY <1>1 DEF Idle, Transaction

\* The row of a new evaluation, and of one it replaces.
LEMMA NewRow ==
    ASSUME NEW t \in Transaction, NEW y,
           y = [status |-> "completed", evidence_revision_hash |-> t.hash, policy |-> t.policy,
                approved |-> t.approved, superseded_by |-> 0]
    PROVE  y \in Gate /\ y.status = "completed" /\ y.superseded_by = 0
  <1>1. /\ t.hash \in 0..MaxRevision /\ t.policy \in Policies \cup {NoPolicy}
        /\ t.approved \in BOOLEAN
    BY DEF Transaction
  <1>2. "completed" \in {"absent", "completed", "stale"} /\ 0 \in Gates \cup {0}
    OBVIOUS
  <1>3. y \in Gate
    BY <1>1, <1>2, Zenon DEF Gate
  <1> QED
    BY <1>3

LEMMA SupersededRow ==
    ASSUME NEW z \in Gate, z.status = "stale", NEW n \in Gates, NEW y,
           y = [z EXCEPT !.superseded_by = n]
    PROVE  y \in Gate /\ y.status = "stale" /\ y.superseded_by = n
  BY DEF Gate

\* The commit of an evaluation replaces only what it holds.
LEMMA CommitIsSound ==
    ASSUME EvaluationsSound(gates), LocksSound(gates, tx), NEW o \in AllSessions,
           CommitEvaluation(o)
    PROVE  /\ EvaluationsSound(gates') /\ Replacing(gates, gates')
           /\ LocksSound(gates', tx')
  <1>1. PICK n \in Gates : n = NextGate
    BY DEF CommitEvaluation
  <1>2. /\ gates[n].status = "absent"
        /\ \A g \in Gates : gates[g].status # "absent" <=> g < n
        /\ Present(gates) = 1..(n - 1)
    BY <1>1, NextGateIsNew, GateConstants
  <1>3. /\ gates \in [Gates -> Gate]
        /\ \A g \in Gates : gates[g].superseded_by # 0 => gates[g].status = "stale"
    BY DEF EvaluationsSound
  <1>4. PICK t \in Transaction : t = tx[o]
    BY DEF LocksSound
  <1>5. t.locked \subseteq Gates
    BY DEF Transaction
  <1>6. \A g \in t.locked : gates[g].status # "absent" /\ gates[g].superseded_by = 0
    BY <1>4 DEF LocksSound
  <1>7. PICK replaced : replaced = Replaced(o)
    OBVIOUS
  <1>8. replaced \subseteq t.locked /\ n \notin replaced
    BY <1>2, <1>4, <1>6, <1>7 DEF Replaced
  <1>9. PICK y : y = [NoGate EXCEPT !.status = "completed", !.policy = t.policy,
                                    !.evidence_revision_hash = t.hash, !.approved = t.approved]
    OBVIOUS
  <1>10. y \in Gate /\ y.status = "completed" /\ y.superseded_by = 0
    <2>1. y = [status |-> "completed", evidence_revision_hash |-> t.hash, policy |-> t.policy,
               approved |-> t.approved, superseded_by |-> 0]
      BY <1>9, Zenon DEF NoGate
    <2> QED
      BY <2>1, NewRow
  <1>11. gates' = [g \in Gates |->
                     IF g = n THEN y
                     ELSE IF g \in replaced
                     THEN [gates[g] EXCEPT !.status = "stale", !.superseded_by = n]
                     ELSE gates[g]]
    BY <1>1, <1>4, <1>7, <1>9 DEF CommitEvaluation
  <1>12. gates'[n] = y
    BY <1>11
  <1>13. ASSUME NEW g \in Gates, g # n, g \in replaced
         PROVE  gates'[g] \in Gate /\ gates'[g].status = "stale" /\ gates'[g].superseded_by = n
    <2>1. gates'[g] = [gates[g] EXCEPT !.status = "stale", !.superseded_by = n]
      BY <1>11, <1>13
    <2>2. PICK x, z : x \in Gate /\ x = gates[g] /\ z = gates'[g]
      BY <1>3
    <2>3. z = [x EXCEPT !.status = "stale", !.superseded_by = n]
      BY <2>1, <2>2
    <2>4. PICK u : u = [x EXCEPT !.status = "stale"]
      OBVIOUS
    <2>7. u \in Gate /\ u.status = "stale"
      BY <2>2, <2>4, StaleRow
    <2>5. z = [u EXCEPT !.superseded_by = n]
      BY <2>3, <2>4, Zenon
    <2>6. z \in Gate /\ z.status = "stale" /\ z.superseded_by = n
      BY <2>5, <2>7, SupersededRow
    <2> QED
      BY <2>2, <2>6
  <1>14. \A g \in Gates : g # n /\ g \notin replaced => gates'[g] = gates[g]
    BY <1>11
  <1>15. gates' \in [Gates -> Gate]
    <2>1. \A g \in Gates : gates'[g] \in Gate
      BY <1>3, <1>10, <1>12, <1>13, <1>14
    <2>2. gates' = [g \in Gates |-> gates'[g]]
      BY <1>11
    <2> QED
      BY <2>1, <2>2
  <1>16. EvaluationsSound(gates')
    <2>1. n \in 0..MaxGates /\ n \in Nat
      BY GateConstants
    <2>2. \A g \in Gates : gates'[g].status # "absent" <=> g < n \/ g = n
      BY <1>2, <1>6, <1>8, <1>10, <1>12, <1>13, <1>14
    <2>3. Present(gates') = 1..n
      <3>1. \A g : g \in Present(gates') <=> g \in Gates /\ (g < n \/ g = n)
        BY <2>2 DEF Present
      <3>2. \A g : g \in 1..n <=> g \in Gates /\ (g < n \/ g = n)
        BY <2>1, GateConstants
      <3> QED
        BY <3>1, <3>2
    <2>4. \A g \in Gates : gates'[g].superseded_by # 0 => gates'[g].status = "stale"
      BY <1>3, <1>10, <1>12, <1>13, <1>14
    <2> QED
      BY <1>15, <2>1, <2>3, <2>4 DEF EvaluationsSound
  <1>17. Replacing(gates, gates')
    <2>1. SUFFICES ASSUME NEW g \in Gates
                   PROVE  /\ gates[g].status = "stale" => gates'[g].status = "stale"
                          /\ gates[g].superseded_by # 0 =>
                               gates'[g].superseded_by = gates[g].superseded_by
                          /\ gates'[g].superseded_by # gates[g].superseded_by =>
                               /\ gates'[g].status = "stale"
                               /\ gates[gates'[g].superseded_by].status = "absent"
                               /\ gates'[gates'[g].superseded_by].status # "absent"
      BY DEF Replacing
    <2>2. CASE g = n
      <3>1. gates[g].superseded_by = 0
        BY <1>2, <1>3, <2>2
      <3> QED
        BY <1>2, <1>10, <1>12, <2>2, <3>1
    <2>3. CASE g # n /\ g \in replaced
      <3>1. gates[g].superseded_by = 0
        BY <1>6, <1>8, <2>3
      <3> QED
        BY <1>2, <1>10, <1>12, <1>13, <2>3, <3>1
    <2>4. CASE g # n /\ g \notin replaced
      BY <1>14, <2>4
    <2> QED
      BY <2>2, <2>3, <2>4
  <1>18. LocksSound(gates', tx')
    <2>1. PICK idle \in Transaction : idle = [Idle EXCEPT !.op = "reread"] /\ idle.locked = {}
      BY IdleTransaction
    <2>2. tx' = [tx EXCEPT ![o] = idle]
      BY <2>1 DEF CommitEvaluation
    <2>3. LocksSound(gates, tx')
      BY <2>1, <2>2, LocksChange
    <2>4. tx \in [AllSessions -> Transaction]
      BY DEF LocksSound
    <2>5. ASSUME NEW p \in AllSessions, NEW g \in tx'[p].locked
          PROVE  gates'[g].status # "absent" /\ gates'[g].superseded_by = 0
      <3>1. p # o /\ tx'[p] = tx[p]
        BY <2>1, <2>2, <2>4, <2>5
      <3>2. g \in Gates /\ gates[g].status # "absent" /\ gates[g].superseded_by = 0
        BY <2>4, <2>5, <3>1 DEF LocksSound, Transaction
      <3>3. g \notin replaced
        BY <1>4, <1>8, <2>5, <3>1 DEF LocksSound
      <3> QED
        BY <1>2, <1>14, <3>2, <3>3
    <2> QED
      BY <2>3, <2>5 DEF LocksSound
  <1> QED
    BY <1>16, <1>17, <1>18

-----------------------------------------------------------------------------
(* Steps of the gate *)

LEMMA ReplacingNothing == \A rows : Replacing(rows, rows)
  BY DEF Replacing

\* A session that takes a transaction without locks.
LEMMA UnlockedChange ==
    ASSUME GateInv, NEW o \in AllSessions, NEW t \in Transaction, t.locked = {},
           tx' = [tx EXCEPT ![o] = t], UNCHANGED <<evidence, gates, baselines>>
    PROVE  GateInv' /\ Replacing(gates, gates')
  <1>1. LocksSound(gates, tx')
    BY LocksChange DEF GateInv
  <1> QED
    BY <1>1, ReplacingNothing DEF GateInv

LEMMA CollectStep ==
    ASSUME GateInv, NEW o \in AllSessions, NEW policy \in Policies, Collect(o, policy)
    PROVE  GateInv' /\ Replacing(gates, gates')
  <1>1. PICK b \in BOOLEAN :
           tx' = [tx EXCEPT ![o] = [Idle EXCEPT !.op = "evaluate", !.hash = evidence,
                                                !.policy = policy, !.approved = b]]
    BY DEF Collect
  <1>4. PICK t : t = [Idle EXCEPT !.op = "evaluate", !.hash = evidence, !.policy = policy, !.approved = b]
    OBVIOUS
  <1>2. t = [op |-> "evaluate", hash |-> evidence, policy |-> policy, approved |-> b,
             locked |-> {}, gate |-> 0, previous |-> {}]
    BY <1>4, Zenon DEF Idle
  <1>3. t \in Transaction /\ t.locked = {}
    BY <1>2 DEF GateInv, Transaction
  <1>5. tx' = [tx EXCEPT ![o] = t]
    BY <1>1, <1>4, Zenon
  <1>6. UNCHANGED <<evidence, gates, baselines>>
    BY DEF Collect
  <1> QED
    BY <1>3, <1>5, <1>6, UnlockedChange

LEMMA LockGatesStep ==
    ASSUME GateInv, NEW o \in AllSessions, LockGates(o)
    PROVE  GateInv' /\ Replacing(gates, gates')
  <1>1. tx \in [AllSessions -> Transaction]
    BY DEF GateInv, LocksSound
  <1>2. PICK x \in Transaction : x = tx[o]
    BY <1>1
  <1>3. PICK rows : rows = Completed
    OBVIOUS
  <1>4. /\ rows \subseteq Gates
        /\ \A g \in rows : gates[g].status # "absent" /\ gates[g].superseded_by = 0
    BY <1>3 DEF Completed, GateInv, EvaluationsSound
  <1>5. PICK y : y = [x EXCEPT !.op = "mark"]
    OBVIOUS
  <1>6. y \in Transaction
    BY <1>5 DEF Transaction
  <1>7. PICK t : t = [y EXCEPT !.locked = rows]
    OBVIOUS
  <1>8. t \in Transaction /\ t.locked = rows
    BY <1>4, <1>6, <1>7 DEF Transaction
  <1>9. tx' = [tx EXCEPT ![o] = t]
    BY <1>1, <1>2, <1>3, <1>5, <1>7 DEF LockGates
  <1>10. \A p \in AllSessions \ {o} : t.locked \cap tx[p].locked = {}
    BY <1>3, <1>8 DEF LockGates, Unlocked
  <1>11. LocksSound(gates, tx')
    BY <1>4, <1>8, <1>9, <1>10, LocksChange DEF GateInv
  <1> QED
    BY <1>11, ReplacingNothing DEF GateInv, LockGates

LEMMA LockStaleStep ==
    ASSUME GateInv, NEW o \in AllSessions, LockStale(o)
    PROVE  GateInv' /\ Replacing(gates, gates')
  <1>1. tx \in [AllSessions -> Transaction]
    BY DEF GateInv, LocksSound
  <1>2. PICK x \in Transaction : x = tx[o]
    BY <1>1
  <1>3. PICK rows : rows = x.locked \cup Unreplaced
    OBVIOUS
  <1>4. /\ rows \subseteq Gates
        /\ \A g \in rows : gates[g].status # "absent" /\ gates[g].superseded_by = 0
    <2>1. /\ x.locked \subseteq Gates
          /\ \A g \in x.locked : gates[g].status # "absent" /\ gates[g].superseded_by = 0
      BY <1>2 DEF GateInv, LocksSound, Transaction
    <2>2. /\ Unreplaced \subseteq Gates
          /\ \A g \in Unreplaced : gates[g].status # "absent" /\ gates[g].superseded_by = 0
      BY DEF Unreplaced
    <2> QED
      BY <1>3, <2>1, <2>2
  <1>5. PICK y : y = [x EXCEPT !.op = "replace"]
    OBVIOUS
  <1>6. y \in Transaction
    BY <1>5 DEF Transaction
  <1>7. PICK t : t = [y EXCEPT !.locked = rows]
    OBVIOUS
  <1>8. t \in Transaction /\ t.locked = rows
    BY <1>4, <1>6, <1>7 DEF Transaction
  <1>9. tx' = [tx EXCEPT ![o] = t]
    <2>1. y.locked = x.locked
      BY <1>5 DEF Transaction
    <2> QED
      BY <1>1, <1>2, <1>3, <1>5, <1>7, <2>1 DEF LockStale
  <1>10. \A p \in AllSessions \ {o} : t.locked \cap tx[p].locked = {}
    <2>1. \A p \in AllSessions \ {o} : x.locked \cap tx[p].locked = {}
      BY <1>2 DEF GateInv, LocksSound
    <2>2. \A p \in AllSessions : tx[p].locked \cap Unreplaced = {}
      BY DEF LockStale, Unlocked
    <2> QED
      BY <1>3, <1>8, <2>1, <2>2
  <1>11. LocksSound(gates, tx')
    BY <1>4, <1>8, <1>9, <1>10, LocksChange DEF GateInv
  <1> QED
    BY <1>11, ReplacingNothing DEF GateInv, LockStale

LEMMA ReconcileWriteStep ==
    ASSUME GateInv, NEW o \in AllSessions, ReconcileWrite(o)
    PROVE  GateInv' /\ Replacing(gates, gates')
  <1>1. PICK after : after = MarkedStale(tx[o].hash)
    OBVIOUS
  <1>2. LocksSound(gates, tx')
    BY IdleTransaction, LocksChange DEF GateInv, ReconcileWrite
  <1>3. EvaluationsSound(after) /\ LocksSound(after, tx') /\ Replacing(gates, after)
    BY <1>1, <1>2, MarkingIsSound DEF GateInv
  <1> QED
    BY <1>1, <1>3 DEF GateInv, ReconcileWrite

LEMMA PromoteStep ==
    ASSUME GateInv, NEW o \in AllSessions, NEW g \in Gates, Promote(o, g)
    PROVE  GateInv' /\ Replacing(gates, gates')
  <1>1. PICK old : old = ActiveBaselines(gates[g].policy)
    OBVIOUS
  <1>4. PICK t : t = [Idle EXCEPT !.op = "promote", !.gate = g, !.previous = old]
    OBVIOUS
  <1>2. t = [op |-> "promote", hash |-> 0, policy |-> NoPolicy, approved |-> FALSE,
             locked |-> {}, gate |-> g, previous |-> old]
    BY <1>4, Zenon DEF Idle
  <1>3. t \in Transaction /\ t.locked = {}
    <2>1. old \subseteq Baselines /\ 0 \in 0..MaxRevision
      BY <1>1, GateConstants DEF ActiveBaselines
    <2> QED
      BY <1>2, <2>1 DEF Transaction
  <1>5. tx' = [tx EXCEPT ![o] = t]
    BY <1>1, <1>4 DEF Promote
  <1>6. UNCHANGED <<evidence, gates, baselines>>
    BY DEF Promote
  <1> QED
    BY <1>3, <1>5, <1>6, UnlockedChange

LEMMA CommitPromotionStep ==
    ASSUME GateInv, NEW o \in AllSessions, CommitPromotion(o)
    PROVE  GateInv' /\ Replacing(gates, gates')
  <1>1. PICK t \in Transaction : t = tx[o] /\ t.gate \in Gates \cup {0}
    BY DEF GateInv, LocksSound, Transaction
  <1>2. baselines' \in [Baselines -> Baseline]
    <2>1. \A x \in Baseline : [x EXCEPT !.status = "superseded"] \in Baseline
      BY DEF Baseline
    <2>2. [status |-> "active", gate |-> t.gate] \in Baseline
      BY <1>1 DEF Baseline
    <2>3. baselines' = [b \in Baselines |->
                         IF b = NextBaseline THEN [status |-> "active", gate |-> t.gate]
                         ELSE IF b \in t.previous
                         THEN [baselines[b] EXCEPT !.status = "superseded"]
                         ELSE baselines[b]]
      BY <1>1 DEF CommitPromotion
    <2> QED
      BY <2>1, <2>2, <2>3 DEF GateInv
  <1>3. LocksSound(gates, tx')
    BY IdleTransaction, LocksChange DEF GateInv, CommitPromotion
  <1> QED
    BY <1>2, <1>3, ReplacingNothing DEF GateInv, CommitPromotion

LEMMA GateStart == Init => GateInv
  <1> SUFFICES ASSUME Init PROVE GateInv
    OBVIOUS
  <1>1. evidence \in 0..MaxRevision
    BY GateConstants DEF Init
  <1>2. baselines \in [Baselines -> Baseline]
    BY DEF Init, NoBaseline, Baseline
  <1>3. EvaluationsSound(gates)
    <2>1. NoGate \in Gate
      BY GateConstants DEF NoGate, Gate
    <2>2. gates \in [Gates -> Gate] /\ \A g \in Gates : gates[g] = NoGate
      BY <2>1 DEF Init
    <2>3. NoGate.status = "absent" /\ NoGate.superseded_by = 0
      BY DEF NoGate
    <2>4. Present(gates) = {} /\ 1..0 = {} /\ 0 \in 0..MaxGates
      BY <2>2, <2>3, GateConstants DEF Present
    <2> QED
      BY <2>2, <2>3, <2>4 DEF EvaluationsSound
  <1>4. LocksSound(gates, tx)
    BY IdleTransaction DEF Init, LocksSound
  <1> QED
    BY <1>1, <1>2, <1>3, <1>4 DEF GateInv

\* A step of the gate keeps the invariant and replaces soundly.
LEMMA GateStep ==
    ASSUME GateInv, GateNext \/ UNCHANGED gateVars
    PROVE  GateInv' /\ Replacing(gates, gates')
  <1>1. Sessions \subseteq AllSessions
    BY DEF AllSessions
  <1>2. CASE ReviseEvidence
    <2>1. PICK after : after = MarkedStale(evidence + 1)
      OBVIOUS
    <2>2. EvaluationsSound(after) /\ LocksSound(after, tx) /\ Replacing(gates, after)
      BY <2>1, MarkingIsSound DEF GateInv
    <2>3. evidence' \in 0..MaxRevision
      BY <1>2, GateConstants DEF GateInv, ReviseEvidence
    <2> QED
      BY <1>2, <2>1, <2>2, <2>3 DEF GateInv, ReviseEvidence
  <1>3. CASE ReviseSilently
    <2>1. evidence' \in 0..MaxRevision
      BY <1>3, GateConstants DEF GateInv, ReviseSilently
    <2> QED
      BY <1>3, <2>1, ReplacingNothing DEF GateInv, ReviseSilently
  <1>4. ASSUME NEW o \in Sessions, NEW policy \in Policies, Collect(o, policy)
        PROVE  GateInv' /\ Replacing(gates, gates')
    BY <1>1, <1>4, CollectStep
  <1>5. ASSUME NEW o \in Sessions, LockGates(o)
        PROVE  GateInv' /\ Replacing(gates, gates')
    BY <1>1, <1>5, LockGatesStep
  <1>6. ASSUME NEW o \in Sessions, LockStale(o)
        PROVE  GateInv' /\ Replacing(gates, gates')
    BY <1>1, <1>6, LockStaleStep
  <1>7. ASSUME NEW o \in Sessions, CommitEvaluation(o)
        PROVE  GateInv' /\ Replacing(gates, gates')
    <2>1. /\ EvaluationsSound(gates') /\ LocksSound(gates', tx')
          /\ Replacing(gates, gates')
      BY <1>1, <1>7, CommitIsSound DEF GateInv
    <2>2. UNCHANGED <<evidence, baselines>>
      BY <1>7 DEF CommitEvaluation
    <2> QED
      BY <2>1, <2>2 DEF GateInv
  <1>8. ASSUME NEW o \in Sessions, ReadGate(o)
        PROVE  GateInv' /\ Replacing(gates, gates')
    BY <1>1, <1>8, IdleTransaction, UnlockedChange DEF ReadGate
  <1>9. ASSUME NEW o \in AllSessions, ReconcileRead(o)
        PROVE  GateInv' /\ Replacing(gates, gates')
    <2>1. PICK t : t = [Idle EXCEPT !.op = "reconcile", !.hash = evidence]
      OBVIOUS
    <2>2. t = [op |-> "reconcile", hash |-> evidence, policy |-> NoPolicy, approved |-> FALSE,
               locked |-> {}, gate |-> 0, previous |-> {}]
      BY <2>1, Zenon DEF Idle
    <2>3. t \in Transaction /\ t.locked = {}
      BY <2>2 DEF GateInv, Transaction
    <2>4. tx' = [tx EXCEPT ![o] = t] /\ UNCHANGED <<evidence, gates, baselines>>
      BY <1>9, <2>1 DEF ReconcileRead
    <2> QED
      BY <2>3, <2>4, UnlockedChange
  <1>10. ASSUME NEW o \in AllSessions, ReconcileWrite(o)
         PROVE  GateInv' /\ Replacing(gates, gates')
    BY <1>10, ReconcileWriteStep
  <1>11. ASSUME NEW o \in Sessions, NEW g \in Gates, Promote(o, g)
         PROVE  GateInv' /\ Replacing(gates, gates')
    BY <1>1, <1>11, PromoteStep
  <1>12. ASSUME NEW o \in Sessions, CommitPromotion(o)
         PROVE  GateInv' /\ Replacing(gates, gates')
    BY <1>1, <1>12, CommitPromotionStep
  <1>13. ASSUME NEW o \in Sessions, Abort(o)
         PROVE  GateInv' /\ Replacing(gates, gates')
    BY <1>1, <1>13, IdleTransaction, UnlockedChange DEF Abort
  <1>14. CASE UNCHANGED gateVars
    BY <1>14, ReplacingNothing DEF GateInv, gateVars
  <1> QED
    BY <1>2, <1>3, <1>4, <1>5, <1>6, <1>7, <1>8, <1>9, <1>10, <1>11, <1>12, <1>13, <1>14
    DEF GateNext

LEMMA GateInvImpliesType == GateInv => GateTypeOK
  BY DEF GateInv, EvaluationsSound, LocksSound, GateTypeOK

LEMMA GateInvariant == GateSpec => []GateInv
  <1>1. GateInv /\ [GateNext]_gateVars => GateInv'
    BY GateStep
  <1> QED
    BY <1>1, GateStart, PTL DEF GateSpec

\* The rows of the gate keep their types, and no two sessions hold a lock on
\* one evaluation (the FOR UPDATE of mark_scope_gates_stale and
\* supersede_stale_gates).
THEOREM GateTypeCorrect == GateSpec => []GateTypeOK
  BY GateInvariant, GateInvImpliesType, PTL

\* An evaluation is replaced once, by the one that commits in the same
\* transaction, and stays stale: supersede_stale_gates takes only rows without
\* a replacement and keeps them locked until it has written one.
THEOREM ReplacementsHold == GateSpec => ReplacementsAreSound
  <1>1. ASSUME GateInv, [GateNext]_gateVars
        PROVE  [\A g \in Gates :
                 /\ gates[g].status = "stale" => gates'[g].status = "stale"
                 /\ gates[g].superseded_by # 0 => gates'[g].superseded_by = gates[g].superseded_by
                 /\ gates'[g].superseded_by # gates[g].superseded_by =>
                       LET replacement == gates'[g].superseded_by
                       IN  /\ gates'[g].status = "stale"
                           /\ gates[replacement].status = "absent"
                           /\ gates'[replacement].status # "absent"]_gateVars
    <2>1. Replacing(gates, gates')
      BY <1>1, GateStep
    <2> QED
      BY <2>1 DEF Replacing
  <1> QED
    BY <1>1, GateInvariant, PTL DEF GateSpec, ReplacementsAreSound

-----------------------------------------------------------------------------
(* Release decisions *)

SignedIn(ds) == {d \in Decisions : ds[d].decision # "absent"}

DecisionsSound(ds) ==
    /\ ds \in [Decisions -> Decision]
    /\ \E n \in 0..MaxDecisions : SignedIn(ds) = 1..n
    /\ \A d \in SignedIn(ds) : ds[d].gate \in Gates

\* What StaleActionsAreTrue says.
ActionsTrue(ds, rows) ==
    \A d \in SignedIn(ds) :
        "stale_detected" \in ds[d].actions =>
            ds[d].decision = "approve" /\ rows[ds[d].gate].status = "stale"

\* A decision that stands keeps what it stands for and its actions; it is
\* found stale only over an evaluation that is.
DecisionsGrow(before, after, rows) ==
    \A d \in Decisions :
        \/ before[d].decision = "absent" /\ after[d].actions = {}
        \/ /\ after[d].decision = before[d].decision /\ after[d].gate = before[d].gate
           /\ before[d].actions \subseteq after[d].actions
           /\ "stale_detected" \in after[d].actions =>
                \/ "stale_detected" \in before[d].actions
                \/ after[d].decision = "approve" /\ rows[after[d].gate].status = "stale"

RequestsSound(reqs) ==
    /\ reqs \in [Clients -> Request]
    /\ \A c \in Clients : reqs[c].op = "decide" => reqs[c].gate \in Gates

\* Only an evaluation that holds locks has looked the decisions up.
SeenSound(looked, txs) ==
    /\ looked \in [AllSessions -> SUBSET Decisions]
    /\ \A o \in AllSessions : looked[o] # {} => txs[o].op \in {"mark", "replace"}

ReleaseInv ==
    /\ GateInv
    /\ DecisionsSound(decisions)
    /\ ActionsTrue(decisions, gates)
    /\ RequestsSound(request)
    /\ SeenSound(seen, tx)

LEMMA NextDecisionIsNew ==
    ASSUME DecisionsSound(decisions)
    PROVE  /\ NextDecision \in Nat \ {0}
           /\ \A d \in Decisions : decisions[d].decision # "absent" <=> d < NextDecision
  <1>1. PICK n \in 0..MaxDecisions : SignedIn(decisions) = 1..n
    BY DEF DecisionsSound
  <1>2. n \in Nat
    BY <1>1, GateConstants
  <1>3. NextDecision = n + 1
    BY <1>1, <1>2, PrefixCount DEF NextDecision, Signed, SignedIn
  <1>4. ASSUME NEW d \in Decisions
        PROVE  decisions[d].decision # "absent" <=> d < NextDecision
    <2>1. decisions[d].decision # "absent" <=> d \in 1..n
      BY <1>1 DEF SignedIn
    <2>2. d \in Nat \ {0}
      BY GateConstants
    <2> QED
      BY <1>2, <1>3, <2>1, <2>2
  <1> QED
    BY <1>2, <1>3, <1>4

LEMMA GrowNothing == \A ds, rows : DecisionsGrow(ds, ds, rows)
  BY DEF DecisionsGrow

\* Rows change without a decision being signed.
LEMMA SameDecisionsSound ==
    ASSUME NEW ds, DecisionsSound(ds), NEW after \in [Decisions -> Decision],
           \A d \in Decisions : after[d].decision = ds[d].decision /\ after[d].gate = ds[d].gate
    PROVE  DecisionsSound(after)
  <1>1. SignedIn(after) = SignedIn(ds)
    BY DEF SignedIn
  <1>2. \A d \in SignedIn(ds) : after[d].gate \in Gates
    BY DEF DecisionsSound, SignedIn
  <1> QED
    BY <1>1, <1>2 DEF DecisionsSound

\* record_stale_release_actions
LEMMA RecordingIsSound ==
    ASSUME DecisionsSound(decisions), NEW visible, RecordStale(visible)
    PROVE  DecisionsSound(decisions') /\ DecisionsGrow(decisions, decisions', gates')
  <1>1. decisions \in [Decisions -> Decision]
    BY DEF DecisionsSound
  <1>2. ASSUME NEW d \in Decisions
        PROVE  /\ decisions'[d] \in Decision
               /\ decisions'[d].decision = decisions[d].decision
               /\ decisions'[d].gate = decisions[d].gate
               /\ \/ decisions'[d].actions = decisions[d].actions
                  \/ /\ decisions'[d].actions = decisions[d].actions \cup {"stale_detected"}
                     /\ decisions[d].decision = "approve"
                     /\ gates'[decisions[d].gate].status = "stale"
    <2>1. PICK x : x \in Decision /\ x = decisions[d]
      BY <1>1
    <2>2. CASE decisions'[d] = decisions[d]
      BY <2>1, <2>2
    <2>3. CASE decisions'[d] # decisions[d]
      <3>1. /\ decisions'[d] = [decisions[d] EXCEPT !.actions = @ \cup {"stale_detected"}]
            /\ decisions[d].decision = "approve"
            /\ gates'[decisions[d].gate].status = "stale"
        BY <2>3 DEF RecordStale
      <3>2. PICK more : more = x.actions \cup {"stale_detected"}
        OBVIOUS
      <3>3. more \in SUBSET {"acknowledged", "revoked", "stale_detected", "replaced"}
        BY <2>1, <3>2 DEF Decision
      <3>4. decisions'[d] = [x EXCEPT !.actions = more]
        BY <2>1, <3>1, <3>2
      <3> QED
        BY <2>1, <3>1, <3>2, <3>3, <3>4 DEF Decision
    <2> QED
      BY <2>2, <2>3
  <1>3. decisions' \in [Decisions -> Decision]
    <2>1. decisions' = [d \in Decisions |-> decisions'[d]]
      BY DEF RecordStale
    <2> QED
      BY <1>2, <2>1
  <1>4. DecisionsSound(decisions')
    BY <1>2, <1>3, SameDecisionsSound
  <1>5. DecisionsGrow(decisions, decisions', gates')
    BY <1>2 DEF DecisionsGrow
  <1> QED
    BY <1>4, <1>5

LEMMA TruthsStay ==
    ASSUME DecisionsSound(decisions), ActionsTrue(decisions, gates),
           DecisionsGrow(decisions, decisions', gates'), Replacing(gates, gates')
    PROVE  ActionsTrue(decisions', gates')
  <1>1. SUFFICES ASSUME NEW d \in SignedIn(decisions'), "stale_detected" \in decisions'[d].actions
                 PROVE  decisions'[d].decision = "approve" /\ gates'[decisions'[d].gate].status = "stale"
    BY DEF ActionsTrue
  <1>2. d \in Decisions /\ decisions'[d].decision # "absent"
    BY DEF SignedIn
  <1>3. /\ decisions'[d].decision = decisions[d].decision
        /\ decisions'[d].gate = decisions[d].gate
        /\ \/ "stale_detected" \in decisions[d].actions
           \/ decisions'[d].decision = "approve" /\ gates'[decisions'[d].gate].status = "stale"
    BY <1>1, <1>2 DEF DecisionsGrow
  <1>4. d \in SignedIn(decisions)
    BY <1>2, <1>3 DEF SignedIn
  <1>5. CASE "stale_detected" \in decisions[d].actions
    <2>1. decisions[d].decision = "approve" /\ gates[decisions[d].gate].status = "stale"
      BY <1>4, <1>5 DEF ActionsTrue
    <2>2. decisions[d].gate \in Gates
      BY <1>4 DEF DecisionsSound
    <2> QED
      BY <1>3, <2>1, <2>2 DEF Replacing
  <1> QED
    BY <1>3, <1>5

LEMMA SeenChange ==
    ASSUME NEW looked, NEW txs, SeenSound(looked, txs), NEW o \in AllSessions, NEW t,
           looked[o] = {} \/ t.op \in {"mark", "replace"}, NEW after,
           txs \in [AllSessions -> Transaction], after = [txs EXCEPT ![o] = t]
    PROVE  SeenSound(looked, after)
  <1>1. \A p \in AllSessions : after[p] = IF p = o THEN t ELSE txs[p]
    OBVIOUS
  <1> QED
    BY <1>1 DEF SeenSound

LEMMA ForgetSeen ==
    ASSUME NEW looked, NEW txs, SeenSound(looked, txs), NEW o \in AllSessions, NEW t, NEW after,
           txs \in [AllSessions -> Transaction], after = [txs EXCEPT ![o] = t],
           NEW forgotten, forgotten = [looked EXCEPT ![o] = {}]
    PROVE  SeenSound(forgotten, after)
  <1>1. \A p \in AllSessions : after[p] = IF p = o THEN t ELSE txs[p]
    OBVIOUS
  <1>2. looked \in [AllSessions -> SUBSET Decisions]
    BY DEF SeenSound
  <1>3. /\ forgotten \in [AllSessions -> SUBSET Decisions]
        /\ \A p \in AllSessions : forgotten[p] = IF p = o THEN {} ELSE looked[p]
    BY <1>2
  <1> QED
    BY <1>1, <1>3 DEF SeenSound

\* A step of the gate alone.
LEMMA OtherStep ==
    ASSUME ReleaseInv, OtherGateStep
    PROVE  SeenSound(seen, tx')
  <1>1. tx \in [AllSessions -> Transaction] /\ Sessions \subseteq AllSessions
    BY DEF ReleaseInv, GateInv, LocksSound, AllSessions
  <1>2. \A o \in AllSessions : seen[o] # {} => tx[o].op \in {"mark", "replace"}
    BY DEF ReleaseInv, SeenSound
  <1>3. CASE ReviseSilently
    BY <1>3 DEF ReviseSilently, ReleaseInv
  <1>4. ASSUME NEW o \in Sessions, NEW policy \in Policies, Collect(o, policy)
        PROVE  SeenSound(seen, tx')
    <2>1. seen[o] = {}
      BY <1>1, <1>2, <1>4, IdleTransaction DEF Collect
    <2>2. PICK t : tx' = [tx EXCEPT ![o] = t]
      BY <1>4 DEF Collect
    <2> QED
      BY <1>1, <2>1, <2>2, SeenChange DEF ReleaseInv
  <1>5. ASSUME NEW o \in Sessions, LockStale(o)
        PROVE  SeenSound(seen, tx')
    <2>1. PICK x \in Transaction : x = tx[o]
      BY <1>1
    <2>2. PICK y : y = [x EXCEPT !.op = "replace"]
      OBVIOUS
    <2>3. y.op = "replace" /\ y \in Transaction /\ y.locked = x.locked
      BY <2>2 DEF Transaction
    <2>4. PICK t : t = [y EXCEPT !.locked = x.locked \cup Unreplaced]
      OBVIOUS
    <2>5. t.op = "replace"
      BY <2>3, <2>4 DEF Transaction
    <2>6. tx' = [tx EXCEPT ![o] = t]
      BY <1>1, <1>5, <2>1, <2>2, <2>3, <2>4 DEF LockStale
    <2> QED
      BY <1>1, <2>5, <2>6, SeenChange DEF ReleaseInv
  <1>6. ASSUME NEW o \in Sessions, ReadGate(o)
        PROVE  SeenSound(seen, tx')
    <2>1. seen[o] = {}
      BY <1>1, <1>2, <1>6 DEF ReadGate
    <2>2. tx' = [tx EXCEPT ![o] = Idle]
      BY <1>6 DEF ReadGate
    <2> QED
      BY <1>1, <2>1, <2>2, SeenChange DEF ReleaseInv
  <1>7. ASSUME NEW o \in AllSessions, ReconcileRead(o)
        PROVE  SeenSound(seen, tx')
    <2>1. seen[o] = {}
      BY <1>2, <1>7 DEF ReconcileRead
    <2>2. PICK t : tx' = [tx EXCEPT ![o] = t]
      BY <1>7 DEF ReconcileRead
    <2> QED
      BY <1>1, <2>1, <2>2, SeenChange DEF ReleaseInv
  <1> QED
    BY <1>3, <1>4, <1>5, <1>6, <1>7 DEF OtherGateStep

LEMMA LockAndLookSeen ==
    ASSUME ReleaseInv, NEW o \in AllSessions, LockAndLook(o)
    PROVE  SeenSound(seen', tx')
  <1>1. tx \in [AllSessions -> Transaction]
    BY DEF ReleaseInv, GateInv, LocksSound
  <1>2. PICK x \in Transaction : x = tx[o]
    BY <1>1
  <1>3. PICK y : y = [x EXCEPT !.op = "mark"]
    OBVIOUS
  <1>4. y.op = "mark" /\ y \in Transaction
    BY <1>3 DEF Transaction
  <1>5. PICK t : t = [y EXCEPT !.locked = Completed]
    OBVIOUS
  <1>6. t.op = "mark"
    BY <1>4, <1>5 DEF Transaction
  <1>7. tx' = [tx EXCEPT ![o] = t]
    BY <1>1, <1>2, <1>3, <1>5 DEF LockAndLook, LockGates
  <1>8. SeenSound(seen, tx')
    BY <1>1, <1>6, <1>7, SeenChange DEF ReleaseInv
  <1>9. seen' = [seen EXCEPT ![o] = Signed] /\ Signed \subseteq Decisions
    BY DEF LockAndLook, Signed
  <1>10. tx'[o].op = "mark"
    BY <1>1, <1>6, <1>7
  <1> QED
    BY <1>8, <1>9, <1>10 DEF SeenSound

\* A client takes another request.
LEMMA RequestChange ==
    ASSUME RequestsSound(request), NEW c \in Clients, NEW r \in Request,
           r.op = "decide" => r.gate \in Gates, NEW after, after = [request EXCEPT ![c] = r]
    PROVE  RequestsSound(after)
  <1>1. request \in [Clients -> Request]
    BY DEF RequestsSound
  <1>2. /\ after \in [Clients -> Request]
        /\ \A d \in Clients : after[d] = IF d = c THEN r ELSE request[d]
    BY <1>1
  <1> QED
    BY <1>2 DEF RequestsSound

LEMMA EmptyRequest == NoRequest \in Request /\ NoRequest.op = "none"
  BY DEF NoRequest, Request, OperatorAction

\* A request of a client that is stored.
LEMMA DecideStep ==
    ASSUME ReleaseInv, NEW c \in Clients, NEW g \in Gates, NEW decision \in {"approve", "other"},
           NEW replaced \in Decisions \cup {0}, Decide(c, g, decision, replaced)
    PROVE  RequestsSound(request')
  <1>1. PICK r : r = [NoRequest EXCEPT !.op = "decide", !.gate = g,
                                       !.decision = decision, !.target = replaced]
    OBVIOUS
  <1>2. r = [op |-> "decide", decision |-> decision, gate |-> g, target |-> replaced,
             action |-> "revoked"]
    BY <1>1, Zenon DEF NoRequest
  <1>3. r \in Request /\ r.gate \in Gates
    BY <1>2 DEF Request, OperatorAction
  <1>4. request' = [request EXCEPT ![c] = r]
    BY <1>1 DEF Decide
  <1> QED
    BY <1>3, <1>4, RequestChange DEF ReleaseInv

LEMMA OperateStep ==
    ASSUME ReleaseInv, NEW c \in Clients, NEW d \in Decisions, NEW action \in OperatorAction,
           Operate(c, d, action)
    PROVE  RequestsSound(request')
  <1>1. PICK r : r = [NoRequest EXCEPT !.op = "operate", !.target = d, !.action = action]
    OBVIOUS
  <1>2. r = [op |-> "operate", decision |-> "other", gate |-> 0, target |-> d,
             action |-> action]
    BY <1>1, Zenon DEF NoRequest
  <1>3. r \in Request /\ r.op = "operate"
    BY <1>2 DEF Request
  <1>4. request' = [request EXCEPT ![c] = r]
    BY <1>1 DEF Operate
  <1> QED
    BY <1>3, <1>4, RequestChange DEF ReleaseInv

LEMMA ActionsRow ==
    ASSUME NEW x \in Decision, NEW more \in SUBSET {"acknowledged", "revoked", "stale_detected", "replaced"},
           NEW y, y = [x EXCEPT !.actions = more]
    PROVE  /\ y \in Decision /\ y.actions = more /\ y.decision = x.decision /\ y.gate = x.gate
           /\ y.review = x.review
  BY DEF Decision

LEMMA ReviewRow ==
    ASSUME NEW x \in Decision, NEW review \in BOOLEAN, NEW y, y = [x EXCEPT !.review = review]
    PROVE  /\ y \in Decision /\ y.actions = x.actions /\ y.decision = x.decision
           /\ y.gate = x.gate
  BY DEF Decision

LEMMA CommitDecisionStep ==
    ASSUME ReleaseInv, NEW c \in Clients, CommitDecision(c)
    PROVE  /\ DecisionsSound(decisions') /\ RequestsSound(request')
           /\ DecisionsGrow(decisions, decisions', gates')
  <1>1. PICK r : /\ r \in Request /\ r = request[c] /\ r.op = "decide" /\ r.gate \in Gates
                 /\ r.decision \in {"approve", "other"} /\ r.target \in Decisions \cup {0}
    <2>1. request[c] \in Request /\ request[c].op = "decide" /\ request[c].gate \in Gates
      BY DEF ReleaseInv, RequestsSound, CommitDecision
    <2> QED
      BY <2>1 DEF Request
  <1>2. PICK n \in Decisions : n = NextDecision
    BY DEF CommitDecision
  <1>3. \A d \in Decisions : decisions[d].decision # "absent" <=> d < n
    BY <1>2, NextDecisionIsNew DEF ReleaseInv
  <1>4. decisions[n].decision = "absent"
    BY <1>3, GateConstants
  <1>5. decisions \in [Decisions -> Decision]
    BY DEF ReleaseInv, DecisionsSound
  <1>6. PICK y : y = [NoDecision EXCEPT !.decision = r.decision, !.gate = r.gate,
                                        !.replaces = r.target]
    OBVIOUS
  <1>7. y = [decision |-> r.decision, gate |-> r.gate, replaces |-> r.target, actions |-> {},
             review |-> FALSE]
    BY <1>6, Zenon DEF NoDecision
  <1>8. y \in Decision /\ y.actions = {} /\ y.decision = r.decision /\ y.gate = r.gate
    BY <1>1, <1>7 DEF Decision
  <1>9. decisions' = [d \in Decisions |->
                       IF d = n THEN y
                       ELSE IF d = r.target
                       THEN [decisions[d] EXCEPT !.actions = @ \cup {"replaced"}]
                       ELSE decisions[d]]
    BY <1>1, <1>2, <1>6 DEF CommitDecision
  <1>10. decisions'[n] = y
    BY <1>9
  <1>11. ASSUME NEW d \in Decisions, d # n
         PROVE  /\ decisions'[d] \in Decision
                /\ decisions'[d].decision = decisions[d].decision
                /\ decisions'[d].gate = decisions[d].gate
                /\ decisions[d].actions \subseteq decisions'[d].actions
                /\ "stale_detected" \in decisions'[d].actions =>
                     "stale_detected" \in decisions[d].actions
    <2>1. PICK x \in Decision : x = decisions[d]
      BY <1>5
    <2>2. CASE d = r.target
      <3>1. PICK more : more = x.actions \cup {"replaced"}
        OBVIOUS
      <3>2. more \in SUBSET {"acknowledged", "revoked", "stale_detected", "replaced"}
        BY <2>1, <3>1 DEF Decision
      <3>3. PICK z : z = [x EXCEPT !.actions = more]
        OBVIOUS
      <3>4. decisions'[d] = z
        BY <1>9, <1>11, <2>1, <2>2, <3>1, <3>3
      <3>5. z \in Decision /\ z.actions = more /\ z.decision = x.decision /\ z.gate = x.gate
        BY <3>2, <3>3, ActionsRow
      <3> QED
        BY <2>1, <3>1, <3>4, <3>5
    <2>3. CASE d # r.target
      BY <1>9, <1>11, <2>1, <2>3
    <2> QED
      BY <2>2, <2>3
  <1>12. decisions' \in [Decisions -> Decision]
    <2>1. decisions' = [d \in Decisions |-> decisions'[d]]
      BY <1>9
    <2>2. \A d \in Decisions : decisions'[d] \in Decision
      BY <1>8, <1>10, <1>11
    <2> QED
      BY <2>1, <2>2
  <1>13. DecisionsSound(decisions')
    <2>1. n \in 0..MaxDecisions /\ n \in Nat
      BY GateConstants
    <2>2. \A d \in Decisions : decisions'[d].decision # "absent" <=> d < n \/ d = n
      BY <1>1, <1>3, <1>8, <1>10, <1>11
    <2>3. SignedIn(decisions') = 1..n
      <3>1. \A d : d \in SignedIn(decisions') <=> d \in Decisions /\ (d < n \/ d = n)
        BY <2>2 DEF SignedIn
      <3>2. \A d : d \in 1..n <=> d \in Decisions /\ (d < n \/ d = n)
        BY <2>1, GateConstants
      <3> QED
        BY <3>1, <3>2
    <2>4. ASSUME NEW d \in SignedIn(decisions')
          PROVE  decisions'[d].gate \in Gates
      <3>1. CASE d = n
        BY <1>1, <1>8, <1>10, <3>1
      <3>2. CASE d # n
        <4>1. d \in Decisions /\ decisions'[d].decision # "absent"
          BY DEF SignedIn
        <4>2. decisions[d].decision # "absent" /\ decisions'[d].gate = decisions[d].gate
          BY <1>11, <3>2, <4>1
        <4> QED
          BY <4>1, <4>2 DEF ReleaseInv, DecisionsSound, SignedIn
      <3> QED
        BY <3>1, <3>2
    <2> QED
      BY <1>12, <2>1, <2>3, <2>4 DEF DecisionsSound
  <1>14. DecisionsGrow(decisions, decisions', gates')
    BY <1>4, <1>8, <1>10, <1>11 DEF DecisionsGrow
  <1>15. RequestsSound(request')
    BY EmptyRequest, RequestChange DEF ReleaseInv, CommitDecision
  <1> QED
    BY <1>13, <1>14, <1>15

LEMMA CommitOperationStep ==
    ASSUME ReleaseInv, NEW c \in Clients, CommitOperation(c)
    PROVE  /\ DecisionsSound(decisions') /\ RequestsSound(request')
           /\ DecisionsGrow(decisions, decisions', gates')
  <1>1. PICK r : /\ r \in Request /\ r = request[c]
                 /\ r.action \in OperatorAction /\ r.target \in Decisions \cup {0}
    BY DEF ReleaseInv, RequestsSound, Request
  <1>2. PICK d, review : /\ d = r.target /\ review \in Reviews(decisions[d], r.action)
                         /\ decisions' = [decisions EXCEPT
                              ![d].actions = @ \cup ({r.action} \ {"review_requested"}),
                              ![d].review = review]
    BY <1>1 DEF CommitOperation
  <1>3. decisions \in [Decisions -> Decision]
    BY DEF ReleaseInv, DecisionsSound
  <1>4. RequestsSound(request')
    BY EmptyRequest, RequestChange DEF ReleaseInv, CommitOperation
  <1>5. CASE d \in Decisions
    <2>1. PICK x \in Decision : x = decisions[d]
      BY <1>3, <1>5
    <2>2. review \in BOOLEAN
      <3>1. x.review \in BOOLEAN
        BY DEF Decision
      <3> QED
        BY <1>1, <1>2, <2>1, <3>1 DEF Reviews, OperatorAction
    <2>3. PICK more : more = x.actions \cup ({r.action} \ {"review_requested"})
      OBVIOUS
    <2>4. /\ more \in SUBSET {"acknowledged", "revoked", "stale_detected", "replaced"}
          /\ "stale_detected" \in more => "stale_detected" \in x.actions
      BY <1>1, <2>3 DEF Decision, OperatorAction
    <2>5. PICK y : y = [x EXCEPT !.actions = more]
      OBVIOUS
    <2>6. y \in Decision /\ y.actions = more /\ y.decision = x.decision /\ y.gate = x.gate
      BY <2>4, <2>5, ActionsRow
    <2>7. PICK z : z = [y EXCEPT !.review = review]
      OBVIOUS
    <2>8. z \in Decision /\ z.actions = more /\ z.decision = x.decision /\ z.gate = x.gate
      BY <2>2, <2>6, <2>7, ReviewRow
    <2>9. decisions' = [decisions EXCEPT ![d] = z]
      BY <1>2, <1>3, <1>5, <2>1, <2>3, <2>5, <2>7
    <2>10. /\ decisions' \in [Decisions -> Decision]
           /\ \A e \in Decisions : decisions'[e] = IF e = d THEN z ELSE decisions[e]
      BY <1>3, <2>8, <2>9
    <2>11. DecisionsSound(decisions')
      BY <2>1, <2>8, <2>10, SameDecisionsSound DEF ReleaseInv
    <2>12. DecisionsGrow(decisions, decisions', gates')
      BY <2>1, <2>3, <2>4, <2>8, <2>10 DEF DecisionsGrow
    <2> QED
      BY <1>4, <2>11, <2>12
  <1>6. CASE d \notin Decisions
    <2>1. decisions' = decisions
      BY <1>2, <1>3, <1>6
    <2> QED
      BY <1>4, <2>1, GrowNothing DEF ReleaseInv
  <1> QED
    BY <1>5, <1>6

-----------------------------------------------------------------------------
(* Steps of the releases *)

LEMMA ReleaseStart == ReleaseInit => ReleaseInv
  <1> SUFFICES ASSUME ReleaseInit PROVE ReleaseInv
    OBVIOUS
  <1>1. GateInv
    BY GateStart DEF ReleaseInit
  <1>2. NoDecision \in Decision /\ NoDecision.decision = "absent"
    BY DEF NoDecision, Decision
  <1>3. decisions \in [Decisions -> Decision] /\ SignedIn(decisions) = {}
    BY <1>2 DEF ReleaseInit, SignedIn
  <1>4. DecisionsSound(decisions) /\ ActionsTrue(decisions, gates)
    <2>1. 0 \in 0..MaxDecisions /\ 1..0 = {}
      BY GateConstants
    <2> QED
      BY <1>3, <2>1 DEF DecisionsSound, ActionsTrue
  <1>5. RequestsSound(request)
    BY EmptyRequest DEF ReleaseInit, RequestsSound
  <1>6. SeenSound(seen, tx)
    BY DEF ReleaseInit, SeenSound
  <1> QED
    BY <1>1, <1>4, <1>5, <1>6 DEF ReleaseInv

\* The releases add nothing to what the gate does.
LEMMA ReleaseStepIsAGateStep ==
    ASSUME [Next]_vars
    PROVE  GateNext \/ UNCHANGED gateVars
  <1>1. CASE \/ \E o \in Sessions : LockAndLook(o) \/ CommitAndRecord(o) \/ AbortSession(o)
             \/ ReviseAndRecord
             \/ \E o \in AllSessions : ReconcileAndRecord(o)
    BY <1>1 DEF LockAndLook, CommitAndRecord, AbortSession, ReviseAndRecord,
                ReconcileAndRecord, GateNext
  <1>2. CASE OtherGateStep
    BY <1>2 DEF OtherGateStep, GateNext
  <1>3. CASE \E c \in Clients : CommitDecision(c) \/ CommitOperation(c)
    BY <1>3 DEF CommitDecision, CommitOperation
  <1>4. CASE \/ \E c \in Clients, g \in Gates, decision \in {"approve", "other"},
                   replaced \in Decisions \cup {0} : Decide(c, g, decision, replaced)
             \/ \E c \in Clients, d \in Decisions, action \in OperatorAction : Operate(c, d, action)
    BY <1>4 DEF Decide, Operate
  <1>5. CASE UNCHANGED vars
    BY <1>5 DEF vars, gateVars
  <1> QED
    BY <1>1, <1>2, <1>3, <1>4, <1>5 DEF Next

LEMMA ReleaseStep ==
    ASSUME ReleaseInv, [Next]_vars
    PROVE  ReleaseInv' /\ DecisionsGrow(decisions, decisions', gates')
  <1>1. GateInv' /\ Replacing(gates, gates')
    BY ReleaseStepIsAGateStep, GateStep DEF ReleaseInv
  <1>2. tx \in [AllSessions -> Transaction] /\ Sessions \subseteq AllSessions
    BY DEF ReleaseInv, GateInv, LocksSound, AllSessions
  <1>3. SUFFICES /\ DecisionsSound(decisions') /\ RequestsSound(request')
                 /\ DecisionsGrow(decisions, decisions', gates') /\ SeenSound(seen', tx')
    BY <1>1, TruthsStay DEF ReleaseInv
  <1>4. DecisionsGrow(decisions, decisions, gates')
    BY GrowNothing
  <1>5. ASSUME NEW o \in Sessions, LockAndLook(o)
        PROVE  /\ DecisionsSound(decisions') /\ RequestsSound(request')
               /\ DecisionsGrow(decisions, decisions', gates') /\ SeenSound(seen', tx')
    <2>1. SeenSound(seen', tx')
      BY <1>2, <1>5, LockAndLookSeen
    <2> QED
      BY <1>4, <1>5, <2>1 DEF ReleaseInv, LockAndLook
  <1>6. ASSUME NEW o \in Sessions, CommitAndRecord(o)
        PROVE  /\ DecisionsSound(decisions') /\ RequestsSound(request')
               /\ DecisionsGrow(decisions, decisions', gates') /\ SeenSound(seen', tx')
    <2>1. DecisionsSound(decisions') /\ DecisionsGrow(decisions, decisions', gates')
      BY <1>6, RecordingIsSound DEF ReleaseInv, CommitAndRecord
    <2>2. PICK t : tx' = [tx EXCEPT ![o] = t]
      BY <1>6 DEF CommitAndRecord, CommitEvaluation
    <2>3. SeenSound(seen', tx')
      BY <1>2, <1>6, <2>2, ForgetSeen DEF ReleaseInv, CommitAndRecord
    <2> QED
      BY <1>6, <2>1, <2>3 DEF ReleaseInv, CommitAndRecord
  <1>7. CASE ReviseAndRecord
    <2>1. DecisionsSound(decisions') /\ DecisionsGrow(decisions, decisions', gates')
      BY <1>7, RecordingIsSound DEF ReleaseInv, ReviseAndRecord
    <2>2. UNCHANGED <<tx, seen, request>>
      BY <1>7 DEF ReviseAndRecord, ReviseEvidence
    <2> QED
      BY <2>1, <2>2 DEF ReleaseInv
  <1>8. ASSUME NEW o \in AllSessions, ReconcileAndRecord(o)
        PROVE  /\ DecisionsSound(decisions') /\ RequestsSound(request')
               /\ DecisionsGrow(decisions, decisions', gates') /\ SeenSound(seen', tx')
    <2>1. DecisionsSound(decisions') /\ DecisionsGrow(decisions, decisions', gates')
      BY <1>8, RecordingIsSound DEF ReleaseInv, ReconcileAndRecord
    <2>2. tx' = [tx EXCEPT ![o] = Idle] /\ seen[o] = {} /\ UNCHANGED <<seen, request>>
      BY <1>8 DEF ReconcileAndRecord, ReconcileWrite, ReleaseInv, SeenSound
    <2>3. SeenSound(seen, tx')
      BY <1>2, <2>2, SeenChange DEF ReleaseInv
    <2> QED
      BY <2>1, <2>2, <2>3 DEF ReleaseInv
  <1>9. CASE OtherGateStep
    <2>1. SeenSound(seen, tx')
      BY <1>9, OtherStep
    <2>2. UNCHANGED <<decisions, request, seen>>
      BY <1>9 DEF OtherGateStep, releaseVars
    <2> QED
      BY <1>4, <2>1, <2>2 DEF ReleaseInv
  <1>10. ASSUME NEW o \in Sessions, AbortSession(o)
         PROVE  /\ DecisionsSound(decisions') /\ RequestsSound(request')
                /\ DecisionsGrow(decisions, decisions', gates') /\ SeenSound(seen', tx')
    <2>1. SeenSound(seen', tx')
      BY <1>2, <1>10, ForgetSeen DEF ReleaseInv, AbortSession, Abort
    <2> QED
      BY <1>4, <1>10, <2>1 DEF ReleaseInv, AbortSession
  <1>11. ASSUME NEW c \in Clients, NEW g \in Gates, NEW decision \in {"approve", "other"},
                NEW replaced \in Decisions \cup {0}, Decide(c, g, decision, replaced)
         PROVE  /\ DecisionsSound(decisions') /\ RequestsSound(request')
                /\ DecisionsGrow(decisions, decisions', gates') /\ SeenSound(seen', tx')
    <2>1. RequestsSound(request')
      BY <1>11, DecideStep
    <2>2. UNCHANGED <<decisions, seen, tx>>
      BY <1>11 DEF Decide, gateVars
    <2> QED
      BY <1>4, <2>1, <2>2 DEF ReleaseInv
  <1>12. ASSUME NEW c \in Clients, CommitDecision(c)
         PROVE  /\ DecisionsSound(decisions') /\ RequestsSound(request')
                /\ DecisionsGrow(decisions, decisions', gates') /\ SeenSound(seen', tx')
    <2>1. UNCHANGED <<seen, tx>>
      BY <1>12 DEF CommitDecision, gateVars
    <2> QED
      BY <1>12, <2>1, CommitDecisionStep DEF ReleaseInv
  <1>13. ASSUME NEW c \in Clients, NEW d \in Decisions, NEW action \in OperatorAction,
                Operate(c, d, action)
         PROVE  /\ DecisionsSound(decisions') /\ RequestsSound(request')
                /\ DecisionsGrow(decisions, decisions', gates') /\ SeenSound(seen', tx')
    <2>1. RequestsSound(request')
      BY <1>13, OperateStep
    <2>2. UNCHANGED <<decisions, seen, tx>>
      BY <1>13 DEF Operate, gateVars
    <2> QED
      BY <1>4, <2>1, <2>2 DEF ReleaseInv
  <1>14. ASSUME NEW c \in Clients, CommitOperation(c)
         PROVE  /\ DecisionsSound(decisions') /\ RequestsSound(request')
                /\ DecisionsGrow(decisions, decisions', gates') /\ SeenSound(seen', tx')
    <2>1. UNCHANGED <<seen, tx>>
      BY <1>14 DEF CommitOperation, gateVars
    <2> QED
      BY <1>14, <2>1, CommitOperationStep DEF ReleaseInv
  <1>15. CASE UNCHANGED vars
    BY <1>4, <1>15 DEF ReleaseInv, vars
  <1> QED
    BY <1>5, <1>6, <1>7, <1>8, <1>9, <1>10, <1>11, <1>12, <1>13, <1>14, <1>15 DEF Next

LEMMA ReleaseInvariant == Spec => []ReleaseInv
  <1>1. ReleaseInv /\ [Next]_vars => ReleaseInv'
    BY ReleaseStep
  <1> QED
    BY <1>1, ReleaseStart, PTL DEF Spec

\* Decisions, requests and evaluations keep their types, and decisions looked
\* up with a lock are remembered only as long as the lock is held.
THEOREM ReleaseTypeCorrect == Spec => []TypeOK
  <1>1. ReleaseInv => TypeOK
    BY GateInvImpliesType DEF ReleaseInv, DecisionsSound, RequestsSound, SeenSound, TypeOK
  <1> QED
    BY <1>1, ReleaseInvariant, PTL

\* A stale_detected action is true of the release that carries it: an
\* evaluation looks its decisions up long before it commits, and still records
\* the fact only on approvals over evaluations that are stale then and stay so
\* (record_stale_release_actions).
THEOREM StaleActionsStayTrue == Spec => []StaleActionsAreTrue
  <1>1. ReleaseInv => StaleActionsAreTrue
    BY DEF ReleaseInv, ActionsTrue, StaleActionsAreTrue, Signed, SignedIn
  <1> QED
    BY <1>1, ReleaseInvariant, PTL

LEMMA ClosedStatus ==
    \A d \in Decisions : OperationalStatus(d) \in {"revoked", "replaced"}
                           <=> decisions[d].actions \cap {"revoked", "replaced"} # {}
  <1> SUFFICES ASSUME NEW d \in Decisions
               PROVE  OperationalStatus(d) \in {"revoked", "replaced"}
                        <=> decisions[d].actions \cap {"revoked", "replaced"} # {}
    OBVIOUS
  <1>1. CASE "replaced" \in decisions[d].actions
    BY <1>1 DEF OperationalStatus
  <1>2. CASE "replaced" \notin decisions[d].actions /\ "revoked" \in decisions[d].actions
    BY <1>2 DEF OperationalStatus
  <1>3. CASE "replaced" \notin decisions[d].actions /\ "revoked" \notin decisions[d].actions
    <2>1. OperationalStatus(d) \in {"needs_review", "active", "recorded"}
      BY <1>3 DEF OperationalStatus
    <2> QED
      BY <1>3, <2>1
  <1> QED
    BY <1>1, <1>2, <1>3

\* A release that was revoked or replaced never looks open again
\* (operational_status of release_decision_read).
THEOREM ClosedStaysClosed == Spec => ClosedReleasesStayClosed
  <1>1. ASSUME ReleaseInv, [Next]_vars
        PROVE  [\A d \in Signed :
                  OperationalStatus(d) \in {"revoked", "replaced"} =>
                    OperationalStatus(d)' \in {"revoked", "replaced"}]_vars
    <2>1. SUFFICES ASSUME NEW d \in Signed, OperationalStatus(d) \in {"revoked", "replaced"}
                   PROVE  OperationalStatus(d)' \in {"revoked", "replaced"}
      OBVIOUS
    <2>2. d \in Decisions /\ decisions[d].decision # "absent"
      BY DEF Signed
    <2>3. decisions[d].actions \subseteq decisions'[d].actions
      BY <1>1, <2>2, ReleaseStep DEF DecisionsGrow
    <2>4. decisions[d].actions \cap {"revoked", "replaced"} # {}
      BY <2>1, <2>2, ClosedStatus
    <2>5. decisions'[d].actions \cap {"revoked", "replaced"} # {}
      BY <2>3, <2>4
    <2>6. CASE "replaced" \in decisions'[d].actions
      BY <2>6 DEF OperationalStatus
    <2>7. CASE "replaced" \notin decisions'[d].actions /\ "revoked" \in decisions'[d].actions
      BY <2>7 DEF OperationalStatus
    <2> QED
      BY <2>5, <2>6, <2>7
  <1> QED
    BY <1>1, ReleaseInvariant, PTL DEF Spec, ClosedReleasesStayClosed

(***************************************************************************)
(* The verdict.  Its metrics are sums and counts over finite sets, hence   *)
(* the lemmas about these first.                                           *)
(***************************************************************************)

-----------------------------------------------------------------------------
(* Sums over finite sets *)

LEMMA LeastOf ==
    ASSUME NEW T \in SUBSET Nat, T # {}
    PROVE  \E n \in T : \A m \in T : n <= m
  <1> DEFINE R == OpToRel(<, Nat)
  <1>1. IsWellFoundedOn(R, Nat)
    BY NatLessThanWellFounded
  <1> HIDE DEF R
  <1>2. PICK x \in T : \A y \in T : ~(<<y, x>> \in R)
    BY <1>1, WFMin
  <1>3. ASSUME NEW y \in T PROVE x <= y
    <2>1. x \in Nat /\ y \in Nat
      OBVIOUS
    <2>2. y < x => <<y, x>> \in R
      BY <2>1 DEF R, OpToRel
    <2> QED
      BY <1>2, <2>1, <2>2
  <1> QED
    BY <1>3

\* The element at which a sum over s begins.
Pick(s) == CHOOSE x \in s : TRUE

LEMMA PickedOut ==
    ASSUME NEW S, IsFiniteSet(S), NEW s \in SUBSET S, s # {}
    PROVE  /\ Pick(s) \in s
           /\ s \ {Pick(s)} \in SUBSET S
           /\ IsFiniteSet(s) /\ IsFiniteSet(s \ {Pick(s)})
           /\ Cardinality(s) \in Nat /\ Cardinality(s \ {Pick(s)}) \in Nat
           /\ Cardinality(s) = Cardinality(s \ {Pick(s)}) + 1
  <1>1. Pick(s) \in s
    BY DEF Pick
  <1>2. IsFiniteSet(s)
    BY FS_Subset
  <1>3. IsFiniteSet(s \ {Pick(s)}) /\ Cardinality(s \ {Pick(s)}) = Cardinality(s) - 1
    BY <1>1, <1>2, FS_RemoveElement
  <1>4. Cardinality(s) \in Nat /\ Cardinality(s \ {Pick(s)}) \in Nat
    BY <1>2, <1>3, FS_CardinalityType
  <1> QED
    BY <1>1, <1>2, <1>3, <1>4

\* What holds of {} and of s as soon as it holds of s without Pick(s), holds
\* of every subset of S.
LEMMA OneByOne ==
    ASSUME NEW S, IsFiniteSet(S), NEW G, {} \in G,
           \A s \in SUBSET S : s # {} /\ s \ {Pick(s)} \in G => s \in G
    PROVE  \A s \in SUBSET S : s \in G
  <1> DEFINE Bad == {s \in SUBSET S : s \notin G}
             Sizes == {Cardinality(s) : s \in Bad}
  <1>1. SUFFICES ASSUME Bad # {} PROVE FALSE
    OBVIOUS
  <1>2. Sizes \in SUBSET Nat /\ Sizes # {}
    BY <1>1, FS_Subset, FS_CardinalityType
  <1>3. PICK n \in Sizes : \A m \in Sizes : n <= m
    BY <1>2, LeastOf
  <1>4. PICK s \in Bad : n = Cardinality(s)
    BY <1>3
  <1>5. s \in SUBSET S /\ s # {} /\ s \ {Pick(s)} \notin G
    BY <1>4
  <1>6. /\ s \ {Pick(s)} \in Bad
        /\ Cardinality(s) \in Nat /\ Cardinality(s \ {Pick(s)}) \in Nat
        /\ Cardinality(s) = Cardinality(s \ {Pick(s)}) + 1
    BY <1>5, PickedOut
  <1>7. Cardinality(s) <= Cardinality(s \ {Pick(s)})
    BY <1>3, <1>4, <1>6
  <1> QED
    BY <1>6, <1>7

\* What a sum adds up for s, given the sums for smaller sets.
Added(f, g, s) == IF s = {} THEN 0 ELSE f[Pick(s)] + g[s \ {Pick(s)}]

LEMMA PartialSums ==
    ASSUME NEW S, IsFiniteSet(S), NEW f
    PROVE  \E g : g = [s \in SUBSET S |-> Added(f, g, s)]
  <1> DEFINE UpTo(g, n) == \A s \in SUBSET S : Cardinality(s) <= n => g[s] = Added(f, g, s)
             More(g) == [s \in SUBSET S |-> Added(f, g, s)]
             Bad == {n \in Nat : ~\E g : UpTo(g, n)}
  <1>1. UpTo([s \in SUBSET S |-> 0], 0)
    <2> SUFFICES ASSUME NEW s \in SUBSET S, Cardinality(s) <= 0 PROVE s = {}
      BY DEF Added
    <2>1. SUFFICES ASSUME s # {} PROVE FALSE
      OBVIOUS
    <2>2. /\ Cardinality(s) \in Nat /\ Cardinality(s \ {Pick(s)}) \in Nat
          /\ Cardinality(s) = Cardinality(s \ {Pick(s)}) + 1
      BY <2>1, PickedOut
    <2> QED
      BY <2>2
  <1>2. ASSUME NEW n \in Nat, NEW g, UpTo(g, n) PROVE UpTo(More(g), n + 1)
    <2> SUFFICES ASSUME NEW s \in SUBSET S, Cardinality(s) <= n + 1, s # {}
                 PROVE  More(g)[s \ {Pick(s)}] = g[s \ {Pick(s)}]
      BY DEF Added
    <2>1. s \ {Pick(s)} \in SUBSET S /\ Cardinality(s \ {Pick(s)}) <= n
      BY PickedOut
    <2>2. g[s \ {Pick(s)}] = Added(f, g, s \ {Pick(s)})
      BY <1>2, <2>1
    <2> QED
      BY <2>1, <2>2
  <1>3. Bad = {}
    <2> SUFFICES ASSUME Bad # {} PROVE FALSE
      OBVIOUS
    <2>1. PICK n \in Bad : \A m \in Bad : n <= m
      BY LeastOf
    <2>2. n # 0
      BY <1>1
    <2>3. n - 1 \in Nat /\ n - 1 \notin Bad
      BY <2>1, <2>2
    <2>4. PICK g : UpTo(g, n - 1)
      BY <2>3
    <2>5. UpTo(More(g), (n - 1) + 1)
      BY <1>2, <2>3, <2>4
    <2>6. n \in Nat /\ (n - 1) + 1 = n
      BY <2>1
    <2>7. UpTo(More(g), n)
      BY <2>5, <2>6
    <2> HIDE DEF UpTo, More
    <2> QED
      BY <2>1, <2>7
  <1>4. Cardinality(S) \in Nat
    BY FS_CardinalityType
  <1>5. PICK g : UpTo(g, Cardinality(S))
    BY <1>3, <1>4
  <1>6. \A s \in SUBSET S : g[s] = Added(f, g, s)
    BY <1>5, FS_Subset
  <1> DEFINE h == [s \in SUBSET S |-> g[s]]
  <1>7. ASSUME NEW s \in SUBSET S PROVE Added(f, g, s) = Added(f, h, s)
    BY DEF Added
  <1>8. h = [s \in SUBSET S |-> Added(f, h, s)]
    BY <1>6, <1>7
  <1> QED
    BY <1>8

\* g holds the sums of f over the subsets of S.
SumsOf(g, f, S) ==
    /\ SumFunctionOnSet(f, S) = g[S]
    /\ g[{}] = 0
    /\ \A s \in SUBSET S : s # {} => g[s] = f[Pick(s)] + g[s \ {Pick(s)}]

LEMMA SumsUp ==
    ASSUME NEW S, IsFiniteSet(S), NEW f
    PROVE  \E g : SumsOf(g, f, S)
  <1> DEFINE sums == CHOOSE iter : iter = [s \in SUBSET S |->
                       IF s = {} THEN 0
                       ELSE f[CHOOSE x \in s : TRUE] + iter[s \ {CHOOSE x \in s : TRUE}]]
  <1>1. SumFunctionOnSet(f, S) = sums[S]
    BY Zenon DEF SumFunctionOnSet, FoldFunctionOnSet, MapThenFoldSet
  <1>2. \E g : g = [s \in SUBSET S |-> IF s = {} THEN 0
                       ELSE f[CHOOSE x \in s : TRUE] + g[s \ {CHOOSE x \in s : TRUE}]]
    <2>1. PICK g : g = [s \in SUBSET S |-> Added(f, g, s)]
      BY PartialSums
    <2>2. \A s \in SUBSET S : Added(f, g, s) =
             IF s = {} THEN 0 ELSE f[CHOOSE x \in s : TRUE] + g[s \ {CHOOSE x \in s : TRUE}]
      BY Zenon DEF Added, Pick
    <2>3. g = [s \in SUBSET S |-> IF s = {} THEN 0
                 ELSE f[CHOOSE x \in s : TRUE] + g[s \ {CHOOSE x \in s : TRUE}]]
      BY <2>1, <2>2, Zenon
    <2> QED
      BY <2>3
  <1>3. sums = [s \in SUBSET S |-> IF s = {} THEN 0
                       ELSE f[CHOOSE x \in s : TRUE] + sums[s \ {CHOOSE x \in s : TRUE}]]
    BY <1>2, Zenon
  <1> HIDE DEF sums
  <1>4. \A s \in SUBSET S : sums[s] = IF s = {} THEN 0 ELSE f[Pick(s)] + sums[s \ {Pick(s)}]
    BY <1>3, Zenon DEF Pick
  <1>5. SumsOf(sums, f, S)
    BY <1>1, <1>4 DEF SumsOf
  <1> QED
    BY <1>5

LEMMA SumIsInt ==
    ASSUME NEW S, IsFiniteSet(S), NEW f \in [S -> Int]
    PROVE  SumFunction(f) \in Int
  <1>1. PICK g : SumsOf(g, f, S)
    BY SumsUp
  <1> DEFINE G == {s \in SUBSET S : g[s] \in Int}
  <1>2. ASSUME NEW s \in SUBSET S, s # {}, s \ {Pick(s)} \in G PROVE s \in G
    <2>1. f[Pick(s)] \in Int
      BY <1>2, PickedOut
    <2>2. g[s] = f[Pick(s)] + g[s \ {Pick(s)}]
      BY <1>1, <1>2 DEF SumsOf
    <2> QED
      BY <1>2, <2>1, <2>2
  <1>3. {} \in G
    BY <1>1 DEF SumsOf
  <1> HIDE DEF G
  <1>4. S \in G
    BY <1>2, <1>3, OneByOne
  <1> QED
    BY <1>1, <1>4 DEF G, SumFunction, SumsOf

LEMMA SumMonotone ==
    ASSUME NEW S, IsFiniteSet(S), NEW e \in [S -> Int], NEW f \in [S -> Int],
           \A x \in S : e[x] <= f[x]
    PROVE  SumFunction(e) <= SumFunction(f)
  <1>1. PICK g : SumsOf(g, f, S)
    BY SumsUp
  <1>2. PICK d : SumsOf(d, e, S)
    BY SumsUp
  <1> DEFINE G == {s \in SUBSET S : d[s] \in Int /\ g[s] \in Int /\ d[s] <= g[s]}
  <1>3. ASSUME NEW s \in SUBSET S, s # {}, s \ {Pick(s)} \in G PROVE s \in G
    <2>1. e[Pick(s)] \in Int /\ f[Pick(s)] \in Int /\ e[Pick(s)] <= f[Pick(s)]
      BY <1>3, PickedOut
    <2>2. d[s] = e[Pick(s)] + d[s \ {Pick(s)}] /\ g[s] = f[Pick(s)] + g[s \ {Pick(s)}]
      BY <1>1, <1>2, <1>3 DEF SumsOf
    <2> QED
      BY <1>3, <2>1, <2>2
  <1>4. {} \in G
    BY <1>1, <1>2 DEF SumsOf
  <1> HIDE DEF G
  <1>5. S \in G
    BY <1>3, <1>4, OneByOne
  <1> QED
    BY <1>1, <1>2, <1>5 DEF G, SumFunction, SumsOf

LEMMA SumIsNat ==
    ASSUME NEW S, IsFiniteSet(S), NEW f \in [S -> Nat]
    PROVE  SumFunction(f) \in Nat
  <1>1. PICK g : SumsOf(g, f, S)
    BY SumsUp
  <1> DEFINE G == {s \in SUBSET S : g[s] \in Nat}
  <1>2. ASSUME NEW s \in SUBSET S, s # {}, s \ {Pick(s)} \in G PROVE s \in G
    <2>1. f[Pick(s)] \in Nat
      BY <1>2, PickedOut
    <2>2. g[s] = f[Pick(s)] + g[s \ {Pick(s)}]
      BY <1>1, <1>2 DEF SumsOf
    <2> QED
      BY <1>2, <2>1, <2>2
  <1>3. {} \in G
    BY <1>1 DEF SumsOf
  <1> HIDE DEF G
  <1>4. S \in G
    BY <1>2, <1>3, OneByOne
  <1> QED
    BY <1>1, <1>4 DEF G, SumFunction, SumsOf

LEMMA SumShift ==
    ASSUME NEW S, IsFiniteSet(S), NEW f \in [S -> Int], NEW t \in Int,
           NEW e, e = [x \in S |-> f[x] - t]
    PROVE  SumFunction(e) = SumFunction(f) - t * Cardinality(S)
  <1>1. PICK g : SumsOf(g, f, S)
    BY SumsUp
  <1>2. PICK d : SumsOf(d, e, S)
    BY SumsUp
  <1> DEFINE G == {s \in SUBSET S : g[s] \in Int /\ d[s] = g[s] - t * Cardinality(s)}
  <1>3. ASSUME NEW s \in SUBSET S, s # {}, s \ {Pick(s)} \in G PROVE s \in G
    <2>1. Pick(s) \in S /\ f[Pick(s)] \in Int /\ e[Pick(s)] = f[Pick(s)] - t
      BY <1>3, PickedOut
    <2>2. d[s] = e[Pick(s)] + d[s \ {Pick(s)}] /\ g[s] = f[Pick(s)] + g[s \ {Pick(s)}]
      BY <1>1, <1>2, <1>3 DEF SumsOf
    <2>3. /\ Cardinality(s) \in Nat /\ Cardinality(s \ {Pick(s)}) \in Nat
          /\ Cardinality(s) = Cardinality(s \ {Pick(s)}) + 1
      BY <1>3, PickedOut
    <2>4. /\ g[s \ {Pick(s)}] \in Int
          /\ d[s \ {Pick(s)}] = g[s \ {Pick(s)}] - t * Cardinality(s \ {Pick(s)})
      BY <1>3
    <2>5. \A a, b, k \in Int : (a - t) + (b - t * k) = (a + b) - t * (k + 1)
      OBVIOUS
    <2>6. d[s] = g[s] - t * Cardinality(s)
      BY <2>1, <2>2, <2>3, <2>4, <2>5
    <2> QED
      BY <2>1, <2>2, <2>4, <2>6
  <1>4. {} \in G
    <2>1. t * 0 = 0
      OBVIOUS
    <2> QED
      BY <1>1, <1>2, <2>1, FS_EmptySet DEF SumsOf
  <1> HIDE DEF G
  <1>5. S \in G
    BY <1>3, <1>4, OneByOne
  <1>6. SumFunction(e) = d[S] /\ SumFunction(f) = g[S]
    BY <1>1, <1>2 DEF SumFunction, SumsOf
  <1> QED
    BY <1>5, <1>6 DEF G

\* f is e, and one more at the places of T.
OneMore(e, f, S, T) ==
    /\ T \in SUBSET S
    /\ \A x \in T : f[x] = e[x] + 1
    /\ \A x \in S \ T : f[x] = e[x]

LEMMA SumCounts ==
    ASSUME NEW S, IsFiniteSet(S), NEW e \in [S -> Nat], NEW f \in [S -> Nat], NEW T, OneMore(e, f, S, T)
    PROVE  SumFunction(f) = SumFunction(e) + Cardinality(T)
  <1>0. /\ T \in SUBSET S
        /\ \A x \in T : f[x] = e[x] + 1
        /\ \A x \in S \ T : f[x] = e[x]
    BY DEF OneMore
  <1>1. PICK g : SumsOf(g, f, S)
    BY SumsUp
  <1>2. PICK d : SumsOf(d, e, S)
    BY SumsUp
  <1> DEFINE G == {s \in SUBSET S : d[s] \in Nat /\ g[s] = d[s] + Cardinality(T \cap s)}
  <1>3. ASSUME NEW s \in SUBSET S, s # {}, s \ {Pick(s)} \in G PROVE s \in G
    <2> DEFINE x == Pick(s)
               t == T \cap (s \ {x})
    <2>1. x \in s /\ x \in S /\ e[x] \in Nat
      BY <1>3, PickedOut
    <2>2. d[s] = e[x] + d[s \ {x}] /\ g[s] = f[x] + g[s \ {x}]
      BY <1>1, <1>2, <1>3 DEF SumsOf
    <2>3. IsFiniteSet(t) /\ Cardinality(t) \in Nat
      <3>1. t \in SUBSET S
        BY <1>0
      <3> QED
        BY <3>1, FS_Subset, FS_CardinalityType
    <2>4. d[s \ {x}] \in Nat /\ g[s \ {x}] = d[s \ {x}] + Cardinality(t)
      BY <1>3
    <2>5. \/ x \in T /\ f[x] = e[x] + 1 /\ Cardinality(T \cap s) = Cardinality(t) + 1
          \/ x \notin T /\ f[x] = e[x] /\ T \cap s = t
      <3>1. ASSUME x \in T PROVE Cardinality(T \cap s) = Cardinality(t) + 1
        <4>1. T \cap s = t \cup {x} /\ x \notin t
          BY <2>1, <3>1
        <4> QED
          BY <2>3, <4>1, FS_AddElement
      <3>2. ASSUME x \notin T PROVE T \cap s = t
        BY <3>2
      <3>3. x \in T => f[x] = e[x] + 1
        BY <1>0
      <3>4. x \notin T => f[x] = e[x]
        BY <1>0, <2>1
      <3> QED
        BY <3>1, <3>2, <3>3, <3>4
    <2> HIDE DEF x, t
    <2>6. d[s] \in Nat /\ g[s] = d[s] + Cardinality(T \cap s)
      <3>1. PICK a, b, k \in Nat : a = e[x] /\ b = d[s \ {x}] /\ k = Cardinality(t)
        BY <2>1, <2>3, <2>4
      <3>2. d[s] = a + b
        BY <2>2, <3>1
      <3>3. CASE x \in T
        <4>1. g[s] = (a + 1) + (b + k) /\ Cardinality(T \cap s) = k + 1
          BY <2>2, <2>4, <2>5, <3>1, <3>3
        <4> QED
          BY <3>2, <4>1
      <3>4. CASE x \notin T
        <4>1. g[s] = a + (b + k) /\ Cardinality(T \cap s) = k
          BY <2>2, <2>4, <2>5, <3>1, <3>4
        <4> QED
          BY <3>2, <4>1
      <3> QED
        BY <3>3, <3>4
    <2>7. s \in SUBSET S
      BY <1>3
    <2> QED
      BY <2>6, <2>7
  <1>4. {} \in G
    <2>1. T \cap {} = {}
      OBVIOUS
    <2> QED
      BY <1>1, <1>2, <2>1, FS_EmptySet DEF SumsOf
  <1> HIDE DEF G
  <1>5. S \in G
    BY <1>3, <1>4, OneByOne
  <1>6. SumFunction(e) = d[S] /\ SumFunction(f) = g[S] /\ T \cap S = T
    BY <1>0, <1>1, <1>2 DEF SumFunction, SumsOf
  <1> QED
    BY <1>5, <1>6 DEF G

-----------------------------------------------------------------------------
(* The stored results, the metrics over them and the p95 latency *)

LEMMA FiniteSamples == IsFiniteSet(Samples)
  BY VerdictAssumption, FS_Product DEF Samples

LEMMA ResultFields ==
    ASSUME NEW x \in StoredResult
    PROVE  /\ x.outcome \in {"valid", "invalid", "oom"}
           /\ x.quality \in (0..10) \cup {NoValue} /\ x.latency \in Nat
  BY DEF StoredResult

LEMMA SelectedSamples ==
    ASSUME VerdictTypeOK
    PROVE  /\ Selected \in SUBSET Samples /\ IsFiniteSet(Selected)
           /\ Cardinality(Selected) \in Nat
           /\ \A s \in Selected : /\ Len(revisions[s]) \in Nat \ {0}
                                  /\ Latest(s) = Current(s) /\ Latest(s) \in StoredResult
  <1>1. Selected \in SUBSET Samples
    BY DEF Selected
  <1>2. IsFiniteSet(Selected) /\ Cardinality(Selected) \in Nat
    BY <1>1, FiniteSamples, FS_Subset, FS_CardinalityType
  <1>3. ASSUME NEW s \in Selected
        PROVE  /\ Len(revisions[s]) \in Nat \ {0}
               /\ Latest(s) = Current(s) /\ Latest(s) \in StoredResult
    <2>1. revisions[s] \in Seq(StoredResult)
      BY <1>1 DEF VerdictTypeOK
    <2>2. Len(revisions[s]) \in Nat \ {0}
      BY <2>1 DEF Selected
    <2>3. Latest(s) = Current(s)
      BY DEF Latest, Last, Current
    <2> QED
      BY <2>1, <2>2, <2>3, ElementOfSeq DEF Current
  <1> QED
    BY <1>1, <1>2, <1>3

LEMMA ScoredSamples ==
    ASSUME VerdictTypeOK
    PROVE  /\ Scored \in SUBSET Selected /\ IsFiniteSet(Scored) /\ Cardinality(Scored) \in Nat
           /\ \A s \in Scored : Latest(s).quality \in 0..10
           /\ [s \in Scored |-> Latest(s).quality] \in [Scored -> Nat]
  <1>1. Scored \in SUBSET Selected
    BY DEF Scored
  <1>2. \A s \in Scored : Latest(s).quality \in 0..10
    BY <1>1, SelectedSamples, ResultFields DEF Scored
  <1> QED
    BY <1>1, <1>2, SelectedSamples, FS_Subset, FS_CardinalityType

LEMMA MeanIsMetric ==
    ASSUME VerdictTypeOK
    PROVE  /\ MeanQuality \in [value: Nat, of: Nat, size: Nat]
           /\ MeanQuality.value = SumFunction([s \in Scored |-> Latest(s).quality])
           /\ MeanQuality.of = Cardinality(Scored) /\ MeanQuality.size = Cardinality(Scored)
           /\ MeanQuality.of = 0 => MeanQuality.value = 0
  <1> DEFINE f == [s \in Scored |-> Latest(s).quality]
  <1>1. IsFiniteSet(Scored) /\ Cardinality(Scored) \in Nat /\ f \in [Scored -> Nat]
    BY ScoredSamples
  <1>2. MeanQuality = [value |-> SumFunction(f), of |-> Cardinality(Scored), size |-> Cardinality(Scored)]
    BY DEF MeanQuality, Fraction
  <1>3. SumFunction(f) \in Nat
    BY <1>1, SumIsNat
  <1>4. ASSUME Cardinality(Scored) = 0 PROVE SumFunction(f) = 0
    <2>1. DOMAIN f = {}
      BY <1>1, <1>4, FS_EmptySet
    <2>2. PICK g : SumsOf(g, f, {})
      BY SumsUp, FS_EmptySet
    <2> QED
      BY <2>1, <2>2 DEF SumsOf, SumFunction
  <1> QED
    BY <1>1, <1>2, <1>3, <1>4

\* How many results are at most v late.
UpTo(v) == {s \in Selected : Latest(s).latency <= v}

\* v is the p95 latency.
IsP95(v) ==
    /\ v \in {Latest(s).latency : s \in Selected}
    /\ Cardinality(UpTo(v)) >= Rank95(Cardinality(Selected))
    /\ Cardinality(UpTo(v - 1)) < Rank95(Cardinality(Selected))

LEMMA RankBounds ==
    ASSUME NEW n \in Nat \ {0}
    PROVE  Rank95(n) \in 1..n /\ 20 * (n - Rank95(n)) <= n
  <1> DEFINE k == (95 * n + 99) \div 100
  <1>1. k \in Int /\ 100 * k <= 95 * n + 99 /\ 95 * n + 99 < 100 * k + 100
    OBVIOUS
  <1>2. Rank95(n) = k
    BY DEF Rank95
  <1> HIDE DEF k
  <1> QED
    BY <1>1, <1>2

LEMMA UpToGrows ==
    ASSUME VerdictTypeOK, NEW v \in Int, NEW w \in Int, v <= w
    PROVE  /\ UpTo(v) \in SUBSET UpTo(w) /\ UpTo(v) \in SUBSET Selected
           /\ IsFiniteSet(UpTo(w)) /\ IsFiniteSet(UpTo(v))
           /\ Cardinality(UpTo(v)) \in Nat /\ Cardinality(UpTo(w)) \in Nat
           /\ Cardinality(UpTo(v)) <= Cardinality(UpTo(w))
           /\ Cardinality(UpTo(w)) <= Cardinality(Selected)
  <1>1. \A s \in Selected : Latest(s).latency \in Nat
    BY SelectedSamples, ResultFields
  <1>2. UpTo(v) \in SUBSET UpTo(w)
    <2>1. \A x \in Nat : x <= v => x <= w
      OBVIOUS
    <2> QED
      BY <1>1, <2>1 DEF UpTo
  <1>3. UpTo(w) \in SUBSET Selected /\ UpTo(v) \in SUBSET Selected
    BY DEF UpTo
  <1>4. IsFiniteSet(UpTo(w)) /\ IsFiniteSet(UpTo(v)) /\ Cardinality(UpTo(w)) <= Cardinality(Selected)
    BY <1>3, SelectedSamples, FS_Subset
  <1> QED
    BY <1>2, <1>3, <1>4, FS_Subset, FS_CardinalityType

LEMMA P95Exists ==
    ASSUME VerdictTypeOK, Selected # {}
    PROVE  /\ \E v \in {Latest(s).latency : s \in Selected} : IsP95(v)
           /\ IsP95(P95Latency.value)
           /\ P95Latency.value \in Nat
           /\ P95Latency.of = 1 /\ P95Latency.size = Cardinality(Selected)
           /\ P95Latency = [value |-> P95Latency.value, of |-> 1, size |-> Cardinality(Selected)]
  <1> DEFINE n == Cardinality(Selected)
             Late == {Latest(s).latency : s \in Selected}
             Enough == {v \in Nat : Cardinality(UpTo(v)) >= Rank95(n)}
  <1>1. n \in Nat \ {0}
    BY SelectedSamples, FS_EmptySet
  <1>2. Rank95(n) \in 1..n
    BY <1>1, RankBounds
  <1>3. Late \in SUBSET Nat /\ \A s \in Selected : Latest(s).latency \in Nat
    BY SelectedSamples, ResultFields
  <1> DEFINE Bounded == {t \in SUBSET Selected :
                           \E m \in Nat : \A s \in t : Latest(s).latency <= m}
  <1>4a. ASSUME NEW t \in SUBSET Selected, t # {}, t \ {Pick(t)} \in Bounded PROVE t \in Bounded
    <2>1. PICK m \in Nat : \A s \in t \ {Pick(t)} : Latest(s).latency <= m
      BY <1>4a
    <2> DEFINE l == Latest(Pick(t)).latency
    <2>2. l \in Nat
      BY <1>3, <1>4a, SelectedSamples, PickedOut
    <2> HIDE DEF l
    <2>3. PICK k \in Nat : m <= k /\ l <= k
      <3>1. m <= m + l /\ l <= m + l /\ m + l \in Nat
        BY <2>2
      <3> QED
        BY <3>1
    <2>4. ASSUME NEW s \in t PROVE Latest(s).latency <= k
      <3>1. CASE s = Pick(t)
        BY <2>3, <3>1 DEF l
      <3>2. CASE s # Pick(t)
        <4>1. Latest(s).latency <= m /\ Latest(s).latency \in Nat
          BY <1>3, <2>1, <3>2
        <4> QED
          BY <2>3, <4>1
      <3> QED
        BY <3>1, <3>2
    <2> QED
      BY <2>4
  <1>4b. {} \in Bounded
    OBVIOUS
  <1>4c. Selected \in Bounded
    <2> HIDE DEF Bounded
    <2> QED
      BY <1>4a, <1>4b, SelectedSamples, OneByOne
  <1>4. PICK m \in Nat : \A s \in Selected : Latest(s).latency <= m
    BY <1>4c
  <1>5. UpTo(m) = Selected
    BY <1>4 DEF UpTo
  <1>6. m \in Enough
    BY <1>1, <1>2, <1>5
  <1>7. PICK v \in Enough : \A w \in Enough : v <= w
    BY <1>6, LeastOf
  <1>8. v \in Nat /\ v - 1 \in Int /\ Cardinality(UpTo(v)) \in Nat /\ Cardinality(UpTo(v - 1)) \in Nat
    BY <1>7, UpToGrows
  <1>9. Cardinality(UpTo(v - 1)) < Rank95(n)
    <2>1. CASE v = 0
      <3>1. \A s \in Selected : Latest(s).latency \in Nat
        BY SelectedSamples, ResultFields
      <3>2. UpTo(v - 1) = {}
        BY <2>1, <3>1 DEF UpTo
      <3> QED
        BY <1>2, <3>2, FS_EmptySet
    <2>2. CASE v # 0
      <3>1. v - 1 \in Nat /\ v - 1 \notin Enough
        BY <1>7, <1>8, <2>2
      <3> QED
        BY <1>1, <1>2, <1>8, <3>1
    <2> QED
      BY <2>1, <2>2
  <1>10. v \in Late
    <2>1. SUFFICES ASSUME v \notin Late PROVE UpTo(v) = UpTo(v - 1)
      BY <1>1, <1>2, <1>7, <1>8, <1>9
    <2>2. \A s \in Selected : Latest(s).latency \in Nat /\ Latest(s).latency # v
      BY <1>3, <2>1
    <2>3. \A x \in Nat : x # v => (x <= v <=> x <= v - 1)
      BY <1>8
    <2> QED
      BY <2>2, <2>3 DEF UpTo
  <1>11. IsP95(v)
    BY <1>7, <1>9, <1>10 DEF IsP95
  <1>12. P95Latency = [value |-> CHOOSE w \in Late : IsP95(w), of |-> 1, size |-> n]
    <2>1. P95Latency = [value |-> CHOOSE w \in Late :
                            /\ Cardinality({s \in Selected : Latest(s).latency <= w}) >= Rank95(n)
                            /\ Cardinality({s \in Selected : Latest(s).latency <= w - 1}) < Rank95(n),
                        of |-> 1, size |-> n]
      BY Zenon DEF P95Latency
    <2>2. \A w \in Late : IsP95(w) <=>
              /\ Cardinality({s \in Selected : Latest(s).latency <= w}) >= Rank95(n)
              /\ Cardinality({s \in Selected : Latest(s).latency <= w - 1}) < Rank95(n)
      BY Zenon DEF IsP95, UpTo
    <2>3. (CHOOSE w \in Late : IsP95(w)) = CHOOSE w \in Late :
              /\ Cardinality({s \in Selected : Latest(s).latency <= w}) >= Rank95(n)
              /\ Cardinality({s \in Selected : Latest(s).latency <= w - 1}) < Rank95(n)
      BY <2>2, Zenon
    <2> QED
      BY <2>1, <2>3, Zenon
  <1>13. \E w \in Late : IsP95(w)
    BY <1>10, <1>11
  <1> DEFINE p == CHOOSE w \in Late : IsP95(w)
  <1>14. p \in Late /\ IsP95(p)
    BY <1>13, Zenon
  <1> HIDE DEF p
  <1> QED
    BY <1>3, <1>12, <1>13, <1>14 DEF p

(***************************************************************************)
(* Typing: the bound on results needs their sum, and the metrics that are  *)
(* promoted need the p95 latency to exist.                                 *)
(***************************************************************************)

\* An active baseline holds metrics; a mean over no results has no value.
ScorecardsHold ==
    \A p \in GatePolicies : scorecard[p] # <<>> =>
        LET mean == scorecard[p][1].mean_quality_score
        IN  mean.of = 0 => mean.value = 0

VerdictInv == VerdictTypeOK /\ ScorecardsHold

LEMMA PromotedMetrics ==
    ASSUME VerdictTypeOK, NEW card, card = [key \in Comparable |-> CalculatedMetric(key)]
    PROVE  /\ card \in [Comparable -> [value: Nat, of: Nat, size: Nat]]
           /\ card.mean_quality_score = MeanQuality
           /\ card.p95_end_to_end_latency_ms = P95Latency
  <1>1. CalculatedMetric("mean_quality_score") = MeanQuality
    BY DEF CalculatedMetric
  <1>2. CalculatedMetric("p95_end_to_end_latency_ms") = P95Latency
    BY DEF CalculatedMetric
  <1>3. P95Latency \in [value: Nat, of: Nat, size: Nat]
    <2>1. CASE Selected = {}
      <3>1. P95Latency = Missing
        BY <2>1 DEF P95Latency
      <3> QED
        BY <3>1 DEF Missing
    <2>2. CASE Selected # {}
      BY <2>2, P95Exists, SelectedSamples
    <2> QED
      BY <2>1, <2>2
  <1>4. MeanQuality \in [value: Nat, of: Nat, size: Nat]
    BY MeanIsMetric
  <1> QED
    BY <1>1, <1>2, <1>3, <1>4 DEF Comparable

\* How many results are stored, with one more for each sample of T.
LEMMA StoredGrow ==
    ASSUME revisions \in [Samples -> Seq(StoredResult)],
           revisions' \in [Samples -> Seq(StoredResult)],
           NEW T \in SUBSET Samples,
           \A s \in T : Len(revisions'[s]) = Len(revisions[s]) + 1,
           \A s \in Samples \ T : Len(revisions'[s]) = Len(revisions[s])
    PROVE  StoredResults' = StoredResults + Cardinality(T) /\ StoredResults \in Nat
  <1> DEFINE e == [s \in Samples |-> Len(revisions[s])]
             f == [s \in Samples |-> Len(revisions'[s])]
  <1>1. e \in [Samples -> Nat] /\ f \in [Samples -> Nat]
    OBVIOUS
  <1>2. /\ \A s \in T : f[s] = e[s] + 1
        /\ \A s \in Samples \ T : f[s] = e[s]
    OBVIOUS
  <1>3. SumFunction(f) = SumFunction(e) + Cardinality(T) /\ SumFunction(e) \in Nat
    <2> HIDE DEF e, f
    <2>1. SumFunction(e) \in Nat
      BY <1>1, FiniteSamples, SumIsNat
    <2>2. OneMore(e, f, Samples, T)
      BY <1>2 DEF OneMore
    <2>3. SumFunction(f) = SumFunction(e) + Cardinality(T)
      BY <1>1, <2>2, FiniteSamples, SumCounts
    <2> QED
      BY <2>1, <2>3
  <1>4. StoredResults = SumFunction(e)
    BY DEF StoredResults
  <1>5. StoredResults' = SumFunction(f)
    BY DEF StoredResults, Samples
  <1> QED
    BY <1>3, <1>4, <1>5

LEMMA SumOfZeros ==
    ASSUME NEW S, IsFiniteSet(S), NEW f \in [S -> {0}]
    PROVE  SumFunction(f) = 0
  <1>1. PICK g : SumsOf(g, f, S)
    BY SumsUp
  <1> DEFINE G == {s \in SUBSET S : g[s] = 0}
  <1>2. {} \in G
    BY <1>1 DEF SumsOf
  <1>3. ASSUME NEW s \in SUBSET S, s # {}, s \ {Pick(s)} \in G PROVE s \in G
    <2>1. f[Pick(s)] = 0
      BY <1>3, PickedOut
    <2>2. g[s] = f[Pick(s)] + g[s \ {Pick(s)}]
      BY <1>1, <1>3 DEF SumsOf
    <2> QED
      BY <1>3, <2>1, <2>2
  <1> HIDE DEF G
  <1>4. S \in G
    BY <1>2, <1>3, OneByOne
  <1> QED
    BY <1>1, <1>4 DEF G, SumsOf, SumFunction

LEMMA VerdictInitOK == VerdictInit => VerdictInv
  <1> SUFFICES ASSUME VerdictInit PROVE VerdictInv
    OBVIOUS
  <1>1. revisions \in [Samples -> Seq(StoredResult)]
    BY DEF VerdictInit
  <1> DEFINE e == [s \in Samples |-> Len(revisions[s])]
  <1>2. e \in [Samples -> {0}]
    BY DEF VerdictInit
  <1>3. StoredResults <= MaxRows
    <2>1. SumFunction(e) = 0
      <3> HIDE DEF e
      <3> QED
        BY <1>2, FiniteSamples, SumOfZeros
    <2> QED
      BY <2>1, VerdictAssumption DEF StoredResults
  <1>4. scorecard \in [GatePolicies -> Seq([Comparable -> [value: Nat, of: Nat, size: Nat]])]
    BY DEF VerdictInit
  <1>5. \A p \in GatePolicies : Len(scorecard[p]) <= 1 /\ scorecard[p] = <<>>
    BY DEF VerdictInit
  <1>6. aborted \subseteq Runs /\ active \subseteq Cases /\ promotions \in 0..MaxPromotions
    BY VerdictAssumption DEF VerdictInit
  <1> QED
    BY <1>1, <1>3, <1>4, <1>5, <1>6 DEF VerdictInv, VerdictTypeOK, ScorecardsHold

\* The two steps that store results.
LEMMA StoreTyped ==
    ASSUME VerdictTypeOK, NEW run \in Runs, NEW covered \in SUBSET active,
           NEW content \in [covered -> Contents], StoreResults(run, content),
           StoredResults + Cardinality(covered) <= MaxRows
    PROVE  revisions' \in [Samples -> Seq(StoredResult)] /\ StoredResults' <= MaxRows
  <1>1. \A s \in Samples : s = <<s[1], s[2]>> /\ s[1] \in Runs /\ s[2] \in Cases
    BY DEF Samples
  <1> DEFINE T == {s \in Samples : s[1] = run /\ s[2] \in covered}
             f == [s \in T |-> s[2]]
  <1>2. covered \subseteq Cases /\ \A c \in covered : content[c] \in StoredResult
    BY VerdictAssumption DEF VerdictTypeOK
  <1>3. revisions' = [s \in Samples |-> IF s \in T THEN <<content[s[2]]>> ELSE revisions[s]]
    BY DEF StoreResults
  <1>4. revisions' \in [Samples -> Seq(StoredResult)]
    BY <1>2, <1>3 DEF VerdictTypeOK
  <1>5. \A s \in T : revisions[s] = <<>> /\ revisions'[s] = <<content[s[2]]>>
    <2>1. \A s \in T : s = <<run, s[2]>> /\ s[2] \in Cases
      BY <1>1, <1>2
    <2>2. \A c \in Cases : revisions[<<run, c>>] = <<>>
      BY DEF StoreResults
    <2> QED
      BY <1>3, <2>1, <2>2
  <1>6. \A s \in Samples \ T : revisions'[s] = revisions[s]
    BY <1>3
  <1>7. StoredResults' = StoredResults + Cardinality(T) /\ StoredResults \in Nat
    <2>1. \A s \in T : Len(revisions'[s]) = Len(revisions[s]) + 1
      <3>1. \A x : Len(<<x>>) = Len(<<>>) + 1
        OBVIOUS
      <3> QED
        BY <1>5, <3>1
    <2> HIDE DEF T
    <2>2. T \in SUBSET Samples
      BY DEF T
    <2>3. \A s \in Samples \ T : Len(revisions'[s]) = Len(revisions[s])
      BY <1>6
    <2>4. revisions \in [Samples -> Seq(StoredResult)]
      BY DEF VerdictTypeOK
    <2> QED
      BY <1>4, <2>1, <2>2, <2>3, <2>4, StoredGrow
  <1>8. Cardinality(T) = Cardinality(covered)
    <2>1. f \in Injection(T, covered)
      <3>1. f \in [T -> covered]
        OBVIOUS
      <3>2. \A s, t \in T : f[s] = f[t] => s = t
        BY <1>1
      <3> QED
        BY <3>1, <3>2 DEF Injection, IsInjective
    <2>2. f \in Surjection(T, covered)
      <3>1. ASSUME NEW c \in covered PROVE \E s \in T : f[s] = c
        <4>1. <<run, c>> \in T
          BY <1>2 DEF Samples
        <4> QED
          BY <4>1
      <3> QED
        BY <3>1 DEF Surjection
    <2>3. ExistsBijection(T, covered)
      BY <2>1, <2>2 DEF ExistsBijection, Bijection
    <2>4. IsFiniteSet(T)
      BY FiniteSamples, FS_Subset
    <2> HIDE DEF T
    <2> QED
      BY <2>3, <2>4, FS_Bijection
  <1> HIDE DEF T
  <1> QED
    BY <1>4, <1>7, <1>8

LEMMA ReviseTyped ==
    ASSUME VerdictTypeOK, NEW s \in Samples, NEW content \in Contents, Revise(s, content),
           StoredResults < MaxRows
    PROVE  /\ revisions' \in [Samples -> Seq(StoredResult)] /\ StoredResults' <= MaxRows
           /\ revisions'[s] = Append(revisions[s], content)
           /\ \A t \in Samples \ {s} : revisions'[t] = revisions[t]
  <1>1. content \in StoredResult /\ revisions \in [Samples -> Seq(StoredResult)]
    BY VerdictAssumption DEF VerdictTypeOK
  <1>2. /\ revisions'[s] = Append(revisions[s], content)
        /\ \A t \in Samples \ {s} : revisions'[t] = revisions[t]
        /\ revisions' = [revisions EXCEPT ![s] = Append(revisions[s], content)]
    BY <1>1 DEF Revise
  <1>3. /\ Append(revisions[s], content) \in Seq(StoredResult)
        /\ Len(Append(revisions[s], content)) = Len(revisions[s]) + 1
    BY <1>1, AppendProperties
  <1>4. revisions' \in [Samples -> Seq(StoredResult)]
    BY <1>1, <1>2, <1>3
  <1>5. StoredResults' = StoredResults + Cardinality({s}) /\ StoredResults \in Nat
    <2>1. \A t \in {s} : Len(revisions'[t]) = Len(revisions[t]) + 1
      BY <1>2, <1>3
    <2>2. \A t \in Samples \ {s} : Len(revisions'[t]) = Len(revisions[t])
      BY <1>2
    <2>3. {s} \in SUBSET Samples
      OBVIOUS
    <2> QED
      BY <1>1, <1>4, <2>1, <2>2, <2>3, StoredGrow
  <1>6. MaxRows \in Nat /\ Cardinality({s}) = 1
    BY VerdictAssumption, FS_Singleton
  <1> QED
    BY <1>2, <1>4, <1>5, <1>6

LEMMA ReviewTyped ==
    ASSUME VerdictTypeOK, NEW s \in Samples, NEW i \in DOMAIN revisions[s], NEW score \in Scores,
           ApplyReview(s, i, score)
    PROVE  /\ revisions' \in [Samples -> Seq(StoredResult)] /\ StoredResults' <= MaxRows
           /\ \A t \in Samples : DOMAIN revisions'[t] = DOMAIN revisions[t]
                                 /\ Len(revisions'[t]) = Len(revisions[t])
  <1> DEFINE r == [revisions[s][i] EXCEPT !.quality = score]
             q == [revisions[s] EXCEPT ![i] = r]
  <1>1. revisions \in [Samples -> Seq(StoredResult)] /\ score \in 0..10
    BY VerdictAssumption DEF VerdictTypeOK
  <1>2. revisions' = [revisions EXCEPT ![s] = q]
    BY DEF ApplyReview
  <1>3. r \in StoredResult
    <2>1. revisions[s][i] \in StoredResult
      BY <1>1
    <2> QED
      BY <1>1, <2>1 DEF StoredResult
  <1>4. q \in Seq(StoredResult) /\ Len(q) = Len(revisions[s]) /\ DOMAIN q = DOMAIN revisions[s]
    <2> HIDE DEF r
    <2>1. revisions[s] \in Seq(StoredResult) /\ Len(revisions[s]) \in Nat
          /\ DOMAIN revisions[s] = 1..Len(revisions[s])
      BY <1>1
    <2>2. q \in [1..Len(revisions[s]) -> StoredResult]
      BY <1>3, <2>1
    <2> QED
      BY <2>1, <2>2
  <1> HIDE DEF q
  <1>5. revisions' \in [Samples -> Seq(StoredResult)]
    BY <1>1, <1>2, <1>4
  <1>6. \A t \in Samples : Len(revisions'[t]) = Len(revisions[t]) /\ DOMAIN revisions'[t] = DOMAIN revisions[t]
    BY <1>1, <1>2, <1>4
  <1>7. StoredResults' = StoredResults + Cardinality({}) /\ StoredResults \in Nat
    <2>1. \A t \in Samples \ {} : Len(revisions'[t]) = Len(revisions[t])
      BY <1>6
    <2>2. {} \in SUBSET Samples /\ \A t \in {} : Len(revisions'[t]) = Len(revisions[t]) + 1
      OBVIOUS
    <2> QED
      BY <1>1, <1>5, <2>1, <2>2, StoredGrow
  <1>8. StoredResults <= MaxRows
    BY DEF VerdictTypeOK
  <1> QED
    BY <1>5, <1>6, <1>7, <1>8, FS_EmptySet

LEMMA VerdictStep ==
    ASSUME VerdictInv, [VerdictNext]_verdictVars
    PROVE  VerdictInv'
  <1>1. VerdictTypeOK /\ ScorecardsHold
    BY DEF VerdictInv
  <1>2. ASSUME revisions' \in [Samples -> Seq(StoredResult)], StoredResults' <= MaxRows,
               aborted' \subseteq Runs, active' \subseteq Cases,
               UNCHANGED <<scorecard, promotions>>
        PROVE  VerdictInv'
    BY <1>1, <1>2 DEF VerdictInv, VerdictTypeOK, ScorecardsHold, Samples
  <1>3. aborted \subseteq Runs /\ active \subseteq Cases
    BY <1>1 DEF VerdictTypeOK
  <1>4. UNCHANGED revisions =>
           revisions' \in [Samples -> Seq(StoredResult)] /\ StoredResults' <= MaxRows
    <2>1. StoredResults <= MaxRows /\ revisions \in [Samples -> Seq(StoredResult)]
      BY <1>1 DEF VerdictTypeOK
    <2>2. UNCHANGED revisions => StoredResults' = StoredResults
      BY DEF StoredResults, Samples
    <2> QED
      BY <2>1, <2>2
  <1>5. ASSUME NEW run \in Runs, NEW covered \in SUBSET active, NEW content \in [covered -> Contents],
               StoredResults + Cardinality(covered) <= MaxRows,
               CompleteRun(run, content) \/ FailRun(run, content)
        PROVE  VerdictInv'
    <2>1. StoreResults(run, content)
      BY <1>5 DEF CompleteRun, FailRun
    <2>2. revisions' \in [Samples -> Seq(StoredResult)] /\ StoredResults' <= MaxRows
      BY <1>1, <1>5, <2>1, StoreTyped
    <2>3. aborted' \subseteq Runs /\ active' \subseteq Cases /\ UNCHANGED <<scorecard, promotions>>
      BY <1>3, <1>5 DEF CompleteRun, FailRun
    <2> QED
      BY <1>2, <2>2, <2>3
  <1>6. ASSUME NEW s \in Samples, NEW content \in Contents, StoredResults < MaxRows, Revise(s, content)
        PROVE  VerdictInv'
    <2>1. revisions' \in [Samples -> Seq(StoredResult)] /\ StoredResults' <= MaxRows
      BY <1>1, <1>6, ReviseTyped
    <2>2. UNCHANGED <<aborted, active, scorecard, promotions>>
      BY <1>6 DEF Revise
    <2> QED
      BY <1>2, <1>3, <2>1, <2>2
  <1>7. ASSUME NEW s \in Samples, NEW score \in Scores, NEW i \in DOMAIN revisions[s],
               ApplyReview(s, i, score)
        PROVE  VerdictInv'
    <2>1. revisions' \in [Samples -> Seq(StoredResult)] /\ StoredResults' <= MaxRows
      BY <1>1, <1>7, ReviewTyped
    <2>2. UNCHANGED <<aborted, active, scorecard, promotions>>
      BY <1>7 DEF ApplyReview
    <2> QED
      BY <1>2, <1>3, <2>1, <2>2
  <1>8. ASSUME NEW c \in Cases, RetireCase(c) PROVE VerdictInv'
    BY <1>2, <1>3, <1>4, <1>8 DEF RetireCase
  <1>9. ASSUME NEW p \in GatePolicies, PromoteBaseline(p) PROVE VerdictInv'
    <2> DEFINE card == [key \in Comparable |-> CalculatedMetric(key)]
               Metric == [value: Nat, of: Nat, size: Nat]
    <2>1. /\ card \in [Comparable -> Metric] /\ card.mean_quality_score = MeanQuality
          /\ MeanQuality.of = 0 => MeanQuality.value = 0
      BY <1>1, PromotedMetrics, MeanIsMetric
    <2>2. /\ scorecard' = [scorecard EXCEPT ![p] = <<card>>] /\ promotions' = promotions + 1
          /\ promotions < MaxPromotions /\ UNCHANGED <<revisions, aborted, active>>
      BY <1>9 DEF PromoteBaseline
    <2>3. scorecard \in [GatePolicies -> Seq([Comparable -> Metric])]
      BY <1>1 DEF VerdictTypeOK
    <2> HIDE DEF card, Metric
    <2>4. /\ <<card>> \in Seq([Comparable -> Metric]) /\ Len(<<card>>) = 1 /\ <<card>>[1] = card
      BY <2>1
    <2>5. /\ scorecard' \in [GatePolicies -> Seq([Comparable -> Metric])]
          /\ scorecard'[p] = <<card>>
          /\ \A q \in GatePolicies \ {p} : scorecard'[q] = scorecard[q]
      BY <2>2, <2>3, <2>4
    <2>6. \A q \in GatePolicies : Len(scorecard'[q]) <= 1
      <3>1. \A q \in GatePolicies : Len(scorecard[q]) <= 1
        BY <1>1 DEF VerdictTypeOK
      <3>2. Len(scorecard'[p]) <= 1
        BY <2>4, <2>5
      <3>3. \A q \in GatePolicies \ {p} : Len(scorecard'[q]) <= 1
        BY <2>5, <3>1
      <3> QED
        BY <3>2, <3>3
    <2>7. promotions' \in 0..MaxPromotions
      <3>1. promotions \in Nat /\ MaxPromotions \in Nat
        BY <1>1, VerdictAssumption DEF VerdictTypeOK
      <3> QED
        BY <2>2, <3>1
    <2>8. VerdictTypeOK'
      BY <1>3, <1>4, <2>2, <2>5, <2>6, <2>7 DEF VerdictTypeOK, Metric, Samples
    <2>9. ScorecardsHold'
      <3> SUFFICES ASSUME NEW q \in GatePolicies, scorecard'[q] # <<>>,
                          scorecard'[q][1].mean_quality_score.of = 0
                   PROVE  scorecard'[q][1].mean_quality_score.value = 0
        BY DEF ScorecardsHold
      <3>1. CASE q = p
        <4>1. scorecard'[q][1] = card
          BY <2>4, <2>5, <3>1
        <4>2. MeanQuality.of = 0
          BY <2>1, <4>1
        <4> QED
          BY <2>1, <4>1, <4>2
      <3>2. CASE q # p
        BY <1>1, <2>5, <3>2 DEF ScorecardsHold
      <3> QED
        BY <3>1, <3>2
    <2> QED
      BY <2>8, <2>9 DEF VerdictInv
  <1>10. ASSUME UNCHANGED verdictVars PROVE VerdictInv'
    BY <1>2, <1>3, <1>4, <1>10 DEF verdictVars
  <1> QED
    BY <1>5, <1>6, <1>7, <1>8, <1>9, <1>10 DEF VerdictNext

LEMMA VerdictInvariant == VerdictSpec => []VerdictInv
  BY VerdictInitOK, VerdictStep, PTL DEF VerdictSpec

\* Results, cases, baselines and promotions keep their types.
THEOREM VerdictTypeCorrect == VerdictSpec => []VerdictTypeOK
  <1>1. VerdictInv => VerdictTypeOK
    BY DEF VerdictInv
  <1> QED
    BY <1>1, VerdictInvariant, PTL

-----------------------------------------------------------------------------
(* An approval is earned *)

\* What counts is what stands, and is judged by its last revision.
LEMMA CountedIsSelected ==
    ASSUME VerdictTypeOK
    PROVE  /\ {s \in Runs \X active : Stands(s)} = Selected
           /\ {s \in Selected : Current(s).quality # NoValue} = Scored
           /\ [s \in Scored |-> Current(s).quality] = [s \in Scored |-> Latest(s).quality]
  <1>1. active \subseteq Cases /\ \A s \in Samples : revisions[s] \in Seq(StoredResult)
    BY DEF VerdictTypeOK
  <1>2. \A s \in Samples : /\ s[1] \in Runs /\ s[2] \in Cases /\ s = <<s[1], s[2]>>
    BY DEF Samples
  <1>3. ASSUME NEW s \in Samples
        PROVE  Stands(s) <=> Len(revisions[s]) > IF s[1] \in aborted THEN 1 ELSE 0
    <2> DEFINE n == Len(revisions[s])
    <2>1. n \in Nat /\ DOMAIN revisions[s] = 1..n
      BY <1>1
    <2>2. Stands(s) <=> \E i \in 1..n : i > 1 \/ s[1] \notin aborted
      BY <2>1, Zenon DEF Stands
    <2> HIDE DEF n
    <2>3. CASE s[1] \in aborted
      <3>1. (\E i \in 1..n : i > 1) <=> n > 1
        <4>1. ASSUME n > 1 PROVE \E i \in 1..n : i > 1
          <5>1. n \in 1..n
            BY <2>1, <4>1
          <5> QED
            BY <4>1, <5>1
        <4>2. ASSUME NEW i \in 1..n, i > 1 PROVE n > 1
          BY <2>1, <4>2
        <4> QED
          BY <4>1, <4>2
      <3> QED
        BY <2>2, <2>3, <3>1 DEF n
    <2>4. CASE s[1] \notin aborted
      <3>1. (\E i \in 1..n : TRUE) <=> n > 0
        <4>1. ASSUME n > 0 PROVE \E i \in 1..n : TRUE
          <5>1. n \in 1..n
            BY <2>1, <4>1
          <5> QED
            BY <5>1
        <4>2. ASSUME NEW i \in 1..n PROVE n > 0
          BY <2>1
        <4> QED
          BY <4>1, <4>2
      <3> QED
        BY <2>2, <2>4, <3>1 DEF n
    <2> QED
      BY <2>3, <2>4
  <1>4. Runs \X active = {s \in Samples : s[2] \in active}
    BY <1>1, <1>2 DEF Samples
  <1>5. {s \in Runs \X active : Stands(s)} = Selected
    BY <1>3, <1>4 DEF Selected
  <1>6. \A s \in Selected : Latest(s) = Current(s)
    BY SelectedSamples
  <1>7. {s \in Selected : Current(s).quality # NoValue} = Scored
    BY <1>6 DEF Scored
  <1>8. \A s \in Scored : Latest(s) = Current(s)
    BY <1>6 DEF Scored
  <1> QED
    BY <1>5, <1>7, <1>8

\* What an approval excludes.
LEMMA ApprovedMeans ==
    ASSUME NEW p \in GatePolicies, GateVerdictOf(p) = "APPROVED"
    PROVE  /\ Selected # {} /\ \E s \in Selected : Real(s)
           /\ CriticalFailures = {}
           /\ \A r \in p.rules : RuleStatus(r, MetricOf(p, r.metric)) # "fail"
  <1>1. /\ ~MandatoryEvidenceMissing /\ ~OnlySynthetic
        /\ Resolved(p) = "APPROVED"
    BY DEF GateVerdictOf
  <1>2. Selected # {} /\ \E s \in Selected : Real(s)
    BY <1>1 DEF MandatoryEvidenceMissing, OnlySynthetic
  <1> DEFINE failed == {r.severity : r \in Having(p, "fail")}
  <1>3. "blocker" \notin failed /\ "warning" \notin failed /\ CriticalFailures = {}
    BY <1>1 DEF Resolved
  <1>4. \A r \in p.rules : r.severity \in {"blocker", "warning"}
    BY VerdictAssumption
  <1>5. Having(p, "fail") = {}
    BY <1>3, <1>4 DEF Having
  <1> QED
    BY <1>2, <1>3, <1>5 DEF Having

\* A rule that does not fail over enough evidence is met.
LEMMA RuleIsMet ==
    ASSUME NEW r, NEW m, RuleStatus(r, m) # "fail", m.of # 0, m.of \in Int,
           m.size \in Int, r.minimum \in Int, m.size >= r.minimum
    PROVE  Compare(m, r.operator, r.threshold)
  BY DEF RuleStatus

LEMMA LatencyBounded ==
    ASSUME VerdictTypeOK, NEW p \in GatePolicies, GateVerdictOf(p) = "APPROVED",
           NEW r \in p.rules, r.metric = "p95_end_to_end_latency_ms", r.operator = "lte",
           Cardinality(Selected) >= r.minimum
    PROVE  20 * Cardinality({s \in Selected : Latest(s).latency > r.threshold})
              <= Cardinality(Selected)
  <1> DEFINE n == Cardinality(Selected)
             v == P95Latency.value
             above == {s \in Selected : Latest(s).latency > r.threshold}
  <1>1. /\ Selected # {} /\ RuleStatus(r, P95Latency) # "fail"
    <2>1. MetricOf(p, r.metric) = P95Latency
      BY DEF MetricOf, CalculatedMetric
    <2> QED
      BY <2>1, ApprovedMeans
  <1>2. r.minimum \in Nat /\ r.threshold \in Int
    BY VerdictAssumption
  <1>3. n \in Nat \ {0}
    BY <1>1, SelectedSamples, FS_EmptySet
  <1>4. IsP95(v) /\ v \in Nat /\ P95Latency.of = 1 /\ P95Latency.size = n
    BY <1>1, P95Exists
  <1> HIDE DEF n
  <1>5. v <= r.threshold
    <2>1. Compare(P95Latency, r.operator, r.threshold)
      BY <1>1, <1>2, <1>3, <1>4, RuleIsMet DEF n
    <2>2. P95Latency.value <= r.threshold * P95Latency.of
      BY <2>1 DEF Compare
    <2> QED
      BY <1>2, <1>4, <2>2
  <1> HIDE DEF v
  <1>6. above \in SUBSET (Selected \ UpTo(v))
    <2>1. \A s \in Selected : Latest(s).latency \in Nat
      BY SelectedSamples, ResultFields
    <2>2. \A x \in Nat : x > r.threshold => ~(x <= v)
      BY <1>2, <1>4, <1>5
    <2> QED
      BY <2>1, <2>2 DEF UpTo
  <1> HIDE DEF above
  <1>7. IsFiniteSet(Selected) /\ UpTo(v) \in SUBSET Selected
    BY SelectedSamples DEF UpTo
  <1>8. /\ IsFiniteSet(Selected \ UpTo(v))
        /\ Cardinality(Selected \ UpTo(v)) = n - Cardinality(Selected \cap UpTo(v))
    BY <1>7, FS_Difference DEF n
  <1>9. Selected \cap UpTo(v) = UpTo(v) /\ Cardinality(UpTo(v)) \in Nat
    BY <1>4, <1>7, UpToGrows
  <1>10. Cardinality(above) <= n - Cardinality(UpTo(v)) /\ Cardinality(above) \in Nat
    <2>1. IsFiniteSet(above) /\ Cardinality(above) <= Cardinality(Selected \ UpTo(v))
      BY <1>6, <1>8, FS_Subset
    <2>2. Cardinality(above) \in Nat
      BY <2>1, FS_CardinalityType
    <2>3. Cardinality(Selected \ UpTo(v)) = n - Cardinality(UpTo(v))
      BY <1>8, <1>9
    <2> QED
      BY <2>1, <2>2, <2>3
  <1>11. Cardinality(UpTo(v)) >= Rank95(n)
    BY <1>4 DEF IsP95, n
  <1>12. Rank95(n) \in 1..n /\ 20 * (n - Rank95(n)) <= n
    BY <1>3, RankBounds
  <1>13. PICK k \in Nat : k = Rank95(n)
    BY <1>12
  <1>14. 20 * Cardinality(above) <= n
    BY <1>3, <1>9, <1>10, <1>11, <1>12, <1>13
  <1> QED
    BY <1>14 DEF above, n

LEMMA QualityKept ==
    ASSUME VerdictInv, NEW p \in GatePolicies, GateVerdictOf(p) = "APPROVED",
           NEW r \in p.rules, r.metric = "quality_regression_vs_baseline", r.operator = "gte",
           scorecard[p] # <<>>, Scored # {}, Cardinality(Scored) >= r.minimum
    PROVE  LET was == scorecard[p][1].mean_quality_score
           IN  was.of * SumFunction([s \in Scored |-> Latest(s).quality - r.threshold])
                  >= was.value * Cardinality(Scored)
  <1> DEFINE was == scorecard[p][1].mean_quality_score
             f == [s \in Scored |-> Latest(s).quality]
             e == [s \in Scored |-> Latest(s).quality - r.threshold]
             n == Cardinality(Scored)
  <1>1. VerdictTypeOK /\ ScorecardsHold
    BY DEF VerdictInv
  <1>2. r.minimum \in Nat /\ r.threshold \in Int
    BY VerdictAssumption
  <1>3. /\ was \in [value: Nat, of: Nat, size: Nat]
        /\ was = scorecard[p][1]["mean_quality_score"]
    <2>1. scorecard[p] \in Seq([Comparable -> [value: Nat, of: Nat, size: Nat]])
      BY <1>1 DEF VerdictTypeOK
    <2>2. scorecard[p][1] \in [Comparable -> [value: Nat, of: Nat, size: Nat]]
      BY <2>1
    <2> QED
      BY <2>2 DEF Comparable
  <1>4. was.value \in Nat /\ was.of \in Nat /\ (was.of = 0 => was.value = 0)
    BY <1>1, <1>3 DEF ScorecardsHold
  <1>5. /\ MeanQuality.value = SumFunction(f) /\ MeanQuality.of = n /\ MeanQuality.size = n
        /\ IsFiniteSet(Scored) /\ n \in Nat \ {0} /\ f \in [Scored -> Int]
        /\ SumFunction(f) \in Int
    <2>1. /\ MeanQuality.value = SumFunction(f) /\ MeanQuality.of = n /\ MeanQuality.size = n
      BY <1>1, MeanIsMetric
    <2>2. IsFiniteSet(Scored) /\ f \in [Scored -> Nat] /\ n \in Nat
      BY <1>1, ScoredSamples
    <2>3. n # 0
      BY <2>2, FS_EmptySet
    <2>4. f \in [Scored -> Int]
      BY <2>2
    <2>5. SumFunction(f) \in Int
      <3> HIDE DEF f
      <3> QED
        BY <2>2, <2>4, SumIsInt
    <2> QED
      BY <2>1, <2>2, <2>3, <2>4, <2>5
  <1>6. SumFunction(e) = SumFunction(f) - r.threshold * n
    <2>1. e = [s \in Scored |-> f[s] - r.threshold]
      OBVIOUS
    <2> HIDE DEF e, f
    <2> QED
      BY <1>2, <1>5, <2>1, SumShift
  <1>7. MetricOf(p, r.metric) = Delta(MeanQuality, was)
    BY <1>3 DEF MetricOf, Regression, CalculatedMetric
  <1>8. RuleStatus(r, Delta(MeanQuality, was)) # "fail"
    BY <1>7, ApprovedMeans
  <1>9. PICK qv \in Int, bo \in Nat, bv \in Nat, t \in Int :
           /\ qv = SumFunction(f) /\ bo = was.of /\ bv = was.value /\ t = r.threshold
    BY <1>2, <1>4, <1>5
  <1> HIDE DEF was, f, e, n
  <1>10. CASE bo = 0
    <2>1. bv = 0
      BY <1>4, <1>9, <1>10
    <2>2. PICK x \in Int : x = SumFunction(e)
      BY <1>2, <1>5, <1>6
    <2>3. bo * x >= bv * n
      BY <1>5, <1>10, <2>1
    <2> QED
      BY <1>9, <2>2, <2>3 DEF was, e, n
  <1>11. CASE bo # 0
    <2> DEFINE m == Delta(MeanQuality, was)
    <2>1. m = [value |-> qv * bo - bv * n, of |-> n * bo, size |-> n]
      BY <1>5, <1>9, <1>11 DEF Delta
    <2>2. n * bo \in Int /\ n * bo # 0
      BY <1>5, <1>9, <1>11
    <2>3. m.of = n * bo /\ m.size = n /\ m.value = qv * bo - bv * n
      BY <2>1
    <2>4. RuleStatus(r, m) # "fail" /\ n >= r.minimum
      BY <1>8 DEF n
    <2> HIDE DEF m
    <2>5. Compare(m, r.operator, r.threshold)
      BY <1>2, <1>5, <2>2, <2>3, <2>4, RuleIsMet
    <2>6. m.value >= r.threshold * m.of
      BY <2>5 DEF Compare
    <2>7. qv * bo - bv * n >= t * (n * bo)
      BY <1>9, <2>3, <2>6
    <2>8. bo * (qv - t * n) >= bv * n
      <3>1. \A a, b, c, d, k \in Int : a * b - c * k >= d * (k * b) => b * (a - d * k) >= c * k
        OBVIOUS
      <3> QED
        BY <1>5, <2>7, <3>1
    <2> QED
      BY <1>6, <1>9, <2>8 DEF was, e, n
  <1> QED
    BY <1>10, <1>11

LEMMA ApprovalEarned == VerdictInv => ApprovalIsEarned
  <1> SUFFICES ASSUME VerdictInv, NEW p \in GatePolicies, GateVerdictOf(p) = "APPROVED"
               PROVE
           LET counted == {s \in Runs \X active : Stands(s)}
               scored == {s \in counted : Current(s).quality # NoValue}
           IN
           /\ \E s \in counted : s[1] \notin Synthetic
           /\ \A s \in counted : s[2] \in Critical =>
                 Current(s).outcome = "valid" /\ Current(s).quality \in (8..10) \cup {NoValue}
           /\ \A r \in p.rules :
                 /\ /\ r.metric = "p95_end_to_end_latency_ms" /\ r.operator = "lte"
                    /\ Cardinality(counted) >= r.minimum
                    => 20 * Cardinality({s \in counted : Current(s).latency > r.threshold})
                          <= Cardinality(counted)
                 /\ /\ r.metric = "quality_regression_vs_baseline" /\ r.operator = "gte"
                    /\ scorecard[p] # <<>> /\ scored # {} /\ Cardinality(scored) >= r.minimum
                    => LET was == scorecard[p][1].mean_quality_score
                       IN  was.of * SumFunction([s \in scored |-> Current(s).quality - r.threshold])
                             >= was.value * Cardinality(scored)
    BY Zenon DEF ApprovalIsEarned
  <1> DEFINE counted == {s \in Runs \X active : Stands(s)}
             scored == {s \in counted : Current(s).quality # NoValue}
  <1>1. VerdictTypeOK
    BY DEF VerdictInv
  <1>2. counted = Selected /\ scored = Scored
    BY <1>1, CountedIsSelected
  <1>3. \A s \in Selected : Current(s) = Latest(s) /\ Latest(s) \in StoredResult
    BY <1>1, SelectedSamples
  <1> HIDE DEF counted, scored
  <1>4. \E s \in counted : s[1] \notin Synthetic
    BY <1>2, ApprovedMeans DEF Real
  <1>5. ASSUME NEW s \in counted, s[2] \in Critical
        PROVE  Current(s).outcome = "valid" /\ Current(s).quality \in (8..10) \cup {NoValue}
    <2>1. s \in Selected /\ ~IsCriticalFailure(s) /\ Current(s) = Latest(s)
      BY <1>2, <1>3, <1>5, ApprovedMeans DEF CriticalFailures
    <2>2. Latest(s).quality \in (0..10) \cup {NoValue}
      BY <1>3, <2>1, ResultFields
    <2>3. Latest(s).outcome = "valid"
      BY <1>5, <2>1 DEF IsCriticalFailure
    <2>4. Latest(s).quality = NoValue \/ ~(Latest(s).quality < 8)
      BY <1>5, <2>1 DEF IsCriticalFailure
    <2> QED
      BY <2>1, <2>2, <2>3, <2>4
  <1>6. ASSUME NEW r \in p.rules, r.metric = "p95_end_to_end_latency_ms", r.operator = "lte",
               Cardinality(counted) >= r.minimum
        PROVE  20 * Cardinality({s \in counted : Current(s).latency > r.threshold})
                  <= Cardinality(counted)
    <2>1. {s \in counted : Current(s).latency > r.threshold}
             = {s \in Selected : Latest(s).latency > r.threshold}
      BY <1>2, <1>3
    <2> QED
      BY <1>1, <1>2, <1>6, <2>1, LatencyBounded
  <1>7. ASSUME NEW r \in p.rules, r.metric = "quality_regression_vs_baseline", r.operator = "gte",
               scorecard[p] # <<>>, scored # {}, Cardinality(scored) >= r.minimum
        PROVE  LET was == scorecard[p][1].mean_quality_score
               IN  was.of * SumFunction([s \in scored |-> Current(s).quality - r.threshold])
                     >= was.value * Cardinality(scored)
    <2>1. [s \in scored |-> Current(s).quality - r.threshold]
             = [s \in Scored |-> Latest(s).quality - r.threshold]
      BY <1>2, <1>3 DEF Scored
    <2> QED
      BY <1>2, <1>7, <2>1, QualityKept
  <1> QED
    BY <1>4, <1>5, <1>6, <1>7 DEF counted, scored

\* An approval rests on real evidence from completed runs, with no critical
\* failure in any last revision, and on metrics that keep the bounds of the
\* policy's rules on latency and on the regression of quality.
THEOREM ApprovalsAreEarned == VerdictSpec => []ApprovalIsEarned
  BY VerdictInvariant, ApprovalEarned, PTL

(***************************************************************************)
(* Evidence that gets worse.                                               *)
(***************************************************************************)

\* The evidence that stands is the same, and no result of it is better.
Worse ==
    /\ Selected' = Selected
    /\ \A s \in Selected : NoBetter(Latest(s), Latest(s)')
    /\ scorecard' = scorecard

LEMMA LastChange ==
    ASSUME VerdictTypeOK, VerdictTypeOK', UNCHANGED <<aborted, active, scorecard>>,
           \A s \in Samples : Len(revisions[s]) <= Len(revisions'[s]),
           \A s \in Samples : revisions'[s] # revisions[s] =>
               Stands(s) /\ NoBetter(Current(s), revisions'[s][Len(revisions'[s])])
    PROVE  Worse
  <1>1. \A s \in Samples : Len(revisions[s]) \in Nat /\ Len(revisions'[s]) \in Nat
    <2>1. revisions \in [Samples -> Seq(StoredResult)]
      BY DEF VerdictTypeOK
    <2>2. revisions' \in [Samples -> Seq(StoredResult)]
      BY DEF VerdictTypeOK, Samples
    <2> QED
      BY <2>1, <2>2
  <1>2. \A s \in Samples : s[1] \in Runs /\ s[2] \in Cases /\ s = <<s[1], s[2]>>
    BY DEF Samples
  <1>3. ASSUME NEW s \in Samples PROVE s \in Selected' <=> s \in Selected
    <2> DEFINE k == IF s[1] \in aborted THEN 1 ELSE 0
    <2>1. s \in Selected <=> s[2] \in active /\ Len(revisions[s]) > k
      BY DEF Selected
    <2>2. s \in Selected' <=> s[2] \in active /\ Len(revisions'[s]) > k
      BY DEF Selected, Samples
    <2>3. k \in Nat
      OBVIOUS
    <2> HIDE DEF k
    <2>4. CASE revisions'[s] = revisions[s]
      BY <2>1, <2>2, <2>4
    <2>5. CASE revisions'[s] # revisions[s]
      <3>1. Stands(s)
        BY <2>5
      <3>2. s[2] \in active => s \in Selected
        <4>1. s[2] \in active => s \in Runs \X active
          BY <1>2
        <4> QED
          BY <3>1, <4>1, CountedIsSelected
      <3>3. Len(revisions[s]) > k => Len(revisions'[s]) > k
        BY <1>1, <2>3
      <3> QED
        BY <2>1, <2>2, <3>2, <3>3
    <2> QED
      BY <2>4, <2>5
  <1>4. Selected \in SUBSET Samples /\ Selected' \in SUBSET Samples
    BY DEF Selected, Samples
  <1>5. Selected' = Selected
    BY <1>3, <1>4
  <1>6. ASSUME NEW s \in Selected PROVE NoBetter(Latest(s), Latest(s)')
    <2>1. s \in Samples /\ Latest(s) = Current(s) /\ Latest(s) \in StoredResult
      BY <1>4, SelectedSamples
    <2>2. Latest(s)' = revisions'[s][Len(revisions'[s])]
      BY DEF Latest, Last
    <2>3. CASE revisions'[s] = revisions[s]
      <3>1. Latest(s)' = Latest(s)
        BY <2>3 DEF Latest
      <3>2. Latest(s).quality # NoValue => Latest(s).quality \in Int
        BY <2>1, ResultFields
      <3>3. Latest(s).latency \in Int
        BY <2>1, ResultFields
      <3> QED
        BY <3>1, <3>2, <3>3 DEF NoBetter
    <2>4. CASE revisions'[s] # revisions[s]
      BY <2>1, <2>2, <2>4
    <2> QED
      BY <2>3, <2>4
  <1> QED
    BY <1>5, <1>6 DEF Worse

LEMMA WorseStep ==
    ASSUME VerdictInv, VerdictInv', VerdictNext, revisions' # revisions,
           \A s \in Samples : revisions'[s] # revisions[s] =>
               Stands(s) /\ NoBetter(Current(s), revisions'[s][Len(revisions'[s])])
    PROVE  Worse
  <1>1. VerdictTypeOK /\ VerdictTypeOK'
    BY DEF VerdictInv
  <1>2. /\ revisions \in [Samples -> Seq(StoredResult)]
        /\ revisions' \in [Samples -> Seq(StoredResult)]
    BY <1>1 DEF VerdictTypeOK, Samples
  <1>3. ASSUME NEW run \in Runs, NEW covered \in SUBSET active, NEW content \in [covered -> Contents],
               CompleteRun(run, content) \/ FailRun(run, content)
        PROVE  FALSE
    <2>1. StoreResults(run, content)
      BY <1>3 DEF CompleteRun, FailRun
    <2>2. PICK s \in Samples : revisions'[s] # revisions[s]
      BY <1>2
    <2>3. s[1] = run /\ s[2] \in Cases /\ s = <<s[1], s[2]>>
      BY <2>1, <2>2 DEF StoreResults, Samples
    <2>4. revisions[s] = <<>>
      BY <2>1, <2>3 DEF StoreResults
    <2>5. Stands(s)
      BY <2>2
    <2> QED
      BY <2>4, <2>5 DEF Stands
  <1>4. ASSUME NEW s \in Samples, NEW content \in Contents, StoredResults < MaxRows, Revise(s, content)
        PROVE  Worse
    <2>1. /\ revisions'[s] = Append(revisions[s], content)
          /\ \A t \in Samples \ {s} : revisions'[t] = revisions[t]
      BY <1>1, <1>4, ReviseTyped
    <2>2. Len(Append(revisions[s], content)) = Len(revisions[s]) + 1 /\ Len(revisions[s]) \in Nat
      BY <1>2, <1>4, VerdictAssumption, AppendProperties
    <2>3. \A t \in Samples : Len(revisions[t]) <= Len(revisions'[t])
      <3>1. \A t \in Samples : Len(revisions[t]) \in Nat
        BY <1>2
      <3>2. Len(revisions[s]) <= Len(revisions'[s])
        BY <2>1, <2>2
      <3>3. \A t \in Samples \ {s} : Len(revisions[t]) <= Len(revisions'[t])
        BY <2>1, <3>1
      <3> QED
        BY <3>2, <3>3
    <2> QED
      BY <1>1, <1>4, <2>3, LastChange DEF Revise
  <1>5. ASSUME NEW s \in Samples, NEW score \in Scores, NEW i \in DOMAIN revisions[s],
               ApplyReview(s, i, score)
        PROVE  Worse
    <2>1. \A t \in Samples : Len(revisions'[t]) = Len(revisions[t]) /\ Len(revisions[t]) \in Nat
      BY <1>1, <1>2, <1>5, ReviewTyped
    <2>2. \A t \in Samples : Len(revisions[t]) <= Len(revisions'[t])
      BY <2>1
    <2> QED
      BY <1>1, <1>5, <2>2, LastChange DEF ApplyReview
  <1>6. ~(\E c \in Cases : RetireCase(c)) /\ ~(\E p \in GatePolicies : PromoteBaseline(p))
    BY DEF RetireCase, PromoteBaseline
  <1> QED
    BY <1>3, <1>4, <1>5, <1>6 DEF VerdictNext

\* The metric n is m over the same evidence, and not better.
NotBetter(key, m, n) ==
    /\ n.of = m.of /\ n.size = m.size /\ m.of \in Nat /\ m.size \in Nat
    /\ m.value \in Int /\ n.value \in Int
    /\ key \in HigherIsBetter => n.value <= m.value
    /\ key \in LowerIsBetter => m.value <= n.value
    /\ key \in {"oom_rate", "critical_case_failure_rate"} => m.value \in Nat

TypedEvidence == \A s \in Selected : Latest(s) \in StoredResult

LEMMA EvidenceIsTyped == VerdictTypeOK => TypedEvidence
  BY SelectedSamples DEF TypedEvidence

LEMMA WorseResults ==
    ASSUME VerdictTypeOK, VerdictTypeOK', Worse, NEW s \in Selected
    PROVE  /\ Latest(s) \in StoredResult /\ Latest(s)' \in StoredResult
           /\ NoBetter(Latest(s), Latest(s)')
  <1>1. VerdictTypeOK' => TypedEvidence'
    BY EvidenceIsTyped, PTL
  <1>2. TypedEvidence /\ TypedEvidence'
    BY <1>1, EvidenceIsTyped
  <1>3. Latest(s)' \in StoredResult
    BY <1>2 DEF TypedEvidence, Worse, StoredResult
  <1>4. Latest(s) \in StoredResult
    BY <1>2 DEF TypedEvidence
  <1> QED
    BY <1>3, <1>4 DEF Worse

\* A step that lowers the qualities lowers their mean.
LEMMA MeanNotBetter ==
    ASSUME VerdictTypeOK, VerdictTypeOK', Worse
    PROVE  /\ NotBetter("mean_quality_score", MeanQuality, MeanQuality')
           /\ MeanQuality.value \in Nat
  <1> DEFINE f == [s \in Scored |-> Latest(s).quality]
             g == [s \in Scored |-> Latest(s)'.quality]
  <1>1. ASSUME NEW s \in Selected PROVE Latest(s).quality # NoValue <=> Latest(s)'.quality # NoValue
    BY WorseResults DEF NoBetter
  <1>2. Scored' = Scored
    BY <1>1 DEF Scored, Worse
  <1>3. ASSUME NEW s \in Scored
        PROVE  /\ Latest(s).quality \in Int /\ Latest(s)'.quality \in Int
               /\ Latest(s)'.quality <= Latest(s).quality
    <2>1. s \in Selected /\ Latest(s).quality # NoValue
      BY DEF Scored
    <2>2. Latest(s)'.quality # NoValue
      BY <1>1, <2>1
    <2>3. /\ Latest(s).quality \in (0..10) \cup {NoValue}
          /\ Latest(s)'.quality \in (0..10) \cup {NoValue}
      BY <2>1, WorseResults, ResultFields
    <2>4. Latest(s)'.quality <= Latest(s).quality
      BY <2>1, WorseResults DEF NoBetter
    <2> QED
      BY <2>1, <2>2, <2>3, <2>4
  <1>4. f \in [Scored -> Int] /\ g \in [Scored -> Int] /\ \A s \in Scored : g[s] <= f[s]
    BY <1>3
  <1>5. IsFiniteSet(Scored) /\ Cardinality(Scored) \in Nat
    BY ScoredSamples
  <1>6. /\ SumFunction(g) <= SumFunction(f)
        /\ SumFunction(f) \in Int /\ SumFunction(g) \in Int
    <2> HIDE DEF f, g
    <2> QED
      BY <1>4, <1>5, SumMonotone, SumIsInt
  <1>7. MeanQuality = [value |-> SumFunction(f), of |-> Cardinality(Scored), size |-> Cardinality(Scored)]
    BY DEF MeanQuality, Fraction
  <1>8. MeanQuality' = [value |-> SumFunction(g), of |-> Cardinality(Scored), size |-> Cardinality(Scored)]
    BY <1>2 DEF MeanQuality, Fraction
  <1>9. MeanQuality.value \in Nat
    BY MeanIsMetric
  <1> HIDE DEF f, g
  <1> QED
    BY <1>5, <1>6, <1>7, <1>8, <1>9 DEF NotBetter, HigherIsBetter, LowerIsBetter

\* The rates count what only grows, or only shrinks.
LEMMA RatesNotBetter ==
    ASSUME VerdictTypeOK, VerdictTypeOK', Worse
    PROVE  /\ NotBetter("json_validity_rate", Rate({"valid"}), Rate({"valid"})')
           /\ NotBetter("oom_rate", Rate({"oom"}), Rate({"oom"})')
           /\ NotBetter("critical_case_failure_rate", CriticalFailureRate, CriticalFailureRate')
           /\ CriticalFailures \in SUBSET CriticalFailures'
  <1> DEFINE valid == {s \in Selected : Latest(s).outcome \in {"valid"}}
             validThen == {s \in Selected : Latest(s)'.outcome \in {"valid"}}
             oom == {s \in Selected : Latest(s).outcome \in {"oom"}}
             oomThen == {s \in Selected : Latest(s)'.outcome \in {"oom"}}
             critical == {s \in Selected : s[2] \in Critical}
  <1>1. \A s \in Selected : Latest(s)'.outcome = Latest(s).outcome \/ Latest(s).outcome = "valid"
    BY WorseResults DEF NoBetter
  <1>2. validThen \in SUBSET valid /\ oom \in SUBSET oomThen
    BY <1>1
  <1>3. CriticalFailures \in SUBSET CriticalFailures'
    <2>1. ASSUME NEW s \in Selected, IsCriticalFailure(s) PROVE IsCriticalFailure(s)'
      <3>1. s[2] \in Critical
        BY <2>1 DEF IsCriticalFailure
      <3>2. CASE Latest(s).outcome # "valid"
        BY <1>1, <3>1, <3>2 DEF IsCriticalFailure
      <3>3. CASE Latest(s).quality # NoValue /\ Latest(s).quality < 8
        <4>1. Latest(s)'.quality # NoValue /\ Latest(s)'.quality <= Latest(s).quality
          BY <3>3, WorseResults DEF NoBetter
        <4>2. Latest(s).quality \in Int /\ Latest(s)'.quality \in Int
          BY <3>3, <4>1, WorseResults, ResultFields
        <4>3. Latest(s)'.quality < 8
          BY <3>3, <4>1, <4>2
        <4> QED
          BY <3>1, <4>1, <4>3 DEF IsCriticalFailure
      <3> QED
        BY <2>1, <3>2, <3>3 DEF IsCriticalFailure
    <2> QED
      BY <2>1 DEF CriticalFailures, Worse
  <1>4. IsFiniteSet(Selected) /\ Cardinality(Selected) \in Nat
    BY SelectedSamples
  <1>5. \A S \in SUBSET Selected : IsFiniteSet(S) /\ Cardinality(S) \in Nat
    BY <1>4, FS_Subset, FS_CardinalityType
  <1>6. \A S, T \in SUBSET Selected : S \in SUBSET T => Cardinality(S) <= Cardinality(T)
    BY <1>5, FS_Subset
  <1>7. CriticalFailures \in SUBSET Selected /\ CriticalFailures' \in SUBSET Selected
    BY DEF CriticalFailures, Worse
  <1>8. Rate({"valid"}) = [value |-> 10 * Cardinality(valid), of |-> Cardinality(Selected),
                           size |-> Cardinality(Selected)]
    BY DEF Rate, Fraction
  <1>9. Rate({"valid"})' = [value |-> 10 * Cardinality(validThen), of |-> Cardinality(Selected),
                            size |-> Cardinality(Selected)]
    BY DEF Rate, Fraction, Worse
  <1>10. Rate({"oom"}) = [value |-> 10 * Cardinality(oom), of |-> Cardinality(Selected),
                          size |-> Cardinality(Selected)]
    BY DEF Rate, Fraction
  <1>11. Rate({"oom"})' = [value |-> 10 * Cardinality(oomThen), of |-> Cardinality(Selected),
                           size |-> Cardinality(Selected)]
    BY DEF Rate, Fraction, Worse
  <1>12. CriticalFailureRate = [value |-> 10 * Cardinality(CriticalFailures),
                                of |-> Cardinality(critical), size |-> Cardinality(critical)]
    BY DEF CriticalFailureRate, Fraction
  <1>13. CriticalFailureRate' = [value |-> 10 * Cardinality(CriticalFailures'),
                                 of |-> Cardinality(critical), size |-> Cardinality(critical)]
    BY DEF CriticalFailureRate, Fraction, Worse
  <1>14. /\ valid \in SUBSET Selected /\ validThen \in SUBSET Selected
         /\ oom \in SUBSET Selected /\ oomThen \in SUBSET Selected
         /\ critical \in SUBSET Selected
    OBVIOUS
  <1> HIDE DEF valid, validThen, oom, oomThen, critical
  <1>15. /\ Cardinality(valid) \in Nat /\ Cardinality(validThen) \in Nat
         /\ Cardinality(oom) \in Nat /\ Cardinality(oomThen) \in Nat
         /\ Cardinality(critical) \in Nat
         /\ Cardinality(CriticalFailures) \in Nat /\ Cardinality(CriticalFailures') \in Nat
    BY <1>5, <1>7, <1>14
  <1>16. /\ Cardinality(validThen) <= Cardinality(valid)
         /\ Cardinality(oom) <= Cardinality(oomThen)
         /\ Cardinality(CriticalFailures) <= Cardinality(CriticalFailures')
    BY <1>2, <1>3, <1>6, <1>7, <1>14
  <1>17. NotBetter("json_validity_rate", Rate({"valid"}), Rate({"valid"})')
    BY <1>4, <1>8, <1>9, <1>15, <1>16 DEF NotBetter, HigherIsBetter, LowerIsBetter
  <1>18. NotBetter("oom_rate", Rate({"oom"}), Rate({"oom"})')
    BY <1>4, <1>10, <1>11, <1>15, <1>16 DEF NotBetter, HigherIsBetter, LowerIsBetter
  <1>19. NotBetter("critical_case_failure_rate", CriticalFailureRate, CriticalFailureRate')
    BY <1>12, <1>13, <1>15, <1>16 DEF NotBetter, HigherIsBetter, LowerIsBetter
  <1> QED
    BY <1>3, <1>17, <1>18, <1>19

P95Sound ==
    Selected # {} => /\ IsP95(P95Latency.value) /\ P95Latency.value \in Nat
                     /\ P95Latency = [value |-> P95Latency.value, of |-> 1,
                                      size |-> Cardinality(Selected)]

LEMMA P95IsSound == VerdictTypeOK => P95Sound
  BY P95Exists DEF P95Sound

LEMMA P95NotBetter ==
    ASSUME VerdictTypeOK, VerdictTypeOK', Worse
    PROVE  NotBetter("p95_end_to_end_latency_ms", P95Latency, P95Latency')
  <1>1. CASE Selected = {}
    <2>1. P95Latency = Missing /\ P95Latency' = Missing
      BY <1>1 DEF P95Latency, Worse, Missing
    <2> QED
      BY <2>1 DEF NotBetter, Missing, HigherIsBetter, LowerIsBetter
  <1>2. CASE Selected # {}
    <2> DEFINE n == Cardinality(Selected)
               v == P95Latency.value
               w == P95Latency'.value
    <2>1. P95Sound /\ P95Sound'
      <3>1. VerdictTypeOK' => P95Sound'
        BY P95IsSound, PTL
      <3> QED
        BY <3>1, P95IsSound
    <2>2. /\ v \in Nat /\ Cardinality(UpTo(v - 1)) < Rank95(n)
          /\ P95Latency = [value |-> v, of |-> 1, size |-> n]
      BY <1>2, <2>1 DEF P95Sound, IsP95
    <2>3. /\ w \in Nat /\ P95Latency' = [value |-> w, of |-> 1, size |-> n]
          /\ Cardinality({s \in Selected : Latest(s)'.latency <= w}) >= Rank95(n)
      BY <1>2, <2>1 DEF P95Sound, IsP95, UpTo, Worse
    <2>4. n \in Nat \ {0} /\ IsFiniteSet(Selected)
      BY <1>2, SelectedSamples, FS_EmptySet
    <2>5. Rank95(n) \in 1..n
      BY <2>4, RankBounds
    <2> HIDE DEF n, v, w
    <2> DEFINE then == {s \in Selected : Latest(s)'.latency <= w}
    <2>6. then \in SUBSET UpTo(w)
      <3>1. ASSUME NEW s \in Selected, Latest(s)'.latency <= w PROVE Latest(s).latency <= w
        <4>1. /\ Latest(s).latency \in Nat /\ Latest(s)'.latency \in Nat
              /\ Latest(s)'.latency >= Latest(s).latency
          BY WorseResults, ResultFields DEF NoBetter
        <4> QED
          BY <2>3, <3>1, <4>1
      <3> QED
        BY <3>1 DEF UpTo
    <2>7. IsFiniteSet(UpTo(w)) /\ Cardinality(UpTo(w)) \in Nat
      BY <2>3, UpToGrows
    <2>8. Cardinality(then) <= Cardinality(UpTo(w)) /\ Cardinality(then) \in Nat
      <3> HIDE DEF then
      <3>1. IsFiniteSet(then) /\ Cardinality(then) <= Cardinality(UpTo(w))
        BY <2>6, <2>7, FS_Subset
      <3> QED
        BY <3>1, FS_CardinalityType
    <2>9. v <= w
      <3>1. SUFFICES ASSUME w <= v - 1 PROVE FALSE
        BY <2>2, <2>3
      <3>2. /\ Cardinality(UpTo(w)) <= Cardinality(UpTo(v - 1))
            /\ Cardinality(UpTo(v - 1)) \in Nat
        BY <2>2, <2>3, <3>1, UpToGrows
      <3>3. PICK k \in Nat : k = Rank95(n)
        BY <2>5
      <3>4. Cardinality(then) >= k /\ Cardinality(UpTo(v - 1)) < k
        BY <2>2, <2>3, <3>3
      <3> HIDE DEF then
      <3> QED
        BY <2>7, <2>8, <3>2, <3>3, <3>4
    <2> QED
      BY <2>2, <2>3, <2>4, <2>9 DEF NotBetter, HigherIsBetter, LowerIsBetter
  <1> QED
    BY <1>1, <1>2

\* The difference to a baseline goes the way of the metric.
LEMMA DeltaNotBetter ==
    ASSUME NEW key, NEW delta, NEW m, NEW n, NotBetter(key, m, n),
           NEW b \in [value: Nat, of: Nat, size: Nat],
           \/ key = "mean_quality_score" /\ delta = "quality_regression_vs_baseline"
           \/ key = "p95_end_to_end_latency_ms" /\ delta = "latency_regression_vs_baseline"
    PROVE  NotBetter(delta, Delta(m, b), Delta(n, b))
  <1>1. m.of \in Nat /\ m.size \in Nat /\ m.value \in Int /\ n.value \in Int /\ n.of = m.of /\ n.size = m.size
    BY DEF NotBetter
  <1>2. b.value \in Nat /\ b.of \in Nat
    OBVIOUS
  <1>3. CASE m.of = 0 \/ b.of = 0
    <2>1. Delta(m, b) = Missing /\ Delta(n, b) = Missing
      BY <1>1, <1>3 DEF Delta
    <2> QED
      BY <2>1 DEF NotBetter, Missing, HigherIsBetter, LowerIsBetter
  <1>4. CASE ~(m.of = 0 \/ b.of = 0)
    <2>1. PICK x \in Int, y \in Int, o \in Nat, bo \in Nat, bv \in Nat, k \in Nat :
             /\ x = m.value /\ y = n.value /\ o = m.of /\ bo = b.of /\ bv = b.value /\ k = m.size
      BY <1>1, <1>2
    <2>2. Delta(m, b) = [value |-> x * bo - bv * o, of |-> o * bo, size |-> k]
      BY <1>4, <2>1 DEF Delta
    <2>3. Delta(n, b) = [value |-> y * bo - bv * o, of |-> o * bo, size |-> k]
      BY <1>1, <1>4, <2>1 DEF Delta
    <2>4. /\ x * bo - bv * o \in Int /\ y * bo - bv * o \in Int /\ o * bo \in Nat
          /\ y <= x => y * bo - bv * o <= x * bo - bv * o
          /\ x <= y => x * bo - bv * o <= y * bo - bv * o
      <3>1. ASSUME NEW c \in Int, NEW d \in Int, c <= d PROVE c * bo <= d * bo
        <4>1. \A u, z \in Nat : u * z \in Nat
          OBVIOUS
        <4>2. (d - c) * bo \in Nat
          BY <2>1, <3>1, <4>1
        <4>3. d * bo = c * bo + (d - c) * bo /\ c * bo \in Int
          BY <2>1
        <4> QED
          BY <4>2, <4>3
      <3>2. x * bo \in Int /\ y * bo \in Int /\ bv * o \in Int /\ o * bo \in Nat
        BY <2>1
      <3>3. (y <= x => y * bo <= x * bo) /\ (x <= y => x * bo <= y * bo)
        BY <2>1, <3>1
      <3>4. PICK xb \in Int, yb \in Int, q \in Int : xb = x * bo /\ yb = y * bo /\ q = bv * o
        BY <3>2
      <3> QED
        BY <3>2, <3>3, <3>4
    <2>5. /\ key = "mean_quality_score" => y <= x
          /\ key = "p95_end_to_end_latency_ms" => x <= y
      BY <2>1 DEF NotBetter, HigherIsBetter, LowerIsBetter
    <2> QED
      BY <2>1, <2>2, <2>3, <2>4, <2>5 DEF NotBetter, HigherIsBetter, LowerIsBetter
  <1> QED
    BY <1>3, <1>4

LEMMA MetricsNotBetter ==
    ASSUME VerdictTypeOK, VerdictTypeOK', Worse, NEW p \in GatePolicies, NEW key \in HigherIsBetter \cup LowerIsBetter
    PROVE  NotBetter(key, MetricOf(p, key), MetricOf(p, key)')
  <1>1. CASE key = "mean_quality_score"
    <2>1. MetricOf(p, key) = MeanQuality /\ MetricOf(p, key)' = MeanQuality'
      BY <1>1 DEF MetricOf, CalculatedMetric
    <2> QED
      BY <1>1, <2>1, MeanNotBetter
  <1>2. CASE key = "json_validity_rate"
    <2>1. MetricOf(p, key) = Rate({"valid"}) /\ MetricOf(p, key)' = Rate({"valid"})'
      BY <1>2 DEF MetricOf, CalculatedMetric
    <2> QED
      BY <1>2, <2>1, RatesNotBetter
  <1>3. CASE key = "oom_rate"
    <2>1. MetricOf(p, key) = Rate({"oom"}) /\ MetricOf(p, key)' = Rate({"oom"})'
      BY <1>3 DEF MetricOf, CalculatedMetric
    <2> QED
      BY <1>3, <2>1, RatesNotBetter
  <1>4. CASE key = "p95_end_to_end_latency_ms"
    <2>1. MetricOf(p, key) = P95Latency /\ MetricOf(p, key)' = P95Latency'
      BY <1>4 DEF MetricOf, CalculatedMetric
    <2> QED
      BY <1>4, <2>1, P95NotBetter
  <1>5. CASE key = "critical_case_failure_rate"
    <2>1. MetricOf(p, key) = CriticalFailureRate /\ MetricOf(p, key)' = CriticalFailureRate'
      BY <1>5 DEF MetricOf, CalculatedMetric
    <2> QED
      BY <1>5, <2>1, RatesNotBetter
  <1>6. CASE key = "real_case_count"
    <2>1. MetricOf(p, key) = Count(Cardinality(RealCases))
      BY <1>6 DEF MetricOf, CalculatedMetric
    <2>2. MetricOf(p, key)' = Count(Cardinality(RealCases))
      BY <1>6 DEF MetricOf, CalculatedMetric, RealCases, Real, Worse
    <2>3. Cardinality(RealCases) \in Nat
      <3>1. RealCases \in SUBSET Cases
        BY DEF RealCases, Selected, Samples
      <3> QED
        BY <3>1, VerdictAssumption, FS_Subset, FS_CardinalityType
    <2> QED
      BY <1>6, <2>1, <2>2, <2>3 DEF NotBetter, Count, HigherIsBetter, LowerIsBetter
  <1>7. CASE key = "critical_case_count"
    <2> DEFINE cases == {s[2] : s \in Selected} \cap Critical
    <2>1. MetricOf(p, key) = Count(Cardinality(cases))
      BY <1>7 DEF MetricOf, CalculatedMetric
    <2>2. MetricOf(p, key)' = Count(Cardinality(cases))
      BY <1>7 DEF MetricOf, CalculatedMetric, Worse
    <2>3. Cardinality(cases) \in Nat
      <3>1. cases \in SUBSET Cases
        BY VerdictAssumption
      <3> QED
        BY <3>1, VerdictAssumption, FS_Subset, FS_CardinalityType
    <2> HIDE DEF cases
    <2> QED
      BY <1>7, <2>1, <2>2, <2>3 DEF NotBetter, Count, HigherIsBetter, LowerIsBetter
  <1>8. ASSUME scorecard[p] # <<>>
        PROVE  scorecard[p][1] \in [Comparable -> [value: Nat, of: Nat, size: Nat]]
    <2>1. scorecard[p] \in Seq([Comparable -> [value: Nat, of: Nat, size: Nat]])
      BY DEF VerdictTypeOK
    <2> QED
      BY <1>8, <2>1
  <1>9. CASE key = "quality_regression_vs_baseline"
    <2> DEFINE b == scorecard[p][1]["mean_quality_score"]
    <2>1. CASE scorecard[p] = <<>>
      <3>1. MetricOf(p, key) = Missing /\ MetricOf(p, key)' = Missing
        BY <1>9, <2>1 DEF MetricOf, Regression, Worse, Missing
      <3> QED
        BY <1>9, <3>1 DEF NotBetter, Missing, HigherIsBetter, LowerIsBetter
    <2>2. CASE scorecard[p] # <<>>
      <3>1. MetricOf(p, key) = Delta(MeanQuality, b)
        BY <1>9, <2>2 DEF MetricOf, Regression, CalculatedMetric
      <3>2. MetricOf(p, key)' = Delta(MeanQuality', b)
        BY <1>9, <2>2 DEF MetricOf, Regression, CalculatedMetric, Delta, Missing, Worse
      <3>3. b \in [value: Nat, of: Nat, size: Nat]
        BY <1>8, <2>2 DEF Comparable
      <3> HIDE DEF b
      <3> QED
        BY <1>9, <3>1, <3>2, <3>3, MeanNotBetter, DeltaNotBetter
    <2> QED
      BY <2>1, <2>2
  <1>10. CASE key = "latency_regression_vs_baseline"
    <2> DEFINE b == scorecard[p][1]["p95_end_to_end_latency_ms"]
    <2>1. CASE scorecard[p] = <<>>
      <3>1. MetricOf(p, key) = Missing /\ MetricOf(p, key)' = Missing
        BY <1>10, <2>1 DEF MetricOf, Regression, Worse, Missing
      <3> QED
        BY <1>10, <3>1 DEF NotBetter, Missing, HigherIsBetter, LowerIsBetter
    <2>2. CASE scorecard[p] # <<>>
      <3>1. MetricOf(p, key) = Delta(P95Latency, b)
        BY <1>10, <2>2 DEF MetricOf, Regression, CalculatedMetric
      <3>2. MetricOf(p, key)' = Delta(P95Latency', b)
        BY <1>10, <2>2 DEF MetricOf, Regression, CalculatedMetric, Delta, Missing, Worse
      <3>3. b \in [value: Nat, of: Nat, size: Nat]
        BY <1>8, <2>2 DEF Comparable
      <3> HIDE DEF b
      <3> QED
        BY <1>10, <3>1, <3>2, <3>3, P95NotBetter, DeltaNotBetter
    <2> QED
      BY <2>1, <2>2
  <1> QED
    BY <1>1, <1>2, <1>3, <1>4, <1>5, <1>6, <1>7, <1>9, <1>10 DEF HigherIsBetter, LowerIsBetter

LEMMA RuleNotBetter ==
    ASSUME NEW p \in GatePolicies, NEW r \in p.rules, BoundsTheWorseSide(r),
           NEW m, NEW n, NotBetter(r.metric, m, n)
    PROVE  /\ RuleStatus(r, m) = "fail" => RuleStatus(r, n) = "fail"
           /\ RuleStatus(r, m) = "insufficient" <=> RuleStatus(r, n) = "insufficient"
  <1>1. /\ r.threshold \in Int /\ r.minimum \in Nat /\ r.metric \in HigherIsBetter \cup LowerIsBetter
        /\ r.operator \in {"gte", "lte", "eq", "gt", "lt"}
    BY VerdictAssumption
  <1>2. /\ m.of \in Nat /\ m.size \in Nat /\ m.value \in Int /\ n.value \in Int
        /\ n.of = m.of /\ n.size = m.size
    BY DEF NotBetter
  <1>3. (m.of = 0 \/ m.size < r.minimum) <=> RuleStatus(r, m) = "insufficient"
    BY <1>1, <1>2 DEF RuleStatus
  <1>4. (n.of = 0 \/ n.size < r.minimum) <=> RuleStatus(r, n) = "insufficient"
    BY <1>1, <1>2 DEF RuleStatus
  <1>5. ASSUME Compare(n, r.operator, r.threshold) PROVE Compare(m, r.operator, r.threshold)
    <2>1. PICK k \in Int : k = r.threshold * m.of
      BY <1>1, <1>2
    <2>2. k = r.threshold * n.of /\ (r.threshold = 0 => k = 0)
      BY <1>1, <1>2, <2>1
    <2>3. CASE r.metric \in HigherIsBetter
      <3>1. n.value <= m.value /\ r.operator \in {"gte", "gt"}
        BY <2>3 DEF NotBetter, BoundsTheWorseSide, HigherIsBetter, LowerIsBetter
      <3>2. CASE r.operator = "gte"
        <4>1. n.value >= k
          BY <1>5, <2>2, <3>2 DEF Compare
        <4>2. m.value >= k
          BY <1>2, <3>1, <4>1
        <4> QED
          BY <2>1, <3>2, <4>2 DEF Compare
      <3>3. CASE r.operator = "gt"
        <4>1. n.value > k
          BY <1>5, <2>2, <3>3 DEF Compare
        <4>2. m.value > k
          BY <1>2, <3>1, <4>1
        <4> QED
          BY <2>1, <3>3, <4>2 DEF Compare
      <3> QED
        BY <3>1, <3>2, <3>3
    <2>4. CASE r.metric \in LowerIsBetter
      <3>1. /\ m.value <= n.value
            /\ \/ r.operator \in {"lte", "lt"}
               \/ r.operator = "eq" /\ k = 0 /\ m.value \in Nat
        BY <2>2, <2>4 DEF NotBetter, BoundsTheWorseSide, HigherIsBetter, LowerIsBetter
      <3>2. CASE r.operator = "lte"
        <4>1. n.value <= k
          BY <1>5, <2>2, <3>2 DEF Compare
        <4>2. m.value <= k
          BY <1>2, <3>1, <4>1
        <4> QED
          BY <2>1, <3>2, <4>2 DEF Compare
      <3>3. CASE r.operator = "lt"
        <4>1. n.value < k
          BY <1>5, <2>2, <3>3 DEF Compare
        <4>2. m.value < k
          BY <1>2, <3>1, <4>1
        <4> QED
          BY <2>1, <3>3, <4>2 DEF Compare
      <3>4. CASE r.operator = "eq"
        <4>1. n.value = k
          BY <1>5, <2>2, <3>4 DEF Compare
        <4>2. m.value = k
          BY <1>2, <3>1, <3>4, <4>1
        <4> QED
          BY <2>1, <3>4, <4>2 DEF Compare
      <3> QED
        BY <3>1, <3>2, <3>3, <3>4
    <2> QED
      BY <1>1, <2>3, <2>4
  <1>6. ASSUME RuleStatus(r, m) = "fail" PROVE RuleStatus(r, n) = "fail"
    <2>1. ~(m.of = 0 \/ m.size < r.minimum)
      BY <1>3, <1>6
    <2>2. ~Compare(m, r.operator, r.threshold)
      BY <1>1, <1>2, <1>6, <2>1 DEF RuleStatus
    <2>3. ~Compare(n, r.operator, r.threshold)
      BY <1>5, <2>2
    <2>4. n.of # 0 /\ n.size >= r.minimum /\ ~(n.of = 0 \/ n.size < r.minimum)
      BY <1>1, <1>2, <2>1
    <2> QED
      BY <2>3, <2>4 DEF RuleStatus
  <1> QED
    BY <1>2, <1>3, <1>4, <1>6

LEMMA VerdictNotBetter ==
    ASSUME VerdictTypeOK, VerdictTypeOK', Worse, active' = active, NEW p \in GatePolicies,
           \A r \in p.rules : BoundsTheWorseSide(r)
    PROVE  Rank[GateVerdictOf(p)'] <= Rank[GateVerdictOf(p)]
  <1>1. ASSUME NEW r \in p.rules
        PROVE  /\ RuleStatus(r, MetricOf(p, r.metric)) = "fail"
                     => RuleStatus(r, MetricOf(p, r.metric)') = "fail"
               /\ RuleStatus(r, MetricOf(p, r.metric)) = "insufficient"
                     <=> RuleStatus(r, MetricOf(p, r.metric)') = "insufficient"
    <2>1. r.metric \in HigherIsBetter \cup LowerIsBetter
      BY VerdictAssumption
    <2>2. NotBetter(r.metric, MetricOf(p, r.metric), MetricOf(p, r.metric)')
      BY <2>1, MetricsNotBetter
    <2> QED
      BY <2>2, RuleNotBetter
  <1>2. \A r \in p.rules : RuleStatus(r, MetricOf(p, r.metric))' = RuleStatus(r, MetricOf(p, r.metric)')
    BY DEF RuleStatus, Compare
  <1>3. Having(p, "fail") \in SUBSET Having(p, "fail")'
    BY <1>1, <1>2 DEF Having
  <1>4. Having(p, "insufficient") = Having(p, "insufficient")'
    BY <1>1, <1>2 DEF Having
  <1>5. MandatoryEvidenceMissing' <=> MandatoryEvidenceMissing
    BY DEF MandatoryEvidenceMissing, Worse
  <1>6. OnlySynthetic' <=> OnlySynthetic
    BY DEF OnlySynthetic, Real, Worse
  <1>7. CriticalFailures \in SUBSET CriticalFailures'
    BY RatesNotBetter
  <1> DEFINE failed == {r.severity : r \in Having(p, "fail")}
             then == {r.severity : r \in Having(p, "fail")'}
             Insufficient == \/ MandatoryEvidenceMissing \/ OnlySynthetic
                             \/ \E r \in Having(p, "insufficient") : r.required
  <1>8. failed \in SUBSET then
    BY <1>3
  <1>9. GateVerdictOf(p) = IF Insufficient THEN "INSUFFICIENT_EVIDENCE" ELSE Resolved(p)
    BY DEF GateVerdictOf
  <1>10. GateVerdictOf(p)' = IF Insufficient THEN "INSUFFICIENT_EVIDENCE" ELSE Resolved(p)'
    BY <1>4, <1>5, <1>6 DEF GateVerdictOf
  <1> HIDE DEF Insufficient
  <1>11. Resolved(p) = IF "blocker" \in failed \/ CriticalFailures # {} THEN "BLOCKED"
                       ELSE IF "warning" \in failed
                            THEN IF p.allow_conditional THEN "CONDITIONAL" ELSE "BLOCKED"
                            ELSE "APPROVED"
    BY DEF Resolved
  <1>12. Resolved(p)' = IF "blocker" \in then \/ CriticalFailures' # {} THEN "BLOCKED"
                        ELSE IF "warning" \in then
                             THEN IF p.allow_conditional THEN "CONDITIONAL" ELSE "BLOCKED"
                             ELSE "APPROVED"
    BY DEF Resolved
  <1> HIDE DEF failed, then
  <1>13. /\ Rank["INSUFFICIENT_EVIDENCE"] = 0 /\ Rank["BLOCKED"] = 1
         /\ Rank["CONDITIONAL"] = 2 /\ Rank["APPROVED"] = 3
    BY DEF Rank
  <1>14. Rank[Resolved(p)'] <= Rank[Resolved(p)]
    <2>1. "blocker" \in failed => "blocker" \in then
      BY <1>8
    <2>2. "warning" \in failed => "warning" \in then
      BY <1>8
    <2>3. CriticalFailures # {} => CriticalFailures' # {}
      BY <1>7
    <2>4. CASE "blocker" \in failed \/ CriticalFailures # {}
      <3>1. Resolved(p) = "BLOCKED" /\ Resolved(p)' = "BLOCKED"
        BY <1>11, <1>12, <2>1, <2>3, <2>4
      <3> QED
        BY <1>13, <3>1
    <2>5. CASE ~("blocker" \in failed \/ CriticalFailures # {}) /\ "warning" \in failed
      <3>1. Resolved(p) = IF p.allow_conditional THEN "CONDITIONAL" ELSE "BLOCKED"
        BY <1>11, <2>5
      <3>2. \/ Resolved(p)' = "BLOCKED"
            \/ Resolved(p)' = IF p.allow_conditional THEN "CONDITIONAL" ELSE "BLOCKED"
        BY <1>12, <2>2, <2>5
      <3> QED
        BY <1>13, <3>1, <3>2
    <2>6. CASE ~("blocker" \in failed \/ CriticalFailures # {}) /\ "warning" \notin failed
      <3>1. Resolved(p) = "APPROVED"
        BY <1>11, <2>6
      <3>2. Resolved(p)' \in {"BLOCKED", "CONDITIONAL", "APPROVED"}
        BY <1>12
      <3> QED
        BY <1>13, <3>1, <3>2
    <2> QED
      BY <2>4, <2>5, <2>6
  <1> QED
    BY <1>9, <1>10, <1>13, <1>14

\* Under a policy that bounds each metric on its worse side, a revision or a
\* review that makes evidence worse leads to no verdict that allows more.
THEOREM WorseEvidenceNeverHelps == VerdictSpec => WorseNeverHelps
  <1>1. ASSUME VerdictInv, VerdictInv', [VerdictNext]_verdictVars, revisions' # revisions,
               \A s \in Samples : revisions'[s] # revisions[s] =>
                  Stands(s) /\ NoBetter(Current(s), revisions'[s][Len(revisions'[s])]),
               NEW p \in GatePolicies, \A r \in p.rules : BoundsTheWorseSide(r)
        PROVE  Rank[GateVerdictOf(p)'] <= Rank[GateVerdictOf(p)]
    <2>1. VerdictNext
      BY <1>1 DEF verdictVars
    <2>2. VerdictTypeOK /\ VerdictTypeOK'
      BY <1>1 DEF VerdictInv
    <2>3. Worse
      BY <1>1, <2>1, WorseStep
    <2>4. active' = active
      BY <1>1, <2>1 DEF VerdictNext, CompleteRun, FailRun, Revise, ApplyReview, RetireCase,
                        PromoteBaseline
    <2> QED
      BY <1>1, <2>2, <2>3, <2>4, VerdictNotBetter
  <1>2. VerdictInv /\ VerdictInv' /\ [VerdictNext]_verdictVars =>
           [ (/\ revisions' # revisions
              /\ \A s \in Samples : revisions'[s] # revisions[s] =>
                    Stands(s) /\ NoBetter(Current(s), revisions'[s][Len(revisions'[s])]))
             => \A p \in GatePolicies :
                   (\A r \in p.rules : BoundsTheWorseSide(r)) =>
                      Rank[GateVerdictOf(p)'] <= Rank[GateVerdictOf(p)] ]_verdictVars
    BY <1>1
  <1> QED
    BY <1>2, VerdictInvariant, PTL DEF VerdictSpec, WorseNeverHelps

=============================================================================
