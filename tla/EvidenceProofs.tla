--------------------------- MODULE EvidenceProofs ---------------------------
(* What makes the evidence about agents trustworthy: what deciding,        *)
(* resuming and expiring the checkpoints of one execution guarantees for   *)
(* every plan, every set of sessions and operators, and every policy; and  *)
(* what the delivery and the import of traffic evidence guarantee for      *)
(* every outbox, any number of requests under way, and every bound on      *)
(* attempts, crashes and requeues.                                         *)
EXTENDS ApprovalCheckpoints, AgentTraffic, FiniteSetTheorems, TLAPS

(***************************************************************************)
(* The revisions are 1..n.  Only the checkpoint of the last one can be     *)
(* open, so whoever decides or resumes holds the lock of that row, and     *)
(* each revision that has an open checkpoint has passed one approval more  *)
(* than its parent.                                                        *)
(***************************************************************************)

Open(row) == row.status \in {"pending", "approved"}

Lineage(n) ==
    /\ n \in Results
    /\ Stored = 1..n
    /\ \A r \in 1..n : results[r].parent = r - 1 /\ results[r].revision = r

\* A checkpoint row, and what an open one tells of the revision it is of.
RowSound(n, r) ==
    /\ rows[r].status # "absent" => r \in 1..n /\ rows[r].requester = Requester
    /\ Open(rows[r]) =>
         /\ r = n
         /\ rows[r].key \in Keys \ results[n].approvals
         /\ Cardinality(results[n].approvals) = n - 1
         /\ rows[r].version = (IF rows[r].status = "pending" THEN 1 ELSE 2)
    /\ rows[r].status = "approved" =>
         /\ rows[r].approver \in Approvers
         /\ rows[r].key \in Separated => rows[r].approver # Requester

\* An open transaction has locked an open row, and what it re-executed still
\* follows from that row and from its result.
TxSound(n, t) ==
    /\ t.op \in Operation =>
         /\ t.result = n
         /\ rows[n].status = (IF t.op \in {"approve", "deny"} THEN "pending" ELSE "approved")
    /\ t.op = "approve" =>
         /\ t.subject \in Approvers
         /\ rows[n].key \in Separated => t.subject # Requester
    /\ t.op = "resume" => t.now < rows[n].expires_at
    /\ t.op \in {"deny", "resume"} /\ t.done => t.revision = n + 1
    /\ t.op = "deny" /\ t.done => t.approvals = results[n].approvals
    /\ t.op = "resume" /\ t.done =>
         /\ t.approvals = results[n].approvals \cup {rows[n].key}
         /\ t.stop \in (Keys \ t.approvals) \cup {NoKey}
    /\ t.op = "read" => t.version \in {1, 2} /\ rows[t.result].status # "absent"

OneWriter == \A o, p \in Sessions : tx[o].op \in Operation /\ tx[p].op \in Operation => o = p

\* The approvals of a revision were given on its parent.
Covered(n) ==
    /\ results[1].approvals = {}
    /\ \A m \in 2..n : \A k \in results[m].approvals :
         \/ k \in results[m - 1].approvals
         \/ /\ rows[m - 1].key = k /\ rows[m - 1].transition = m
            /\ rows[m - 1].resumed_at < rows[m - 1].expires_at
            /\ k \in Separated => rows[m - 1].approver \in Approvers \ {Requester}

Sound(n) ==
    /\ Lineage(n)
    /\ \A r \in Results : RowSound(n, r)
    /\ \A o \in Sessions : TxSound(n, tx[o])
    /\ OneWriter
    /\ Covered(n)

ApprovalInv == TypeOK /\ \E n \in Results : Sound(n)

-----------------------------------------------------------------------------
(* Records *)

LEMMA RowColumns ==
    ASSUME NEW row \in Row
    PROVE  /\ row.key \in Keys \cup {NoKey} /\ row.status \in Status
           /\ row.version \in 0..3 /\ row.requester \in Subjects \cup {NoOne}
           /\ row.approver \in Subjects \cup {NoOne}
           /\ row.expires_at \in Nat /\ row.resumed_at \in Nat
           /\ row.transition \in Results \cup {0}
  BY DEF Row

\* What no later write to a row changes, its approver apart.
SameRequest(row, after) ==
    /\ after.key = row.key /\ after.requester = row.requester
    /\ after.expires_at = row.expires_at

SameHistory(row, after) ==
    /\ SameRequest(row, after)
    /\ after.approver = row.approver
    /\ after.resumed_at = row.resumed_at /\ after.transition = row.transition

LEMMA Statuses == {"expired", "approved", "revoked", "denied", "resumed"} \subseteq Status
  BY DEF Status

\* The writes of the requests to the row they locked.
LEMMA ExpiryWrite ==
    ASSUME NEW row \in Row, NEW v \in {1, 2}
    PROVE  /\ Expired(row, v) \in Row /\ Expired(row, v).status = "expired"
           /\ SameHistory(row, Expired(row, v))
  <1>1. v + 1 \in 0..3
    OBVIOUS
  <1> QED
    BY <1>1, Statuses DEF Expired, Row, SameHistory, SameRequest

LEMMA DecisionWrite ==
    ASSUME NEW row \in Row, NEW decision \in {"approved", "denied"}, NEW s \in Subjects,
           row.version = 1
    PROVE  /\ Decided(row, decision, s) \in Row
           /\ Decided(row, decision, s).status = decision
           /\ Decided(row, decision, s).approver = s
           /\ Decided(row, decision, s).version = 2
           /\ SameRequest(row, Decided(row, decision, s))
  <1>1. row.version + 1 \in 0..3 /\ decision \in Status
    BY Statuses
  <1>2. Decided(row, decision, s) \in Row
    BY <1>1 DEF Row, Decided
  <1>3. /\ Decided(row, decision, s).status = decision /\ Decided(row, decision, s).approver = s
        /\ Decided(row, decision, s).version = row.version + 1
        /\ SameRequest(row, Decided(row, decision, s))
    BY DEF Row, Decided, SameRequest
  <1> QED
    BY <1>2, <1>3

LEMMA RevocationWrite ==
    ASSUME NEW row \in Row, row.version \in {1, 2}
    PROVE  /\ Revoked(row) \in Row /\ Revoked(row).status = "revoked"
           /\ SameHistory(row, Revoked(row))
  <1>1. row.version + 1 \in 0..3
    OBVIOUS
  <1> QED
    BY <1>1, Statuses DEF Revoked, Row, SameHistory, SameRequest

LEMMA ResumeWrite ==
    ASSUME NEW row \in Row, NEW i \in Nat, row.version = 2
    PROVE  /\ Resumed(row, i) \in Row /\ Resumed(row, i).status = "resumed"
           /\ SameRequest(row, Resumed(row, i))
           /\ Resumed(row, i).approver = row.approver /\ Resumed(row, i).resumed_at = i
  <1>1. row.version + 1 \in 0..3
    OBVIOUS
  <1> QED
    BY <1>1, Statuses DEF Resumed, Row, SameRequest

LEMMA LinkWrite ==
    ASSUME NEW row \in Row, NEW m \in Results
    PROVE  /\ Linked(row, m) \in Row /\ Linked(row, m).status = row.status
           /\ SameRequest(row, Linked(row, m))
           /\ Linked(row, m).approver = row.approver
           /\ Linked(row, m).resumed_at = row.resumed_at /\ Linked(row, m).transition = m
  BY DEF Linked, Row, SameRequest

\* A new checkpoint is pending, and requested by whom it says.
LEMMA Materializes ==
    ASSUME NEW key \in Keys \cup {NoKey}, NEW s \in Subjects, NEW i \in Nat
    PROVE  /\ Materialized(key, s, i) \in Row
           /\ key = NoKey => Materialized(key, s, i).status = "absent"
           /\ key # NoKey =>
                /\ Materialized(key, s, i).status = "pending"
                /\ Materialized(key, s, i).key = key
                /\ Materialized(key, s, i).version = 1
                /\ Materialized(key, s, i).requester = s
  <1>1. NoRow \in Row /\ NoRow.status = "absent"
    BY DEF NoRow, Row, Status
  <1>2. CASE key = NoKey
    BY <1>1, <1>2 DEF Materialized
  <1>3. CASE key # NoKey
    <2>1. key \in Keys /\ i + Lifetime[key] \in Nat
      BY <1>3, CheckpointAssumption
    <2>2. Materialized(key, s, i) =
            [key |-> key, status |-> "pending", version |-> 1, requester |-> s,
             approver |-> NoOne, expires_at |-> i + Lifetime[key], resumed_at |-> 0,
             transition |-> 0]
      BY <1>3 DEF Materialized, NoRow
    <2> QED
      BY <1>3, <2>1, <2>2 DEF Row, Status
  <1> QED
    BY <1>2, <1>3

LEMMA KeyCount == Cardinality(Keys) \in Nat /\ 1 \in Results
  BY CheckpointAssumption, FS_CardinalityType DEF Results

LEMMA IdleTransaction == Idle \in Transaction /\ Idle.op = "none"
  BY CheckpointAssumption, KeyCount DEF Idle, Transaction

\* What opening and re-executing a transaction write to it.
LEMMA OpenedTransaction ==
    ASSUME NEW r \in Results, NEW s \in Subjects, NEW op \in Operation, NEW i \in Nat
    PROVE  LET t == [Idle EXCEPT !.op = op, !.result = r, !.subject = s, !.now = i]
           IN  /\ t \in Transaction /\ t.op = op /\ t.result = r /\ t.subject = s
               /\ t.now = i /\ ~t.done
  BY DEF Idle, Transaction

LEMMA ReaderTransaction ==
    ASSUME NEW r \in Results, NEW v \in Nat
    PROVE  LET t == [Idle EXCEPT !.op = "read", !.result = r, !.version = v]
           IN  t \in Transaction /\ t.op = "read" /\ t.result = r /\ t.version = v
  BY CheckpointAssumption DEF Idle, Transaction

LEMMA RedoneTransaction ==
    ASSUME NEW t \in Transaction, NEW i \in Nat, NEW approved \in SUBSET Keys,
           NEW key \in Keys \cup {NoKey}
    PROVE  /\ Redone(t, i, approved, key) \in Transaction
           /\ Redone(t, i, approved, key).op = t.op
           /\ Redone(t, i, approved, key).result = t.result
           /\ Redone(t, i, approved, key).subject = t.subject
           /\ Redone(t, i, approved, key).now = t.now
           /\ Redone(t, i, approved, key).done
           /\ Redone(t, i, approved, key).revision = i
           /\ Redone(t, i, approved, key).approvals = approved
           /\ Redone(t, i, approved, key).stop = key
  BY DEF Transaction, Redone

-----------------------------------------------------------------------------
(* Steps *)

\* What was approved stays covered while the rows of decided revisions keep
\* their history.
LEMMA CoveredStep ==
    ASSUME NEW n \in Results, TypeOK, Covered(n), results' = results,
           \A r \in Results : r < n => SameHistory(rows[r], rows'[r])
    PROVE  Covered(n)'
  <1>1. ASSUME NEW m \in 2..n, NEW k \in results[m].approvals
        PROVE  \/ k \in results[m - 1].approvals
               \/ /\ rows'[m - 1].key = k /\ rows'[m - 1].transition = m
                  /\ rows'[m - 1].resumed_at < rows'[m - 1].expires_at
                  /\ k \in Separated => rows'[m - 1].approver \in Approvers \ {Requester}
    <2>1. m - 1 \in Results /\ m - 1 < n
      BY KeyCount DEF Results
    <2>2. SameHistory(rows[m - 1], rows'[m - 1])
      BY <2>1
    <2> QED
      BY <1>1, <2>2 DEF Covered, SameHistory, SameRequest
  <1>2. results'[1].approvals = {}
    BY DEF Covered
  <1> QED
    BY <1>1, <1>2 DEF Covered

\* A step that closes rows nobody has locked, or the row its transaction had
\* locked, and ends transactions.
LEMMA CloseStep ==
    ASSUME NEW n \in Results, TypeOK, Sound(n),
           clock' \in 0..MaxTime, results' = results,
           rows' \in [Results -> Row],
           tx' \in [Sessions -> Transaction],
           \A o \in Sessions : tx'[o] = tx[o] \/ tx'[o] = Idle,
           \A r \in Results :
              \/ rows'[r] = rows[r]
              \/ /\ rows[r].status # "absent"
                 /\ rows'[r].status \in {"revoked", "expired"}
                 /\ SameHistory(rows[r], rows'[r])
                 /\ \A o \in Sessions : ~(tx'[o].op \in Operation /\ tx'[o].result = r)
    PROVE  ApprovalInv'
  <1>1. TypeOK'
    BY DEF TypeOK
  <1>2. Lineage(n)'
    BY DEF Sound, Lineage, Stored
  <1>3. ASSUME NEW r \in Results PROVE RowSound(n, r)'
    BY DEF Sound, RowSound, Open, SameHistory, SameRequest
  <1>4. ASSUME NEW o \in Sessions PROVE TxSound(n, tx[o])'
    <2>1. CASE tx'[o] = Idle
      BY <2>1, IdleTransaction DEF TxSound, Operation
    <2>2. CASE tx'[o] = tx[o]
      <3>1. TxSound(n, tx[o])
        BY DEF Sound
      <3>2. tx[o].op \in Operation => rows'[n] = rows[n]
        BY <2>2, <3>1 DEF TxSound
      <3>3. tx[o].op = "read" => rows'[tx[o].result].status # "absent"
        <4>1. tx[o].result \in Results
          BY DEF TypeOK, Transaction
        <4> QED
          BY <3>1, <4>1 DEF TxSound
      <3>4. /\ tx[o].op \in Operation => rows'[n] = rows[n]
            /\ tx[o].op \in {"approve", "deny", "resume"} => tx[o].op \in Operation
        BY <3>2 DEF Operation
      <3> QED
        BY <2>2, <3>1, <3>3, <3>4 DEF TxSound
    <2> QED
      BY <2>1, <2>2
  <1>5. OneWriter'
    BY IdleTransaction DEF Sound, OneWriter, Operation
  <1>6. Covered(n)'
    <2>1. \A r \in Results : SameHistory(rows[r], rows'[r])
      BY DEF SameHistory, SameRequest
    <2> QED
      BY <2>1, CoveredStep DEF Sound
  <1>7. Sound(n)'
    BY <1>2, <1>3, <1>4, <1>5, <1>6 DEF Sound
  <1> QED
    BY <1>1, <1>7 DEF ApprovalInv

\* A step of one transaction that writes nothing yet.
LEMMA OpenStep ==
    ASSUME NEW n \in Results, TypeOK, Sound(n), UNCHANGED <<clock, results, rows>>,
           NEW o \in Sessions, NEW t \in Transaction, TxSound(n, t),
           tx' = [tx EXCEPT ![o] = t],
           t.op \in Operation => \A p \in Sessions : tx[p].op \in Operation => p = o
    PROVE  ApprovalInv'
  <1>1. TypeOK'
    BY DEF TypeOK
  <1>2. Lineage(n)'
    BY DEF Sound, Lineage, Stored
  <1>3. ASSUME NEW r \in Results PROVE RowSound(n, r)'
    BY DEF Sound, RowSound
  <1>4. ASSUME NEW p \in Sessions PROVE TxSound(n, tx[p])'
    <2>1. tx'[p] = t \/ tx'[p] = tx[p]
      BY DEF TypeOK
    <2>2. TxSound(n, tx'[p])
      BY <2>1 DEF Sound
    <2> QED
      BY <2>2 DEF TxSound
  <1>5. OneWriter'
    <2>1. \A p \in Sessions : tx'[p] = (IF p = o THEN t ELSE tx[p])
      BY DEF TypeOK
    <2> QED
      BY <2>1 DEF Sound, OneWriter
  <1>6. Covered(n)'
    BY DEF Sound, Covered
  <1>7. Sound(n)'
    BY <1>2, <1>3, <1>4, <1>5, <1>6 DEF Sound
  <1> QED
    BY <1>1, <1>7 DEF ApprovalInv

\* Whoever holds an open row alone among the sessions.
LEMMA LockHolder ==
    ASSUME NEW n \in Results, TypeOK, Sound(n), NEW o \in Sessions, tx[o].op \in Operation
    PROVE  /\ tx[o] \in Transaction /\ rows[n] \in Row /\ results[n] \in Result
           /\ TxSound(n, tx[o]) /\ tx[o].result = n
           /\ RowSound(n, n) /\ Open(rows[n])
           /\ rows[n].status # "absent" /\ rows[n].version \in {1, 2}
           /\ \A p \in Sessions : tx[p].op \in Operation => p = o
  <1>1. TxSound(n, tx[o]) /\ RowSound(n, n) /\ OneWriter
    BY DEF Sound
  <1>2. rows[n].status \in {"pending", "approved"} /\ tx[o].result = n
    BY <1>1 DEF TxSound
  <1>3. rows[n].version \in {1, 2}
    BY <1>1, <1>2 DEF RowSound, Open
  <1> QED
    BY <1>1, <1>2, <1>3 DEF TypeOK, OneWriter, Open

\* A row that is due is open, so it is the last one.
LEMMA DueRow ==
    ASSUME NEW n \in Results, TypeOK, Sound(n), NEW r \in Results, IsDue(rows[r], clock)
    PROVE  /\ r = n /\ rows[r] \in Row
           /\ rows[r].status # "absent" /\ rows[r].version \in {1, 2}
  BY DEF Sound, TypeOK, RowSound, Open, IsDue

LEMMA ApprovalInit == Init => ApprovalInv
  <1> SUFFICES ASSUME Init PROVE ApprovalInv
    OBVIOUS
  <1>1. PICK key \in Keys :
           rows = [r \in Results |-> IF r = 1 THEN Materialized(key, Requester, 0) ELSE NoRow]
    BY DEF Init
  <1>2. /\ Materialized(key, Requester, 0) \in Row
        /\ Materialized(key, Requester, 0).status = "pending"
        /\ Materialized(key, Requester, 0).key = key
        /\ Materialized(key, Requester, 0).version = 1
        /\ Materialized(key, Requester, 0).requester = Requester
    BY Materializes, CheckpointAssumption
  <1>3. NoRow \in Row /\ NoRow.status = "absent"
    BY Materializes, CheckpointAssumption DEF Materialized
  <1>4. results[1] = [parent |-> 0, revision |-> 1, reason |-> "root", approvals |-> {}]
    BY KeyCount DEF Init, NoResult
  <1>5. /\ results[1] \in Result /\ results[1].reason = "root"
        /\ NoResult \in Result /\ NoResult.reason = "none"
        /\ \A r \in Results \ {1} : results[r] = NoResult
    BY <1>4, KeyCount DEF NoResult, Result, Init
  <1>6. TypeOK
    BY <1>1, <1>2, <1>3, <1>5, IdleTransaction, CheckpointAssumption DEF TypeOK, Init
  <1>7. Lineage(1)
    <2>1. Stored = {1}
      BY <1>5, KeyCount DEF Stored
    <2> QED
      BY <2>1, <1>4, KeyCount DEF Lineage
  <1>8. ASSUME NEW r \in Results PROVE RowSound(1, r)
    <2>1. Cardinality(results[1].approvals) = 0
      BY <1>4, FS_EmptySet
    <2> QED
      BY <1>1, <1>2, <1>3, <1>4, <2>1 DEF RowSound, Open
  <1>9. \A o \in Sessions : tx[o].op = "none"
    BY IdleTransaction DEF Init
  <1>10. Covered(1)
    BY <1>4 DEF Covered
  <1> QED
    BY <1>6, <1>7, <1>8, <1>9, <1>10, KeyCount
    DEF ApprovalInv, Sound, TxSound, OneWriter, Operation

LEMMA BeginStep ==
    ASSUME NEW n \in Results, TypeOK, Sound(n), NEW o \in Sessions, NEW r \in Results,
           NEW s \in Subjects, NEW operation \in Operation, NEW v \in Versions,
           Begin(o, r, s, operation, v)
    PROVE  ApprovalInv'
  <1> DEFINE t == [Idle EXCEPT !.op = operation, !.result = r, !.subject = s, !.now = clock]
  <1>1. /\ t \in Transaction /\ t.op = operation /\ t.result = r /\ t.subject = s
        /\ t.now = clock /\ ~t.done
    <2>1. clock \in Nat
      BY CheckpointAssumption DEF TypeOK
    <2> QED
      BY <2>1, OpenedTransaction
  <1>2. tx' = [tx EXCEPT ![o] = t] /\ UNCHANGED <<clock, results, rows>>
    BY DEF Begin
  <1> HIDE DEF t
  <1>3. /\ rows[r].status = (IF operation \in {"approve", "deny"} THEN "pending" ELSE "approved")
        /\ ~IsDue(rows[r], clock) /\ Allowed(s, operation, rows[r]) /\ Free(r)
    BY DEF Begin
  <1>4. r = n /\ rows[n] \in Row /\ RowSound(n, n)
    BY <1>3 DEF Sound, RowSound, Open, TypeOK
  <1>5. operation = "approve" =>
           s \in Approvers /\ (rows[n].key \in Separated => s # Requester)
    BY <1>3, <1>4 DEF Allowed, RowSound
  <1>6. operation = "resume" => clock < rows[n].expires_at
    BY <1>3, <1>4, RowColumns DEF IsDue, TypeOK
  <1>7. TxSound(n, t)
    BY <1>1, <1>3, <1>4, <1>5, <1>6 DEF TxSound, Operation
  <1>8. \A p \in Sessions : tx[p].op \notin Operation
    <2>1. \A p \in Sessions : tx[p].op \in Operation => tx[p].result = n
      BY DEF Sound, TxSound
    <2> QED
      BY <1>3, <1>4, <2>1 DEF Free
  <1> QED
    BY <1>1, <1>2, <1>7, <1>8, OpenStep

LEMMA RejectDueStep ==
    ASSUME NEW n \in Results, TypeOK, Sound(n), NEW o \in Sessions, NEW r \in Results,
           RejectDue(o, r)
    PROVE  ApprovalInv'
  <1>1. /\ rows[r] \in Row /\ rows[r].status # "absent" /\ rows[r].version \in {1, 2}
        /\ rows' = [rows EXCEPT ![r] = Expired(rows[r], rows[r].version)]
        /\ UNCHANGED <<clock, results, tx>>
    BY DueRow DEF RejectDue
  <1>2. /\ Expired(rows[r], rows[r].version) \in Row
        /\ Expired(rows[r], rows[r].version).status = "expired"
        /\ SameHistory(rows[r], Expired(rows[r], rows[r].version))
    BY <1>1, ExpiryWrite
  <1>3. \A p \in Sessions : ~(tx[p].op \in Operation /\ tx[p].result = r)
    BY DEF RejectDue, Free
  <1> QED
    BY <1>1, <1>2, <1>3, CloseStep DEF TypeOK

LEMMA ReadDueStep ==
    ASSUME NEW n \in Results, TypeOK, Sound(n), NEW o \in Sessions, NEW r \in Results,
           ReadDue(o, r)
    PROVE  ApprovalInv'
  <1> DEFINE t == [Idle EXCEPT !.op = "read", !.result = r, !.version = rows[r].version]
  <1>1. rows[r].version \in {1, 2} /\ rows[r].status # "absent"
    BY DueRow DEF ReadDue
  <1>2. t \in Transaction /\ t.op = "read" /\ t.result = r /\ t.version = rows[r].version
    <2>1. rows[r].version \in Nat
      BY <1>1
    <2> QED
      BY <2>1, ReaderTransaction
  <1>3. tx' = [tx EXCEPT ![o] = t] /\ UNCHANGED <<clock, results, rows>>
    BY DEF ReadDue
  <1> HIDE DEF t
  <1>4. TxSound(n, t) /\ t.op \notin Operation
    BY <1>1, <1>2 DEF TxSound, Operation
  <1> QED
    BY <1>2, <1>3, <1>4, OpenStep

LEMMA WriteExpiredStep ==
    ASSUME NEW n \in Results, TypeOK, Sound(n), NEW o \in Sessions, WriteExpired(o)
    PROVE  ApprovalInv'
  <1>1. tx[o] \in Transaction /\ tx[o].result \in Results
    BY DEF TypeOK, Transaction
  <1>2. PICK r \in Results : r = tx[o].result
    BY <1>1
  <1>3. PICK v : v = tx[o].version
    OBVIOUS
  <1>4. v \in {1, 2} /\ rows[r].status # "absent" /\ rows[r] \in Row
    BY <1>2, <1>3 DEF WriteExpired, Sound, TxSound, TypeOK
  <1>5. /\ rows' = [rows EXCEPT ![r] = Expired(rows[r], v)]
        /\ tx' = [tx EXCEPT ![o] = Idle] /\ UNCHANGED <<clock, results>>
    BY <1>2, <1>3 DEF WriteExpired
  <1>6. /\ Expired(rows[r], v) \in Row /\ Expired(rows[r], v).status = "expired"
        /\ SameHistory(rows[r], Expired(rows[r], v))
    BY <1>4, ExpiryWrite
  <1>7. \A p \in Sessions : tx'[p] = tx[p] \/ tx'[p] = Idle
    BY <1>5 DEF TypeOK
  <1>8. \A p \in Sessions : ~(tx'[p].op \in Operation /\ tx'[p].result = r)
    BY <1>2, <1>7, IdleTransaction DEF WriteExpired, Free, Operation
  <1>9. tx' \in [Sessions -> Transaction] /\ rows' \in [Results -> Row] /\ clock' \in 0..MaxTime
    BY <1>5, <1>6, IdleTransaction DEF TypeOK
  <1>10. \A q \in Results : rows'[q] = (IF q = r THEN Expired(rows[r], v) ELSE rows[q])
    BY <1>5 DEF TypeOK
  <1>11. \A q \in Results :
            \/ rows'[q] = rows[q]
            \/ /\ rows[q].status # "absent" /\ rows'[q].status \in {"revoked", "expired"}
               /\ SameHistory(rows[q], rows'[q])
               /\ \A p \in Sessions : ~(tx'[p].op \in Operation /\ tx'[p].result = q)
    BY <1>4, <1>6, <1>8, <1>10
  <1> QED
    BY <1>5, <1>7, <1>9, <1>11, CloseStep

LEMMA ReconcileStep ==
    ASSUME NEW n \in Results, TypeOK, Sound(n), Reconcile
    PROVE  ApprovalInv'
  <1> DEFINE due == {r \in Results : IsDue(rows[r], clock)}
  <1>1. \A r \in due : rows[r] \in Row /\ rows[r].status # "absent" /\ rows[r].version \in {1, 2}
    BY DueRow
  <1>2. \A r \in due :
           /\ Expired(rows[r], rows[r].version) \in Row
           /\ Expired(rows[r], rows[r].version).status = "expired"
           /\ SameHistory(rows[r], Expired(rows[r], rows[r].version))
    BY <1>1, ExpiryWrite
  <1>3. /\ \A r \in due : Free(r)
        /\ rows' = [r \in Results |-> IF r \in due THEN Expired(rows[r], rows[r].version)
                                                   ELSE rows[r]]
        /\ UNCHANGED <<clock, results, tx>>
    BY DEF Reconcile
  <1> HIDE DEF due
  <1>4. rows' \in [Results -> Row]
    BY <1>2, <1>3 DEF TypeOK
  <1>5. \A r \in Results :
           \/ rows'[r] = rows[r]
           \/ /\ rows[r].status # "absent"
              /\ rows'[r].status \in {"revoked", "expired"}
              /\ SameHistory(rows[r], rows'[r])
              /\ \A o \in Sessions : ~(tx'[o].op \in Operation /\ tx'[o].result = r)
    BY <1>1, <1>2, <1>3 DEF Free
  <1> QED
    BY <1>3, <1>4, <1>5, CloseStep DEF TypeOK

LEMMA CommitApprovalStep ==
    ASSUME NEW n \in Results, TypeOK, Sound(n), NEW o \in Sessions, CommitApproval(o)
    PROVE  ApprovalInv'
  <1>1. tx[o].op = "approve" /\ tx[o].op \in Operation
    BY DEF CommitApproval, Operation
  <1>2. /\ tx[o] \in Transaction /\ rows[n] \in Row
        /\ TxSound(n, tx[o]) /\ tx[o].result = n /\ RowSound(n, n)
        /\ \A p \in Sessions : tx[p].op \in Operation => p = o
    BY <1>1, LockHolder
  <1> DEFINE s == tx[o].subject
  <1>3. s \in Subjects
    BY <1>2 DEF Transaction
  <1>4. rows[n].status = "pending" /\ rows[n].version = 1
    BY <1>1, <1>2 DEF TxSound, RowSound, Open
  <1> DEFINE after == Decided(rows[n], "approved", s)
  <1>5. /\ after \in Row /\ after.status = "approved" /\ after.approver = s
        /\ after.version = 2 /\ SameRequest(rows[n], after)
    BY <1>2, <1>3, <1>4, DecisionWrite
  <1>6. /\ rows' = [rows EXCEPT ![n] = after]
        /\ tx' = [tx EXCEPT ![o] = Idle] /\ UNCHANGED <<clock, results>>
    BY <1>2 DEF CommitApproval
  <1> HIDE DEF after, s
  <1>7. /\ \A r \in Results : rows'[r] = (IF r = n THEN after ELSE rows[r])
        /\ \A p \in Sessions : tx'[p] = (IF p = o THEN Idle ELSE tx[p])
    BY <1>2, <1>6 DEF TypeOK
  <1>8. TypeOK'
    BY <1>2, <1>5, <1>6, IdleTransaction DEF TypeOK
  <1>9. Lineage(n)'
    BY <1>6 DEF Sound, Lineage, Stored
  <1>10. ASSUME NEW r \in Results PROVE RowSound(n, r)'
    <2>1. CASE r # n
      BY <1>6, <1>7, <2>1 DEF Sound, RowSound, Open
    <2>2. CASE r = n
      <3>1. s \in Approvers /\ (rows[n].key \in Separated => s # Requester)
        BY <1>1, <1>2 DEF TxSound, s
      <3>2. rows'[r] = after
        BY <1>7, <2>2
      <3> QED
        BY <1>2, <1>4, <1>5, <1>6, <2>2, <3>1, <3>2 DEF RowSound, Open, SameRequest
    <2> QED
      BY <2>1, <2>2
  <1>11. ASSUME NEW p \in Sessions PROVE TxSound(n, tx[p])'
    <2>1. tx'[p].op \notin Operation
      BY <1>2, <1>7, IdleTransaction DEF Operation
    <2>2. tx'[p].op = "read" =>
             /\ tx'[p] = tx[p] /\ tx[p].result \in Results
             /\ rows'[tx[p].result].status # "absent"
      <3>1. tx[p].op = "read" => rows[tx[p].result].status # "absent" /\ tx[p].result \in Results
        BY DEF Sound, TxSound, TypeOK, Transaction
      <3> QED
        BY <1>5, <1>7, <3>1, IdleTransaction
    <2> QED
      BY <2>1, <2>2 DEF Sound, TxSound, Operation
  <1>12. OneWriter'
    BY <1>2, <1>7, IdleTransaction DEF OneWriter, Operation
  <1>13. Covered(n)'
    <2>1. \A r \in Results : r < n => SameHistory(rows[r], rows'[r])
      BY <1>7 DEF SameHistory, SameRequest, Results
    <2> QED
      BY <1>6, <2>1, CoveredStep DEF Sound
  <1>14. Sound(n)'
    BY <1>9, <1>10, <1>11, <1>12, <1>13 DEF Sound
  <1> QED
    BY <1>8, <1>14 DEF ApprovalInv

LEMMA CommitRevocationStep ==
    ASSUME NEW n \in Results, TypeOK, Sound(n), NEW o \in Sessions, CommitRevocation(o)
    PROVE  ApprovalInv'
  <1>1. tx[o].op \in Operation
    BY DEF CommitRevocation, Operation
  <1>2. /\ tx[o].result = n /\ rows[n] \in Row
        /\ rows[n].status # "absent" /\ rows[n].version \in {1, 2}
        /\ \A p \in Sessions : tx[p].op \in Operation => p = o
    BY <1>1, LockHolder
  <1> DEFINE after == Revoked(rows[n])
  <1>3. after \in Row /\ after.status = "revoked" /\ SameHistory(rows[n], after)
    BY <1>2, RevocationWrite
  <1>4. /\ rows' = [rows EXCEPT ![n] = after]
        /\ tx' = [tx EXCEPT ![o] = Idle] /\ UNCHANGED <<clock, results>>
    BY <1>2 DEF CommitRevocation
  <1> HIDE DEF after
  <1>5. /\ \A r \in Results : rows'[r] = (IF r = n THEN after ELSE rows[r])
        /\ \A p \in Sessions : tx'[p] = (IF p = o THEN Idle ELSE tx[p])
    BY <1>2, <1>4 DEF TypeOK
  <1>6. \A p \in Sessions : tx'[p].op \notin Operation
    BY <1>2, <1>5, IdleTransaction DEF Operation
  <1>7. /\ clock' \in 0..MaxTime /\ rows' \in [Results -> Row]
        /\ tx' \in [Sessions -> Transaction]
    BY <1>2, <1>3, <1>4, IdleTransaction DEF TypeOK
  <1> QED
    BY <1>2, <1>3, <1>4, <1>5, <1>6, <1>7, CloseStep

\* The numbers of the next revision and of its result.
LEMMA NextNumbers ==
    ASSUME NEW n \in Results, TypeOK, Lineage(n)
    PROVE  LatestRevision = n /\ NextResult = n + 1
  <1>1. n \in Nat /\ n >= 1
    BY KeyCount DEF Results
  <1>2. {results[r].revision : r \in Stored} = 1..n
    BY <1>1 DEF Lineage
  <1>3. \A x \in 1..n : (\A y \in 1..n : x >= y) <=> x = n
    BY <1>1
  <1>4. Max(1..n) = n
    BY <1>1, <1>3 DEF Max
  <1>5. Cardinality(1..n) = n
    BY <1>1, FS_Interval
  <1> QED
    BY <1>2, <1>4, <1>5 DEF LatestRevision, NextResult, Lineage

LEMMA DenyStep ==
    ASSUME NEW n \in Results, TypeOK, Sound(n), NEW o \in Sessions, Deny(o)
    PROVE  ApprovalInv'
  <1>1. tx[o].op = "deny" /\ tx[o].op \in Operation
    BY DEF Deny, Operation
  <1>2. /\ tx[o] \in Transaction /\ TxSound(n, tx[o]) /\ tx[o].result = n
        /\ results[n] \in Result
        /\ \A p \in Sessions : tx[p].op \in Operation => p = o
    BY <1>1, LockHolder
  <1>3. LatestRevision = n /\ n + 1 \in Nat /\ results[n].approvals \in SUBSET Keys
    BY <1>2, NextNumbers DEF Sound, Result, Results
  <1> DEFINE u == Redone(tx[o], n + 1, results[n].approvals, NoKey)
  <1>4. /\ u \in Transaction /\ u.op = tx[o].op /\ u.result = tx[o].result
        /\ u.subject = tx[o].subject /\ u.now = tx[o].now /\ u.done
        /\ u.revision = n + 1 /\ u.approvals = results[n].approvals /\ u.stop = NoKey
    BY <1>2, <1>3, RedoneTransaction
  <1>5. tx' = [tx EXCEPT ![o] = u] /\ UNCHANGED <<clock, results, rows>>
    <2>1. results[n].approvals \cup {} = results[n].approvals
      OBVIOUS
    <2> QED
      BY <1>2, <1>3, <2>1 DEF Deny, Reexecute
  <1> HIDE DEF u
  <1>6. TxSound(n, u)
    BY <1>1, <1>2, <1>4 DEF TxSound
  <1> QED
    BY <1>2, <1>4, <1>5, <1>6, OpenStep

LEMMA ResumeStep ==
    ASSUME NEW n \in Results, TypeOK, Sound(n), NEW o \in Sessions, Resume(o)
    PROVE  ApprovalInv'
  <1>1. tx[o].op = "resume" /\ tx[o].op \in Operation
    BY DEF Resume, Operation
  <1>2. /\ tx[o] \in Transaction /\ TxSound(n, tx[o]) /\ tx[o].result = n
        /\ results[n] \in Result /\ RowSound(n, n) /\ Open(rows[n])
        /\ \A p \in Sessions : tx[p].op \in Operation => p = o
    BY <1>1, LockHolder
  <1> DEFINE passed == results[n].approvals \cup {rows[n].key}
  <1>3. LatestRevision = n /\ n + 1 \in Nat /\ passed \in SUBSET Keys
    BY <1>2, NextNumbers DEF Sound, Result, Results, RowSound
  <1>4. PICK key \in (Keys \ passed) \cup {NoKey} : Reexecute(o, {rows[n].key}, key)
    BY <1>2 DEF Resume
  <1> DEFINE u == Redone(tx[o], n + 1, passed, key)
  <1>5. tx' = [tx EXCEPT ![o] = u] /\ UNCHANGED <<clock, results, rows>>
    BY <1>2, <1>3, <1>4 DEF Resume, Reexecute
  <1> HIDE DEF passed
  <1>6. /\ u \in Transaction /\ u.op = tx[o].op /\ u.result = tx[o].result
        /\ u.subject = tx[o].subject /\ u.now = tx[o].now /\ u.done
        /\ u.revision = n + 1 /\ u.approvals = passed /\ u.stop = key
    BY <1>2, <1>3, RedoneTransaction
  <1> HIDE DEF u
  <1>7. TxSound(n, u)
    BY <1>1, <1>2, <1>6 DEF TxSound, passed
  <1> QED
    BY <1>2, <1>5, <1>6, <1>7, OpenStep

\* What committing a denial and committing a resume have in common: the last
\* row is closed by a transition to a new revision, which may have an open
\* row of its own.
LEMMA StoreStep ==
    ASSUME NEW n \in Results, TypeOK, Sound(n), NEW o \in Sessions, NEW reason,
           reason \in {"denied", "resumed"},
           tx[o].op \in {"deny", "resume"}, tx[o].done,
           NEW closed \in Row, NEW fresh \in Row,
           StoreChild(o, reason),
           rows' = [r \in Results |-> IF r = n THEN closed
                                      ELSE IF r = n + 1 THEN fresh ELSE rows[r]],
           tx' = [tx EXCEPT ![o] = Idle], clock' = clock,
           closed.status \in {"denied", "resumed"}, SameRequest(rows[n], closed),
           tx[o].op = "resume" =>
              /\ closed.approver = rows[n].approver
              /\ closed.resumed_at = tx[o].now /\ closed.transition = n + 1,
           fresh.status \in {"absent", "pending"},
           fresh.status = "pending" =>
              /\ tx[o].op = "resume" /\ fresh.key = tx[o].stop /\ tx[o].stop # NoKey
              /\ fresh.version = 1 /\ fresh.requester = Requester
    PROVE  ApprovalInv'
  <1>1. tx[o].op \in Operation
    BY DEF Operation
  <1>2. /\ tx[o] \in Transaction /\ rows[n] \in Row /\ results[n] \in Result
        /\ TxSound(n, tx[o]) /\ tx[o].result = n /\ RowSound(n, n) /\ Open(rows[n])
        /\ rows[n].status # "absent"
        /\ \A p \in Sessions : tx[p].op \in Operation => p = o
    BY <1>1, LockHolder
  <1>3. NextResult = n + 1 /\ n \in Nat /\ n >= 1
    BY NextNumbers, KeyCount DEF Sound, Results
  <1> DEFINE before == results[n].approvals
             key == rows[n].key
  <1>4. before \in SUBSET Keys /\ key \in Keys \ before /\ Cardinality(before) = n - 1
    BY <1>2 DEF Result, RowSound
  <1>5. Cardinality(before \cup {key}) = n /\ n + 1 \in Results
    <2>1. IsFiniteSet(before)
      BY <1>4, FS_Subset, CheckpointAssumption
    <2>2. Cardinality(before \cup {key}) = n
      <3>1. key \notin before
        BY <1>4
      <3>2. Cardinality(before \cup {key}) = Cardinality(before) + 1
        BY <2>1, <3>1, FS_AddElement, Zenon
      <3> QED
        BY <1>3, <1>4, <3>2
    <2>3. Cardinality(before \cup {key}) <= Cardinality(Keys)
      <3>1. before \cup {key} \in SUBSET Keys
        BY <1>4
      <3> QED
        BY <3>1, FS_Subset, CheckpointAssumption
    <2> QED
      BY <1>3, <2>2, <2>3, KeyCount DEF Results
  <1> DEFINE child == [parent |-> n, revision |-> n + 1, reason |-> reason,
                       approvals |-> tx[o].approvals]
  <1>6. child \in Result
    BY <1>2, <1>3 DEF Result, Transaction
  <1>7. results' = [results EXCEPT ![n + 1] = child]
    BY <1>2, <1>3 DEF StoreChild, TxSound
  <1>8. child.parent = n /\ child.revision = n + 1 /\ child.reason = reason
        /\ child.approvals = tx[o].approvals
    OBVIOUS
  <1> HIDE DEF child
  <1>9. /\ \A r \in Results : results'[r] = (IF r = n + 1 THEN child ELSE results[r])
        /\ \A r \in Results : rows'[r] = (IF r = n THEN closed ELSE
                                          IF r = n + 1 THEN fresh ELSE rows[r])
        /\ \A p \in Sessions : tx'[p] = (IF p = o THEN Idle ELSE tx[p])
    BY <1>7 DEF TypeOK
  <1>10. TypeOK'
    BY <1>6, <1>7, IdleTransaction DEF TypeOK
  <1>11. Lineage(n + 1)'
    <2>1. \A r \in Results : r \in Stored <=> r \in 1..n
      BY DEF Sound, Lineage
    <2>2. Stored' = 1..(n + 1)
      <3>1. \A r \in Results : results'[r].reason # "none" <=> r \in 1..(n + 1)
        BY <1>3, <1>8, <1>9, <2>1 DEF Stored, Results
      <3>2. 1..(n + 1) \subseteq Results
        BY <1>3, <1>5, KeyCount DEF Results
      <3> QED
        BY <3>1, <3>2 DEF Stored
    <2>3. \A r \in 1..(n + 1) : results'[r].parent = r - 1 /\ results'[r].revision = r
      <3>1. \A r \in 1..(n + 1) : r \in Results /\ (r \in 1..n \/ r = n + 1)
        BY <1>3, <1>5, KeyCount DEF Results
      <3> QED
        BY <1>3, <1>8, <1>9, <3>1 DEF Sound, Lineage
    <2> QED
      BY <1>5, <2>2, <2>3 DEF Lineage
  <1>12. fresh.status = "pending" =>
            /\ child.approvals = before \cup {key}
            /\ tx[o].stop \in Keys \ child.approvals
    BY <1>2, <1>8 DEF TxSound
  <1>13. ASSUME NEW r \in Results PROVE RowSound(n + 1, r)'
    <2>1. CASE r \notin {n, n + 1}
      <3>1. RowSound(n, r) /\ rows'[r] = rows[r]
        BY <1>9, <2>1 DEF Sound
      <3>2. r \in 1..n => r \in 1..(n + 1)
        BY <1>3
      <3> QED
        BY <2>1, <3>1, <3>2 DEF RowSound, Open
    <2>2. CASE r = n
      <3>1. rows'[r] = closed /\ r \in 1..(n + 1)
        BY <1>3, <1>9, <2>2
      <3>2. closed.requester = Requester
        BY <1>2 DEF RowSound, SameRequest
      <3> QED
        BY <3>1, <3>2 DEF RowSound, Open
    <2>3. CASE r = n + 1
      <3>1. rows'[r] = fresh /\ results'[n + 1] = child /\ r \in 1..(n + 1)
        BY <1>3, <1>5, <1>9, <2>3
      <3>2. Cardinality(before \cup {key}) = (n + 1) - 1
        BY <1>3, <1>5
      <3> QED
        BY <1>12, <2>3, <3>1, <3>2 DEF RowSound, Open
    <2> QED
      BY <2>1, <2>2, <2>3
  <1>14. ASSUME NEW p \in Sessions PROVE TxSound(n + 1, tx[p])'
    <2>1. tx'[p].op \notin Operation
      BY <1>2, <1>9, IdleTransaction DEF Operation
    <2>2. tx'[p].op = "read" =>
             tx'[p].version \in {1, 2} /\ rows'[tx'[p].result].status # "absent"
      <3>1. ASSUME tx'[p].op = "read"
            PROVE  tx'[p].version \in {1, 2} /\ rows'[tx'[p].result].status # "absent"
        <4>1. tx'[p] = tx[p]
          BY <1>9, <3>1, IdleTransaction
        <4>2. /\ tx[p].version \in {1, 2} /\ tx[p].result \in Results
              /\ rows[tx[p].result].status # "absent"
          BY <3>1, <4>1 DEF Sound, TxSound, TypeOK, Transaction
        <4>3. tx[p].result \in 1..n
          BY <4>2 DEF Sound, RowSound
        <4> QED
          BY <1>3, <1>9, <4>1, <4>2, <4>3
      <3> QED
        BY <3>1
    <2> QED
      BY <2>1, <2>2 DEF TxSound, Operation
  <1>15. OneWriter'
    BY <1>2, <1>9, IdleTransaction DEF OneWriter, Operation
  <1>16. Covered(n + 1)'
    <2>1. results'[1].approvals = {}
      BY <1>3, <1>9, KeyCount DEF Sound, Covered
    <2>2. ASSUME NEW m \in 2..(n + 1), NEW k \in results'[m].approvals
          PROVE  \/ k \in results'[m - 1].approvals
                 \/ /\ rows'[m - 1].key = k /\ rows'[m - 1].transition = m
                    /\ rows'[m - 1].resumed_at < rows'[m - 1].expires_at
                    /\ k \in Separated => rows'[m - 1].approver \in Approvers \ {Requester}
      <3>1. CASE m \in 2..n
        <4>1. m \in Results /\ m - 1 \in Results /\ m - 1 < n /\ m # n + 1
          BY <1>3, <1>5, <3>1, KeyCount DEF Results
        <4>2. /\ results'[m] = results[m] /\ results'[m - 1] = results[m - 1]
              /\ rows'[m - 1] = rows[m - 1]
          BY <1>3, <1>9, <4>1 DEF Results
        <4> QED
          BY <2>2, <3>1, <4>2 DEF Sound, Covered
      <3>2. CASE m = n + 1
        <4>1. results'[m] = child /\ results'[m - 1] = results[n] /\ rows'[m - 1] = closed
          BY <1>3, <1>5, <1>9, <3>2
        <4>2. CASE tx[o].op = "deny"
          BY <1>2, <1>8, <2>2, <4>1, <4>2 DEF TxSound
        <4>3. CASE tx[o].op = "resume"
          <5>1. k \in before \/ k = key
            BY <1>2, <1>8, <2>2, <4>1, <4>3 DEF TxSound
          <5>2. rows[n].status = "approved" /\ tx[o].now < rows[n].expires_at
            BY <1>2, <4>3 DEF TxSound, Operation
          <5>3. /\ rows[n].approver \in Approvers
                /\ rows[n].key \in Separated => rows[n].approver # Requester
            BY <1>2, <5>2 DEF RowSound
          <5> QED
            BY <3>2, <4>1, <4>3, <5>1, <5>2, <5>3 DEF SameRequest
        <4> QED
          BY <4>2, <4>3
      <3> QED
        BY <1>3, <3>1, <3>2
    <2> QED
      BY <2>1, <2>2 DEF Covered
  <1>17. Sound(n + 1)'
    BY <1>11, <1>13, <1>14, <1>15, <1>16 DEF Sound
  <1> QED
    BY <1>5, <1>10, <1>17 DEF ApprovalInv

\* The next revision finds its place.
LEMMA ChildFits ==
    ASSUME NEW n \in Results, TypeOK, Sound(n), NEW o \in Sessions, tx[o].op \in Operation
    PROVE  NextResult = n + 1 /\ n + 1 \in Results /\ n # n + 1 /\ rows[n + 1].status = "absent"
  <1>1. RowSound(n, n) /\ Open(rows[n]) /\ results[n] \in Result
    BY LockHolder
  <1>2. NextResult = n + 1 /\ n \in Nat /\ n >= 1
    BY NextNumbers, KeyCount DEF Sound, Results
  <1> DEFINE before == results[n].approvals
  <1>3. before \in SUBSET Keys /\ before # Keys /\ Cardinality(before) = n - 1
    BY <1>1 DEF Result, RowSound
  <1>4. /\ Cardinality(before) <= Cardinality(Keys)
        /\ Cardinality(Keys) = Cardinality(before) => Keys = before
    BY <1>3, FS_Subset, CheckpointAssumption
  <1>5. n + 1 \in Results
    BY <1>2, <1>3, <1>4, KeyCount DEF Results
  <1>6. n + 1 \notin 1..n
    BY <1>2
  <1> QED
    BY <1>2, <1>5, <1>6 DEF Sound, RowSound

LEMMA CommitDenialStep ==
    ASSUME NEW n \in Results, TypeOK, Sound(n), NEW o \in Sessions, CommitDenial(o)
    PROVE  ApprovalInv'
  <1>1. tx[o].op = "deny" /\ tx[o].done /\ tx[o].op \in Operation
    BY DEF CommitDenial, Operation
  <1>2. /\ tx[o] \in Transaction /\ rows[n] \in Row
        /\ TxSound(n, tx[o]) /\ tx[o].result = n /\ RowSound(n, n)
    BY <1>1, LockHolder
  <1>3. NextResult = n + 1 /\ n + 1 \in Results /\ n # n + 1 /\ rows[n + 1].status = "absent"
    BY <1>1, ChildFits
  <1>4. rows[n].version = 1 /\ tx[o].subject \in Subjects
    BY <1>1, <1>2 DEF TxSound, RowSound, Open, Transaction
  <1> DEFINE decided == Decided(rows[n], "denied", tx[o].subject)
             closed == Linked(decided, n + 1)
             fresh == rows[n + 1]
  <1>5. decided \in Row /\ decided.status = "denied" /\ SameRequest(rows[n], decided)
    BY <1>2, <1>4, DecisionWrite
  <1>6. closed \in Row /\ closed.status = "denied" /\ SameRequest(rows[n], closed)
    <2> HIDE DEF decided
    <2> QED
      BY <1>3, <1>5, LinkWrite DEF SameRequest
  <1>7. rows' = [rows EXCEPT ![n] = closed]
    BY <1>2, <1>3 DEF CommitDenial
  <1> HIDE DEF closed, decided
  <1>8. rows' = [r \in Results |-> IF r = n THEN closed
                                   ELSE IF r = n + 1 THEN fresh ELSE rows[r]]
    BY <1>3, <1>7 DEF TypeOK
  <1>9. fresh \in Row
    BY <1>3 DEF TypeOK
  <1>10. StoreChild(o, "denied") /\ tx' = [tx EXCEPT ![o] = Idle] /\ clock' = clock
    BY DEF CommitDenial
  <1> QED
    BY <1>1, <1>3, <1>6, <1>8, <1>9, <1>10, StoreStep

LEMMA CommitResumeStep ==
    ASSUME NEW n \in Results, TypeOK, Sound(n), NEW o \in Sessions, CommitResume(o)
    PROVE  ApprovalInv'
  <1>1. tx[o].op = "resume" /\ tx[o].done /\ tx[o].op \in Operation
    BY DEF CommitResume, Operation
  <1>2. /\ tx[o] \in Transaction /\ rows[n] \in Row
        /\ TxSound(n, tx[o]) /\ tx[o].result = n /\ RowSound(n, n)
        /\ rows[n].status # "absent"
    BY <1>1, LockHolder
  <1>3. NextResult = n + 1 /\ n + 1 \in Results /\ n # n + 1
    BY <1>1, ChildFits
  <1>4. /\ rows[n].version = 2 /\ tx[o].now \in Nat /\ tx[o].stop \in Keys \cup {NoKey}
        /\ rows[n].requester = Requester
    BY <1>1, <1>2 DEF TxSound, RowSound, Open, Transaction
  <1> DEFINE resumed == Resumed(rows[n], tx[o].now)
             closed == Linked(resumed, n + 1)
             fresh == Materialized(tx[o].stop, Requester, tx[o].now)
  <1>5. /\ resumed \in Row /\ resumed.status = "resumed" /\ SameRequest(rows[n], resumed)
        /\ resumed.approver = rows[n].approver /\ resumed.resumed_at = tx[o].now
    BY <1>2, <1>4, ResumeWrite
  <1>6. /\ closed \in Row /\ closed.status = "resumed" /\ SameRequest(rows[n], closed)
        /\ closed.approver = rows[n].approver /\ closed.resumed_at = tx[o].now
        /\ closed.transition = n + 1
    <2> HIDE DEF resumed
    <2> QED
      BY <1>3, <1>5, LinkWrite DEF SameRequest
  <1>7. /\ fresh \in Row
        /\ tx[o].stop = NoKey => fresh.status = "absent"
        /\ tx[o].stop # NoKey =>
             /\ fresh.status = "pending" /\ fresh.key = tx[o].stop
             /\ fresh.version = 1 /\ fresh.requester = Requester
    BY <1>4, Materializes, CheckpointAssumption
  <1>8. rows' = [rows EXCEPT ![n] = closed, ![n + 1] = fresh]
    BY <1>2, <1>3, <1>4 DEF CommitResume
  <1> HIDE DEF closed, resumed, fresh
  <1>9. rows' = [r \in Results |-> IF r = n THEN closed
                                   ELSE IF r = n + 1 THEN fresh ELSE rows[r]]
    BY <1>3, <1>8 DEF TypeOK
  <1>10. StoreChild(o, "resumed") /\ tx' = [tx EXCEPT ![o] = Idle] /\ clock' = clock
    BY DEF CommitResume
  <1>11. fresh.status \in {"absent", "pending"}
         /\ (fresh.status = "pending" =>
               /\ tx[o].op = "resume" /\ fresh.key = tx[o].stop /\ tx[o].stop # NoKey
               /\ fresh.version = 1 /\ fresh.requester = Requester)
    BY <1>1, <1>7
  <1> QED
    BY <1>1, <1>6, <1>7, <1>9, <1>10, <1>11, StoreStep

\* No request, expiry or rollback of any session breaks the lineage.
LEMMA ApprovalStep == ApprovalInv /\ [Next]_vars => ApprovalInv'
  <1> SUFFICES ASSUME ApprovalInv, [Next]_vars PROVE ApprovalInv'
    OBVIOUS
  <1>1. PICK n \in Results : Sound(n)
    BY DEF ApprovalInv
  <1>2. TypeOK
    BY DEF ApprovalInv
  <1>3. ASSUME NEW o \in Sessions, Rollback(o) PROVE ApprovalInv'
    <2>1. tx' = [tx EXCEPT ![o] = Idle] /\ UNCHANGED <<clock, results, rows>>
      BY <1>3 DEF Rollback
    <2>2. TxSound(n, Idle) /\ Idle \in Transaction /\ Idle.op \notin Operation
      BY IdleTransaction DEF TxSound, Operation
    <2> QED
      BY <1>1, <1>2, <2>1, <2>2, OpenStep
  <1>4. CASE Tick
    <2>1. clock' \in 0..MaxTime
      BY <1>2, <1>4, CheckpointAssumption DEF Tick, TypeOK
    <2> QED
      BY <1>1, <1>2, <1>4, <2>1, CloseStep DEF Tick, TypeOK
  <1>5. CASE UNCHANGED vars
    BY <1>1, <1>2, <1>5, CloseStep DEF vars, TypeOK
  <1>6. CASE Next
    <2>1. ASSUME NEW o \in Sessions, NEW r \in Results, RejectDue(o, r) \/ ReadDue(o, r)
          PROVE  ApprovalInv'
      BY <1>1, <1>2, <2>1, RejectDueStep, ReadDueStep
    <2>2. ASSUME NEW o \in Sessions,
                 \/ CommitApproval(o) \/ CommitRevocation(o) \/ Deny(o) \/ Resume(o)
                 \/ CommitDenial(o) \/ CommitResume(o) \/ WriteExpired(o)
          PROVE  ApprovalInv'
      BY <1>1, <1>2, <2>2, CommitApprovalStep, CommitRevocationStep, DenyStep, ResumeStep,
         CommitDenialStep, CommitResumeStep, WriteExpiredStep
    <2>3. ASSUME NEW o \in Sessions, NEW r \in Results, NEW s \in Subjects,
                 NEW operation \in Operation, NEW v \in Versions,
                 Begin(o, r, s, operation, v)
          PROVE  ApprovalInv'
      BY <1>1, <1>2, <2>3, BeginStep
    <2>4. CASE Reconcile
      BY <1>1, <1>2, <2>4, ReconcileStep
    <2> QED
      BY <1>3, <1>4, <1>6, <2>1, <2>2, <2>3, <2>4 DEF Next
  <1> QED
    BY <1>5, <1>6

-----------------------------------------------------------------------------
(* Theorems *)

LEMMA ApprovalsInvariant == Spec => []ApprovalInv
  BY ApprovalInit, ApprovalStep, PTL DEF Spec

\* The clock, the results, the checkpoint rows and the open transactions keep
\* their types; in particular an execution never needs more revisions than
\* its plan has checkpoints and one, and no row passes version 3.
THEOREM CheckpointTypeCorrect == Spec => []TypeOK
  <1>1. ApprovalInv => TypeOK
    BY DEF ApprovalInv
  <1> QED
    BY <1>1, ApprovalsInvariant, PTL

\* Deciding, revoking, resuming and expiring the checkpoints of an execution
\* from any number of sessions never gives a result two children, nor two
\* results one revision number.
THEOREM LineageIsAChain == Spec => []RevisionsFormAChain
  <1>1. ApprovalInv => RevisionsFormAChain
    <2> SUFFICES ASSUME ApprovalInv, NEW a \in Stored, NEW b \in Stored, a # b
                 PROVE  /\ results[a].parent # results[b].parent
                        /\ results[a].revision # results[b].revision
      BY DEF RevisionsFormAChain
    <2>1. PICK n \in Results : Lineage(n)
      BY DEF ApprovalInv, Sound
    <2>2. a \in 1..n /\ b \in 1..n /\ n \in Nat
      BY <2>1, KeyCount DEF Lineage, Results
    <2> QED
      BY <2>1, <2>2 DEF Lineage
  <1> QED
    BY <1>1, ApprovalsInvariant, PTL

\* Whatever the plan, the policies and the operators, _apply_persisted_decisions
\* stores no revision that ran past a checkpoint unless the approval was given
\* on its parent, unexpired at the resume, and by someone other than the
\* requester where duties are separated.
THEOREM EveryApprovalIsCovered == Spec => []ApprovalsAreCovered
  <1>1. ApprovalInv => ApprovalsAreCovered
    <2> SUFFICES ASSUME ApprovalInv, NEW m \in Stored, NEW k \in results[m].approvals
                 PROVE  LET row == rows[results[m].parent] IN
                        \/ k \in results[results[m].parent].approvals
                        \/ /\ row.key = k /\ row.transition = m
                           /\ row.resumed_at < row.expires_at
                           /\ k \in Separated => row.approver \in Approvers \ {Requester}
      BY DEF ApprovalsAreCovered
    <2>1. PICK n \in Results : Lineage(n) /\ Covered(n)
      BY DEF ApprovalInv, Sound
    <2>2. m \in 1..n /\ n \in Nat /\ results[m].parent = m - 1
      BY <2>1, KeyCount DEF Lineage, Results
    <2>3. m # 1
      BY <2>1 DEF Covered
    <2>4. m \in 2..n
      BY <2>2, <2>3
    <2> QED
      BY <2>1, <2>2, <2>4 DEF Covered
  <1> QED
    BY <1>1, ApprovalsInvariant, PTL

\* The rows a step of a transaction writes.
LEMMA WrittenRows ==
    ASSUME NEW n \in Results, TypeOK, Sound(n), NEW o \in Sessions,
           \/ CommitApproval(o) \/ CommitRevocation(o) \/ CommitDenial(o) \/ CommitResume(o)
    PROVE  \A r \in Results : rows[r].status \notin {"absent", "pending", "approved"}
                                 => rows'[r] = rows[r]
  <1>1. tx[o].op \in Operation
    BY DEF CommitApproval, CommitRevocation, CommitDenial, CommitResume, Operation
  <1>2. tx[o].result = n /\ rows[n].status \in {"pending", "approved"}
    BY <1>1, LockHolder DEF Open
  <1>3. NextResult = n + 1 /\ n + 1 \in Results /\ rows[n + 1].status = "absent"
    BY <1>1, ChildFits
  <1>4. \A r \in Results \ {n, n + 1} : rows'[r] = rows[r]
    BY <1>2, <1>3 DEF CommitApproval, CommitRevocation, CommitDenial, CommitResume, TypeOK
  <1> QED
    BY <1>2, <1>3, <1>4

\* A checkpoint that expired, was denied or was revoked is not resumed or
\* approved any more, also by a request that had read it before.
THEOREM RefusalsStand == Spec => RefusalIsFinal
  <1>1. ApprovalInv /\ [Next]_vars =>
          [\A r \in Results :
             rows[r].status \in {"expired", "denied", "revoked"} =>
                rows'[r].status \notin {"pending", "approved", "resumed"}]_vars
    <2> SUFFICES ASSUME ApprovalInv, Next, NEW r \in Results,
                        rows[r].status \in {"expired", "denied", "revoked"}
                 PROVE  rows'[r].status \notin {"pending", "approved", "resumed"}
      OBVIOUS
    <2>1. PICK n \in Results : Sound(n)
      BY DEF ApprovalInv
    <2>2. rows \in [Results -> Row] /\ TypeOK
      BY DEF ApprovalInv, TypeOK
    <2>3. rows'[r] = rows[r] => rows'[r].status \notin {"pending", "approved", "resumed"}
      OBVIOUS
    <2>4. \A row, v : Expired(row, v).status = "expired" \/ row \notin Row
      BY DEF Expired, Row
    <2>5. ASSUME NEW o \in Sessions, NEW q \in Results, RejectDue(o, q)
          PROVE  rows'[r].status \notin {"pending", "approved", "resumed"}
      BY <2>2, <2>3, <2>4, <2>5 DEF RejectDue
    <2>6. ASSUME NEW o \in Sessions, WriteExpired(o)
          PROVE  rows'[r].status \notin {"pending", "approved", "resumed"}
      BY <2>2, <2>3, <2>4, <2>6 DEF WriteExpired
    <2>7. CASE Reconcile
      BY <2>2, <2>3, <2>4, <2>7 DEF Reconcile
    <2>8. ASSUME NEW o \in Sessions,
                 \/ CommitApproval(o) \/ CommitRevocation(o)
                 \/ CommitDenial(o) \/ CommitResume(o)
          PROVE  rows'[r].status \notin {"pending", "approved", "resumed"}
      <3>1. rows[r].status \notin {"absent", "pending", "approved"}
        OBVIOUS
      <3>2. rows'[r] = rows[r]
        BY <2>1, <2>2, <2>8, <3>1, WrittenRows
      <3> QED
        BY <2>3, <3>2
    <2>9. ASSUME \/ \E o \in Sessions, q \in Results, s \in Subjects,
                       operation \in Operation, v \in Versions : Begin(o, q, s, operation, v)
                 \/ \E o \in Sessions : Deny(o) \/ Resume(o) \/ Rollback(o)
                 \/ \E o \in Sessions, q \in Results : ReadDue(o, q)
                 \/ Tick
          PROVE  rows'[r].status \notin {"pending", "approved", "resumed"}
      BY <2>3, <2>9 DEF Begin, Deny, Resume, Rollback, ReadDue, Tick
    <2> QED
      BY <2>5, <2>6, <2>7, <2>8, <2>9 DEF Next
  <1> QED
    BY <1>1, ApprovalsInvariant, PTL DEF Spec, RefusalIsFinal

-----------------------------------------------------------------------------
(***************************************************************************)
(* Delivery.  Whatever is under way for a batch was signed with the        *)
(* identity that the state file still holds, until the batch has its       *)
(* receipt: the file saves the identity before the first attempt and       *)
(* forgets it only after an answer that told of the receipt.               *)
(***************************************************************************)

Signed(b, i) ==
    /\ b \in Batches
    /\ i # NoIdentity
    /\ identities[b] = i \/ receipts[b] # NoIdentity

CollectorSound(c) ==
    /\ c.step # "resting" => Signed(c.batch, c.identity)
    /\ c.step = "ready" => c.attempts < SendAttempts
    /\ c.step \in {"delivered", "moving"} => receipts[c.batch] # NoIdentity
    /\ c.step = "waiting" =>
         /\ c.handler \in Handlers
         /\ handlers[c.handler].step # "quiet" => handlers[c.handler].batch = c.batch

HandlerSound(h) ==
    /\ h.step # "quiet" => Signed(h.batch, h.identity)
    /\ h.step = "enqueued" =>
         /\ imports[h.batch].status # "absent"
         /\ imports[h.batch].identity = h.identity \/ receipts[h.batch] # NoIdentity

DeliveryInv ==
    /\ CollectorSound(collector)
    /\ \A r \in Handlers : HandlerSound(handlers[r])
    /\ \A b \in Batches : imports[b].status # "absent" => Signed(b, imports[b].identity)
    /\ DeliveriesAreTrue

(***************************************************************************)
(* Import.  A transaction that flushed an event has seen that the batch    *)
(* was not imported, and only one runs at a time.                          *)
(***************************************************************************)

Own(b) == {x \in evidence : x.batch = b}

Imported(b, attempt) == {[event |-> e, batch |-> b, attempt |-> attempt] : e \in EventsOf[b]}

WorkerRow == [step: {"none", "importing", "imported"},
              flushed: SUBSET UNION {EventsOf[b] : b \in Batches}]

ImportInv ==
    /\ workers \in [Batches -> WorkerRow]
    /\ \A x \in evidence : x.batch \in Batches
    /\ \A b \in Batches :
         /\ Own(b) = {} \/ \E n, m \in Nat : Own(b) = Imported(b, <<n, m>>)
         /\ workers[b].step = "importing" /\ workers[b].flushed # {} => Own(b) = {}
         /\ workers[b].step = "imported" => Own(b) # {}
         /\ imports[b].status = "completed" => Own(b) # {}

TrafficInv == TrafficTypeOK /\ DeliveryInv /\ ImportInv

-----------------------------------------------------------------------------
(* Records *)

CollectorRow == [step: {"resting", "ready", "waiting", "delivered", "moving", "failing"},
                 batch: Batches \cup {0}, identity: Identity, attempts: 0..SendAttempts,
                 handler: Handlers \cup {0}]

HandlerRow == [step: {"quiet", "received", "enqueued"}, batch: Batches \cup {0},
               identity: Identity]

ImportRow == [status: {"absent", "queued", "running", "completed", "failed"},
              attempts: 0..ImportAttempts, repeats: 0..MaxRepeats, identity: Identity]

LEMMA TrafficTypes ==
    ASSUME TrafficTypeOK
    PROVE  /\ collector \in CollectorRow /\ handlers \in [Handlers -> HandlerRow]
           /\ imports \in [Batches -> ImportRow] /\ identities \in [Batches -> Identity]
           /\ receipts \in [Batches -> Identity] /\ nonces \in Nat /\ hour \in 0..MaxHour
  BY DEF TrafficTypeOK, CollectorRow, HandlerRow, ImportRow

LEMMA TrafficConstants ==
    /\ SendAttempts \in Nat \ {0} /\ ImportAttempts \in Nat \ {0}
    /\ MaxHour \in Nat /\ MaxRestarts \in Nat /\ MaxRepeats \in Nat
    /\ NoIdentity \in Identity /\ NoIdentity.nonce = 0
    /\ Resting \in CollectorRow /\ Resting.step = "resting"
    /\ Quiet \in HandlerRow /\ Quiet.step = "quiet"
    /\ NoImport \in ImportRow /\ NoImport.status = "absent"
  <1>1. /\ SendAttempts \in Nat \ {0} /\ ImportAttempts \in Nat \ {0}
        /\ MaxHour \in Nat /\ MaxRestarts \in Nat /\ MaxRepeats \in Nat
    BY TrafficAssumption
  <1>2. NoIdentity \in Identity /\ NoIdentity.nonce = 0
    BY <1>1 DEF NoIdentity, Identity
  <1>3. Resting \in CollectorRow /\ Resting.step = "resting"
    BY <1>1, <1>2 DEF Resting, CollectorRow
  <1>4. Quiet \in HandlerRow /\ Quiet.step = "quiet"
    BY <1>2 DEF Quiet, HandlerRow
  <1>5. NoImport \in ImportRow /\ NoImport.status = "absent"
    BY <1>1, <1>2 DEF NoImport, ImportRow
  <1> QED
    BY <1>1, <1>2, <1>3, <1>4, <1>5

\* The collector goes on to another step with the same delivery.
LEMMA CollectorWrites ==
    ASSUME NEW c \in CollectorRow,
           NEW step \in {"ready", "delivered", "moving", "failing"}
    PROVE  LET d == [c EXCEPT !.step = step]
           IN  /\ d \in CollectorRow /\ d.step = step /\ d.batch = c.batch
               /\ d.identity = c.identity /\ d.attempts = c.attempts
  BY DEF CollectorRow

-----------------------------------------------------------------------------
(* Delivery *)

\* What a step must keep so that everything that is under way stays signed.
Keeps ==
    /\ \A b \in Batches : receipts[b] # NoIdentity => receipts'[b] = receipts[b]
    /\ \A b \in Batches : \/ identities'[b] = identities[b] \/ identities[b] = NoIdentity
                          \/ receipts[b] # NoIdentity

\* Jobs never disappear, and keep the identity they were enqueued with.
JobsStay ==
    \A b \in Batches : imports[b].status # "absent" =>
        imports'[b].status # "absent" /\ imports'[b].identity = imports[b].identity

LEMMA SignedStays ==
    ASSUME Keeps, NEW b, NEW i, Signed(b, i)
    PROVE  Signed(b, i)'
  BY DEF Keeps, Signed

LEMMA HandlerStays ==
    ASSUME Keeps, JobsStay, NEW h, HandlerSound(h)
    PROVE  HandlerSound(h)'
  <1>1. h.step # "quiet" => Signed(h.batch, h.identity)'
    BY SignedStays DEF HandlerSound
  <1>2. h.step = "enqueued" => h.batch \in Batches
    BY DEF HandlerSound, Signed
  <1>3. h.step = "enqueued" =>
           /\ imports'[h.batch].status # "absent"
           /\ imports'[h.batch].identity = h.identity \/ receipts'[h.batch] # NoIdentity
    BY <1>2 DEF HandlerSound, Keeps, JobsStay
  <1> QED
    BY <1>1, <1>3 DEF HandlerSound

\* A collector that goes on with its delivery.
LEMMA CollectorStays ==
    ASSUME Keeps, CollectorSound(collector), NEW c,
           c.batch = collector.batch, c.identity = collector.identity,
           collector.step # "resting",
           c.step = "ready" => c.attempts < SendAttempts,
           c.step \in {"delivered", "moving"} => receipts'[c.batch] # NoIdentity,
           c.step # "waiting"
    PROVE  CollectorSound(c)'
  <1>1. Signed(c.batch, c.identity)'
    BY SignedStays DEF CollectorSound
  <1> QED
    BY <1>1 DEF CollectorSound

\* A collector that does nothing while handlers end or move on.
LEMMA CollectorRests ==
    ASSUME Keeps, CollectorSound(collector), collector' = collector,
           \A r \in Handlers : handlers'[r].step # "quiet" =>
              handlers[r].step # "quiet" /\ handlers'[r].batch = handlers[r].batch
    PROVE  CollectorSound(collector)'
  <1>1. collector.step # "resting" => Signed(collector.batch, collector.identity)'
    BY SignedStays DEF CollectorSound
  <1>2. collector.step \in {"delivered", "moving"} => collector.batch \in Batches
    BY DEF CollectorSound, Signed
  <1> QED
    BY <1>1, <1>2 DEF CollectorSound, Keeps

LEMMA RestingIsSound == CollectorSound(Resting)
  BY TrafficConstants DEF CollectorSound

LEMMA QuietIsSound == HandlerSound(Quiet)
  BY TrafficConstants DEF HandlerSound

LEMMA DeliveryStep ==
    ASSUME DeliveryInv, Keeps, JobsStay,
           \A b \in Batches : imports[b].status = "absent" /\ imports'[b].status # "absent"
              => Signed(b, imports'[b].identity),
           \A r \in Handlers : \/ handlers'[r] = handlers[r] \/ handlers'[r] = Quiet
                               \/ HandlerSound(handlers[r])',
           CollectorSound(collector)',
           \A b \in Batches : file'[b] = "sent" => file[b] = "sent" \/ receipts[b] # NoIdentity,
           \A b \in Batches : receipts[b] = NoIdentity /\ receipts'[b] # NoIdentity
              => imports[b].status # "absent" /\ imports[b].identity = receipts'[b]
    PROVE  DeliveryInv'
  <1>1. ASSUME NEW r \in Handlers PROVE HandlerSound(handlers[r])'
    <2>1. CASE handlers'[r] = handlers[r]
      <3>1. PICK h : h = handlers[r]
        OBVIOUS
      <3>2. HandlerSound(h)'
        BY <3>1, HandlerStays DEF DeliveryInv
      <3> QED
        BY <2>1, <3>1, <3>2 DEF HandlerSound
    <2>2. CASE handlers'[r] = Quiet
      BY <2>2, TrafficConstants DEF HandlerSound
    <2> QED
      BY <2>1, <2>2
  <1>2. ASSUME NEW b \in Batches, imports'[b].status # "absent"
        PROVE  Signed(b, imports[b].identity)'
    <2>1. PICK i : i = imports'[b].identity
      OBVIOUS
    <2>2. Signed(b, i)
      BY <1>2, <2>1 DEF DeliveryInv, JobsStay
    <2>3. Signed(b, i)'
      BY <2>2, SignedStays
    <2> QED
      BY <2>1, <2>3 DEF Signed
  <1>3. DeliveriesAreTrue'
    BY DEF DeliveryInv, DeliveriesAreTrue, Keeps, JobsStay
  <1> QED
    BY <1>1, <1>2, <1>3 DEF DeliveryInv

-----------------------------------------------------------------------------
(* The steps of the collector *)

LEMMA CollectorStep ==
    ASSUME TrafficTypeOK, DeliveryInv, NEW c \in CollectorRow,
           collector' = c, CollectorSound(c)',
           UNCHANGED <<handlers, receipts, imports, workers, evidence, hour>>,
           Keeps, identities' \in [Batches -> Identity], nonces' \in Nat,
           file' \in [Batches -> {"outbox", "sent", "failed"}],
           \A b \in Batches : file'[b] = "sent" => file[b] = "sent" \/ receipts[b] # NoIdentity,
           restarts' \in 0..MaxRestarts
    PROVE  TrafficTypeOK' /\ DeliveryInv'
  <1>1. TrafficTypeOK'
    BY DEF TrafficTypeOK, CollectorRow
  <1>2. CollectorSound(collector)'
    BY DEF CollectorSound
  <1>3. JobsStay
    BY DEF JobsStay
  <1> QED
    BY <1>1, <1>2, <1>3, DeliveryStep

LEMMA TakeFileStep ==
    ASSUME TrafficTypeOK, DeliveryInv, NEW b \in Batches, TakeFile(b)
    PROVE  TrafficTypeOK' /\ DeliveryInv'
  <1> DEFINE known == identities[b] # NoIdentity
             identity == IF known THEN identities[b]
                         ELSE [nonce |-> nonces + 1, sent_at |-> hour]
  <1>1. identity \in Identity /\ identity # NoIdentity
    BY TrafficTypes, TrafficConstants DEF Identity, NoIdentity
  <1>2. /\ identities' = [identities EXCEPT ![b] = identity]
        /\ nonces' \in Nat
        /\ UNCHANGED <<file, handlers, receipts, imports, workers, evidence, hour, restarts>>
    BY TrafficTypes DEF TakeFile
  <1>3. collector' = [step |-> "ready", batch |-> b, identity |-> identity, attempts |-> 0,
                      handler |-> 0]
    BY DEF TakeFile, Resting
  <1> HIDE DEF identity
  <1>4. PICK c \in CollectorRow :
           /\ collector' = c /\ c.step = "ready" /\ c.batch = b /\ c.identity = identity
           /\ c.attempts = 0
    BY <1>1, <1>3, TrafficConstants DEF CollectorRow
  <1>5. Keeps
    BY <1>2, TrafficTypes DEF Keeps, identity
  <1>6. identities'[b] = identity
    BY <1>2, TrafficTypes
  <1>7. CollectorSound(c)'
    BY <1>1, <1>4, <1>6, TrafficConstants DEF CollectorSound, Signed
  <1>8. identities' \in [Batches -> Identity]
    BY <1>1, <1>2, TrafficTypes
  <1> QED
    BY <1>2, <1>4, <1>5, <1>7, <1>8, CollectorStep DEF TrafficTypeOK

LEMMA SendStep ==
    ASSUME TrafficTypeOK, DeliveryInv, NEW r \in Handlers, Send(r)
    PROVE  TrafficTypeOK' /\ DeliveryInv'
  <1> DEFINE c == [collector EXCEPT !.step = "waiting", !.attempts = @ + 1, !.handler = r]
             h == [step |-> "received", batch |-> collector.batch,
                   identity |-> collector.identity]
  <1>1. collector \in CollectorRow /\ collector.step = "ready" /\ CollectorSound(collector)
    BY TrafficTypes DEF Send, DeliveryInv
  <1>2. /\ collector.attempts + 1 \in 0..SendAttempts
        /\ Signed(collector.batch, collector.identity)
    BY <1>1, TrafficConstants DEF CollectorSound, CollectorRow
  <1>3. /\ c \in CollectorRow /\ c.step = "waiting" /\ c.batch = collector.batch
        /\ c.identity = collector.identity /\ c.handler = r
    BY <1>1, <1>2 DEF CollectorRow
  <1>4. /\ h \in HandlerRow /\ h.step = "received" /\ h.batch = collector.batch
        /\ h.identity = collector.identity
    BY <1>1 DEF CollectorRow, HandlerRow
  <1>5. /\ collector' = c /\ handlers' = [handlers EXCEPT ![r] = h]
        /\ UNCHANGED <<file, identities, nonces, receipts, imports, workers, evidence, hour,
                       restarts>>
    BY DEF Send
  <1> HIDE DEF c, h
  <1>6. \A q \in Handlers : handlers'[q] = (IF q = r THEN h ELSE handlers[q])
    BY <1>5, TrafficTypes
  <1>7. Keeps /\ JobsStay
    BY <1>5 DEF Keeps, JobsStay
  <1>8. Signed(collector.batch, collector.identity) /\ receipts' = receipts
        /\ identities' = identities
    BY <1>2, <1>5
  <1>9. HandlerSound(handlers[r])'
    BY <1>4, <1>6, <1>8 DEF HandlerSound, Signed
  <1>10. CollectorSound(collector)'
    BY <1>3, <1>4, <1>5, <1>6, <1>8 DEF CollectorSound, Signed
  <1>11. DeliveryInv'
    BY <1>5, <1>6, <1>7, <1>9, <1>10, DeliveryStep
  <1>12. TrafficTypeOK'
    BY <1>3, <1>4, <1>5 DEF TrafficTypeOK, CollectorRow, HandlerRow
  <1> QED
    BY <1>11, <1>12

\* An attempt that was not answered, while requests end.
LEMMA UnansweredMoves ==
    ASSUME TrafficTypeOK, DeliveryInv, Keeps, collector.step = "waiting"
    PROVE  \E c \in CollectorRow : c = Unanswered /\ CollectorSound(c)'
  <1>1. collector \in CollectorRow /\ CollectorSound(collector)
    BY TrafficTypes DEF DeliveryInv
  <1>2. PICK c \in CollectorRow : c = Unanswered
    BY <1>1, CollectorWrites DEF Unanswered
  <1>3. /\ c.batch = collector.batch /\ c.identity = collector.identity
        /\ c.step \in {"ready", "failing"}
        /\ c.step = "ready" => c.attempts < SendAttempts
    BY <1>1, <1>2, CollectorWrites DEF Unanswered
  <1>4. CollectorSound(c)'
    BY <1>1, <1>3, CollectorStays
  <1> QED
    BY <1>2, <1>4

LEMMA CollectorEnds ==
    ASSUME TrafficTypeOK, DeliveryInv,
           GiveUpWaiting \/ SaveSuccess \/ MoveSent \/ MoveFailed \/ CrashCollector
    PROVE  TrafficTypeOK' /\ DeliveryInv'
  <1>1. /\ collector \in CollectorRow /\ CollectorSound(collector)
        /\ identities \in [Batches -> Identity] /\ nonces \in Nat
        /\ file \in [Batches -> {"outbox", "sent", "failed"}] /\ restarts \in 0..MaxRestarts
    BY TrafficTypes DEF DeliveryInv, TrafficTypeOK
  <1>2. CASE GiveUpWaiting
    <2>1. /\ collector.step = "waiting" /\ collector' = Unanswered
          /\ UNCHANGED <<file, identities, nonces, handlers, receipts, imports, workers,
                         evidence, hour, restarts>>
      BY <1>2 DEF GiveUpWaiting
    <2>2. Keeps
      BY <2>1 DEF Keeps
    <2>3. PICK c \in CollectorRow : c = Unanswered /\ CollectorSound(c)'
      BY <2>1, <2>2, UnansweredMoves
    <2> QED
      BY <1>1, <2>1, <2>2, <2>3, CollectorStep
  <1>3. CASE SaveSuccess
    <2>1. /\ collector.step = "delivered" /\ collector' = [collector EXCEPT !.step = "moving"]
          /\ identities' = [identities EXCEPT ![collector.batch] = NoIdentity]
          /\ UNCHANGED <<file, nonces, handlers, receipts, imports, workers, evidence, hour,
                         restarts>>
      BY <1>3 DEF SaveSuccess
    <2>2. PICK c \in CollectorRow :
             /\ collector' = c /\ c.step = "moving"
             /\ c.batch = collector.batch /\ c.identity = collector.identity
      BY <1>1, <2>1, CollectorWrites
    <2>3. receipts[collector.batch] # NoIdentity /\ collector.batch \in Batches
      BY <1>1, <2>1 DEF CollectorSound, Signed
    <2>4. Keeps
      BY <1>1, <2>1, <2>3 DEF Keeps
    <2>5. CollectorSound(c)'
      BY <1>1, <2>1, <2>2, <2>3, <2>4, CollectorStays
    <2>6. identities' \in [Batches -> Identity]
      BY <1>1, <2>1, TrafficConstants
    <2> QED
      BY <1>1, <2>1, <2>2, <2>4, <2>5, <2>6, CollectorStep
  <1>4. CASE MoveSent \/ MoveFailed \/ CrashCollector
    <2>1. /\ collector' = Resting
          /\ UNCHANGED <<identities, nonces, handlers, receipts, imports, workers, evidence,
                         hour>>
      BY <1>4 DEF MoveSent, MoveFailed, CrashCollector
    <2>2. Keeps
      BY <2>1 DEF Keeps
    <2>3. CollectorSound(Resting)'
      BY TrafficConstants DEF CollectorSound
    <2>4. restarts' \in 0..MaxRestarts
      BY <1>1, <1>4, TrafficConstants DEF MoveSent, MoveFailed, CrashCollector
    <2>5. /\ file' \in [Batches -> {"outbox", "sent", "failed"}]
          /\ \A b \in Batches : file'[b] = "sent" => file[b] = "sent" \/ receipts[b] # NoIdentity
      BY <1>1, <1>4 DEF MoveSent, MoveFailed, CrashCollector, CollectorSound
    <2> QED
      BY <1>1, <2>1, <2>2, <2>3, <2>4, <2>5, TrafficConstants, CollectorStep
  <1> QED
    BY <1>2, <1>3, <1>4

-----------------------------------------------------------------------------
(* The steps of the server *)

LEMMA ReplyStep ==
    ASSUME TrafficTypeOK, DeliveryInv, NEW r \in Handlers, handlers[r].step # "quiet",
           NEW step \in {"delivered", "failing"}, Reply(r, step),
           step = "delivered" => receipts'[handlers[r].batch] # NoIdentity,
           UNCHANGED <<file, identities, nonces, imports, workers, evidence, hour, restarts>>,
           receipts' \in [Batches -> Identity],
           \A b \in Batches : \/ receipts'[b] = receipts[b]
                              \/ /\ receipts[b] = NoIdentity
                                 /\ imports[b].status # "absent"
                                 /\ imports[b].identity = receipts'[b]
    PROVE  TrafficTypeOK' /\ DeliveryInv'
  <1>1. /\ collector \in CollectorRow /\ CollectorSound(collector)
        /\ handlers \in [Handlers -> HandlerRow]
    BY TrafficTypes DEF DeliveryInv
  <1>2. Keeps /\ JobsStay
    BY DEF Keeps, JobsStay
  <1>3. handlers' = [handlers EXCEPT ![r] = Quiet]
    BY DEF Reply
  <1>4. \A q \in Handlers : handlers'[q] = (IF q = r THEN Quiet ELSE handlers[q])
    BY <1>1, <1>3
  <1>5. PICK c \in CollectorRow : collector' = c /\ CollectorSound(c)'
    <2>1. CASE collector.step = "waiting" /\ collector.handler = r
      <3>1. PICK c \in CollectorRow :
               /\ collector' = c /\ c.step = step
               /\ c.batch = collector.batch /\ c.identity = collector.identity
        <4>1. collector' = [collector EXCEPT !.step = step]
          BY <2>1 DEF Reply
        <4>2. CASE step = "delivered"
          BY <1>1, <4>1, <4>2, CollectorWrites
        <4>3. CASE step = "failing"
          BY <1>1, <4>1, <4>3, CollectorWrites
        <4> QED
          BY <4>2, <4>3
      <3>2. handlers[r].batch = collector.batch
        BY <1>1, <2>1 DEF CollectorSound
      <3>3. CollectorSound(c)'
        BY <1>1, <1>2, <2>1, <3>1, <3>2, CollectorStays
      <3> QED
        BY <3>1, <3>3
    <2>2. CASE ~(collector.step = "waiting" /\ collector.handler = r)
      <3>1. collector' = collector
        BY <2>2 DEF Reply
      <3>2. CollectorSound(collector)'
        BY <1>1, <1>2, <1>4, <3>1, CollectorRests, TrafficConstants
      <3> QED
        BY <1>1, <3>1, <3>2 DEF CollectorSound
    <2> QED
      BY <2>1, <2>2
  <1>6. CollectorSound(collector)'
    BY <1>5 DEF CollectorSound
  <1>7. DeliveryInv'
    BY <1>2, <1>4, <1>6, DeliveryStep
  <1>8. TrafficTypeOK'
    BY <1>1, <1>3, <1>5, TrafficConstants DEF TrafficTypeOK, CollectorRow, HandlerRow
  <1> QED
    BY <1>7, <1>8

\* A request that found a receipt is answered by it.
LEMMA ReplayStep ==
    ASSUME TrafficTypeOK, DeliveryInv, NEW r \in Handlers, handlers[r].step # "quiet",
           Replayed(r),
           UNCHANGED <<file, identities, nonces, receipts, imports, workers, evidence, hour,
                       restarts>>
    PROVE  TrafficTypeOK' /\ DeliveryInv'
  <1> DEFINE agrees == /\ ReceiptsLike(r) = {handlers[r].batch}
                       /\ receipts[handlers[r].batch] = handlers[r].identity
  <1>1. PICK step \in {"delivered", "failing"} :
           Reply(r, step) /\ (step = "delivered" => agrees)
    BY DEF Replayed
  <1>2. agrees => receipts[handlers[r].batch] # NoIdentity
    BY DEF ReceiptsLike
  <1>3. receipts' \in [Batches -> Identity]
    BY TrafficTypes
  <1> QED
    BY <1>1, <1>2, <1>3, ReplyStep

LEMMA EnqueueStep ==
    ASSUME TrafficTypeOK, DeliveryInv, NEW r \in Handlers, EnqueueImport(r)
    PROVE  TrafficTypeOK' /\ DeliveryInv'
  <1> DEFINE b == handlers[r].batch
             i == handlers[r].identity
  <1>1. /\ handlers \in [Handlers -> HandlerRow] /\ handlers[r].step = "received"
        /\ imports \in [Batches -> ImportRow]
        /\ collector \in CollectorRow /\ CollectorSound(collector)
        /\ UNCHANGED <<file, identities, nonces, collector, receipts, workers, evidence, hour,
                       restarts>>
    BY TrafficTypes DEF EnqueueImport, DeliveryInv
  <1>2. b \in Batches /\ i \in Identity /\ Signed(b, i) /\ receipts[b] = NoIdentity
    BY <1>1 DEF DeliveryInv, HandlerSound, EnqueueImport, Signed, ReceiptsLike, HandlerRow
  <1>3. PICK h \in HandlerRow :
           /\ handlers' = [handlers EXCEPT ![r] = h] /\ h.step = "enqueued"
           /\ h.batch = b /\ h.identity = i
    <2> DEFINE h == [handlers[r] EXCEPT !.step = "enqueued"]
    <2>1. handlers' = [handlers EXCEPT ![r] = h]
      BY <1>1 DEF EnqueueImport
    <2>2. handlers[r] \in HandlerRow
      BY <1>1
    <2>3. h \in HandlerRow /\ h.step = "enqueued" /\ h.batch = b /\ h.identity = i
      BY <2>2 DEF HandlerRow
    <2> QED
      BY <2>1, <2>3
  <1>4. PICK j \in ImportRow :
           /\ imports' = [imports EXCEPT ![b] = j]
           /\ j.status # "absent"
           /\ imports[b].status # "absent" => j = imports[b]
           /\ imports[b].status = "absent" => j.identity = i
           /\ j.status = "completed" => imports[b].status = "completed"
           /\ j.status = "running" <=> imports[b].status = "running"
    <2>1. CASE imports[b].status = "absent"
      <3> DEFINE j == [imports[b] EXCEPT !.status = "queued", !.identity = i]
      <3>1. imports' = [imports EXCEPT ![b] = j]
        BY <1>1, <2>1 DEF EnqueueImport
      <3>2. imports[b] \in ImportRow
        BY <1>1, <1>2
      <3>3. j \in ImportRow /\ j.status = "queued" /\ j.identity = i
        BY <1>2, <3>2 DEF ImportRow
      <3> QED
        BY <2>1, <3>1, <3>3
    <2>2. CASE imports[b].status # "absent"
      <3>1. imports' = [imports EXCEPT ![b] = imports[b]]
        BY <1>1, <2>2 DEF EnqueueImport
      <3> QED
        BY <1>1, <1>2, <2>2, <3>1
    <2> QED
      BY <2>1, <2>2
  <1> HIDE DEF b, i
  <1>5. /\ \A q \in Handlers : handlers'[q] = (IF q = r THEN h ELSE handlers[q])
        /\ \A d \in Batches : imports'[d] = (IF d = b THEN j ELSE imports[d])
    BY <1>1, <1>3, <1>4
  <1>6. Keeps /\ JobsStay
    BY <1>1, <1>4, <1>5 DEF Keeps, JobsStay
  <1>7. CollectorSound(collector)'
    BY <1>1, <1>3, <1>5, <1>6, CollectorRests DEF b
  <1>8. imports[b].status # "absent" => Signed(b, imports[b].identity)
    BY <1>2 DEF DeliveryInv
  <1>9. HandlerSound(handlers[r])'
    BY <1>1, <1>2, <1>3, <1>4, <1>5, <1>8 DEF HandlerSound, Signed
  <1>10. \A d \in Batches : imports[d].status = "absent" /\ imports'[d].status # "absent"
            => Signed(d, imports'[d].identity)
    BY <1>2, <1>4, <1>5
  <1>11. DeliveryInv'
    BY <1>1, <1>5, <1>6, <1>7, <1>9, <1>10, DeliveryStep
  <1>12. TrafficTypeOK'
    <2>1. imports' \in [Batches -> ImportRow] /\ handlers' \in [Handlers -> HandlerRow]
      BY <1>1, <1>3, <1>4
    <2>2. \A d \in Batches : imports'[d].status = "running" <=> imports[d].status = "running"
      BY <1>4, <1>5
    <2> QED
      BY <1>1, <2>1, <2>2 DEF TrafficTypeOK, HandlerRow, ImportRow
  <1> QED
    BY <1>11, <1>12

LEMMA CommitReceiptStep ==
    ASSUME TrafficTypeOK, DeliveryInv, NEW r \in Handlers, CommitReceipt(r)
    PROVE  TrafficTypeOK' /\ DeliveryInv'
  <1>1. handlers[r].step = "enqueued" /\ HandlerSound(handlers[r])
        /\ UNCHANGED <<file, identities, nonces, imports, workers, evidence, hour, restarts>>
    BY DEF CommitReceipt, DeliveryInv
  <1>2. CASE ReceiptsLike(r) # {}
    BY <1>1, <1>2, ReplayStep DEF CommitReceipt
  <1>3. CASE ReceiptsLike(r) = {}
    <2> DEFINE b == handlers[r].batch
               i == handlers[r].identity
    <2>1. receipts' = [receipts EXCEPT ![b] = i] /\ Reply(r, "delivered")
      BY <1>3 DEF CommitReceipt
    <2>2. b \in Batches /\ i # NoIdentity /\ i \in Identity
      BY <1>1, TrafficTypes DEF HandlerSound, Signed, HandlerRow
    <2>3. receipts[b] = NoIdentity
      BY <1>3, <2>2 DEF ReceiptsLike
    <2>4. imports[b].status # "absent" /\ imports[b].identity = i
      BY <1>1, <2>3 DEF HandlerSound
    <2> HIDE DEF i
    <2>5. /\ receipts' \in [Batches -> Identity] /\ receipts'[b] # NoIdentity
          /\ \A d \in Batches : receipts'[d] = (IF d = b THEN i ELSE receipts[d])
      BY <2>1, <2>2, TrafficTypes
    <2> QED
      BY <1>1, <2>1, <2>3, <2>4, <2>5, ReplyStep
  <1> QED
    BY <1>2, <1>3

LEMMA ServerStep ==
    ASSUME TrafficTypeOK, DeliveryInv,
           \/ \E r \in Handlers : \/ ReplayReceipt(r) \/ RefuseSkewed(r)
                                  \/ EnqueueImport(r) \/ CommitReceipt(r)
           \/ CrashServer
    PROVE  TrafficTypeOK' /\ DeliveryInv'
  <1>1. ASSUME NEW r \in Handlers, ReplayReceipt(r) PROVE TrafficTypeOK' /\ DeliveryInv'
    BY <1>1, ReplayStep DEF ReplayReceipt
  <1>2. ASSUME NEW r \in Handlers, RefuseSkewed(r) PROVE TrafficTypeOK' /\ DeliveryInv'
    <2>1. /\ handlers[r].step # "quiet" /\ Reply(r, "failing")
          /\ UNCHANGED <<file, identities, nonces, receipts, imports, workers, evidence, hour,
                         restarts>>
      BY <1>2 DEF RefuseSkewed
    <2>2. receipts' \in [Batches -> Identity]
      BY <2>1, TrafficTypes
    <2> QED
      BY <2>1, <2>2, ReplyStep
  <1>3. CASE CrashServer
    <2>1. /\ handlers' = [r \in Handlers |-> Quiet] /\ restarts' \in 0..MaxRestarts
          /\ UNCHANGED <<file, identities, nonces, receipts, imports, workers, evidence, hour>>
      BY <1>3, TrafficConstants DEF CrashServer, TrafficTypeOK
    <2>2. Keeps /\ JobsStay
      BY <2>1 DEF Keeps, JobsStay
    <2>3. PICK c \in CollectorRow : collector' = c /\ CollectorSound(c)'
      <3>1. CASE collector.step = "waiting"
        BY <1>3, <2>2, <3>1, UnansweredMoves DEF CrashServer
      <3>2. CASE collector.step # "waiting"
        <4>1. collector' = collector /\ collector \in CollectorRow
          BY <1>3, <3>2, TrafficTypes DEF CrashServer
        <4>2. CollectorSound(collector)'
          BY <2>1, <2>2, <4>1, CollectorRests, TrafficConstants DEF DeliveryInv
        <4> QED
          BY <4>1, <4>2 DEF CollectorSound
      <3> QED
        BY <3>1, <3>2
    <2>4. CollectorSound(collector)'
      BY <2>3 DEF CollectorSound
    <2>5. DeliveryInv'
      BY <2>1, <2>2, <2>4, DeliveryStep
    <2>6. TrafficTypeOK'
      BY <2>1, <2>3, TrafficConstants DEF TrafficTypeOK, CollectorRow, HandlerRow
    <2> QED
      BY <2>5, <2>6
  <1> QED
    BY <1>1, <1>2, <1>3, EnqueueStep, CommitReceiptStep

-----------------------------------------------------------------------------
(* The steps of the workers *)

\* A step of the worker that has job b, which writes the row of the job.
LEMMA WorkerStep ==
    ASSUME TrafficTypeOK, DeliveryInv, ImportInv, NEW b \in Batches,
           NEW j \in ImportRow, NEW w \in WorkerRow,
           imports' = [imports EXCEPT ![b] = j], workers' = [workers EXCEPT ![b] = w],
           j.identity = imports[b].identity,
           imports[b].status # "absent", j.status # "absent",
           w.step # "none" <=> j.status = "running",
           w.flushed \subseteq EventsOf[b],
           w.step = "importing" /\ w.flushed # {} => Own(b) = {},
           w.step = "imported" \/ j.status = "completed" => Own(b)' # {},
           \/ evidence' = evidence
           \/ /\ Own(b) = {} /\ ~(w.step = "importing")
              /\ \E n, m \in Nat : evidence' = evidence \cup Imported(b, <<n, m>>),
           restarts' \in 0..MaxRestarts,
           UNCHANGED <<file, identities, nonces, collector, handlers, receipts, hour>>
    PROVE  TrafficInv'
  <1>1. imports \in [Batches -> ImportRow] /\ workers \in [Batches -> WorkerRow]
    BY TrafficTypes DEF ImportInv
  <1>2. /\ \A c \in Batches : imports'[c] = (IF c = b THEN j ELSE imports[c])
        /\ \A c \in Batches : workers'[c] = (IF c = b THEN w ELSE workers[c])
        /\ imports' \in [Batches -> ImportRow] /\ workers' \in [Batches -> WorkerRow]
    BY <1>1
  <1>3. Keeps /\ JobsStay
    BY <1>2 DEF Keeps, JobsStay
  <1>4. CollectorSound(collector)'
    BY <1>3, CollectorRests DEF DeliveryInv
  <1>5. DeliveryInv'
    <2>1. \A c \in Batches : imports'[c].status # "absent" => imports[c].status # "absent"
      BY <1>2
    <2> QED
      BY <1>3, <1>4, <2>1, DeliveryStep
  <1>6. TrafficTypeOK'
    <2>1. \A c \in Batches : /\ workers'[c].step \in {"none", "importing", "imported"}
                             /\ workers'[c].flushed \subseteq EventsOf[c]
                             /\ workers'[c].step # "none" <=> imports'[c].status = "running"
      BY <1>2 DEF TrafficTypeOK, WorkerRow
    <2> QED
      BY <1>2, <2>1 DEF TrafficTypeOK, ImportRow
  <1>7. \A c \in Batches \ {b} : Own(c)' = Own(c)
    BY DEF Own, Imported
  <1>8. Own(b)' = {} \/ \E n, m \in Nat : Own(b)' = Imported(b, <<n, m>>)
    <2>1. CASE evidence' = evidence
      BY <2>1 DEF ImportInv, Own
    <2>2. ASSUME Own(b) = {},
                 NEW n \in Nat, NEW m \in Nat, evidence' = evidence \cup Imported(b, <<n, m>>)
          PROVE  Own(b)' = Imported(b, <<n, m>>)
      BY <2>2 DEF Own, Imported
    <2> QED
      BY <2>1, <2>2
  <1>9. \A x \in evidence' : x.batch \in Batches
    BY DEF ImportInv, Imported
  <1>10. w.step = "importing" /\ w.flushed # {} => Own(b)' = {}
    BY DEF Own
  <1>11. ImportInv'
    <2>1. ASSUME NEW c \in Batches
          PROVE  /\ Own(c)' = {} \/ \E n, m \in Nat : Own(c)' = Imported(c, <<n, m>>)
                 /\ workers'[c].step = "importing" /\ workers'[c].flushed # {} => Own(c)' = {}
                 /\ workers'[c].step = "imported" => Own(c)' # {}
                 /\ imports'[c].status = "completed" => Own(c)' # {}
      <3>1. CASE c = b
        BY <1>2, <1>8, <1>10, <3>1
      <3>2. CASE c # b
        BY <1>2, <1>7, <3>2 DEF ImportInv
      <3> QED
        BY <3>1, <3>2
    <2> QED
      BY <1>2, <1>9, <2>1 DEF ImportInv, Imported
  <1> QED
    BY <1>5, <1>6, <1>11 DEF TrafficInv

\* The row of a job and of its worker, written.
LEMMA StartWrite ==
    ASSUME NEW j \in ImportRow, j.attempts < ImportAttempts
    PROVE  /\ [j EXCEPT !.status = "running", !.attempts = @ + 1] \in ImportRow
           /\ [j EXCEPT !.status = "running", !.attempts = @ + 1].status = "running"
           /\ [j EXCEPT !.status = "running", !.attempts = @ + 1].identity = j.identity
  <1>1. j.attempts + 1 \in 0..ImportAttempts
    BY TrafficConstants DEF ImportRow
  <1> QED
    BY <1>1 DEF ImportRow

LEMMA StatusWrite ==
    ASSUME NEW j \in ImportRow, NEW s \in {"queued", "completed", "failed"}
    PROVE  /\ [j EXCEPT !.status = s] \in ImportRow
           /\ [j EXCEPT !.status = s].status = s
           /\ [j EXCEPT !.status = s].identity = j.identity
  BY DEF ImportRow

LEMMA RequeueWrite ==
    ASSUME NEW j \in ImportRow, j.repeats < MaxRepeats
    PROVE  LET k == [j EXCEPT !.status = "queued", !.attempts = 0, !.repeats = @ + 1]
           IN  k \in ImportRow /\ k.status = "queued" /\ k.identity = j.identity
  <1>1. j.repeats + 1 \in 0..MaxRepeats /\ 0 \in 0..ImportAttempts
    BY TrafficConstants DEF ImportRow
  <1> QED
    BY <1>1 DEF ImportRow

LEMMA WorkerStarts ==
    /\ NoTransaction \in WorkerRow /\ NoTransaction.step = "none" /\ NoTransaction.flushed = {}
    /\ [step |-> "importing", flushed |-> {}] \in WorkerRow
  BY DEF WorkerRow, NoTransaction

LEMMA FlushWrite ==
    ASSUME NEW w \in WorkerRow, NEW b \in Batches, NEW e \in EventsOf[b]
    PROVE  /\ [w EXCEPT !.flushed = @ \cup {e}] \in WorkerRow
           /\ [w EXCEPT !.flushed = @ \cup {e}].step = w.step
           /\ [w EXCEPT !.flushed = @ \cup {e}].flushed = w.flushed \cup {e}
  BY DEF WorkerRow

LEMMA CommitWrite ==
    ASSUME NEW w \in WorkerRow
    PROVE  /\ [w EXCEPT !.step = "imported"] \in WorkerRow
           /\ [w EXCEPT !.step = "imported"].step = "imported"
           /\ [w EXCEPT !.step = "imported"].flushed = w.flushed
  BY DEF WorkerRow

LEMMA StartImportStep ==
    ASSUME TrafficInv, NEW b \in Batches, StartImport(b) PROVE TrafficInv'
  <1>1. /\ TrafficTypeOK /\ DeliveryInv /\ ImportInv
        /\ imports[b] \in ImportRow /\ workers \in [Batches -> WorkerRow]
    BY TrafficTypes DEF TrafficInv, ImportInv
  <1>2. /\ imports[b].status = "queued" /\ imports[b].attempts < ImportAttempts
        /\ workers' = [workers EXCEPT ![b] = [step |-> "importing", flushed |-> {}]]
        /\ UNCHANGED <<file, identities, nonces, collector, handlers, receipts, evidence, hour,
                       restarts>>
    BY DEF StartImport
  <1>3. PICK j \in ImportRow :
           /\ imports' = [imports EXCEPT ![b] = j]
           /\ j.status = "running" /\ j.identity = imports[b].identity
    <2> DEFINE k == [imports[b] EXCEPT !.status = "running", !.attempts = @ + 1]
    <2>1. k \in ImportRow /\ k.status = "running" /\ k.identity = imports[b].identity
      BY <1>1, <1>2, StartWrite
    <2>2. imports' = [imports EXCEPT ![b] = k]
      BY DEF StartImport
    <2> QED
      BY <2>1, <2>2
  <1>4. PICK w \in WorkerRow :
           workers' = [workers EXCEPT ![b] = w] /\ w.step = "importing" /\ w.flushed = {}
    BY <1>2, WorkerStarts
  <1>5. restarts' \in 0..MaxRestarts
    BY <1>1, <1>2 DEF TrafficTypeOK
  <1> QED
    BY <1>1, <1>2, <1>3, <1>4, <1>5, WorkerStep

LEMMA ImportEventStep ==
    ASSUME TrafficInv, NEW b \in Batches, NEW e \in EventsOf[b], ImportEvent(b, e)
    PROVE  TrafficInv'
  <1>1. /\ TrafficTypeOK /\ DeliveryInv /\ ImportInv
        /\ imports \in [Batches -> ImportRow] /\ workers \in [Batches -> WorkerRow]
    BY TrafficTypes DEF TrafficInv, ImportInv
  <1>2. /\ workers[b].step = "importing" /\ e \in EventsOf[b] /\ ~Duplicate(b, e)
        /\ UNCHANGED <<file, identities, nonces, collector, handlers, receipts, imports,
                       evidence, hour, restarts>>
    BY DEF ImportEvent
  <1>3. PICK w \in WorkerRow :
           /\ workers' = [workers EXCEPT ![b] = w]
           /\ w.step = "importing" /\ w.flushed = workers[b].flushed \cup {e}
    <2> DEFINE v == [workers[b] EXCEPT !.flushed = @ \cup {e}]
    <2>1. v \in WorkerRow /\ v.step = "importing" /\ v.flushed = workers[b].flushed \cup {e}
      BY <1>1, <1>2, FlushWrite
    <2>2. workers' = [workers EXCEPT ![b] = v]
      BY DEF ImportEvent
    <2> QED
      BY <2>1, <2>2
  <1>4. PICK j \in ImportRow : j = imports[b] /\ imports' = [imports EXCEPT ![b] = j]
    BY <1>1, <1>2
  <1>5. j.status = "running" /\ workers[b].flushed \subseteq EventsOf[b]
    BY <1>1, <1>2, <1>4 DEF TrafficTypeOK
  \* Every event of a batch that was imported is a duplicate.
  <1>6. Own(b) = {}
    <2>1. \A x \in evidence : x.event # e
      BY <1>2 DEF Duplicate
    <2>2. ASSUME NEW t, Own(b) = Imported(b, t) PROVE FALSE
      <3>1. [event |-> e, batch |-> b, attempt |-> t] \in Own(b)
        BY <1>2, <2>2 DEF Imported
      <3> QED
        BY <2>1, <3>1 DEF Own
    <2> QED
      BY <1>1, <2>2 DEF ImportInv
  <1>7. restarts' \in 0..MaxRestarts
    BY <1>1, <1>2 DEF TrafficTypeOK
  <1> QED
    BY <1>1, <1>2, <1>3, <1>4, <1>5, <1>6, <1>7, WorkerStep

LEMMA CommitImportStep ==
    ASSUME TrafficInv, NEW b \in Batches, CommitImport(b) PROVE TrafficInv'
  <1>1. /\ TrafficTypeOK /\ DeliveryInv /\ ImportInv
        /\ imports \in [Batches -> ImportRow] /\ workers \in [Batches -> WorkerRow]
    BY TrafficTypes DEF TrafficInv, ImportInv
  <1>2. /\ workers[b].step = "importing" /\ workers[b].flushed = EventsOf[b]
        /\ UNCHANGED <<file, identities, nonces, collector, handlers, receipts, imports, hour,
                       restarts>>
    BY DEF CommitImport
  <1>3. PICK w \in WorkerRow :
           /\ workers' = [workers EXCEPT ![b] = w]
           /\ w.step = "imported" /\ w.flushed = EventsOf[b]
    <2> DEFINE v == [workers[b] EXCEPT !.step = "imported"]
    <2>1. v \in WorkerRow /\ v.step = "imported" /\ v.flushed = EventsOf[b]
      BY <1>1, <1>2, CommitWrite
    <2>2. workers' = [workers EXCEPT ![b] = v]
      BY DEF CommitImport
    <2> QED
      BY <2>1, <2>2
  <1>4. PICK j \in ImportRow : j = imports[b] /\ imports' = [imports EXCEPT ![b] = j]
    BY <1>1, <1>2
  <1>5. j.status = "running" /\ j.attempts \in Nat /\ j.repeats \in Nat
    BY <1>1, <1>2, <1>4, TrafficConstants DEF TrafficTypeOK, ImportRow
  <1>6. EventsOf[b] # {} /\ Own(b) = {}
    BY <1>1, <1>2, TrafficAssumption DEF ImportInv
  <1>7. evidence' = evidence \cup Imported(b, <<j.repeats, j.attempts>>)
    BY <1>2, <1>4 DEF CommitImport, Imported
  <1>8. Own(b)' # {}
    <2>1. PICK e : e \in EventsOf[b]
      BY <1>6
    <2>2. [event |-> e, batch |-> b, attempt |-> <<j.repeats, j.attempts>>] \in evidence'
      BY <1>7, <2>1 DEF Imported
    <2> QED
      BY <2>2 DEF Own
  <1>9. restarts' \in 0..MaxRestarts
    BY <1>1, <1>2 DEF TrafficTypeOK
  <1> QED
    BY <1>1, <1>2, <1>3, <1>4, <1>5, <1>6, <1>7, <1>8, <1>9, WorkerStep

\* A transaction that ends without evidence.
LEMMA WorkerEnds ==
    ASSUME TrafficInv, NEW b \in Batches,
           RefuseImport(b) \/ CompleteImport(b) \/ CrashImport(b)
    PROVE  TrafficInv'
  <1>1. /\ TrafficTypeOK /\ DeliveryInv /\ ImportInv
        /\ imports[b] \in ImportRow /\ workers \in [Batches -> WorkerRow]
    BY TrafficTypes DEF TrafficInv, ImportInv
  <1>2. /\ workers[b].step # "none"
        /\ workers' = [workers EXCEPT ![b] = NoTransaction]
        /\ UNCHANGED <<file, identities, nonces, collector, handlers, receipts, evidence, hour>>
    BY DEF RefuseImport, CompleteImport, CrashImport
  <1>3. PICK s \in {"queued", "completed", "failed"} :
           /\ imports' = [imports EXCEPT ![b].status = s]
           /\ s = "completed" => workers[b].step = "imported"
    BY DEF RefuseImport, CompleteImport, CrashImport
  <1>4. PICK j \in ImportRow :
           /\ imports' = [imports EXCEPT ![b] = j]
           /\ j.status = s /\ j.identity = imports[b].identity
    <2> DEFINE k == [imports[b] EXCEPT !.status = s]
    <2>1. k \in ImportRow /\ k.status = s /\ k.identity = imports[b].identity
      BY <1>1, <1>3, StatusWrite
    <2>2. imports' = [imports EXCEPT ![b] = k]
      BY <1>3
    <2> QED
      BY <2>1, <2>2
  <1>5. PICK w \in WorkerRow :
           workers' = [workers EXCEPT ![b] = w] /\ w.step = "none" /\ w.flushed = {}
    BY <1>2, WorkerStarts
  <1>6. imports[b].status = "running"
    BY <1>1, <1>2 DEF TrafficTypeOK
  <1>7. j.status = "completed" => Own(b)' # {}
    BY <1>1, <1>2, <1>3, <1>4 DEF ImportInv, Own
  <1>8. restarts' \in 0..MaxRestarts
    BY <1>1, TrafficConstants DEF TrafficTypeOK, RefuseImport, CompleteImport, CrashImport
  <1>9. /\ imports[b].status # "absent" /\ j.status # "absent"
        /\ w.step # "none" <=> j.status = "running"
        /\ w.flushed \subseteq EventsOf[b]
        /\ w.step = "importing" /\ w.flushed # {} => Own(b) = {}
        /\ w.step = "imported" \/ j.status = "completed" => Own(b)' # {}
    <2>1. s # "absent" /\ s # "running"
      BY <1>3
    <2> QED
      BY <2>1, <1>4, <1>5, <1>6, <1>7
  <1> QED
    BY <1>1, <1>2, <1>4, <1>5, <1>8, <1>9, WorkerStep

LEMMA RequeueImportStep ==
    ASSUME TrafficInv, NEW b \in Batches, RequeueImport(b) PROVE TrafficInv'
  <1>1. /\ TrafficTypeOK /\ DeliveryInv /\ ImportInv
        /\ imports[b] \in ImportRow /\ workers \in [Batches -> WorkerRow]
    BY TrafficTypes DEF TrafficInv, ImportInv
  <1>2. /\ imports[b].status = "failed" /\ imports[b].repeats < MaxRepeats
        /\ UNCHANGED <<file, identities, nonces, collector, handlers, receipts, workers,
                       evidence, hour, restarts>>
    BY DEF RequeueImport
  <1>3. PICK j \in ImportRow :
           /\ imports' = [imports EXCEPT ![b] = j]
           /\ j.status = "queued" /\ j.identity = imports[b].identity
    <2> DEFINE k == [imports[b] EXCEPT !.status = "queued", !.attempts = 0, !.repeats = @ + 1]
    <2>1. k \in ImportRow /\ k.status = "queued" /\ k.identity = imports[b].identity
      BY <1>1, <1>2, RequeueWrite
    <2>2. imports' = [imports EXCEPT ![b] = k]
      BY DEF RequeueImport
    <2> QED
      BY <2>1, <2>2
  <1>4. PICK w \in WorkerRow : w = workers[b] /\ workers' = [workers EXCEPT ![b] = w]
    BY <1>1, <1>2
  <1>5. w.step = "none" /\ w.flushed \subseteq EventsOf[b]
    BY <1>1, <1>2, <1>4 DEF TrafficTypeOK
  <1>6. restarts' \in 0..MaxRestarts
    BY <1>1, <1>2 DEF TrafficTypeOK
  <1> QED
    BY <1>1, <1>2, <1>3, <1>4, <1>5, <1>6, WorkerStep

\* A step of the collector or of the server imports nothing.
LEMMA ImportStays ==
    ASSUME ImportInv, UNCHANGED <<workers, evidence>>,
           \A b \in Batches : imports'[b].status = "completed" => imports[b].status = "completed"
    PROVE  ImportInv'
  <1>1. \A b : Own(b)' = Own(b)
    BY DEF Own
  <1> QED
    BY <1>1 DEF ImportInv, Imported

LEMMA TrafficInitial == TrafficInit => TrafficInv
  <1> SUFFICES ASSUME TrafficInit PROVE TrafficInv
    OBVIOUS
  <1>1. /\ file = [b \in Batches |-> "outbox"] /\ identities = [b \in Batches |-> NoIdentity]
        /\ nonces = 0 /\ collector = Resting /\ handlers = [r \in Handlers |-> Quiet]
        /\ receipts = [b \in Batches |-> NoIdentity] /\ imports = [b \in Batches |-> NoImport]
        /\ workers = [b \in Batches |-> NoTransaction] /\ evidence = {} /\ hour = 0
        /\ restarts = 0
    BY DEF TrafficInit
  <1>2. TrafficTypeOK
    BY <1>1, TrafficConstants, WorkerStarts
    DEF TrafficTypeOK, CollectorRow, HandlerRow, ImportRow
  <1>3. DeliveryInv
    BY <1>1, RestingIsSound, QuietIsSound, TrafficConstants DEF DeliveryInv, DeliveriesAreTrue
  <1>4. ImportInv
    BY <1>1, WorkerStarts, TrafficConstants DEF ImportInv, Own
  <1> QED
    BY <1>2, <1>3, <1>4 DEF TrafficInv

LEMMA TrafficStep == TrafficInv /\ [TrafficNext]_trafficVars => TrafficInv'
  <1> SUFFICES ASSUME TrafficInv, [TrafficNext]_trafficVars PROVE TrafficInv'
    OBVIOUS
  <1>1. TrafficTypeOK /\ DeliveryInv /\ ImportInv
    BY DEF TrafficInv
  <1>2. CASE UNCHANGED trafficVars \/ PassHour
    <2>1. /\ UNCHANGED <<file, identities, nonces, collector, handlers, receipts, imports,
                         workers, evidence, restarts>>
          /\ hour' \in 0..MaxHour
      BY <1>1, <1>2, TrafficConstants DEF trafficVars, PassHour, TrafficTypeOK
    <2>2. Keeps /\ JobsStay
      BY <2>1 DEF Keeps, JobsStay
    <2>3. CollectorSound(collector)'
      BY <1>1, <2>1, <2>2, CollectorRests DEF DeliveryInv
    <2>4. DeliveryInv'
      BY <1>1, <2>1, <2>2, <2>3, DeliveryStep
    <2>5. TrafficTypeOK'
      BY <1>1, <2>1 DEF TrafficTypeOK
    <2> QED
      BY <1>1, <2>1, <2>4, <2>5, ImportStays DEF TrafficInv
  <1>3. ASSUME \/ \E b \in Batches : TakeFile(b)
               \/ \E r \in Handlers : Send(r)
               \/ GiveUpWaiting \/ SaveSuccess \/ MoveSent \/ MoveFailed \/ CrashCollector
        PROVE  TrafficInv'
    <2>1. TrafficTypeOK' /\ DeliveryInv'
      BY <1>1, <1>3, TakeFileStep, SendStep, CollectorEnds
    <2>2. UNCHANGED <<imports, workers, evidence>>
      BY <1>3
      DEF TakeFile, Send, GiveUpWaiting, SaveSuccess, MoveSent, MoveFailed, CrashCollector
    <2> QED
      BY <1>1, <2>1, <2>2, ImportStays DEF TrafficInv
  <1>4. ASSUME \/ \E r \in Handlers : \/ ReplayReceipt(r) \/ RefuseSkewed(r)
                                      \/ EnqueueImport(r) \/ CommitReceipt(r)
               \/ CrashServer
        PROVE  TrafficInv'
    <2>1. TrafficTypeOK' /\ DeliveryInv'
      BY <1>1, <1>4, ServerStep
    <2>2. UNCHANGED <<workers, evidence>>
      BY <1>4 DEF ReplayReceipt, RefuseSkewed, EnqueueImport, CommitReceipt, CrashServer
    <2>3. \A b \in Batches : imports'[b].status = "completed" => imports[b].status = "completed"
      <3>1. CASE \E r \in Handlers : EnqueueImport(r)
        BY <1>1, <3>1, TrafficTypes DEF EnqueueImport, ImportRow
      <3>2. CASE ~\E r \in Handlers : EnqueueImport(r)
        BY <1>4, <3>2 DEF ReplayReceipt, RefuseSkewed, CommitReceipt, CrashServer
      <3> QED
        BY <3>1, <3>2
    <2> QED
      BY <1>1, <2>1, <2>2, <2>3, ImportStays DEF TrafficInv
  <1> QED
    BY <1>2, <1>3, <1>4, StartImportStep, ImportEventStep, CommitImportStep, WorkerEnds,
       RequeueImportStep DEF TrafficNext

-----------------------------------------------------------------------------
(* Theorems *)

LEMMA TrafficInvariant == TrafficSpec => []TrafficInv
  BY TrafficInitial, TrafficStep, PTL DEF TrafficSpec

\* The outbox, the state file, the collector, the requests, the receipts and
\* the import jobs keep their types; a worker has a transaction exactly while
\* its job is running.
THEOREM TrafficTypeCorrect == TrafficSpec => []TrafficTypeOK
  <1>1. TrafficInv => TrafficTypeOK
    BY DEF TrafficInv
  <1> QED
    BY <1>1, TrafficInvariant, PTL

\* However often deliver_with_retry repeats an attempt, whatever requests
\* overlap and wherever the collector or the server ends, a file that was
\* moved to sent/ has a receipt, and a receipt has the job it vouches for,
\* signed with the same nonce and time.
THEOREM SentFilesWereReceived == TrafficSpec => []DeliveriesAreTrue
  <1>1. TrafficInv => DeliveriesAreTrue
    BY DEF TrafficInv, DeliveryInv
  <1> QED
    BY <1>1, TrafficInvariant, PTL

\* However often a job is run, recovered and requeued, the events of its batch
\* are imported all in one transaction, once, and before it is completed.
THEOREM BatchesAreImportedOnce == TrafficSpec => []ImportsAreWhole
  <1>1. ASSUME TrafficInv, NEW b \in Batches
        PROVE  /\ Own(b) # {} => {x.event : x \in Own(b)} = EventsOf[b]
               /\ Cardinality(Own(b)) <= Cardinality(EventsOf[b])
               /\ imports[b].status = "completed" => Own(b) # {}
    <2>1. IsFiniteSet(EventsOf[b]) /\ Cardinality(EventsOf[b]) \in Nat
      BY TrafficAssumption, FS_CardinalityType
    <2>2. CASE Own(b) = {}
      BY <1>1, <2>1, <2>2, FS_EmptySet DEF TrafficInv, ImportInv
    <2>3. ASSUME NEW n, NEW m, Own(b) = Imported(b, <<n, m>>)
          PROVE  /\ {x.event : x \in Own(b)} = EventsOf[b]
                 /\ Cardinality(Own(b)) <= Cardinality(EventsOf[b])
      <3> DEFINE entry == [e \in EventsOf[b] |-> [event |-> e, batch |-> b,
                                                  attempt |-> <<n, m>>]]
      <3>2. Own(b) = {entry[e] : e \in EventsOf[b]}
        BY <2>3 DEF Imported
      <3>1. {x.event : x \in Own(b)} = EventsOf[b]
        <4>1. \A e \in EventsOf[b] : entry[e].event = e
          OBVIOUS
        <4> HIDE DEF entry
        <4> QED
          BY <3>2, <4>1
      <3>3. entry \in Surjection(EventsOf[b], Own(b))
        BY <3>2 DEF Surjection
      <3>4. Cardinality(Own(b)) <= Cardinality(EventsOf[b])
        BY <2>1, <3>3, FS_Surjection
      <3> QED
        BY <3>1, <3>4
    <2> QED
      BY <1>1, <2>2, <2>3 DEF TrafficInv, ImportInv
  <1>2. TrafficInv => ImportsAreWhole
    BY <1>1 DEF ImportsAreWhole, Own
  <1> QED
    BY <1>2, TrafficInvariant, PTL
=============================================================================
