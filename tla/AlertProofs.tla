---------------------------- MODULE AlertProofs ----------------------------
(* What captures, incidents and pages guarantee for every set of keys,     *)
(* captors and responders, every escalation interval and every bound on    *)
(* time, incidents and actions; and, at the end, what the delivery of      *)
(* pages guarantees for every number of pages, attempts and crashes.       *)
EXTENDS OperationalAlerts, PagingDelivery, FiniteSetTheorems, TLAPS

-----------------------------------------------------------------------------
(* Rows *)

IncidentStatus == {"open", "resolved"}

IncidentSeverity == {"warning", "critical"}

Trail == Seq([at: 0..LastBucket, previous: 0..MaxActions + 3])

IncidentRow == [status: IncidentStatus, severity: IncidentSeverity, opened: 0..LastBucket,
                resolved: 0..LastBucket, acked: BOOLEAN, level: 0..3, version: 1..5,
                actions: Trail]

\* A level is a transition, and so is the end: hence the bounds.
IncidentSound(x) ==
    /\ x.status = "open" => x.version <= 1 + x.level
    /\ x.version <= 2 + x.level
    /\ x.status = "resolved" => x.version > 1
    /\ Len(x.actions) <= MaxActions + x.level

\* What a capture or a response may do to an incident.
Moves(x, y) ==
    \/ y.version = x.version /\ y.status = x.status
    \/ x.status = "open" /\ y.version = x.version + 1

LEMMA AlertsConstants ==
    /\ EscalateAfter \in Nat \ {0} /\ LastBucket \in Nat /\ MaxIncidents \in Nat
    /\ MaxActions \in Nat
    /\ Incidents = IncidentRow
  BY AlertsAssumption DEF Incidents, IncidentRow, IncidentStatus, IncidentSeverity, Trail

LEMMA SeverityChange ==
    ASSUME NEW x \in IncidentRow, NEW s \in IncidentSeverity, NEW y,
           y = [x EXCEPT !.severity = s]
    PROVE  /\ y \in IncidentRow /\ y.status = x.status /\ y.version = x.version
           /\ y.level = x.level /\ y.actions = x.actions
  BY DEF IncidentRow

LEMMA AcknowledgedChange ==
    ASSUME NEW x \in IncidentRow, NEW y, y = [x EXCEPT !.acked = TRUE]
    PROVE  /\ y \in IncidentRow /\ y.status = x.status /\ y.version = x.version
           /\ y.level = x.level /\ y.actions = x.actions
  BY DEF IncidentRow

LEMMA ActionChange ==
    ASSUME NEW x \in IncidentRow, NEW at \in 0..LastBucket, NEW n \in Predecessors(x.actions),
           Len(x.actions) < MaxActions + 3, NEW y, y = WithAction(x, at, n)
    PROVE  /\ y \in IncidentRow /\ y.status = x.status /\ y.version = x.version
           /\ y.level = x.level /\ Len(y.actions) = Len(x.actions) + 1
  <1>1. x.actions \in Trail
    BY DEF IncidentRow
  <1>2. Len(x.actions) \in Nat /\ n \in 0..Len(x.actions)
    <2>1. Len(x.actions) \in Nat /\ DOMAIN x.actions = 1..Len(x.actions)
      BY <1>1 DEF Trail
    <2>2. n = 0 \/ n \in DOMAIN x.actions
      BY DEF Predecessors
    <2> QED
      BY <2>1, <2>2
  <1>3. [at |-> at, previous |-> n] \in [at: 0..LastBucket, previous: 0..MaxActions + 3]
    <2>1. n \in Nat /\ n <= MaxActions + 3
      BY <1>2, AlertsConstants
    <2>2. PICK m \in 0..MaxActions + 3 : m = n
      BY <2>1, AlertsConstants
    <2> QED
      BY <2>2
  <1>4. PICK t \in Trail :
           t = Append(x.actions, [at |-> at, previous |-> n]) /\ Len(t) = Len(x.actions) + 1
    <2>1. PICK entry \in [at: 0..LastBucket, previous: 0..MaxActions + 3] :
             entry = [at |-> at, previous |-> n]
      BY <1>3
    <2>2. PICK t \in Trail : t = Append(x.actions, entry) /\ Len(t) = Len(x.actions) + 1
      <3>1. \A S : \A q \in Seq(S), e \in S :
               Append(q, e) \in Seq(S) /\ Len(Append(q, e)) = Len(q) + 1
        OBVIOUS
      <3> QED
        BY <1>1, <3>1 DEF Trail
    <2> QED
      BY <2>1, <2>2
  <1>5. y = [x EXCEPT !.actions = t]
    BY <1>4 DEF WithAction
  <1>6. /\ y \in IncidentRow /\ y.status = x.status /\ y.version = x.version
        /\ y.level = x.level /\ y.actions = t
    BY <1>5 DEF IncidentRow
  <1> QED
    BY <1>4, <1>6

LEMMA LevelBounds ==
    ASSUME NEW x \in IncidentRow, NEW at \in 0..LastBucket, Escalates(x, at)
    PROVE  TargetLevel(x, at) \in 0..3 /\ TargetLevel(x, at) > x.level
  <1> DEFINE age == IF at > x.opened THEN at - x.opened ELSE 0
  <1>1. age \in Nat
    BY AlertsConstants DEF IncidentRow
  <1>2. age \div EscalateAfter \in Int
    BY <1>1, AlertsConstants
  <1>3. x.level \in 0..3
    BY DEF IncidentRow
  <1>4. TargetLevel(x, at) > x.level
    BY DEF Escalates
  <1>5. TargetLevel(x, at) = IF age \div EscalateAfter < 3 THEN age \div EscalateAfter ELSE 3
    BY DEF TargetLevel
  <1> HIDE DEF age
  <1> QED
    BY <1>2, <1>3, <1>4, <1>5

LEMMA EscalatedChange ==
    ASSUME NEW x \in IncidentRow, NEW at \in 0..LastBucket, Escalates(x, at),
           x.version <= 4, NEW y, y = EscalatedRow(x, at)
    PROVE  /\ y \in IncidentRow /\ y.status = x.status /\ y.version = x.version + 1
           /\ y.level = TargetLevel(x, at) /\ y.actions = x.actions
  <1>1. PICK l \in 0..3 : l = TargetLevel(x, at)
    BY LevelBounds
  <1>2. PICK v \in 1..5 : v = x.version + 1
    BY DEF IncidentRow
  <1>3. y = [x EXCEPT !.level = l, !.version = v]
    BY <1>1, <1>2 DEF EscalatedRow
  <1>4. /\ y \in IncidentRow /\ y.status = x.status /\ y.version = v
        /\ y.level = l /\ y.actions = x.actions
    BY <1>3 DEF IncidentRow
  <1> QED
    BY <1>1, <1>2, <1>4

LEMMA ResolvedChange ==
    ASSUME NEW x \in IncidentRow, NEW at \in 0..LastBucket,
           x.version <= 4, NEW y, y = ResolvedRow(x, at)
    PROVE  /\ y \in IncidentRow /\ y.status = "resolved" /\ y.version = x.version + 1
           /\ y.level = x.level /\ y.actions = x.actions
  <1>1. PICK v \in 1..5 : v = x.version + 1
    BY DEF IncidentRow
  <1>2. PICK s \in IncidentStatus : s = "resolved"
    BY DEF IncidentStatus
  <1>3. y = [x EXCEPT !.status = s, !.resolved = at, !.version = v]
    BY <1>1, <1>2 DEF ResolvedRow
  <1>4. PICK u : u = [x EXCEPT !.status = s, !.resolved = at]
    OBVIOUS
  <1>5. u \in IncidentRow /\ u.status = s /\ u.level = x.level /\ u.actions = x.actions
    BY <1>4 DEF IncidentRow
  <1>6. y = [u EXCEPT !.version = v]
    BY <1>3, <1>4, Zenon
  <1>7. /\ y \in IncidentRow /\ y.status = s /\ y.version = v
        /\ y.level = x.level /\ y.actions = x.actions
    BY <1>5, <1>6 DEF IncidentRow
  <1> QED
    BY <1>1, <1>2, <1>7

LEMMA OpenedFields ==
    ASSUME NEW s \in IncidentSeverity, NEW at \in 0..LastBucket, NEW y, y = OpenedRow(s, at)
    PROVE  /\ y \in IncidentRow /\ y.status = "open" /\ y.version = 1 /\ IncidentSound(y)
  <1>1. <<>> \in Trail /\ Len(<<>>) = 0
    BY DEF Trail
  <1>2. "open" \in IncidentStatus /\ 0 \in 0..LastBucket
    BY AlertsConstants DEF IncidentStatus
  <1>3. y = [status |-> "open", severity |-> s, opened |-> at, resolved |-> 0,
             acked |-> FALSE, level |-> 0, version |-> 1, actions |-> <<>>]
    BY DEF OpenedRow
  <1>4. y \in IncidentRow
    BY <1>1, <1>2, <1>3 DEF IncidentRow
  <1>5. y.status = "open" /\ y.version = 1 /\ y.level = 0 /\ y.actions = <<>>
    BY <1>3
  <1> QED
    BY <1>1, <1>4, <1>5, AlertsConstants DEF IncidentSound

\* An incident that goes on stays open.
LEMMA ContinuedMoves ==
    ASSUME NEW x \in IncidentRow, IncidentSound(x), x.status = "open",
           NEW s \in IncidentSeverity, NEW at \in 0..LastBucket, NEW y \in Continued(x, s, at)
    PROVE  y \in IncidentRow /\ IncidentSound(y) /\ y.status = "open" /\ Moves(x, y)
  <1>1. PICK seen \in IncidentRow :
           /\ seen = [x EXCEPT !.severity = s]
           /\ seen.status = x.status /\ seen.version = x.version /\ seen.level = x.level
           /\ seen.actions = x.actions
    BY SeverityChange
  <1>2. /\ x.version \in Nat /\ x.level \in 0..3 /\ Len(x.actions) \in Nat
        /\ x.version <= 1 + x.level /\ Len(x.actions) <= MaxActions + x.level
    BY DEF IncidentRow, IncidentSound, Trail
  <1>3. CASE y = seen
    BY <1>1, <1>2, <1>3 DEF IncidentSound, Moves
  <1>4. ASSUME Escalates(seen, at), NEW n \in Predecessors(seen.actions),
               y = WithAction(EscalatedRow(seen, at), at, n)
        PROVE  y \in IncidentRow /\ IncidentSound(y) /\ y.status = "open" /\ Moves(x, y)
    <2>1. PICK l \in 0..3 : l = TargetLevel(seen, at) /\ l > x.level
      BY <1>1, <1>4, LevelBounds
    <2>2. x.version <= 4
      BY <1>2, <2>1
    <2>3. PICK z \in IncidentRow :
             /\ z = EscalatedRow(seen, at) /\ z.status = "open" /\ z.version = x.version + 1
             /\ z.level = l /\ z.actions = x.actions
      <3>1. seen.version <= 4
        BY <1>1, <2>2
      <3>2. PICK z : z = EscalatedRow(seen, at)
        OBVIOUS
      <3>3. /\ z \in IncidentRow /\ z.status = seen.status /\ z.version = seen.version + 1
            /\ z.level = TargetLevel(seen, at) /\ z.actions = seen.actions
        BY <1>1, <1>4, <3>1, <3>2, EscalatedChange
      <3> QED
        BY <1>1, <2>1, <3>2, <3>3
    <2>4. Len(z.actions) < MaxActions + 3
      BY <1>2, <2>1, <2>3, AlertsConstants
    <2>5. n \in Predecessors(z.actions) /\ y = WithAction(z, at, n)
      BY <1>1, <1>4, <2>3
    <2>6. /\ y \in IncidentRow /\ y.status = "open" /\ y.version = x.version + 1
          /\ y.level = l /\ Len(y.actions) = Len(x.actions) + 1
      BY <2>3, <2>4, <2>5, ActionChange
    <2>7. IncidentSound(y)
      BY <1>2, <2>1, <2>6, AlertsConstants DEF IncidentSound
    <2> QED
      BY <2>6, <2>7 DEF Moves
  <1> QED
    BY <1>1, <1>3, <1>4 DEF Continued

LEMMA ResolvedMoves ==
    ASSUME NEW x \in IncidentRow, IncidentSound(x), x.status = "open",
           NEW at \in 0..LastBucket, NEW y, y = ResolvedRow(x, at)
    PROVE  /\ y \in IncidentRow /\ IncidentSound(y) /\ y.status = "resolved" /\ Moves(x, y)
  <1>1. /\ x.version \in 1..5 /\ x.level \in 0..3 /\ x.version <= 1 + x.level
        /\ Len(x.actions) <= MaxActions + x.level
    BY DEF IncidentRow, IncidentSound
  <1>2. x.version <= 4
    BY <1>1
  <1>3. /\ y \in IncidentRow /\ y.status = "resolved" /\ y.version = x.version + 1
        /\ y.level = x.level /\ y.actions = x.actions
    BY <1>2, ResolvedChange
  <1>4. IncidentSound(y)
    BY <1>1, <1>3 DEF IncidentSound
  <1> QED
    BY <1>3, <1>4 DEF Moves

-----------------------------------------------------------------------------
(* Incidents *)

(***************************************************************************)
(* The rows of one key: sound, no more than the bound, and only the latest *)
(* may be open.                                                            *)
(***************************************************************************)
RowsSound(rows) ==
    /\ rows \in Seq(IncidentRow)
    /\ Len(rows) <= MaxIncidents
    /\ \A n \in 1..Len(rows) : IncidentSound(rows[n])
    /\ \A n \in 1..Len(rows) : n < Len(rows) => rows[n].status = "resolved"

\* What a step may do to the rows of one key, of which it holds those in held.
RowsMove(k, rows, after, held) ==
    /\ Len(after) = Len(rows) \/ Len(after) = Len(rows) + 1
    /\ \A n \in 1..Len(rows) :
         /\ Moves(rows[n], after[n])
         /\ <<k, n>> \notin held => after[n] = rows[n]
    /\ Len(after) = Len(rows) + 1 =>
         after[Len(after)].version = 1 /\ after[Len(after)].status = "open"

\* One row of a key changes.
LEMMA OneRowMoves ==
    ASSUME NEW k, NEW rows, RowsSound(rows), NEW n \in 1..Len(rows), NEW y \in IncidentRow,
           IncidentSound(y), Moves(rows[n], y), n < Len(rows) => y.status = "resolved",
           NEW after, after = [rows EXCEPT ![n] = y], NEW held, <<k, n>> \in held
    PROVE  RowsSound(after) /\ RowsMove(k, rows, after, held)
  <1>1. rows \in Seq(IncidentRow) /\ rows \in [1..Len(rows) -> IncidentRow] /\ Len(rows) \in Nat
    BY DEF RowsSound
  <1>2. /\ after \in Seq(IncidentRow) /\ Len(after) = Len(rows)
        /\ \A m \in 1..Len(rows) : after[m] = IF m = n THEN y ELSE rows[m]
    BY <1>1
  <1>3. RowsSound(after)
    BY <1>1, <1>2 DEF RowsSound
  <1>4. \A m \in 1..Len(rows) : Moves(rows[m], rows[m])
    BY DEF Moves
  <1>5. Len(after) # Len(rows) + 1
    <2>1. \A i \in Nat : i # i + 1
      OBVIOUS
    <2> QED
      BY <1>1, <1>2, <2>1
  <1> QED
    BY <1>2, <1>3, <1>4, <1>5 DEF RowsMove

\* An incident is opened.
LEMMA OpenedRowMoves ==
    ASSUME NEW k, NEW rows, RowsSound(rows), NEW y \in IncidentRow, IncidentSound(y),
           y.version = 1, y.status = "open",
           Len(rows) > 0 => rows[Len(rows)].status = "resolved",
           NEW after, after = Append(rows, y), Len(after) <= MaxIncidents, NEW held
    PROVE  RowsSound(after) /\ RowsMove(k, rows, after, held)
  <1>1. rows \in Seq(IncidentRow) /\ Len(rows) \in Nat
    BY DEF RowsSound
  <1>2. /\ after \in Seq(IncidentRow) /\ Len(after) = Len(rows) + 1
        /\ after[Len(rows) + 1] = y
        /\ \A m \in 1..Len(rows) : after[m] = rows[m]
    BY <1>1
  <1>3. ASSUME NEW m \in 1..Len(after)
        PROVE  IncidentSound(after[m]) /\ (m < Len(after) => after[m].status = "resolved")
    BY <1>1, <1>2 DEF RowsSound
  <1>4. RowsSound(after)
    BY <1>2, <1>3 DEF RowsSound
  <1>5. \A m \in 1..Len(rows) : Moves(rows[m], rows[m])
    BY DEF Moves
  <1> QED
    BY <1>2, <1>4, <1>5 DEF RowsMove

LEMMA SameRowsMove ==
    ASSUME NEW k, NEW rows, RowsSound(rows), NEW held
    PROVE  RowsMove(k, rows, rows, held)
  <1>1. Len(rows) \in Nat
    BY DEF RowsSound
  <1> QED
    BY <1>1 DEF RowsMove, Moves

LEMMA HeldIsOpen ==
    ASSUME NEW k \in AlertKeys, NEW n, <<k, n>> \in OpenRows
    PROVE  n \in 1..Len(incidents[k]) /\ incidents[k][n].status = "open"
  BY DEF OpenRows, Exists, Incident

\* What a capture makes of the incidents of a key.
LEMMA HistoryMoves ==
    ASSUME NEW k \in AlertKeys, RowsSound(incidents[k]), NEW r, r.seen[k] \in Severity,
           r.at \in 0..LastBucket, r.held \subseteq OpenRows,
           NEW after \in History(r, k), Len(after) <= MaxIncidents
    PROVE  RowsSound(after) /\ RowsMove(k, incidents[k], after, r.held)
  <1>1. PICK rows : rows = incidents[k] /\ RowsSound(rows)
    OBVIOUS
  <1>2. PICK n : n = Len(rows) /\ n \in Nat
    BY <1>1 DEF RowsSound
  <1>3. ASSUME <<k, n>> \in r.held
        PROVE  /\ n \in 1..Len(rows) /\ rows[n].status = "open"
               /\ rows[n] \in IncidentRow /\ IncidentSound(rows[n])
    <2>1. n \in 1..Len(rows) /\ rows[n].status = "open"
      BY <1>1, <1>3, HeldIsOpen
    <2> QED
      BY <1>1, <2>1 DEF RowsSound
  <1>4. CASE r.seen[k] = "none" /\ <<k, n>> \in r.held
    <2>1. PICK y : y = ResolvedRow(rows[n], r.at)
      OBVIOUS
    <2>2. y \in IncidentRow /\ IncidentSound(y) /\ y.status = "resolved" /\ Moves(rows[n], y)
      BY <1>3, <1>4, <2>1, ResolvedMoves
    <2>3. after = [rows EXCEPT ![n] = y]
      BY <1>1, <1>2, <1>4, <2>1 DEF History
    <2> QED
      BY <1>1, <1>3, <1>4, <2>2, <2>3, OneRowMoves
  <1>5. CASE r.seen[k] = "none" /\ <<k, n>> \notin r.held
    <2>1. after = rows
      BY <1>1, <1>2, <1>5 DEF History
    <2> QED
      BY <1>1, <2>1, SameRowsMove
  <1>6. CASE r.seen[k] # "none" /\ <<k, n>> \in r.held
    <2>1. PICK y \in Continued(rows[n], r.seen[k], r.at) : after = [rows EXCEPT ![n] = y]
      BY <1>1, <1>2, <1>6 DEF History
    <2>2. r.seen[k] \in IncidentSeverity
      BY <1>6 DEF Severity, IncidentSeverity
    <2>3. y \in IncidentRow /\ IncidentSound(y) /\ y.status = "open" /\ Moves(rows[n], y)
      BY <1>3, <1>6, <2>1, <2>2, ContinuedMoves
    <2>4. ~(n < Len(rows))
      BY <1>2
    <2> QED
      BY <1>1, <1>3, <1>6, <2>1, <2>3, <2>4, OneRowMoves
  <1>7. CASE r.seen[k] # "none" /\ <<k, n>> \notin r.held
    <2>1. PICK y : y = OpenedRow(r.seen[k], r.at)
      OBVIOUS
    <2>2. ~(n > 0 /\ rows[n].status = "open") /\ after = Append(rows, y)
      BY <1>1, <1>2, <1>7, <2>1 DEF History
    <2>3. r.seen[k] \in IncidentSeverity
      BY <1>7 DEF Severity, IncidentSeverity
    <2>4. y \in IncidentRow /\ y.status = "open" /\ y.version = 1 /\ IncidentSound(y)
      BY <2>1, <2>3, OpenedFields
    <2>5. Len(rows) > 0 => rows[Len(rows)].status = "resolved"
      <3>1. n > 0 => n \in 1..n /\ rows[n] \in IncidentRow
        BY <1>1, <1>2 DEF RowsSound
      <3> QED
        BY <1>2, <2>2, <3>1 DEF IncidentRow, IncidentStatus
    <2> QED
      BY <1>1, <2>2, <2>4, <2>5, OpenedRowMoves
  <1> QED
    BY <1>4, <1>5, <1>6, <1>7

-----------------------------------------------------------------------------
(* Pages *)

ExistsIn(hist, row) == row[2] \in 1..Len(hist[row[1]])

RowIn(hist, row) == hist[row[1]][row[2]]

HistoriesSound(hist) ==
    /\ hist \in [AlertKeys -> Seq(IncidentRow)]
    /\ \A k \in AlertKeys : RowsSound(hist[k])

PageRow == [row: Rows, version: 1..5, kind: {"opened", "escalated", "resolved"}]

PageSound(p, x) ==
    /\ p.version \in 1..x.version
    /\ p.kind = "opened" <=> p.version = 1
    /\ p.kind = "resolved" <=> x.status = "resolved" /\ p.version = x.version

(***************************************************************************)
(* A page for every transition of the histories, and none of anything      *)
(* else.                                                                   *)
(***************************************************************************)
PagesSound(hist, pages) ==
    /\ pages \subseteq PageRow
    /\ \A p \in pages : ExistsIn(hist, p.row) /\ PageSound(p, RowIn(hist, p.row))
    /\ \A row \in Rows : ExistsIn(hist, row) =>
         \A v \in 1..RowIn(hist, row).version : \E p \in pages : p.row = row /\ p.version = v

LEMMA RowFacts ==
    ASSUME NEW hist, HistoriesSound(hist), NEW row \in Rows
    PROVE  /\ row[1] \in AlertKeys /\ row[2] \in 1..MaxIncidents
           /\ hist[row[1]] \in Seq(IncidentRow) /\ Len(hist[row[1]]) \in Nat
           /\ Len(hist[row[1]]) <= MaxIncidents
           /\ ExistsIn(hist, row) =>
                /\ RowIn(hist, row) \in IncidentRow /\ IncidentSound(RowIn(hist, row))
                /\ RowIn(hist, row).version \in 1..5
                /\ RowIn(hist, row).status \in IncidentStatus
  <1>1. row[1] \in AlertKeys /\ row[2] \in 1..MaxIncidents
    BY DEF Rows
  <1>2. /\ hist[row[1]] \in Seq(IncidentRow) /\ Len(hist[row[1]]) \in Nat
        /\ Len(hist[row[1]]) <= MaxIncidents
    BY <1>1 DEF HistoriesSound, RowsSound
  <1>3. ASSUME ExistsIn(hist, row)
        PROVE  RowIn(hist, row) \in IncidentRow /\ IncidentSound(RowIn(hist, row))
    BY <1>1, <1>3 DEF HistoriesSound, RowsSound, ExistsIn, RowIn
  <1>4. ASSUME NEW x \in IncidentRow
        PROVE  x.version \in 1..5 /\ x.status \in IncidentStatus
    BY <1>4 DEF IncidentRow
  <1> QED
    BY <1>1, <1>2, <1>3, <1>4

LEMMA RowMoves ==
    ASSUME NEW hist, NEW after, HistoriesSound(hist), HistoriesSound(after), NEW held,
           \A k \in AlertKeys : RowsMove(k, hist[k], after[k], held), NEW row \in Rows
    PROVE  /\ ExistsIn(hist, row) =>
                /\ ExistsIn(after, row) /\ Moves(RowIn(hist, row), RowIn(after, row))
                /\ row \notin held => RowIn(after, row) = RowIn(hist, row)
           /\ ExistsIn(after, row) /\ ~ExistsIn(hist, row) =>
                /\ row[2] > Len(hist[row[1]])
                /\ RowIn(after, row).version = 1 /\ RowIn(after, row).status = "open"
  <1>1. PICK k \in AlertKeys, n \in 1..MaxIncidents : row = <<k, n>>
    BY DEF Rows
  <1>2. row[1] = k /\ row[2] = n /\ n \in Nat \ {0}
    BY <1>1, AlertsConstants
  <1>3. Len(hist[k]) \in Nat /\ Len(after[k]) \in Nat
    BY DEF HistoriesSound
  <1>4. RowsMove(k, hist[k], after[k], held)
    OBVIOUS
  <1>5. Len(after[k]) = Len(hist[k]) \/ Len(after[k]) = Len(hist[k]) + 1
    BY <1>4 DEF RowsMove
  <1>6. ASSUME ExistsIn(hist, row)
        PROVE  /\ ExistsIn(after, row) /\ Moves(RowIn(hist, row), RowIn(after, row))
               /\ row \notin held => RowIn(after, row) = RowIn(hist, row)
    <2>1. n \in 1..Len(hist[k])
      BY <1>2, <1>6 DEF ExistsIn
    <2>2. n \in 1..Len(after[k])
      BY <2>1, <1>3, <1>5
    <2>3. /\ Moves(hist[k][n], after[k][n])
          /\ <<k, n>> \notin held => after[k][n] = hist[k][n]
      BY <1>4, <2>1 DEF RowsMove
    <2> QED
      BY <1>1, <1>2, <2>2, <2>3 DEF ExistsIn, RowIn
  <1>7. ASSUME ExistsIn(after, row), ~ExistsIn(hist, row)
        PROVE  /\ row[2] > Len(hist[row[1]])
               /\ RowIn(after, row).version = 1 /\ RowIn(after, row).status = "open"
    <2>1. n \in 1..Len(after[k]) /\ n \notin 1..Len(hist[k])
      BY <1>2, <1>7 DEF ExistsIn
    <2>2. n > Len(hist[k]) /\ Len(after[k]) = Len(hist[k]) + 1 /\ n = Len(after[k])
      BY <2>1, <1>2, <1>3, <1>5
    <2>3. after[k][n].version = 1 /\ after[k][n].status = "open"
      BY <1>4, <2>2 DEF RowsMove
    <2> QED
      BY <1>2, <2>2, <2>3 DEF RowIn
  <1> QED
    BY <1>6, <1>7

\* The page a transition creates is one of the page's row.
LEMMA TransitionSound ==
    ASSUME NEW x \in IncidentRow, IncidentSound(x), NEW p,
           p.version = x.version, p.kind = Transition(x)
    PROVE  PageSound(p, x) /\ p.kind \in {"opened", "escalated", "resolved"}
  <1>1. /\ x.version \in 1..5 /\ x.status \in {"open", "resolved"}
        /\ x.status = "resolved" => x.version > 1
    BY DEF IncidentRow, IncidentSound, IncidentStatus
  <1>2. p.version \in 1..x.version
    BY <1>1
  <1>3. CASE x.status = "resolved"
    <2>1. p.kind = "resolved" /\ p.version # 1
      BY <1>1, <1>3 DEF Transition
    <2> QED
      BY <1>2, <1>3, <2>1 DEF PageSound
  <1>4. CASE x.status # "resolved"
    <2>1. p.kind = IF p.version = 1 THEN "opened" ELSE "escalated"
      BY <1>4 DEF Transition
    <2> QED
      BY <1>2, <1>4, <2>1 DEF PageSound
  <1> QED
    BY <1>3, <1>4

\* A page stays true when its incident moves on.
LEMMA PageStaysSound ==
    ASSUME NEW x \in IncidentRow, NEW y \in IncidentRow, Moves(x, y), NEW p, PageSound(p, x)
    PROVE  PageSound(p, y)
  <1>1. x.version \in 1..5 /\ y.version \in 1..5
    BY DEF IncidentRow
  <1>2. CASE y.version = x.version /\ y.status = x.status
    BY <1>2 DEF PageSound
  <1>3. CASE x.status = "open" /\ y.version = x.version + 1
    <2>1. p.version \in 1..y.version /\ p.version # y.version
      BY <1>1, <1>3 DEF PageSound
    <2>2. p.kind # "resolved" /\ (p.kind = "opened" <=> p.version = 1)
      BY <1>3 DEF PageSound
    <2> QED
      BY <2>1, <2>2 DEF PageSound
  <1> QED
    BY <1>2, <1>3 DEF Moves

\* The page of a row.
PageOf(after, row) ==
    [row |-> row, version |-> RowIn(after, row).version, kind |-> Transition(RowIn(after, row))]

LEMMA NewPagesOf ==
    ASSUME NEW after
    PROVE  NewPages(after) =
             {PageOf(after, row) : row \in
                {q \in Rows : /\ q[2] \in DOMAIN after[q[1]]
                              /\ \/ q[2] > Len(incidents[q[1]])
                                 \/ RowIn(after, q).version # RowIn(incidents, q).version}}
  BY DEF NewPages, PageOf, RowIn, Incident

\* A commit pages every transition it makes.
LEMMA PagesFollow ==
    ASSUME HistoriesSound(incidents), PagesSound(incidents, outbox), NEW after,
           HistoriesSound(after), NEW held,
           \A k \in AlertKeys : RowsMove(k, incidents[k], after[k], held),
           NEW pages, pages = outbox \cup NewPages(after)
    PROVE  PagesSound(after, pages)
  <1>1. ASSUME NEW row \in Rows
        PROVE  row[2] \in DOMAIN after[row[1]] <=> ExistsIn(after, row)
    <2>1. after[row[1]] \in Seq(IncidentRow)
      BY <1>1, RowFacts
    <2> QED
      BY <2>1 DEF ExistsIn
  <1>2. ASSUME NEW p \in NewPages(after)
        PROVE  /\ p \in PageRow /\ ExistsIn(after, p.row)
               /\ PageSound(p, RowIn(after, p.row))
    <2>1. PICK row \in Rows : row[2] \in DOMAIN after[row[1]] /\ p = PageOf(after, row)
      BY <1>2, NewPagesOf
    <2>2. ExistsIn(after, row)
      BY <1>1, <2>1
    <2>3. PICK x \in IncidentRow : x = RowIn(after, row) /\ IncidentSound(x) /\ x.version \in 1..5
      BY <2>2, RowFacts
    <2>4. p = [row |-> row, version |-> x.version, kind |-> Transition(x)]
      BY <2>1, <2>3 DEF PageOf
    <2>5. p.row = row /\ p.version = x.version /\ p.kind = Transition(x)
      BY <2>4
    <2>6. PageSound(p, x) /\ p.kind \in {"opened", "escalated", "resolved"}
      BY <2>3, <2>5, TransitionSound
    <2>7. p \in PageRow
      BY <2>3, <2>4, <2>5, <2>6 DEF PageRow
    <2> QED
      BY <2>2, <2>3, <2>5, <2>6, <2>7
  <1>3. ASSUME NEW p \in outbox
        PROVE  /\ p \in PageRow /\ ExistsIn(after, p.row)
               /\ PageSound(p, RowIn(after, p.row))
    <2>1. /\ p \in PageRow /\ ExistsIn(incidents, p.row)
          /\ PageSound(p, RowIn(incidents, p.row))
      BY <1>3 DEF PagesSound
    <2>2. p.row \in Rows
      BY <2>1 DEF PageRow
    <2>3. ExistsIn(after, p.row) /\ Moves(RowIn(incidents, p.row), RowIn(after, p.row))
      BY <2>1, <2>2, RowMoves
    <2>4. RowIn(incidents, p.row) \in IncidentRow
      BY <2>1, <2>2, RowFacts
    <2>5. RowIn(after, p.row) \in IncidentRow
      BY <2>2, <2>3, RowFacts
    <2> QED
      BY <2>1, <2>3, <2>4, <2>5, PageStaysSound
  <1>4. ASSUME NEW row \in Rows, ExistsIn(after, row), NEW v \in 1..RowIn(after, row).version
        PROVE  \E p \in pages : p.row = row /\ p.version = v
    <2>1. PICK y \in IncidentRow : y = RowIn(after, row) /\ y.version \in 1..5
      BY <1>4, RowFacts
    <2>2. ASSUME v = y.version,
                 \/ row[2] > Len(incidents[row[1]])
                 \/ y.version # RowIn(incidents, row).version
          PROVE  \E p \in pages : p.row = row /\ p.version = v
      <3>1. PICK p : p = PageOf(after, row)
        OBVIOUS
      <3>2. p \in NewPages(after)
        BY <1>1, <1>4, <2>1, <2>2, <3>1, NewPagesOf
      <3>3. p.row = row /\ p.version = v
        BY <2>1, <2>2, <3>1 DEF PageOf
      <3> QED
        BY <3>2, <3>3
    <2>3. CASE ~ExistsIn(incidents, row)
      <3>1. row[2] > Len(incidents[row[1]]) /\ y.version = 1
        BY <1>4, <2>1, <2>3, RowMoves
      <3>2. v = y.version
        BY <1>4, <2>1, <3>1
      <3> QED
        BY <2>2, <3>1, <3>2
    <2>4. CASE ExistsIn(incidents, row)
      <3>1. PICK x \in IncidentRow :
               x = RowIn(incidents, row) /\ x.version \in 1..5 /\ Moves(x, y)
        BY <2>1, <2>4, RowFacts, RowMoves
      <3>2. CASE v \in 1..x.version
        BY <2>4, <3>1, <3>2 DEF PagesSound
      <3>3. CASE v \notin 1..x.version
        <4>1. v = y.version /\ y.version # x.version
          BY <1>4, <2>1, <3>1, <3>3 DEF Moves
        <4> QED
          BY <2>2, <3>1, <4>1
      <3> QED
        BY <3>2, <3>3
    <2> QED
      BY <2>3, <2>4
  <1> QED
    BY <1>2, <1>3, <1>4 DEF PagesSound

\* There is one page of a row and a version.
LEMMA PagesAreUnique ==
    ASSUME NEW hist, NEW pages, PagesSound(hist, pages), NEW p \in pages, NEW q \in pages,
           p.row = q.row, p.version = q.version
    PROVE  p = q
  <1>1. PICK x : x = RowIn(hist, p.row)
    OBVIOUS
  <1>2. PageSound(p, x) /\ PageSound(q, x) /\ p \in PageRow /\ q \in PageRow
    BY <1>1 DEF PagesSound
  <1>3. p.kind \in {"opened", "escalated", "resolved"} /\ q.kind \in {"opened", "escalated", "resolved"}
    BY <1>2 DEF PageRow
  <1>4. p.kind = q.kind
    BY <1>2, <1>3 DEF PageSound
  <1> QED
    BY <1>2, <1>4 DEF PageRow

LEMMA PagesImply ==
    ASSUME HistoriesSound(incidents), PagesSound(incidents, outbox)
    PROVE  TransitionsArePaged /\ OneOpenIncident
  <1>1. ASSUME NEW row \in Rows, Exists(row), NEW v \in 1..Incident(row).version
        PROVE  Cardinality({p \in outbox : p.row = row /\ p.version = v}) = 1
    <2>1. ExistsIn(incidents, row) /\ RowIn(incidents, row) = Incident(row)
      BY <1>1 DEF Exists, Incident, ExistsIn, RowIn
    <2>2. PICK p \in outbox : p.row = row /\ p.version = v
      BY <1>1, <2>1 DEF PagesSound
    <2>3. \A q \in outbox : q.row = row /\ q.version = v => q = p
      BY <2>2, PagesAreUnique
    <2>4. {q \in outbox : q.row = row /\ q.version = v} = {p}
      BY <2>2, <2>3
    <2> QED
      BY <2>4, FS_Singleton
  <1>2. ASSUME NEW p \in outbox
        PROVE  /\ Exists(p.row)
               /\ p.version \in 1..Incident(p.row).version
               /\ p.kind = "opened" <=> p.version = 1
               /\ p.kind = "resolved" <=>
                     Incident(p.row).status = "resolved" /\ p.version = Incident(p.row).version
    BY <1>2 DEF PagesSound, PageSound, Exists, Incident, ExistsIn, RowIn
  <1>3. OneOpenIncident
    <2>1. SUFFICES ASSUME NEW k \in AlertKeys, NEW n \in 1..MaxIncidents, n < Len(incidents[k])
                   PROVE  incidents[k][n].status = "resolved"
      BY DEF OneOpenIncident
    <2>2. RowsSound(incidents[k])
      BY DEF HistoriesSound
    <2>3. Len(incidents[k]) \in Nat
      BY <2>2 DEF RowsSound
    <2>4. n \in 1..Len(incidents[k])
      BY <2>1, <2>3, AlertsConstants
    <2> QED
      BY <2>1, <2>2, <2>4 DEF RowsSound
  <1> QED
    BY <1>1, <1>2, <1>3 DEF TransitionsArePaged

-----------------------------------------------------------------------------
(* Transactions *)

OpenIn(hist) == {row \in Rows : ExistsIn(hist, row) /\ RowIn(hist, row).status = "open"}

CaptureRow == [step: {"idle", "observed", "locked"}, at: 0..LastBucket,
               seen: [AlertKeys -> Severity], held: SUBSET Rows]

ResponseRow == [step: {"waiting", "locked"}, row: Rows, type: {"acknowledged", "note"},
                at: 0..LastBucket]

\* Captures hold open incidents, and no two the same.
CapturesSound(hist, caps) ==
    /\ caps \in [Captors -> CaptureRow]
    /\ \A c \in Captors : caps[c].held \subseteq OpenIn(hist)
    /\ \A c, d \in Captors : c # d => caps[c].held \cap caps[d].held = {}

\* A response is to an incident that exists and, once it has locked it, that
\* no capture holds.
ResponsesSound(hist, caps, resps) ==
    /\ resps \in [Responders -> ResponseRow \cup {NoResponse}]
    /\ \A o \in Responders : resps[o] # NoResponse => ExistsIn(hist, resps[o].row)
    /\ \A o \in Responders, c \in Captors :
         resps[o].step = "locked" => resps[o].row \notin caps[c].held

AlertsInv ==
    /\ alerting \in [AlertKeys -> Severity]
    /\ snapshots \subseteq 0..LastBucket
    /\ clock \in 0..LastBucket
    /\ HistoriesSound(incidents)
    /\ PagesSound(incidents, outbox)
    /\ CapturesSound(incidents, captures)
    /\ ResponsesSound(incidents, captures, responses)

LEMMA OpenIsOpenIn == OpenRows = OpenIn(incidents)
  BY DEF OpenRows, OpenIn, Exists, ExistsIn, Incident, RowIn

LEMMA NoCaptureRow == NoCapture \in CaptureRow /\ NoCapture.held = {}
  <1>1. 0 \in 0..LastBucket
    BY AlertsConstants
  <1>2. PICK f \in [AlertKeys -> Severity] : f = [k \in AlertKeys |-> "none"]
    BY DEF Severity
  <1>3. NoCapture = [step |-> "idle", at |-> 0, seen |-> f, held |-> {}]
    BY <1>2 DEF NoCapture
  <1> QED
    BY <1>1, <1>3 DEF CaptureRow

\* One capture takes another row of state.
LEMMA CaptorChange ==
    ASSUME NEW hist, NEW caps, NEW resps, CapturesSound(hist, caps),
           ResponsesSound(hist, caps, resps), NEW c \in Captors, NEW r \in CaptureRow,
           r.held \subseteq OpenIn(hist),
           \A d \in Captors \ {c} : r.held \cap caps[d].held = {},
           \A o \in Responders : resps[o].step = "locked" => resps[o].row \notin r.held,
           NEW after, after = [caps EXCEPT ![c] = r]
    PROVE  CapturesSound(hist, after) /\ ResponsesSound(hist, after, resps)
  <1>1. caps \in [Captors -> CaptureRow]
    BY DEF CapturesSound
  <1>2. after \in [Captors -> CaptureRow] /\ \A d \in Captors : after[d] = IF d = c THEN r ELSE caps[d]
    BY <1>1
  <1>3. \A d \in Captors : after[d].held \subseteq OpenIn(hist)
    BY <1>2 DEF CapturesSound
  <1>4. ASSUME NEW d \in Captors, NEW e \in Captors, d # e
        PROVE  after[d].held \cap after[e].held = {}
    <2>1. CASE d = c
      <3>1. after[d] = r /\ after[e] = caps[e] /\ e \in Captors \ {c}
        BY <1>2, <1>4, <2>1
      <3> QED
        BY <3>1
    <2>2. CASE e = c
      <3>1. after[e] = r /\ after[d] = caps[d] /\ d \in Captors \ {c}
        BY <1>2, <1>4, <2>2
      <3> QED
        BY <3>1
    <2>3. CASE d # c /\ e # c
      <3>1. after[e] = caps[e] /\ after[d] = caps[d]
        BY <1>2, <2>3
      <3> QED
        BY <1>4, <3>1 DEF CapturesSound
    <2> QED
      BY <2>1, <2>2, <2>3
  <1>5. \A o \in Responders, d \in Captors :
           resps[o].step = "locked" => resps[o].row \notin after[d].held
    BY <1>2 DEF ResponsesSound
  <1> QED
    BY <1>2, <1>3, <1>4, <1>5 DEF CapturesSound, ResponsesSound

\* One response takes another row of state.
LEMMA ResponderChange ==
    ASSUME NEW hist, NEW caps, NEW resps, ResponsesSound(hist, caps, resps),
           NEW o \in Responders, NEW r \in ResponseRow \cup {NoResponse},
           r # NoResponse => ExistsIn(hist, r.row),
           \A c \in Captors : r.step = "locked" => r.row \notin caps[c].held,
           NEW after, after = [resps EXCEPT ![o] = r]
    PROVE  ResponsesSound(hist, caps, after)
  <1>1. resps \in [Responders -> ResponseRow \cup {NoResponse}]
    BY DEF ResponsesSound
  <1>2. /\ after \in [Responders -> ResponseRow \cup {NoResponse}]
        /\ \A p \in Responders : after[p] = IF p = o THEN r ELSE resps[p]
    BY <1>1
  <1> QED
    BY <1>2 DEF ResponsesSound

\* The incidents move on, those that are held by a transaction excepted.
LEMMA HistoriesChange ==
    ASSUME NEW hist, NEW after, HistoriesSound(hist), HistoriesSound(after), NEW held,
           \A k \in AlertKeys : RowsMove(k, hist[k], after[k], held),
           NEW caps, NEW resps, CapturesSound(hist, caps), ResponsesSound(hist, caps, resps),
           \A c \in Captors : caps[c].held \cap held = {}
    PROVE  CapturesSound(after, caps) /\ ResponsesSound(after, caps, resps)
  <1>1. ASSUME NEW c \in Captors, NEW row \in caps[c].held
        PROVE  row \in OpenIn(after)
    <2>1. row \in Rows /\ ExistsIn(hist, row) /\ RowIn(hist, row).status = "open"
      BY <1>1 DEF CapturesSound, OpenIn
    <2>2. row \notin held
      BY <1>1
    <2>3. ExistsIn(after, row) /\ RowIn(after, row) = RowIn(hist, row)
      BY <2>1, <2>2, RowMoves
    <2> QED
      BY <2>1, <2>3 DEF OpenIn
  <1>2. ASSUME NEW o \in Responders, resps[o] # NoResponse
        PROVE  ExistsIn(after, resps[o].row)
    <2>1. resps[o] \in ResponseRow /\ ExistsIn(hist, resps[o].row)
      BY <1>2 DEF ResponsesSound
    <2>2. resps[o].row \in Rows
      BY <2>1 DEF ResponseRow
    <2> QED
      BY <2>1, <2>2, RowMoves
  <1> QED
    BY <1>1, <1>2 DEF CapturesSound, ResponsesSound

-----------------------------------------------------------------------------
(* Steps *)

LEMMA ResponseFacts ==
    ASSUME ResponsesSound(incidents, captures, responses), NEW o \in Responders,
           responses[o].step \in {"waiting", "locked"}
    PROVE  /\ responses[o] \in ResponseRow /\ responses[o] # NoResponse
           /\ responses[o].row \in Rows /\ responses[o].at \in 0..LastBucket
           /\ ExistsIn(incidents, responses[o].row)
  <1>1. responses[o] # NoResponse
    BY DEF NoResponse
  <1>2. responses[o] \in ResponseRow /\ ExistsIn(incidents, responses[o].row)
    BY <1>1 DEF ResponsesSound
  <1> QED
    BY <1>1, <1>2 DEF ResponseRow

LEMMA ObserveStep ==
    ASSUME AlertsInv, NEW c \in Captors, Observe(c)
    PROVE  AlertsInv'
  <1>1. PICK r : r = [step |-> "observed", at |-> clock, seen |-> alerting, held |-> {}]
    OBVIOUS
  <1>2. r \in CaptureRow /\ r.held = {}
    BY <1>1 DEF AlertsInv, CaptureRow
  <1>3. captures' = [captures EXCEPT ![c] = r]
    BY <1>1 DEF Observe
  <1>4. CapturesSound(incidents, captures') /\ ResponsesSound(incidents, captures', responses)
    BY <1>2, <1>3, CaptorChange DEF AlertsInv
  <1> QED
    BY <1>4 DEF AlertsInv, Observe

LEMMA AbortStep ==
    ASSUME AlertsInv, NEW c \in Captors, AbortCapture(c)
    PROVE  AlertsInv'
  <1>1. captures' = [captures EXCEPT ![c] = NoCapture]
    BY DEF AbortCapture
  <1>2. CapturesSound(incidents, captures') /\ ResponsesSound(incidents, captures', responses)
    BY <1>1, NoCaptureRow, CaptorChange DEF AlertsInv
  <1> QED
    BY <1>2 DEF AlertsInv, AbortCapture

LEMMA LockIncidentsStep ==
    ASSUME AlertsInv, NEW c \in Captors, LockIncidents(c)
    PROVE  AlertsInv'
  <1>1. captures[c] \in CaptureRow
    BY DEF AlertsInv, CapturesSound
  <1>2. PICK x \in CaptureRow : x = captures[c]
    BY <1>1
  <1>3. PICK h : h = Lockable
    OBVIOUS
  <1>4. /\ h \subseteq OpenIn(incidents)
        /\ \A d \in Captors : h \cap captures[d].held = {}
        /\ \A o \in Responders : responses[o].step = "locked" => responses[o].row \notin h
    BY <1>3, OpenIsOpenIn DEF Lockable, Locked
  <1>5. PICK r : r = IF x.at \in snapshots THEN NoCapture
                     ELSE [x EXCEPT !.step = "locked", !.held = h]
    OBVIOUS
  <1>6. captures' = [captures EXCEPT ![c] = r]
    BY <1>2, <1>3, <1>5 DEF LockIncidents
  <1>7. r \in CaptureRow /\ (r.held = {} \/ r.held = h)
    <2>1. CASE x.at \in snapshots
      BY <1>5, <2>1, NoCaptureRow
    <2>2. CASE x.at \notin snapshots
      <3>1. h \in SUBSET Rows
        BY <1>4 DEF OpenIn
      <3>2. r = [x EXCEPT !.step = "locked", !.held = h]
        BY <1>5, <2>2
      <3> QED
        BY <3>1, <3>2 DEF CaptureRow
    <2> QED
      BY <2>1, <2>2
  <1>8. CapturesSound(incidents, captures') /\ ResponsesSound(incidents, captures', responses)
    BY <1>4, <1>6, <1>7, CaptorChange DEF AlertsInv
  <1> QED
    BY <1>8 DEF AlertsInv, LockIncidents

LEMMA CommitStep ==
    ASSUME AlertsInv, NEW c \in Captors, CommitCapture(c)
    PROVE  AlertsInv'
  <1>1. PICK r \in CaptureRow : r = captures[c] /\ r.at \in 0..LastBucket
    BY DEF AlertsInv, CapturesSound, CaptureRow
  <1>2. r.seen \in [AlertKeys -> Severity] /\ r.held \subseteq OpenRows
    BY <1>1, OpenIsOpenIn DEF AlertsInv, CapturesSound, CaptureRow
  <1>3. captures' = [captures EXCEPT ![c] = NoCapture]
    BY DEF CommitCapture
  <1>4. CapturesSound(incidents, captures') /\ ResponsesSound(incidents, captures', responses)
    BY <1>3, NoCaptureRow, CaptorChange DEF AlertsInv
  <1>5. CASE UNCHANGED <<snapshots, incidents, outbox>>
    BY <1>4, <1>5 DEF AlertsInv, CommitCapture
  <1>6. ASSUME NEW after \in [AlertKeys -> UNION {History(r, k) : k \in AlertKeys}],
               \A k \in AlertKeys : after[k] \in History(r, k) /\ Len(after[k]) <= MaxIncidents,
               incidents' = after, outbox' = outbox \cup NewPages(after),
               snapshots' = snapshots \cup {r.at}
        PROVE  AlertsInv'
    <2>1. ASSUME NEW k \in AlertKeys
          PROVE  RowsSound(after[k]) /\ RowsMove(k, incidents[k], after[k], r.held)
      <3>1. RowsSound(incidents[k]) /\ r.seen[k] \in Severity
        BY <1>2 DEF AlertsInv, HistoriesSound
      <3> QED
        BY <1>1, <1>2, <1>6, <3>1, HistoryMoves
    <2>2. HistoriesSound(after)
      BY <1>6, <2>1 DEF HistoriesSound, RowsSound
    <2>3. PagesSound(after, outbox')
      BY <1>6, <2>1, <2>2, PagesFollow DEF AlertsInv
    <2>4. \A d \in Captors : captures'[d].held \cap r.held = {}
      <3>1. captures \in [Captors -> CaptureRow]
        BY DEF AlertsInv, CapturesSound
      <3>2. \A d \in Captors : captures'[d] = IF d = c THEN NoCapture ELSE captures[d]
        BY <1>3, <3>1
      <3> QED
        BY <1>1, <3>2, NoCaptureRow DEF AlertsInv, CapturesSound
    <2>5. CapturesSound(after, captures') /\ ResponsesSound(after, captures', responses)
      BY <1>4, <2>1, <2>2, <2>4, HistoriesChange DEF AlertsInv
    <2>6. snapshots' \subseteq 0..LastBucket
      BY <1>1, <1>6 DEF AlertsInv
    <2> QED
      BY <1>6, <2>2, <2>3, <2>5, <2>6 DEF AlertsInv, CommitCapture
  <1> QED
    BY <1>1, <1>5, <1>6 DEF CommitCapture

LEMMA AskStep ==
    ASSUME AlertsInv, NEW o \in Responders, NEW row \in Rows,
           NEW type \in {"acknowledged", "note"}, AskResponse(o, row, type)
    PROVE  AlertsInv'
  <1>1. PICK r : r = [step |-> "waiting", row |-> row, type |-> type, at |-> clock]
    OBVIOUS
  <1>2. r \in ResponseRow /\ r.row = row /\ r.step = "waiting"
    BY <1>1 DEF AlertsInv, ResponseRow
  <1>3. responses' = [responses EXCEPT ![o] = r]
    BY <1>1 DEF AskResponse
  <1>4. ExistsIn(incidents, row)
    BY DEF AskResponse, Exists, ExistsIn
  <1>5. ResponsesSound(incidents, captures, responses')
    BY <1>2, <1>3, <1>4, ResponderChange DEF AlertsInv
  <1> QED
    BY <1>5 DEF AlertsInv, AskResponse

LEMMA LockResponseStep ==
    ASSUME AlertsInv, NEW o \in Responders, LockResponse(o)
    PROVE  AlertsInv'
  <1>1. PICK x \in ResponseRow : x = responses[o] /\ ExistsIn(incidents, x.row)
    BY ResponseFacts DEF AlertsInv, LockResponse
  <1>2. PICK r : r = [x EXCEPT !.step = "locked"]
    OBVIOUS
  <1>3. r \in ResponseRow /\ r.row = x.row
    BY <1>2 DEF ResponseRow
  <1>4. responses' = [responses EXCEPT ![o] = r]
    BY <1>1, <1>2 DEF LockResponse
  <1>5. \A c \in Captors : r.row \notin captures[c].held
    BY <1>1, <1>3 DEF LockResponse, Locked
  <1>6. ResponsesSound(incidents, captures, responses')
    BY <1>1, <1>3, <1>4, <1>5, ResponderChange DEF AlertsInv
  <1> QED
    BY <1>6 DEF AlertsInv, LockResponse

\* What a response makes of its incident.
LEMMA RespondedMoves ==
    ASSUME NEW x \in IncidentRow, IncidentSound(x), NEW acknowledged \in BOOLEAN,
           NEW new, new = IF acknowledged THEN [x EXCEPT !.acked = TRUE] ELSE x,
           Len(x.actions) < MaxActions, NEW at \in 0..LastBucket,
           NEW n \in Predecessors(x.actions), NEW y, y = WithAction(new, at, n)
    PROVE  /\ y \in IncidentRow /\ IncidentSound(y) /\ Moves(x, y)
           /\ y.version = x.version /\ y.status = x.status
  <1>1. /\ new \in IncidentRow /\ new.status = x.status /\ new.version = x.version
        /\ new.level = x.level /\ new.actions = x.actions
    <2>1. CASE acknowledged
      BY <2>1, AcknowledgedChange
    <2>2. CASE ~acknowledged
      BY <2>2
    <2> QED
      BY <2>1, <2>2
  <1>2. Len(x.actions) \in Nat /\ x.version \in 1..5 /\ x.level \in 0..3
    BY DEF IncidentRow, Trail
  <1>3. Len(new.actions) < MaxActions + 3 /\ n \in Predecessors(new.actions)
    BY <1>1, <1>2, AlertsConstants
  <1>4. /\ y \in IncidentRow /\ y.status = x.status /\ y.version = x.version
        /\ y.level = x.level /\ Len(y.actions) = Len(x.actions) + 1
    <2>1. PICK z \in IncidentRow :
             /\ z = new /\ z.status = x.status /\ z.version = x.version
             /\ z.level = x.level /\ z.actions = x.actions
      BY <1>1
    <2>2. n \in Predecessors(z.actions) /\ Len(z.actions) < MaxActions + 3
      BY <1>3, <2>1
    <2>3. y = WithAction(z, at, n)
      BY <2>1
    <2>4. /\ y \in IncidentRow /\ y.status = z.status /\ y.version = z.version
          /\ y.level = z.level /\ Len(y.actions) = Len(z.actions) + 1
      BY <2>2, <2>3, ActionChange
    <2> QED
      BY <2>1, <2>4
  <1>5. IncidentSound(y)
    BY <1>2, <1>4, AlertsConstants DEF IncidentSound
  <1> QED
    BY <1>4, <1>5 DEF Moves

LEMMA RespondStep ==
    ASSUME AlertsInv, NEW o \in Responders, Respond(o)
    PROVE  AlertsInv'
  <1>1. PICK r \in ResponseRow :
           /\ r = responses[o] /\ r.row \in Rows /\ r.at \in 0..LastBucket
           /\ ExistsIn(incidents, r.row) /\ r.step = "locked"
    BY ResponseFacts DEF AlertsInv, Respond
  <1>2. NoResponse.step # "locked"
    BY DEF NoResponse
  <1>3. responses' = [responses EXCEPT ![o] = NoResponse]
    BY DEF Respond
  <1>4. ResponsesSound(incidents, captures, responses')
    BY <1>2, <1>3, ResponderChange DEF AlertsInv
  <1>5. CASE UNCHANGED incidents
    BY <1>4, <1>5 DEF AlertsInv, Respond
  <1>6. PICK k \in AlertKeys, n \in 1..MaxIncidents : r.row = <<k, n>>
    BY <1>1 DEF Rows
  <1>7. PICK rows : rows = incidents[k] /\ RowsSound(rows)
    BY DEF AlertsInv, HistoriesSound
  <1>8. n \in 1..Len(rows)
    BY <1>1, <1>6, <1>7 DEF ExistsIn
  <1>9. PICK x \in IncidentRow : x = rows[n] /\ IncidentSound(x)
    BY <1>7, <1>8 DEF RowsSound
  <1>10. x = Incident(r.row) /\ x = RowIn(incidents, r.row)
    BY <1>6, <1>7, <1>9 DEF Incident, RowIn
  <1>11. CASE ~ UNCHANGED incidents
    <2>1. PICK b \in BOOLEAN : b <=> r.type = "acknowledged"
      OBVIOUS
    <2>2. PICK new : new = IF b THEN [x EXCEPT !.acked = TRUE] ELSE x
      OBVIOUS
    <2>3. new = IF r.type = "acknowledged" THEN [x EXCEPT !.acked = TRUE] ELSE x
      BY <2>1, <2>2
    <2>4. /\ ~(Len(x.actions) >= MaxActions)
          /\ \E m \in Predecessors(x.actions) :
                incidents' = [incidents EXCEPT ![k][n] = WithAction(new, r.at, m)]
      <3>1. r.row[1] = k /\ r.row[2] = n
        BY <1>6
      <3>2. IF \/ r.type = "acknowledged" /\ (x.acked \/ x.status # "open")
               \/ Len(x.actions) >= MaxActions
            THEN UNCHANGED incidents
            ELSE \E m \in Predecessors(x.actions) :
                   incidents' = [incidents EXCEPT ![r.row[1]][r.row[2]] =
                     WithAction(IF r.type = "acknowledged" THEN [x EXCEPT !.acked = TRUE] ELSE x,
                                r.at, m)]
        BY <1>1, <1>10, Zenon DEF Respond
      <3> QED
        BY <1>11, <2>3, <3>1, <3>2, Zenon
    <2>5. PICK m \in Predecessors(x.actions) :
             incidents' = [incidents EXCEPT ![k][n] = WithAction(new, r.at, m)]
      BY <2>4
    <2>6. PICK y : y = WithAction(new, r.at, m)
      OBVIOUS
    <2>7. Len(x.actions) < MaxActions
      <3>1. Len(x.actions) \in Nat
        BY DEF IncidentRow, Trail
      <3> QED
        BY <2>4, <3>1, AlertsConstants
    <2>8. /\ y \in IncidentRow /\ IncidentSound(y) /\ Moves(x, y)
          /\ y.version = x.version /\ y.status = x.status
      BY <1>1, <1>9, <2>2, <2>5, <2>6, <2>7, RespondedMoves
    <2>9. PICK changed : changed = [rows EXCEPT ![n] = y]
      OBVIOUS
    <2>10. n < Len(rows) => y.status = "resolved"
      BY <1>7, <1>8, <1>9, <2>8 DEF RowsSound
    <2>11. RowsSound(changed) /\ RowsMove(k, rows, changed, {r.row})
      BY <1>6, <1>7, <1>8, <1>9, <2>8, <2>9, <2>10, OneRowMoves
    <2>12. incidents' = [incidents EXCEPT ![k] = changed]
      BY <1>7, <2>5, <2>6, <2>9
    <2>13. PICK after : after = [incidents EXCEPT ![k] = changed]
      OBVIOUS
    <2>14. /\ incidents \in [AlertKeys -> Seq(IncidentRow)] /\ changed \in Seq(IncidentRow)
           /\ \A j \in AlertKeys : RowsSound(incidents[j])
      BY <2>11 DEF AlertsInv, HistoriesSound, RowsSound
    <2>15. /\ after \in [AlertKeys -> Seq(IncidentRow)]
           /\ \A j \in AlertKeys : after[j] = IF j = k THEN changed ELSE incidents[j]
      BY <2>13, <2>14
    <2>16. HistoriesSound(after)
      BY <2>11, <2>14, <2>15 DEF HistoriesSound
    <2>17. ASSUME NEW j \in AlertKeys
           PROVE  RowsMove(j, incidents[j], after[j], {r.row})
      <3>1. CASE j = k
        BY <1>7, <2>11, <2>15, <3>1
      <3>2. CASE j # k
        BY <2>14, <2>15, <3>2, SameRowsMove
      <3> QED
        BY <3>1, <3>2
    <2>18. NewPages(after) = {}
      <3>1. ASSUME NEW q \in Rows, q[2] \in DOMAIN after[q[1]]
            PROVE  /\ ~(q[2] > Len(incidents[q[1]]))
                   /\ RowIn(after, q).version = RowIn(incidents, q).version
        <4>1. PICK j \in AlertKeys, i \in 1..MaxIncidents : q = <<j, i>>
          BY DEF Rows
        <4>2. i \in Nat /\ i \in DOMAIN after[j]
          BY <3>1, <4>1, AlertsConstants
        <4>3. CASE j = k
          <5>1. rows \in Seq(IncidentRow)
            BY <1>7 DEF RowsSound
          <5>2. i \in 1..Len(rows) /\ Len(rows) \in Nat
                /\ changed[i] = IF i = n THEN y ELSE rows[i]
            BY <2>9, <2>15, <4>2, <4>3, <5>1
          <5>3. changed[i].version = rows[i].version
            BY <1>9, <2>8, <5>2
          <5> QED
            BY <1>7, <2>15, <4>1, <4>3, <5>2, <5>3 DEF RowIn
        <4>4. CASE j # k
          <5>1. after[j] = incidents[j] /\ incidents[j] \in Seq(IncidentRow)
            BY <2>14, <2>15, <4>4
          <5>2. i \in 1..Len(incidents[j]) /\ Len(incidents[j]) \in Nat
            BY <4>2, <5>1
          <5> QED
            BY <4>1, <5>1, <5>2 DEF RowIn
        <4> QED
          BY <4>3, <4>4
      <3> QED
        BY <3>1, NewPagesOf
    <2>19. PagesSound(after, outbox)
      <3>1. outbox = outbox \cup NewPages(after)
        BY <2>18
      <3> QED
        BY <2>16, <2>17, <3>1, PagesFollow DEF AlertsInv
    <2>20. \A c \in Captors : captures[c].held \cap {r.row} = {}
      BY <1>1 DEF AlertsInv, ResponsesSound
    <2>21. CapturesSound(after, captures) /\ ResponsesSound(after, captures, responses')
      BY <1>4, <2>16, <2>17, <2>20, HistoriesChange DEF AlertsInv
    <2> QED
      BY <2>12, <2>13, <2>16, <2>19, <2>21 DEF AlertsInv, Respond
  <1> QED
    BY <1>5, <1>11

-----------------------------------------------------------------------------
(* Theorems *)

LEMMA AlertsStart == AlertsInit => AlertsInv
  <1> SUFFICES ASSUME AlertsInit PROVE AlertsInv
    OBVIOUS
  <1>1. alerting \in [AlertKeys -> Severity] /\ snapshots \subseteq 0..LastBucket /\ clock \in 0..LastBucket
    BY AlertsConstants DEF AlertsInit, Severity
  <1>2. \A k \in AlertKeys : incidents[k] = << >> /\ Len(incidents[k]) = 0
    BY DEF AlertsInit
  <1>3. \A k \in AlertKeys : RowsSound(incidents[k])
    <2>1. SUFFICES ASSUME NEW k \in AlertKeys PROVE RowsSound(<< >>)
      BY <1>2
    <2>2. << >> \in Seq(IncidentRow) /\ Len(<< >>) = 0
      OBVIOUS
    <2>3. 0 <= MaxIncidents /\ 1..0 = {}
      BY AlertsConstants
    <2> QED
      BY <2>2, <2>3 DEF RowsSound
  <1>4. HistoriesSound(incidents)
    BY <1>3 DEF HistoriesSound, AlertsInit
  <1>5. \A row \in Rows : ~ExistsIn(incidents, row)
    <2>1. SUFFICES ASSUME NEW row \in Rows PROVE ~ExistsIn(incidents, row)
      OBVIOUS
    <2>2. row[1] \in AlertKeys
      BY DEF Rows
    <2>3. Len(incidents[row[1]]) = 0 /\ 1..0 = {}
      BY <1>2, <2>2
    <2> QED
      BY <2>3 DEF ExistsIn
  <1>6. PagesSound(incidents, outbox)
    BY <1>5 DEF PagesSound, AlertsInit
  <1>7. captures \in [Captors -> CaptureRow] /\ \A c \in Captors : captures[c].held = {}
    BY NoCaptureRow DEF AlertsInit
  <1>8. CapturesSound(incidents, captures)
    BY <1>7 DEF CapturesSound
  <1>9. /\ responses \in [Responders -> ResponseRow \cup {NoResponse}]
        /\ \A o \in Responders : responses[o] = NoResponse
    BY DEF AlertsInit
  <1>10. ResponsesSound(incidents, captures, responses)
    BY <1>7, <1>9 DEF ResponsesSound
  <1> QED
    BY <1>1, <1>4, <1>6, <1>8, <1>10 DEF AlertsInv

LEMMA AlertsStep == AlertsInv /\ [AlertsNext]_alertVars => AlertsInv'
  <1> SUFFICES ASSUME AlertsInv, [AlertsNext]_alertVars PROVE AlertsInv'
    OBVIOUS
  <1>1. CASE AlertsChange
    <2>1. PICK k \in AlertKeys, s \in Severity : alerting' = [alerting EXCEPT ![k] = s]
      BY <1>1 DEF AlertsChange
    <2>2. alerting' \in [AlertKeys -> Severity]
      BY <2>1 DEF AlertsInv
    <2> QED
      BY <1>1, <2>2 DEF AlertsInv, AlertsChange
  <1>2. CASE ClockTick
    <2>1. clock' \in 0..LastBucket
      BY <1>2, AlertsConstants DEF AlertsInv, ClockTick
    <2> QED
      BY <1>2, <2>1 DEF AlertsInv, ClockTick
  <1>3. ASSUME NEW c \in Captors, Observe(c) PROVE AlertsInv'
    BY <1>3, ObserveStep
  <1>4. ASSUME NEW c \in Captors, LockIncidents(c) PROVE AlertsInv'
    BY <1>4, LockIncidentsStep
  <1>5. ASSUME NEW c \in Captors, CommitCapture(c) PROVE AlertsInv'
    BY <1>5, CommitStep
  <1>6. ASSUME NEW c \in Captors, AbortCapture(c) PROVE AlertsInv'
    BY <1>6, AbortStep
  <1>7. ASSUME NEW o \in Responders, NEW row \in Rows,
               NEW type \in {"acknowledged", "note"}, AskResponse(o, row, type)
        PROVE  AlertsInv'
    BY <1>7, AskStep
  <1>8. ASSUME NEW o \in Responders, LockResponse(o) PROVE AlertsInv'
    BY <1>8, LockResponseStep
  <1>9. ASSUME NEW o \in Responders, Respond(o) PROVE AlertsInv'
    BY <1>9, RespondStep
  <1>10. CASE UNCHANGED alertVars
    BY <1>10 DEF AlertsInv, alertVars
  <1> QED
    BY <1>1, <1>2, <1>3, <1>4, <1>5, <1>6, <1>7, <1>8, <1>9, <1>10 DEF AlertsNext

LEMMA AlertsInvariant == AlertsSpec => []AlertsInv
  BY AlertsStart, AlertsStep, PTL DEF AlertsSpec

\* Captures, incidents, pages and responses keep their types; a capture holds
\* open incidents only, and no other transaction holds one of them, whichever
\* captures overlap (with_for_update(skip_locked=True) in incidents.py).
THEOREM AlertsTypeCorrect == AlertsSpec => []AlertsTypeOK
  <1>1. AlertsInv => AlertsTypeOK
    <2> SUFFICES ASSUME AlertsInv PROVE AlertsTypeOK
      OBVIOUS
    <2>1. incidents \in [AlertKeys -> Seq(Incidents)]
      BY AlertsConstants DEF AlertsInv, HistoriesSound
    <2>2. outbox \subseteq [row: Rows, version: 1..5, kind: {"opened", "escalated", "resolved"}]
      BY DEF AlertsInv, PagesSound, PageRow
    <2>3. /\ \A c \in Captors : captures[c].held \subseteq OpenRows
          /\ \A c, d \in Captors : c # d => captures[c].held \cap captures[d].held = {}
      BY OpenIsOpenIn DEF AlertsInv, CapturesSound
    <2>4. \A o \in Responders, c \in Captors :
             responses[o].step = "locked" => responses[o].row \notin captures[c].held
      BY DEF AlertsInv, ResponsesSound
    <2> QED
      BY <2>1, <2>2, <2>3, <2>4 DEF AlertsInv, AlertsTypeOK
  <1> QED
    BY <1>1, AlertsInvariant, PTL

\* Of the incidents of a key only the latest may be open: a capture that could
\* not lock the open one does not open a second (the active_key constraint).
THEOREM OneIncidentIsOpen == AlertsSpec => []OneOpenIncident
  <1>1. AlertsInv => OneOpenIncident
    BY PagesImply DEF AlertsInv
  <1> QED
    BY <1>1, AlertsInvariant, PTL

\* Every transition of an incident has exactly one page, and every page is of
\* a transition that happened: _create_delivery commits with the transition.
THEOREM EveryTransitionIsPaged == AlertsSpec => []TransitionsArePaged
  <1>1. AlertsInv => TransitionsArePaged
    BY PagesImply DEF AlertsInv
  <1> QED
    BY <1>1, AlertsInvariant, PTL

-----------------------------------------------------------------------------
(***************************************************************************)
(* Delivery.  An answer is recorded by the execution that got it, and no   *)
(* execution overlaps another of its page: so a row that an execution      *)
(* found undelivered is undelivered until that execution records.          *)
(***************************************************************************)

ExecutionSound(p) ==
    /\ post[p].step # "none" <=> pageJob[p].status = "running"
    /\ p \in pending \/ delivery[p] = "absent" => pageJob[p].status = "none"
    /\ p \in pending => delivery[p] # "absent"
    /\ post[p].step = "answered" => delivery[p] # "delivered" /\ post[p].answer \in Answer
    /\ post[p].step = "answered" /\ post[p].answer = "accepted" => acceptances[p] > 0
    /\ post[p].step = "recorded" /\ post[p].answer = "accepted" => delivery[p] = "delivered"

PagingInv ==
    /\ PagingTypeOK
    /\ acceptances \in [Pages -> Nat]
    /\ \A p \in Pages : ExecutionSound(p)

\* The rows by which the actions below differ from one page to the next.
Untouched(p) ==
    /\ delivery'[p] = delivery[p]
    /\ pageJob'[p] = pageJob[p]
    /\ post'[p] = post[p]
    /\ acceptances'[p] = acceptances[p]
    /\ p \in pending' => p \in pending

PagingTypes ==
    /\ delivery \in [Pages -> {"absent", "queued", "delivered", "failed"}]
    /\ pageJob \in [Pages -> [status: {"none", "queued", "running", "completed", "failed"},
                              attempts: 0..PageAttempts]]
    /\ post \in [Pages -> [step: {"none", "claimed", "answered", "recorded"},
                           answer: Answer \cup {"none"}]]
    /\ pending \cup orphans \subseteq Pages
    /\ acceptances \in [Pages -> Nat]

PageTrue(p) ==
    /\ delivery[p] = "delivered" => acceptances[p] > 0
    /\ pageJob[p].status = "completed" => delivery[p] = "delivered"

LEMMA PagingInvParts ==
    PagingInv <=> PagingTypes /\ \A p \in Pages : PageTrue(p) /\ ExecutionSound(p)
  BY DEF PagingInv, PagingTypeOK, PagingTypes, PageTrue

LEMMA PagingInvPartsNext ==
    ASSUME PagingTypes', \A p \in Pages : PageTrue(p)' /\ ExecutionSound(p)' PROVE PagingInv'
  BY DEF PagingInv, PagingTypeOK, PagingTypes, PageTrue

LEMMA UntouchedStays ==
    ASSUME PagingInv, NEW p \in Pages, Untouched(p) PROVE PageTrue(p)' /\ ExecutionSound(p)'
  BY PagingInvParts DEF Untouched, PageTrue, ExecutionSound

LEMMA PagingInitial == PagingInit => PagingInv
  <1> SUFFICES ASSUME PagingInit PROVE PagingInv
    OBVIOUS
  <1>1. PagingTypes
    BY PagingAssumption DEF PagingInit, PagingTypes, NoPost
  <1>2. \A p \in Pages : PageTrue(p) /\ ExecutionSound(p)
    BY DEF PagingInit, PageTrue, ExecutionSound, NoPost
  <1> QED
    BY <1>1, <1>2, PagingInvParts

LEMMA CommitPagesStep ==
    ASSUME PagingInv, NEW S \in SUBSET Pages, CommitPages(S) PROVE PagingInv'
  <1>1. PagingTypes'
    BY PagingInvParts DEF CommitPages, PagingTypes
  <1>2. ASSUME NEW p \in Pages PROVE PageTrue(p)' /\ ExecutionSound(p)'
    <2>1. CASE p \in S
      BY <2>1, PagingInvParts DEF CommitPages, PageTrue, ExecutionSound, PagingTypes
    <2>2. CASE p \notin S
      BY <2>2, UntouchedStays DEF CommitPages, Untouched
    <2> QED
      BY <2>1, <2>2
  <1> QED
    BY <1>1, <1>2, PagingInvPartsNext

LEMMA EnqueuePageStep ==
    ASSUME PagingInv, NEW p \in Pages, EnqueuePage(p) PROVE PagingInv'
  <1>1. PagingTypes /\ ExecutionSound(p) /\ PageTrue(p)
    BY PagingInvParts
  <1>2. PagingTypes'
    BY <1>1, PagingAssumption DEF EnqueuePage, PagingTypes
  <1>3. PageTrue(p)' /\ ExecutionSound(p)'
    <2>1. /\ pageJob'[p].status = "queued" /\ p \notin pending' /\ delivery[p] # "absent"
          /\ UNCHANGED <<delivery, post, acceptances>> /\ post[p].step = "none"
      BY <1>1 DEF EnqueuePage, PagingTypes, ExecutionSound
    <2> QED
      BY <1>1, <2>1 DEF PageTrue, ExecutionSound
  <1>4. \A q \in Pages \ {p} : PageTrue(q)' /\ ExecutionSound(q)'
    BY <1>1, UntouchedStays DEF EnqueuePage, Untouched, PagingTypes
  <1> QED
    BY <1>2, <1>3, <1>4, PagingInvPartsNext

LEMMA CrashCaptureStep ==
    ASSUME PagingInv, CrashCapture PROVE PagingInv'
  <1>1. PagingTypes'
    BY PagingInvParts DEF CrashCapture, PagingTypes
  <1>2. \A p \in Pages : PageTrue(p)' /\ ExecutionSound(p)'
    BY UntouchedStays DEF CrashCapture, Untouched
  <1> QED
    BY <1>1, <1>2, PagingInvPartsNext

\* One execution.  The rows of the page itself, then all others.
LEMMA ClaimPageStep ==
    ASSUME PagingInv, NEW p \in Pages, ClaimPage(p) PROVE PagingInv'
  <1>1. PagingTypes /\ ExecutionSound(p) /\ PageTrue(p)
    BY PagingInvParts
  <1>2. /\ pageJob' = [pageJob EXCEPT ![p] = [status |-> "running", attempts |-> pageJob[p].attempts + 1]]
        /\ pageJob[p].attempts + 1 \in 0..PageAttempts
    BY <1>1, PagingAssumption DEF ClaimPage, PagingTypes
  <1>3. PagingTypes'
    BY <1>1, <1>2 DEF ClaimPage, PagingTypes
  <1>4. PageTrue(p)' /\ ExecutionSound(p)'
    <2>1. /\ pageJob'[p].status = "running" /\ post'[p].step = "claimed"
          /\ pageJob[p].status = "queued" /\ UNCHANGED <<delivery, pending, acceptances>>
      BY <1>1, <1>2 DEF ClaimPage, PagingTypes
    <2> QED
      BY <1>1, <2>1 DEF PageTrue, ExecutionSound
  <1>5. \A q \in Pages \ {p} : PageTrue(q)' /\ ExecutionSound(q)'
    BY <1>1, <1>2, UntouchedStays DEF ClaimPage, Untouched, PagingTypes
  <1> QED
    BY <1>3, <1>4, <1>5, PagingInvPartsNext

LEMMA PostPageStep ==
    ASSUME PagingInv, NEW p \in Pages, PostPage(p)
    PROVE  PagingInv' /\ (delivery[p] = "delivered" => acceptances' = acceptances)
  <1>1. PagingTypes /\ ExecutionSound(p) /\ PageTrue(p)
    BY PagingInvParts
  <1>2. /\ post[p].step = "claimed" /\ pageJob[p].status = "running"
        /\ UNCHANGED <<delivery, pageJob, pending, orphans>>
    BY <1>1 DEF PostPage, ExecutionSound
  <1>3. \A q \in Pages \ {p} : post'[q] = post[q] /\ acceptances'[q] = acceptances[q]
    BY <1>1 DEF PostPage, PagingTypes
  <1>4. CASE /\ Replays(p)
             /\ post' = [post EXCEPT ![p] = [step |-> "recorded", answer |-> "accepted"]]
             /\ UNCHANGED acceptances
    <2>1. PagingTypes'
      BY <1>1, <1>2, <1>4 DEF PagingTypes, Answer
    <2>2. post'[p] = [step |-> "recorded", answer |-> "accepted"]
      BY <1>1, <1>4 DEF PagingTypes
    <2>3. PageTrue(p)' /\ ExecutionSound(p)'
      BY <1>1, <1>2, <1>4, <2>2 DEF PageTrue, ExecutionSound, Replays
    <2>4. \A q \in Pages \ {p} : PageTrue(q)' /\ ExecutionSound(q)'
      BY <1>2, <1>3, UntouchedStays DEF Untouched
    <2> QED
      BY <1>4, <2>1, <2>3, <2>4, PagingInvPartsNext
  <1>5. ASSUME ~Replays(p), NEW a \in Answer,
               post' = [post EXCEPT ![p] = [step |-> "answered", answer |-> a]],
               IF a \in {"accepted", "unconfirmed"} /\ acceptances[p] < PageAttempts
               THEN acceptances' = [acceptances EXCEPT ![p] = @ + 1]
               ELSE UNCHANGED acceptances
        PROVE  PagingInv' /\ delivery[p] # "delivered"
    <2>1. PagingTypes'
      <3>1. acceptances' \in [Pages -> Nat]
        BY <1>1, <1>5 DEF PagingTypes
      <3>2. post' \in [Pages -> [step: {"none", "claimed", "answered", "recorded"},
                                 answer: Answer \cup {"none"}]]
        BY <1>1, <1>5 DEF PagingTypes
      <3> QED
        BY <1>1, <1>2, <3>1, <3>2 DEF PagingTypes
    <2>2. post'[p] = [step |-> "answered", answer |-> a]
      BY <1>1, <1>5 DEF PagingTypes
    <2>3. acceptances'[p] \in Nat /\ (a = "accepted" => acceptances'[p] > 0)
      BY <1>1, <1>5, PagingAssumption DEF PagingTypes
    <2>4. PageTrue(p)' /\ ExecutionSound(p)'
      BY <1>1, <1>2, <1>5, <2>2, <2>3 DEF PageTrue, ExecutionSound, Replays
    <2>5. delivery[p] # "delivered"
      BY <1>5 DEF Replays
    <2>6. \A q \in Pages \ {p} : PageTrue(q)' /\ ExecutionSound(q)'
      BY <1>2, <1>3, UntouchedStays DEF Untouched
    <2> QED
      BY <2>1, <2>4, <2>5, <2>6, PagingInvPartsNext
  <1> QED
    BY <1>4, <1>5 DEF PostPage

LEMMA RecordPageStep ==
    ASSUME PagingInv, NEW p \in Pages, RecordPage(p) PROVE PagingInv' /\ delivery[p] # "delivered"
  <1>1. PagingTypes /\ ExecutionSound(p) /\ PageTrue(p)
    BY PagingInvParts
  <1>2. /\ post[p].step = "answered" /\ delivery[p] # "delivered" /\ post[p].answer \in Answer
        /\ pageJob[p].status = "running"
    BY <1>1 DEF RecordPage, ExecutionSound
  <1>3. PICK s \in {"delivered", "failed", "queued"} :
           /\ s = Recorded(p, post[p].answer)
           /\ s = "delivered" <=> post[p].answer = "accepted"
    BY DEF Recorded
  <1>4. delivery' = [delivery EXCEPT ![p] = s] /\ post' = [post EXCEPT ![p].step = "recorded"]
    BY <1>3 DEF RecordPage
  <1>5. PagingTypes'
    BY <1>1, <1>4 DEF RecordPage, PagingTypes
  <1>6. PageTrue(p)' /\ ExecutionSound(p)'
    <2>1. /\ delivery'[p] = s /\ post'[p].step = "recorded" /\ post'[p].answer = post[p].answer
          /\ UNCHANGED <<pageJob, pending, acceptances>>
      BY <1>1, <1>4 DEF RecordPage, PagingTypes
    <2> QED
      BY <1>1, <1>2, <1>3, <2>1 DEF PageTrue, ExecutionSound
  <1>7. \A q \in Pages \ {p} : PageTrue(q)' /\ ExecutionSound(q)'
    BY <1>1, <1>4, UntouchedStays DEF RecordPage, Untouched, PagingTypes
  <1> QED
    BY <1>2, <1>5, <1>6, <1>7, PagingInvPartsNext

\* The job ends or is handed back, and with it the execution.
LEMMA JobEnds ==
    ASSUME PagingInv, NEW p \in Pages, NEW s \in {"queued", "completed", "failed"},
           pageJob' = [pageJob EXCEPT ![p].status = s],
           UNCHANGED <<delivery, pending, acceptances, orphans>>,
           NEW idle \in [step: {"none"}, answer: Answer \cup {"none"}],
           post' = [post EXCEPT ![p] = idle],
           pageJob[p].status = "running", s = "completed" => delivery[p] = "delivered"
    PROVE  PagingInv'
  <1>1. PagingTypes /\ ExecutionSound(p) /\ PageTrue(p)
    BY PagingInvParts
  <1>2. PagingTypes'
    BY <1>1 DEF PagingTypes
  <1>3. PageTrue(p)' /\ ExecutionSound(p)'
    <2>1. pageJob'[p].status = s /\ post'[p].step = "none"
      BY <1>1 DEF PagingTypes
    <2> QED
      BY <1>1, <2>1 DEF PageTrue, ExecutionSound
  <1>4. \A q \in Pages \ {p} : PageTrue(q)' /\ ExecutionSound(q)'
    BY <1>1, UntouchedStays DEF Untouched, PagingTypes
  <1> QED
    BY <1>2, <1>3, <1>4, PagingInvPartsNext

LEMMA FinishPageStep ==
    ASSUME PagingInv, NEW p \in Pages, FinishPage(p) PROVE PagingInv'
  <1>1. PagingTypes /\ ExecutionSound(p)
    BY PagingInvParts
  <1>2. PICK idle : idle = [post[p] EXCEPT !.step = "none"]
    OBVIOUS
  <1>3. idle \in [step: {"none"}, answer: Answer \cup {"none"}] /\ post' = [post EXCEPT ![p] = idle]
    BY <1>1, <1>2 DEF FinishPage, PagingTypes
  <1>4. PICK s \in {"queued", "completed", "failed"} :
           /\ s = Outcome(p, post[p].answer)
           /\ s = "completed" => post[p].answer = "accepted"
    BY DEF Outcome
  <1> QED
    BY <1>1, <1>3, <1>4, JobEnds DEF FinishPage, ExecutionSound

LEMMA CrashPageStep ==
    ASSUME PagingInv, NEW p \in Pages, CrashPage(p) PROVE PagingInv'
  <1>1. ExecutionSound(p)
    BY PagingInvParts
  <1>2. Recovered(p) \in {"queued", "failed"} /\ NoPost \in [step: {"none"}, answer: Answer \cup {"none"}]
    BY DEF Recovered, NoPost
  <1> QED
    BY <1>1, <1>2, JobEnds DEF CrashPage, ExecutionSound

LEMMA RequeuePageStep ==
    ASSUME PagingInv, NEW p \in Pages, RequeuePage(p) PROVE PagingInv'
  <1>1. PagingTypes /\ ExecutionSound(p) /\ PageTrue(p)
    BY PagingInvParts
  <1>2. PagingTypes'
    BY <1>1, PagingAssumption DEF RequeuePage, PagingTypes
  <1>3. PageTrue(p)' /\ ExecutionSound(p)'
    BY <1>1 DEF RequeuePage, PagingTypes, PageTrue, ExecutionSound
  <1>4. \A q \in Pages \ {p} : PageTrue(q)' /\ ExecutionSound(q)'
    BY <1>1, UntouchedStays DEF RequeuePage, Untouched, PagingTypes
  <1> QED
    BY <1>2, <1>3, <1>4, PagingInvPartsNext

LEMMA PagingStep == PagingInv /\ [PagingNext]_pagingVars => PagingInv'
  <1> SUFFICES ASSUME PagingInv, [PagingNext]_pagingVars PROVE PagingInv'
    OBVIOUS
  <1>1. CASE UNCHANGED pagingVars
    <2>1. PagingTypes' /\ \A p \in Pages : Untouched(p)
      BY <1>1, PagingInvParts DEF pagingVars, PagingTypes, Untouched
    <2> QED
      BY <2>1, UntouchedStays, PagingInvPartsNext
  <1>2. CASE PagingNext
    BY <1>2, CommitPagesStep, EnqueuePageStep, CrashCaptureStep, ClaimPageStep, PostPageStep,
       RecordPageStep, FinishPageStep, CrashPageStep, RequeuePageStep DEF PagingNext
  <1> QED
    BY <1>1, <1>2

LEMMA PagingInvariant == PagingSpec => []PagingInv
  BY PagingInitial, PagingStep, PTL DEF PagingSpec

\* Deliveries, their jobs and executions keep their types; a delivered page was
\* accepted by the provider, and a completed job delivered its page.
THEOREM PagingTypeCorrect == PagingSpec => []PagingTypeOK
  <1>1. PagingInv => PagingTypeOK
    BY DEF PagingInv
  <1> QED
    BY <1>1, PagingInvariant, PTL

\* execute_operational_alert_delivery answers for a delivered row instead of
\* posting it again, in every execution that crashes, retries and requeues of
\* its job can bring about.
THEOREM DeliveryIsFinal == PagingSpec => DeliveredIsFinal
  <1>1. ASSUME PagingInv, [PagingNext]_pagingVars, NEW p \in Pages, delivery[p] = "delivered"
        PROVE  delivery'[p] = "delivered" /\ acceptances'[p] = acceptances[p]
    <2>1. delivery \in [Pages -> {"absent", "queued", "delivered", "failed"}] /\ acceptances \in [Pages -> Nat]
      BY <1>1 DEF PagingInv, PagingTypeOK
    <2>2. CASE \E S \in SUBSET Pages : CommitPages(S)
      BY <1>1, <2>1, <2>2 DEF CommitPages
    <2>3. CASE \E q \in Pages : PostPage(q)
      <3>1. PICK q \in Pages : PostPage(q)
        BY <2>3
      <3>2. acceptances'[p] = acceptances[p]
        BY <1>1, <2>1, <3>1, PostPageStep DEF PostPage
      <3> QED
        BY <1>1, <3>1, <3>2 DEF PostPage
    <2>4. CASE \E q \in Pages : RecordPage(q)
      BY <1>1, <2>1, <2>4, RecordPageStep DEF RecordPage
    <2>5. CASE UNCHANGED <<delivery, acceptances>>
      BY <1>1, <2>5
    <2> QED
      BY <1>1, <2>2, <2>3, <2>4, <2>5
      DEF PagingNext, pagingVars, EnqueuePage, CrashCapture, ClaimPage, FinishPage, CrashPage, RequeuePage
  <1>2. PagingInv /\ [PagingNext]_pagingVars =>
          [\A p \in Pages : delivery[p] = "delivered" =>
             delivery'[p] = "delivered" /\ acceptances'[p] = acceptances[p]]_pagingVars
    BY <1>1
  <1> QED
    BY <1>2, PagingInvariant, PTL DEF PagingSpec, DeliveredIsFinal
=============================================================================
