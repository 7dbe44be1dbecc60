-------------------------- MODULE OperationalAlerts --------------------------
(***************************************************************************)
(* Captures of the operational metrics, the incidents they open, escalate  *)
(* and resolve, the pages they put into the outbox, and the operators'     *)
(* responses (backend/app/services/operational_reliability/snapshots.py,   *)
(*  incidents.py, escalation.py and commands.py).                          *)
(*                                                                         *)
(* A capture is one transaction: it observes, inserts its snapshot, locks  *)
(* the open incidents nobody else has locked, and commits.  Paging is      *)
(* enabled.  One unit of time is the snapshot interval, so the time of a   *)
(* capture is also its bucket.                                             *)
(***************************************************************************)
EXTENDS Integers, Sequences, FiniteSets

CONSTANTS
    AlertKeys,     \* keys of derived alerts and of SLOs
    Captors,       \* jobs and requests that capture
    Responders,    \* operators that respond to incidents
    EscalateAfter, \* operational_incident_escalation_seconds
    LastBucket,    \* bound of the model on time
    MaxIncidents,  \* bound of the model on incidents per key
    MaxActions     \* bound of the model on actions per incident

ASSUME AlertsAssumption ==
    /\ EscalateAfter \in Nat \ {0}
    /\ LastBucket \in Nat
    /\ MaxIncidents \in Nat
    /\ MaxActions \in Nat

VARIABLES
    alerting,  \* alerting[k]: what a capture would observe now
    snapshots, \* buckets with a snapshot
    incidents, \* incidents[k]: the incidents of key k, oldest first
    outbox,    \* pages created: incident, transition version and type
    captures,  \* captures[c]: the transaction of c
    responses, \* responses[o]: the transaction of o
    clock      \* the time

alertVars == <<alerting, snapshots, incidents, outbox, captures, responses, clock>>

-----------------------------------------------------------------------------
(* Rows *)

Severity == {"none", "warning", "critical"}

Rows == AlertKeys \X (1..MaxIncidents)

NoCapture == [step |-> "idle", at |-> 0, seen |-> [k \in AlertKeys |-> "none"], held |-> {}]

NoResponse == [step |-> "idle"]

Exists(row) == row[2] \in 1..Len(incidents[row[1]])

Incident(row) == incidents[row[1]][row[2]]

OpenRows == {row \in Rows : Exists(row) /\ Incident(row).status = "open"}

Locked(row) ==
    \/ \E c \in Captors : row \in captures[c].held
    \/ \E o \in Responders : responses[o].step = "locked" /\ responses[o].row = row

AlertsInit ==
    /\ alerting = [k \in AlertKeys |-> "none"]
    /\ snapshots = {}
    /\ incidents = [k \in AlertKeys |-> <<>>]
    /\ outbox = {}
    /\ captures = [c \in Captors |-> NoCapture]
    /\ responses = [o \in Responders |-> NoResponse]
    /\ clock = 0

-----------------------------------------------------------------------------
(* Actions of an incident *)

\* _append_incident_action takes the action that occurred last, of those that
\* occurred in the same second any one, as the predecessor.
Predecessors(actions) ==
    IF actions = <<>> THEN {0}
    ELSE {n \in DOMAIN actions : \A m \in DOMAIN actions : actions[m].at <= actions[n].at}

WithAction(incident, at, n) ==
    [incident EXCEPT !.actions = Append(@, [at |-> at, previous |-> n])]

TargetLevel(incident, at) ==
    LET age == IF at > incident.opened THEN at - incident.opened ELSE 0
        level == age \div EscalateAfter
    IN  IF level < 3 THEN level ELSE 3

\* _maybe_escalate_incident
Escalates(incident, at) ==
    /\ incident.severity = "critical"
    /\ ~incident.acked
    /\ TargetLevel(incident, at) > incident.level

-----------------------------------------------------------------------------
(* Captures *)

\* The world, and time.
AlertsChange ==
    /\ \E k \in AlertKeys, s \in Severity : s # alerting[k] /\ alerting' = [alerting EXCEPT ![k] = s]
    /\ UNCHANGED <<snapshots, incidents, outbox, captures, responses, clock>>

ClockTick ==
    /\ clock < LastBucket
    /\ clock' = clock + 1
    /\ UNCHANGED <<alerting, snapshots, incidents, outbox, captures, responses>>

\* capture_operational_reliability_cycle: a bucket that has a snapshot is
\* answered with it; the metrics are collected before anything is locked.
Observe(c) ==
    /\ captures[c].step = "idle"
    /\ clock \notin snapshots
    /\ captures' = [captures EXCEPT ![c] =
          [step |-> "observed", at |-> clock, seen |-> alerting, held |-> {}]]
    /\ UNCHANGED <<alerting, snapshots, incidents, outbox, responses, clock>>

\* Mutant of Lockable: the rows other transactions hold are read as well.
LockableAll == OpenRows

\* FOR UPDATE SKIP LOCKED
Lockable == {row \in OpenRows : ~Locked(row)}

\* The snapshot is inserted, which waits for another capture of the bucket and
\* fails once that one has committed; then the open incidents are locked.
LockIncidents(c) ==
    /\ captures[c].step = "observed"
    /\ \A d \in Captors \ {c} : captures[d].step = "locked" => captures[d].at # captures[c].at
    /\ captures' = [captures EXCEPT ![c] =
          IF @.at \in snapshots THEN NoCapture ELSE [@ EXCEPT !.step = "locked", !.held = Lockable]]
    /\ UNCHANGED <<alerting, snapshots, incidents, outbox, responses, clock>>

EscalatedRow(incident, at) ==
    [incident EXCEPT !.level = TargetLevel(incident, at), !.version = @ + 1]

\* A row the capture holds and whose key it has seen, after the capture.
Continued(incident, severity, at) ==
    LET seen == [incident EXCEPT !.severity = severity] IN
      IF ~Escalates(seen, at) THEN {seen}
      ELSE {WithAction(EscalatedRow(seen, at), at, n) : n \in Predecessors(seen.actions)}

ResolvedRow(incident, at) ==
    [incident EXCEPT !.status = "resolved", !.resolved = at, !.version = @ + 1]

OpenedRow(severity, at) ==
    [status |-> "open", severity |-> severity, opened |-> at, resolved |-> 0,
     acked |-> FALSE, level |-> 0, version |-> 1, actions |-> <<>>]

\* Mutant of History: an incident the capture does not hold counts as absent.
HistoryReopening(r, k) ==
    LET rows == incidents[k]
        n == Len(rows)
    IN  IF r.seen[k] = "none"
        THEN {IF <<k, n>> \in r.held THEN [rows EXCEPT ![n] = ResolvedRow(@, r.at)] ELSE rows}
        ELSE IF <<k, n>> \in r.held
        THEN {[rows EXCEPT ![n] = next] : next \in Continued(rows[n], r.seen[k], r.at)}
        ELSE {Append(rows, OpenedRow(r.seen[k], r.at))}

\* The incidents of key k once capture r has committed; none when it opens an
\* incident whose active_key exists, which the unique constraint refuses.
History(r, k) ==
    LET rows == incidents[k]
        n == Len(rows)
    IN  IF r.seen[k] = "none"
        THEN {IF <<k, n>> \in r.held THEN [rows EXCEPT ![n] = ResolvedRow(@, r.at)] ELSE rows}
        ELSE IF <<k, n>> \in r.held
        THEN {[rows EXCEPT ![n] = next] : next \in Continued(rows[n], r.seen[k], r.at)}
        ELSE IF n > 0 /\ rows[n].status = "open" THEN {}
        ELSE {Append(rows, OpenedRow(r.seen[k], r.at))}

\* The type of the page a transition creates.
Transition(incident) ==
    IF incident.status = "resolved" THEN "resolved"
    ELSE IF incident.version = 1 THEN "opened" ELSE "escalated"

\* _create_delivery, once per transition.
NewPages(after) ==
    {[row |-> row, version |-> after[row[1]][row[2]].version, kind |-> Transition(after[row[1]][row[2]])] :
       row \in {row \in Rows : /\ row[2] \in DOMAIN after[row[1]]
                               /\ \/ row[2] > Len(incidents[row[1]])
                                  \/ after[row[1]][row[2]].version # Incident(row).version}}

\* _reconcile_operational_incidents and the commit: snapshot, incidents,
\* actions and pages together, or nothing.
CommitCapture(c) ==
    /\ captures[c].step = "locked"
    /\ LET r == captures[c] IN
         \/ /\ \E k \in AlertKeys : History(r, k) = {}
            /\ UNCHANGED <<snapshots, incidents, outbox>>
         \/ \E after \in [AlertKeys -> UNION {History(r, k) : k \in AlertKeys}] :
              /\ \A k \in AlertKeys :
                    /\ after[k] \in History(r, k)
                    /\ Len(after[k]) <= MaxIncidents
              /\ incidents' = after
              /\ outbox' = outbox \cup NewPages(after)
              /\ snapshots' = snapshots \cup {r.at}
    /\ captures' = [captures EXCEPT ![c] = NoCapture]
    /\ UNCHANGED <<alerting, responses, clock>>

\* The capture fails before it commits, or its process dies.
AbortCapture(c) ==
    /\ captures[c].step # "idle"
    /\ captures' = [captures EXCEPT ![c] = NoCapture]
    /\ UNCHANGED <<alerting, snapshots, incidents, outbox, responses, clock>>

-----------------------------------------------------------------------------
(* Responses *)

\* record_operational_incident_action takes the time before it waits for the
\* lock of the row.
AskResponse(o, row, type) ==
    /\ responses[o] = NoResponse
    /\ Exists(row)
    /\ Len(Incident(row).actions) < MaxActions
    /\ responses' = [responses EXCEPT ![o] =
          [step |-> "waiting", row |-> row, type |-> type, at |-> clock]]
    /\ UNCHANGED <<alerting, snapshots, incidents, outbox, captures, clock>>

LockResponse(o) ==
    /\ responses[o].step = "waiting"
    /\ ~Locked(responses[o].row)
    /\ responses' = [responses EXCEPT ![o].step = "locked"]
    /\ UNCHANGED <<alerting, snapshots, incidents, outbox, captures, clock>>

\* An acknowledgement needs an open incident nobody has acknowledged; a note
\* (and an assignment, whose text is left out) only adds its action.
Respond(o) ==
    /\ responses[o].step = "locked"
    /\ responses' = [responses EXCEPT ![o] = NoResponse]
    /\ LET r == responses[o]
           old == Incident(r.row)
           new == IF r.type = "acknowledged" THEN [old EXCEPT !.acked = TRUE] ELSE old
       IN
         IF \/ r.type = "acknowledged" /\ (old.acked \/ old.status # "open")
            \/ Len(old.actions) >= MaxActions
         THEN UNCHANGED incidents
         ELSE \E n \in Predecessors(old.actions) :
                incidents' = [incidents EXCEPT ![r.row[1]][r.row[2]] = WithAction(new, r.at, n)]
    /\ UNCHANGED <<alerting, snapshots, outbox, captures, clock>>

-----------------------------------------------------------------------------
AlertsNext ==
    \/ AlertsChange
    \/ ClockTick
    \/ \E c \in Captors : Observe(c)
    \/ \E c \in Captors : LockIncidents(c)
    \/ \E c \in Captors : CommitCapture(c)
    \/ \E c \in Captors : AbortCapture(c)
    \/ \E o \in Responders, row \in Rows, type \in {"acknowledged", "note"} : AskResponse(o, row, type)
    \/ \E o \in Responders : LockResponse(o)
    \/ \E o \in Responders : Respond(o)

AlertsSpec == AlertsInit /\ [][AlertsNext]_alertVars

-----------------------------------------------------------------------------
(* Properties *)

Incidents ==
    [status: {"open", "resolved"}, severity: {"warning", "critical"},
     opened: 0..LastBucket, resolved: 0..LastBucket, acked: BOOLEAN, level: 0..3,
     version: 1..5, actions: Seq([at: 0..LastBucket, previous: 0..MaxActions + 3])]

\* Every variable keeps its type, and no two transactions hold one row.
AlertsTypeOK ==
    /\ alerting \in [AlertKeys -> Severity]
    /\ snapshots \subseteq 0..LastBucket
    /\ incidents \in [AlertKeys -> Seq(Incidents)]
    /\ outbox \subseteq [row: Rows, version: 1..5, kind: {"opened", "escalated", "resolved"}]
    /\ \A c \in Captors : captures[c].held \subseteq OpenRows
    /\ \A c, d \in Captors : c # d => captures[c].held \cap captures[d].held = {}
    /\ \A o \in Responders, c \in Captors :
         responses[o].step = "locked" => responses[o].row \notin captures[c].held
    /\ clock \in 0..LastBucket

\* One incident per key is open, and only the latest: an incident the capture
\* could not lock is not opened a second time.
OneOpenIncident ==
    \A k \in AlertKeys, n \in 1..MaxIncidents :
        n < Len(incidents[k]) => incidents[k][n].status = "resolved"

\* The outbox holds exactly one page for every transition of every incident,
\* whichever captures overlap, fail or skip the rows others have locked: the
\* first says opened, the last of a resolved one resolved.
TransitionsArePaged ==
    /\ \A row \in Rows : Exists(row) =>
         \A v \in 1..Incident(row).version :
            Cardinality({p \in outbox : p.row = row /\ p.version = v}) = 1
    /\ \A p \in outbox :
         /\ Exists(p.row)
         /\ p.version \in 1..Incident(p.row).version
         /\ p.kind = "opened" <=> p.version = 1
         /\ p.kind = "resolved" <=>
               Incident(p.row).status = "resolved" /\ p.version = Incident(p.row).version

\* The actions of an incident form one chain: each names the one before it.
ActionsFormAChain ==
    \A row \in Rows : Exists(row) =>
        \A n \in DOMAIN Incident(row).actions : Incident(row).actions[n].previous = n - 1
=============================================================================
