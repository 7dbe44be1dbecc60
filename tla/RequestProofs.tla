--------------------------- MODULE RequestProofs ---------------------------
(* What structured requests and the attempts that observe them guarantee   *)
(* for every set of tabs, drafts, arguments and tasks, and every bound on  *)
(* events, revisions, checks, tools and time; and, at the end, what the    *)
(* assistant's reviews guarantee for every set of files, names, reviews    *)
(* and sessions, and every number of proposals, crashes and edits.         *)
EXTENDS RequestContracts, AssistantReviews, FiniteSetTheorems, SequenceTheorems, TLAPS

(***************************************************************************)
(* A request that is confirmed and was not executed yet was confirmed by   *)
(* the event that is its latest, at its revision; the check that executed  *)
(* it is of that revision; and once the attempt has ended nothing is       *)
(* written, so its result stays true of the request.                       *)
(***************************************************************************)

ConfirmationIsLatest ==
    record.status = "confirmed" /\ record.executed_check = 0 =>
        /\ record.latest.event = "confirmed"
        /\ record.latest.shown = record.revision
        /\ record.expires_at = record.latest.at + ConfirmedFor

ExecutionsAreOfTheRecord ==
    /\ Len(checks) <= MaxChecks
    /\ \A c \in DOMAIN checks : checks[c].executed <= record.version
    /\ record.executed_check # 0 =>
         /\ record.executed_check \in DOMAIN checks
         /\ checks[record.executed_check].executed > 0
         /\ checks[record.executed_check].contract.revision = record.revision

ResultIsOfTheRecord ==
    /\ attempt.ended => attempt.result.version = record.version
    /\ ~attempt.ended => attempt.result.assessment = "none"

RequestsInv ==
    /\ RequestsTypeOK
    /\ ConfirmationIsLatest
    /\ ExecutionsAreOfTheRecord
    /\ ResultIsOfTheRecord
    /\ ResultsAreTrue

-----------------------------------------------------------------------------
(* Rows *)

RecordStatus == {"absent", "draft", "confirmed", "revoked"}

EventKinds == {"none", "draft_saved", "confirmed", "revoked", "execution_claimed"}

RecordRow == [revision: Nat, status: RecordStatus, draft: Drafts \cup {NoDraft},
              tool: 0..MaxTools, confirmed: Nat, expires_at: Nat,
              executed_check: 0..MaxChecks, version: 0..MaxEvents, latest: EventTypes]

CheckRow == [contract: ContractTypes, proposal: ProposedArguments, executed: 0..MaxEvents,
             ran: 0..MaxTools, executed_at: 0..MaxTime]

AttemptRow == [task: Tasks, ended: BOOLEAN, result: Outcomes]

LEMMA RequestConstants ==
    /\ MaxTime \in Nat \ {0} /\ MaxTools \in Nat \ {0}
    /\ ConfirmedFor \in Nat /\ MaxEvents \in Nat /\ MaxRevisions \in Nat /\ MaxChecks \in Nat
    /\ NoEvent \in EventTypes /\ NoOutcome \in Outcomes /\ NoOutcome.assessment = "none"
  <1>1. /\ MaxTime \in Nat \ {0} /\ MaxTools \in Nat \ {0}
        /\ ConfirmedFor \in Nat /\ MaxEvents \in Nat /\ MaxRevisions \in Nat /\ MaxChecks \in Nat
    BY RequestAssumption
  <1> QED
    BY <1>1 DEF NoEvent, EventTypes, NoOutcome, Outcomes

LEMMA RequestTypes ==
    ASSUME RequestsTypeOK
    PROVE  /\ record \in RecordRow /\ checks \in Seq(CheckRow) /\ attempt \in AttemptRow
           /\ asked \in [Tabs -> Nat] /\ tool \in 1..MaxTools /\ time \in 1..MaxTime
  BY DEF RequestsTypeOK, RecordRow, RecordStatus, CheckRow, AttemptRow

LEMMA RequestsTyped ==
    ASSUME record' \in RecordRow, checks' \in Seq(CheckRow), attempt' \in AttemptRow,
           asked' \in [Tabs -> Nat], tool' \in 1..MaxTools, time' \in 1..MaxTime
    PROVE  RequestsTypeOK'
  BY DEF RequestsTypeOK, RecordRow, RecordStatus, CheckRow, AttemptRow

\* Every write counts, and becomes the latest event unless it is a proposal.
LEMMA WrittenFields ==
    ASSUME NEW r \in RecordRow, NEW shown \in Nat, r.version < MaxEvents, time \in 1..MaxTime,
           NEW kind \in EventKinds, NEW w, w = Written(r, kind, shown)
    PROVE  /\ w \in RecordRow
           /\ w.version = r.version + 1
           /\ w.latest = [event |-> kind, at |-> time, shown |-> shown]
           /\ w.revision = r.revision
           /\ w.status = r.status
           /\ w.draft = r.draft
           /\ w.tool = r.tool
           /\ w.confirmed = r.confirmed
           /\ w.expires_at = r.expires_at
           /\ w.executed_check = r.executed_check
  <1>1. PICK n \in 0..MaxEvents : n = r.version + 1
    BY RequestConstants DEF RecordRow
  <1>2. PICK e \in EventTypes : e = [event |-> kind, at |-> time, shown |-> shown]
    <2>1. time \in 0..MaxTime
      BY RequestConstants
    <2>2. EventTypes = [event: EventKinds, at: 0..MaxTime, shown: Nat]
      BY DEF EventTypes, EventKinds
    <2> QED
      BY <2>1, <2>2
  <1>3. w = [r EXCEPT !.version = n, !.latest = e]
    BY <1>1, <1>2 DEF Written, EventKinds
  <1>5. /\ w \in RecordRow /\ w.version = n /\ w.latest = e
        /\ w.revision = r.revision /\ w.status = r.status /\ w.draft = r.draft
        /\ w.tool = r.tool /\ w.confirmed = r.confirmed /\ w.expires_at = r.expires_at
        /\ w.executed_check = r.executed_check
    BY <1>3 DEF RecordRow
  <1> QED
    BY <1>1, <1>2, <1>3, <1>5

LEMMA CheckedFields ==
    ASSUME NEW r \in RecordRow, NEW shown \in Nat, r.version < MaxEvents,
           NEW w, w = Written(r, "proposal_checked", shown)
    PROVE  /\ w \in RecordRow
           /\ w.version = r.version + 1
           /\ w.latest = r.latest
           /\ w.revision = r.revision
           /\ w.status = r.status
           /\ w.expires_at = r.expires_at
           /\ w.executed_check = r.executed_check
  <1>1. PICK n \in 0..MaxEvents : n = r.version + 1
    BY RequestConstants DEF RecordRow
  <1>2. r.latest \in EventTypes
    BY DEF RecordRow
  <1>3. w = [r EXCEPT !.version = n, !.latest = r.latest]
    BY <1>1 DEF Written
  <1>5. /\ w \in RecordRow /\ w.version = n /\ w.latest = r.latest
        /\ w.revision = r.revision /\ w.status = r.status /\ w.expires_at = r.expires_at
        /\ w.executed_check = r.executed_check
    BY <1>2, <1>3 DEF RecordRow
  <1> QED
    BY <1>1, <1>3, <1>5

\* What the user's writes change.
LEMMA DraftedRow ==
    ASSUME record \in RecordRow, tool \in 1..MaxTools,
           NEW d \in Drafts, NEW n \in Nat, NEW w, w = Drafted(d, n)
    PROVE  /\ w \in RecordRow /\ w.revision = n /\ w.status = "draft" /\ w.executed_check = 0
           /\ w.version = record.version
  <1>1. d \in Drafts \cup {NoDraft} /\ tool \in 0..MaxTools /\ 0 \in 0..MaxChecks
    BY RequestConstants
  <1>2. "draft" \in RecordStatus
    BY DEF RecordStatus
  <1>3. w = [record EXCEPT !.revision = n, !.draft = d, !.tool = tool, !.status = "draft",
                           !.confirmed = 0, !.expires_at = 0, !.executed_check = 0]
    BY DEF Drafted
  <1> QED
    <2>1. PICK v : v = [record EXCEPT !.revision = n, !.draft = d, !.tool = tool]
      OBVIOUS
    <2>2. v \in RecordRow /\ v.revision = n /\ v.version = record.version
      BY <1>1, <2>1 DEF RecordRow
    <2>3. PICK u : u = [v EXCEPT !.status = "draft", !.confirmed = 0]
      OBVIOUS
    <2>4. /\ u \in RecordRow /\ u.revision = n /\ u.version = record.version
          /\ u.status = "draft"
      BY <1>2, <2>2, <2>3 DEF RecordRow
    <2>5. w = [u EXCEPT !.expires_at = 0, !.executed_check = 0]
      BY <1>3, <2>1, <2>3, Zenon
    <2>6. w \in RecordRow
      <3>1. PICK z \in 0..MaxChecks, x \in Nat : z = 0 /\ x = 0
        BY <1>1
      <3>2. w = [u EXCEPT !.expires_at = x, !.executed_check = z]
        BY <2>5, <3>1, Zenon
      <3> QED
        BY <2>4, <3>2 DEF RecordRow
    <2>7. w.revision = u.revision /\ w.executed_check = 0 /\ w.version = u.version
      BY <2>4, <2>5 DEF RecordRow
    <2>8. w.status = u.status
      BY <2>4, <2>5 DEF RecordRow
    <2> QED
      BY <2>4, <2>6, <2>7, <2>8

LEMMA ConfirmedRow ==
    ASSUME record \in RecordRow, time \in 1..MaxTime, NEW w,
           w = [record EXCEPT !.status = "confirmed", !.confirmed = record.revision,
                              !.expires_at = time + ConfirmedFor]
    PROVE  /\ w \in RecordRow /\ w.revision = record.revision /\ w.status = "confirmed"
           /\ w.executed_check = record.executed_check /\ w.version = record.version
           /\ w.expires_at = time + ConfirmedFor
  <1>1. time + ConfirmedFor \in Nat
    BY RequestConstants
  <1>2. "confirmed" \in RecordStatus
    BY DEF RecordStatus
  <1> QED
    BY <1>1, <1>2 DEF RecordRow

LEMMA RevokedRow ==
    ASSUME record \in RecordRow, NEW w, w = [record EXCEPT !.status = "revoked", !.confirmed = 0]
    PROVE  /\ w \in RecordRow /\ w.revision = record.revision /\ w.status = "revoked"
           /\ w.executed_check = record.executed_check /\ w.version = record.version
  <1>1. "revoked" \in RecordStatus
    BY DEF RecordStatus
  <1> QED
    BY <1>1 DEF RecordRow

LEMMA ExecutedRow ==
    ASSUME record \in RecordRow, NEW c \in 0..MaxChecks, NEW w,
           w = [record EXCEPT !.executed_check = c]
    PROVE  /\ w \in RecordRow /\ w.revision = record.revision /\ w.status = record.status
           /\ w.executed_check = c /\ w.version = record.version
  BY DEF RecordRow

-----------------------------------------------------------------------------
(* Writes *)

\* An attempt that goes on has no result yet.
LEMMA RunningAttempt ==
    ASSUME RequestsInv, Room
    PROVE  ~attempt.ended /\ attempt.result.assessment = "none" /\ record.version < MaxEvents
  BY DEF RequestsInv, ResultIsOfTheRecord, Room, Version

\* A write that leaves the checks alone.
LEMMA RecordStep ==
    ASSUME RequestsInv, Room, UNCHANGED <<checks, attempt, asked, tool, time>>,
           record' \in RecordRow, record'.version = record.version + 1,
           \/ record'.executed_check = 0
           \/ record'.executed_check = record.executed_check /\ record'.revision = record.revision,
           ConfirmationIsLatest'
    PROVE  RequestsInv'
  <1>1. RequestsTypeOK'
    BY RequestTypes, RequestsTyped DEF RequestsInv
  <1>2. record.version \in Nat /\ checks \in Seq(CheckRow)
    BY RequestTypes, RequestConstants DEF RequestsInv, RecordRow
  <1>3. ASSUME NEW c \in DOMAIN checks PROVE checks[c].executed \in Nat
    <2>1. checks[c] \in CheckRow
      BY <1>2
    <2> QED
      BY <2>1, RequestConstants DEF CheckRow
  <1>4. ExecutionsAreOfTheRecord'
    BY <1>2, <1>3 DEF RequestsInv, ExecutionsAreOfTheRecord
  <1>5. ResultIsOfTheRecord' /\ ResultsAreTrue'
    BY RunningAttempt DEF ResultIsOfTheRecord, ResultsAreTrue
  <1> QED
    BY <1>1, <1>4, <1>5 DEF RequestsInv

LEMMA DraftStep ==
    ASSUME RequestsInv, NEW d \in Drafts, NEW n \in Nat, NEW shown \in Nat,
           Saved(Written(Drafted(d, n), "draft_saved", shown)),
           UNCHANGED <<checks, attempt, asked, tool, time>>
    PROVE  RequestsInv'
  <1>1. /\ record \in RecordRow /\ tool \in 1..MaxTools /\ time \in 1..MaxTime
        /\ Room /\ record.version < MaxEvents
    BY RequestTypes, RunningAttempt DEF RequestsInv, Saved
  <1>2. PICK r \in RecordRow :
           /\ r = Drafted(d, n) /\ r.status = "draft" /\ r.executed_check = 0
           /\ r.version = record.version
    BY <1>1, DraftedRow
  <1>3. record' = Written(r, "draft_saved", shown) /\ "draft_saved" \in EventKinds
    BY <1>2 DEF Saved, EventKinds
  <1>4. /\ record' \in RecordRow /\ record'.version = record.version + 1
        /\ record'.status = "draft" /\ record'.executed_check = 0
    <2>1. PICK kind, w : /\ kind \in EventKinds /\ kind = "draft_saved"
                          /\ w = record' /\ w = Written(r, kind, shown)
      BY <1>3
    <2>2. r.version < MaxEvents
      BY <1>1, <1>2
    <2>3. /\ w \in RecordRow /\ w.version = r.version + 1
          /\ w.latest = [event |-> kind, at |-> time, shown |-> shown]
          /\ w.revision = r.revision /\ w.status = r.status
          /\ w.expires_at = r.expires_at /\ w.executed_check = r.executed_check
      BY <1>1, <2>1, <2>2, WrittenFields
    <2> QED
      BY <1>2, <2>1, <2>3
  <1> QED
    BY <1>1, <1>4, RecordStep DEF ConfirmationIsLatest

LEMMA ConfirmStep ==
    ASSUME RequestsInv, NEW shown \in Revisions, Confirm(shown) PROVE RequestsInv'
  <1>1. /\ record \in RecordRow /\ tool \in 1..MaxTools /\ time \in 1..MaxTime
        /\ Room /\ record.version < MaxEvents /\ shown = record.revision /\ shown \in Nat
        /\ UNCHANGED <<checks, attempt, asked, tool, time>>
    BY RequestTypes, RunningAttempt DEF RequestsInv, Saved, Confirm, Bound, RecordRow
  <1>2. PICK r \in RecordRow :
           /\ r = [record EXCEPT !.status = "confirmed", !.confirmed = record.revision,
                                 !.expires_at = time + ConfirmedFor]
           /\ r.revision = record.revision /\ r.status = "confirmed"
           /\ r.executed_check = record.executed_check /\ r.version = record.version
           /\ r.expires_at = time + ConfirmedFor
    BY <1>1, ConfirmedRow
  <1>3. record' = Written(r, "confirmed", shown) /\ "confirmed" \in EventKinds
    BY <1>2 DEF Confirm, Saved, EventKinds
  <1>4. /\ record' \in RecordRow /\ record'.version = record.version + 1
        /\ record'.revision = record.revision
        /\ record'.executed_check = record.executed_check
        /\ record'.expires_at = time + ConfirmedFor
        /\ record'.latest = [event |-> "confirmed", at |-> time, shown |-> shown]
    <2>1. PICK kind, w : /\ kind \in EventKinds /\ kind = "confirmed"
                          /\ w = record' /\ w = Written(r, kind, shown)
      BY <1>3
    <2>2. r.version < MaxEvents
      BY <1>1, <1>2
    <2>3. /\ w \in RecordRow /\ w.version = r.version + 1
          /\ w.latest = [event |-> kind, at |-> time, shown |-> shown]
          /\ w.revision = r.revision /\ w.status = r.status
          /\ w.expires_at = r.expires_at /\ w.executed_check = r.executed_check
      BY <1>1, <2>1, <2>2, WrittenFields
    <2> QED
      BY <1>2, <2>1, <2>3
  <1>5. ConfirmationIsLatest'
    BY <1>1, <1>4 DEF ConfirmationIsLatest
  <1> QED
    BY <1>1, <1>4, <1>5, RecordStep

LEMMA RevokeRequestStep ==
    ASSUME RequestsInv, NEW shown \in Revisions, RevokeRequest(shown) PROVE RequestsInv'
  <1>1. /\ record \in RecordRow /\ tool \in 1..MaxTools /\ time \in 1..MaxTime
        /\ Room /\ record.version < MaxEvents /\ shown \in Nat
        /\ UNCHANGED <<checks, attempt, asked, tool, time>>
    BY RequestTypes, RunningAttempt DEF RequestsInv, Saved, RevokeRequest, Bound, RecordRow
  <1>2. PICK r \in RecordRow :
           /\ r = [record EXCEPT !.status = "revoked", !.confirmed = 0]
           /\ r.revision = record.revision /\ r.status = "revoked"
           /\ r.executed_check = record.executed_check /\ r.version = record.version
    BY <1>1, RevokedRow
  <1>3. record' = Written(r, "revoked", shown) /\ "revoked" \in EventKinds
    BY <1>2 DEF RevokeRequest, Saved, EventKinds
  <1>4. /\ record' \in RecordRow /\ record'.version = record.version + 1
        /\ record'.revision = record.revision /\ record'.status = "revoked"
        /\ record'.executed_check = record.executed_check
    <2>1. PICK kind, w : /\ kind \in EventKinds /\ kind = "revoked"
                          /\ w = record' /\ w = Written(r, kind, shown)
      BY <1>3
    <2>2. r.version < MaxEvents
      BY <1>1, <1>2
    <2>3. /\ w \in RecordRow /\ w.version = r.version + 1
          /\ w.latest = [event |-> kind, at |-> time, shown |-> shown]
          /\ w.revision = r.revision /\ w.status = r.status
          /\ w.expires_at = r.expires_at /\ w.executed_check = r.executed_check
      BY <1>1, <2>1, <2>2, WrittenFields
    <2> QED
      BY <1>2, <2>1, <2>3
  <1>5. ConfirmationIsLatest'
    BY <1>4 DEF ConfirmationIsLatest
  <1> QED
    BY <1>1, <1>4, <1>5, RecordStep

\* A proposal is checked: the request's state stays.
LEMMA AddCheckStep ==
    ASSUME RequestsInv, NEW shown \in Nat, NEW p \in ProposedArguments, AddCheck(shown, p),
           asked' \in [Tabs -> Nat], UNCHANGED <<attempt, tool, time>>
    PROVE  RequestsInv'
  <1>1. /\ record \in RecordRow /\ checks \in Seq(CheckRow) /\ attempt \in AttemptRow
        /\ tool \in 1..MaxTools /\ time \in 1..MaxTime
        /\ Room /\ record.version < MaxEvents /\ ~attempt.ended
        /\ attempt.result.assessment = "none" /\ Len(checks) < MaxChecks
        /\ record' = Written(record, "proposal_checked", shown)
    BY RequestTypes, RunningAttempt DEF RequestsInv, AddCheck, Saved
  <1>2. PICK w \in RecordRow :
           /\ w = record' /\ w.version = record.version + 1 /\ w.latest = record.latest
           /\ w.revision = record.revision /\ w.status = record.status
           /\ w.expires_at = record.expires_at /\ w.executed_check = record.executed_check
    <2>1. PICK w : w = record' /\ w = Written(record, "proposal_checked", shown)
      BY <1>1
    <2> QED
      BY <1>1, <2>1, CheckedFields
  <1>3. ContractOf(record) \in ContractTypes
    BY <1>1 DEF ContractOf, ContractTypes, RecordRow
  <1>4. PICK check \in CheckRow : checks' = Append(checks, check) /\ check.executed = 0
    <2> DEFINE check == [contract |-> ContractOf(record), proposal |-> p,
                         executed |-> 0, ran |-> 0, executed_at |-> 0]
    <2>1. check \in CheckRow
      BY <1>3, RequestConstants DEF CheckRow
    <2>2. checks' = Append(checks, check) /\ check.executed = 0
      BY DEF AddCheck
    <2> QED
      BY <2>1, <2>2
  <1>5. /\ checks' \in Seq(CheckRow) /\ Len(checks') = Len(checks) + 1
        /\ \A c \in DOMAIN checks : c \in DOMAIN checks' /\ checks'[c] = checks[c]
        /\ \A c \in DOMAIN checks' : c \in DOMAIN checks \/ checks'[c] = check
    BY <1>1, <1>4
  <1>6. RequestsTypeOK'
    BY <1>1, <1>2, <1>5, RequestsTyped
  <1>7. ConfirmationIsLatest'
    BY <1>2 DEF RequestsInv, ConfirmationIsLatest
  <1>8. ExecutionsAreOfTheRecord'
    <2>1. Len(checks') <= MaxChecks
      BY <1>1, <1>5, RequestConstants
    <2>2. ASSUME NEW c \in DOMAIN checks' PROVE checks'[c].executed <= record'.version
      <3>1. record.version \in Nat
        BY <1>1, RequestConstants DEF RecordRow
      <3>2. CASE c \in DOMAIN checks
        <4>1. checks[c] \in CheckRow
          BY <1>1, <3>2
        <4>2. checks[c].executed \in Nat /\ checks[c].executed <= record.version
          BY <3>2, <4>1, RequestConstants DEF CheckRow, RequestsInv, ExecutionsAreOfTheRecord
        <4> QED
          BY <1>2, <1>5, <3>1, <3>2, <4>2
      <3>3. CASE checks'[c] = check
        BY <1>2, <1>4, <3>1, <3>3
      <3> QED
        BY <1>5, <3>2, <3>3
    <2>3. record'.executed_check # 0 =>
            /\ record'.executed_check \in DOMAIN checks'
            /\ checks'[record'.executed_check].executed > 0
            /\ checks'[record'.executed_check].contract.revision = record'.revision
      BY <1>2, <1>5 DEF RequestsInv, ExecutionsAreOfTheRecord
    <2> QED
      BY <2>1, <2>2, <2>3 DEF ExecutionsAreOfTheRecord
  <1>9. ResultIsOfTheRecord' /\ ResultsAreTrue'
    BY <1>1 DEF ResultIsOfTheRecord, ResultsAreTrue
  <1> QED
    BY <1>6, <1>7, <1>8, <1>9 DEF RequestsInv

\* An execution is of the contract on the screen, and the request's only one.
LEMMA ExecuteStep ==
    ASSUME RequestsInv, NEW c \in DOMAIN checks, ExecuteCheck(c) PROVE RequestsInv'
  <1>1. /\ record \in RecordRow /\ checks \in Seq(CheckRow) /\ attempt \in AttemptRow
        /\ tool \in 1..MaxTools /\ time \in 1..MaxTime
        /\ Room /\ record.version < MaxEvents /\ ~attempt.ended
        /\ attempt.result.assessment = "none"
        /\ checks[c].executed = 0 /\ checks[c].contract = ContractOf(record)
        /\ UNCHANGED <<attempt, asked, tool, time>>
    BY RequestTypes, RunningAttempt DEF RequestsInv, ExecuteCheck, Saved
  <1>0. record \in RecordRow /\ time \in 1..MaxTime /\ record.version < MaxEvents
    BY <1>1
  <1>2. Len(checks) \in Nat /\ c \in 1..Len(checks) /\ Len(checks) <= MaxChecks
    BY <1>1 DEF RequestsInv, ExecutionsAreOfTheRecord
  <1>3. PICK z \in 0..MaxChecks : z = c /\ z # 0
    BY <1>2, RequestConstants
  <1>4. PICK r \in RecordRow :
           /\ r = [record EXCEPT !.executed_check = c]
           /\ r.revision = record.revision /\ r.status = record.status
           /\ r.executed_check = c /\ r.version = record.version
    <2>1. PICK r : r = [record EXCEPT !.executed_check = z]
      OBVIOUS
    <2>2. /\ r \in RecordRow /\ r.revision = record.revision /\ r.status = record.status
          /\ r.executed_check = z /\ r.version = record.version
      BY <1>1, <2>1, ExecutedRow
    <2> QED
      BY <1>3, <2>1, <2>2
  <1>5. PICK w \in RecordRow :
           /\ w = record' /\ w.version = record.version + 1
           /\ w.revision = record.revision /\ w.executed_check = c
    <2>1. record.revision \in Nat
      BY <1>1 DEF RecordRow
    <2>2. PICK kind, shown, w : /\ kind \in EventKinds /\ shown \in Nat
                                 /\ w = record' /\ w = Written(r, kind, shown)
      BY <1>4, <2>1 DEF ExecuteCheck, Saved, EventKinds
    <2>3. r.version < MaxEvents
      BY <1>1, <1>4
    <2>4. /\ w \in RecordRow /\ w.version = r.version + 1
          /\ w.latest = [event |-> kind, at |-> time, shown |-> shown]
          /\ w.revision = r.revision /\ w.status = r.status
          /\ w.expires_at = r.expires_at /\ w.executed_check = r.executed_check
      BY <1>0, <2>2, <2>3, WrittenFields
    <2> QED
      BY <1>4, <2>2, <2>4
  <1>6. PICK n \in 0..MaxEvents : n = record.version + 1 /\ n > 0
    <2>1. record.version \in Nat /\ record.version + 1 <= MaxEvents
      BY <1>0, RequestConstants DEF RecordRow
    <2> QED
      BY <2>1, RequestConstants
  <1>7. PICK check \in CheckRow :
           /\ checks' = [checks EXCEPT ![c] = check]
           /\ check.executed = n /\ check.contract = ContractOf(record)
    <2>1. PICK old \in CheckRow : old = checks[c]
      BY <1>1, <1>2
    <2>2. PICK check : check = [old EXCEPT !.executed = n, !.executed_at = time, !.ran = tool]
      OBVIOUS
    <2>3. time \in 0..MaxTime /\ tool \in 0..MaxTools
      BY <1>1, RequestConstants
    <2>4. check \in CheckRow /\ check.executed = n /\ check.contract = old.contract
      BY <2>2, <2>3 DEF CheckRow
    <2>5. checks' = [checks EXCEPT ![c] = [@ EXCEPT !.executed = n, !.executed_at = time,
                                                    !.ran = tool]]
      BY <1>6 DEF ExecuteCheck, Version
    <2>6. checks' = [checks EXCEPT ![c] = check]
      BY <2>1, <2>2, <2>5
    <2> QED
      BY <1>1, <2>1, <2>4, <2>6
  <1>8. /\ checks' \in Seq(CheckRow) /\ Len(checks') = Len(checks) /\ DOMAIN checks' = DOMAIN checks
        /\ checks'[c] = check
        /\ \A d \in DOMAIN checks \ {c} : checks'[d] = checks[d]
    <2>1. checks \in [1..Len(checks) -> CheckRow]
      BY <1>1
    <2> QED
      BY <1>1, <1>2, <1>7, <2>1
  <1>9. RequestsTypeOK'
    BY <1>1, <1>5, <1>8, RequestsTyped, RequestTypes DEF RequestsInv
  <1>10. ConfirmationIsLatest'
    BY <1>3, <1>5 DEF ConfirmationIsLatest
  <1>11. ExecutionsAreOfTheRecord'
    <2>1. Len(checks') <= MaxChecks
      BY <1>2, <1>8
    <2>2. ASSUME NEW d \in DOMAIN checks' PROVE checks'[d].executed <= record'.version
      <3>1. record.version \in Nat
        BY <1>1, RequestConstants DEF RecordRow
      <3>2. CASE d # c
        <4>1. d \in DOMAIN checks /\ checks[d] \in CheckRow
          BY <1>1, <1>8
        <4>2. checks[d].executed \in Nat /\ checks[d].executed <= record.version
          BY <4>1, RequestConstants DEF CheckRow, RequestsInv, ExecutionsAreOfTheRecord
        <4> QED
          BY <1>5, <1>8, <3>1, <3>2, <4>1, <4>2
      <3>3. CASE d = c
        BY <1>5, <1>6, <1>7, <1>8, <3>1, <3>3
      <3> QED
        BY <3>2, <3>3
    <2>3. ContractOf(record).revision = record.revision
      BY DEF ContractOf
    <2>4. /\ record'.executed_check \in DOMAIN checks'
          /\ checks'[record'.executed_check].executed > 0
          /\ checks'[record'.executed_check].contract.revision = record'.revision
      BY <1>5, <1>6, <1>7, <1>8, <2>3
    <2> QED
      BY <2>1, <2>2, <2>4 DEF ExecutionsAreOfTheRecord
  <1>12. ResultIsOfTheRecord' /\ ResultsAreTrue'
    BY <1>1 DEF ResultIsOfTheRecord, ResultsAreTrue
  <1> QED
    BY <1>9, <1>10, <1>11, <1>12 DEF RequestsInv

-----------------------------------------------------------------------------
(* The attempt *)

\* What is finished is assessed against every execution there was.
LEMMA FinishStep ==
    ASSUME RequestsInv, NEW v \in 0..Version, NEW disposition \in Dispositions,
           FinishAttempt(v, disposition)
    PROVE  RequestsInv'
  <1>1. /\ record \in RecordRow /\ checks \in Seq(CheckRow) /\ attempt \in AttemptRow
        /\ UNCHANGED <<record, checks, asked, tool, time>> /\ AsShown(v)
    BY RequestTypes DEF RequestsInv, FinishAttempt
  <1>2. record.version \in Nat /\ record.revision \in Nat /\ v \in Nat /\ Version = record.version
    BY <1>1, RequestConstants DEF RecordRow, Version
  <1>3. PICK verdict \in {"abandoned", "matches_task", "does_not_match_task"} :
           /\ verdict = IF disposition = "abandoned" THEN "abandoned"
                        ELSE IF MatchesTask(disposition) THEN "matches_task"
                        ELSE "does_not_match_task"
           /\ verdict = "matches_task" => MatchesTask(disposition)
    OBVIOUS
  <1>4. PICK result \in Outcomes :
           /\ result = [version |-> Version, shown |-> v, revision |-> record.revision,
                        assessment |-> verdict]
           /\ result.version = record.version /\ result.shown = v
           /\ result.revision = record.revision /\ result.assessment = verdict
    <2> DEFINE row == [version |-> Version, shown |-> v, revision |-> record.revision,
                       assessment |-> verdict]
    <2>1. row \in Outcomes
      BY <1>2, <1>3 DEF Outcomes
    <2> QED
      BY <1>2, <2>1
  <1>5. attempt' = [attempt EXCEPT !.ended = TRUE, !.result = result]
    BY <1>3, <1>4 DEF FinishAttempt
  <1>6. /\ attempt' \in AttemptRow /\ attempt'.ended = TRUE
        /\ attempt'.result = result /\ attempt'.task = attempt.task
    BY <1>1, <1>5 DEF AttemptRow
  <1>7. RequestsTypeOK'
    BY <1>1, <1>6, RequestsTyped, RequestTypes DEF RequestsInv
  <1>8. ConfirmationIsLatest' /\ ExecutionsAreOfTheRecord' /\ ResultIsOfTheRecord'
    BY <1>1, <1>4, <1>6
    DEF RequestsInv, ConfirmationIsLatest, ExecutionsAreOfTheRecord, ResultIsOfTheRecord
  <1>9. ExecutedChecks' = ExecutedChecks /\ Linked' = Linked
    BY <1>1 DEF ExecutedChecks, Linked
  <1>10. Linked => result.shown = result.version
    BY <1>1, <1>2, <1>4 DEF AsShown
  <1>11. ASSUME verdict = "matches_task", attempt.task.expects = Clarify, Linked
         PROVE  ExecutedChecks = {}
    BY <1>3, <1>11 DEF MatchesTask
  <1>12. ASSUME verdict = "matches_task", attempt.task.expects # Clarify
         PROVE  /\ \A c \in ExecutedChecks : checks[c].proposal = attempt.task.expects
                /\ \E c \in ExecutedChecks : /\ checks[c].executed <= record.version
                                             /\ checks[c].contract.revision = record.revision
    <2>1. record.executed_check # 0 /\ Unsafe = {}
      BY <1>3, <1>12 DEF MatchesTask
    <2>2. \A c \in ExecutedChecks : checks[c].proposal = attempt.task.expects
      BY <2>1 DEF Unsafe
    <2>3. /\ record.executed_check \in ExecutedChecks
          /\ checks[record.executed_check].executed <= record.version
          /\ checks[record.executed_check].contract.revision = record.revision
      BY <2>1 DEF RequestsInv, ExecutionsAreOfTheRecord, ExecutedChecks
    <2> QED
      BY <2>2, <2>3
  <1>13. ResultsAreTrue'
    BY <1>1, <1>4, <1>6, <1>9, <1>10, <1>11, <1>12 DEF ResultsAreTrue
  <1> QED
    BY <1>7, <1>8, <1>13 DEF RequestsInv

\* Asking the model, a late answer, time and a release write nothing.
LEMMA AsideStep ==
    ASSUME RequestsInv, UNCHANGED <<record, checks, attempt>>, asked' \in [Tabs -> Nat],
           tool' \in 1..MaxTools, time' \in 1..MaxTime
    PROVE  RequestsInv'
  <1>1. RequestsTypeOK'
    BY RequestTypes, RequestsTyped DEF RequestsInv
  <1> QED
    BY <1>1
    DEF RequestsInv, ConfirmationIsLatest, ExecutionsAreOfTheRecord, ResultIsOfTheRecord,
        ResultsAreTrue, Linked, ExecutedChecks

-----------------------------------------------------------------------------
(* The invariant *)

LEMMA RequestsInitial == RequestsInit => RequestsInv
  <1> SUFFICES ASSUME RequestsInit PROVE RequestsInv
    OBVIOUS
  <1>1. /\ record = NoRecord /\ checks = <<>>
        /\ asked = [t \in Tabs |-> 0] /\ tool = 1 /\ time = 1
    BY DEF RequestsInit
  <1>2. PICK x \in Tasks : attempt = [task |-> x, ended |-> FALSE, result |-> NoOutcome]
    BY DEF RequestsInit
  <1>3. /\ attempt \in AttemptRow /\ attempt.ended = FALSE
        /\ attempt.result.assessment = "none"
    BY <1>2, RequestConstants DEF AttemptRow
  <1>4. /\ record \in RecordRow /\ record.status = "absent" /\ record.executed_check = 0
    BY <1>1, RequestConstants DEF NoRecord, RecordRow, RecordStatus
  <1>5. checks \in Seq(CheckRow) /\ Len(checks) = 0 /\ DOMAIN checks = {}
    BY <1>1
  <1>6. asked \in [Tabs -> Nat] /\ tool \in 1..MaxTools /\ time \in 1..MaxTime
    BY <1>1, RequestConstants
  <1>7. RequestsTypeOK
    BY <1>3, <1>4, <1>5, <1>6 DEF RequestsTypeOK, RecordRow, RecordStatus, CheckRow, AttemptRow
  <1>8. ConfirmationIsLatest /\ ExecutionsAreOfTheRecord
    BY <1>4, <1>5, RequestConstants DEF ConfirmationIsLatest, ExecutionsAreOfTheRecord
  <1>9. ResultIsOfTheRecord /\ ResultsAreTrue
    BY <1>3 DEF ResultIsOfTheRecord, ResultsAreTrue
  <1> QED
    BY <1>7, <1>8, <1>9 DEF RequestsInv

LEMMA RequestsStep == RequestsInv /\ [RequestsNext]_requestVars => RequestsInv'
  <1> SUFFICES ASSUME RequestsInv, [RequestsNext]_requestVars PROVE RequestsInv'
    OBVIOUS
  <1>1. /\ record \in RecordRow /\ asked \in [Tabs -> Nat] /\ tool \in 1..MaxTools
        /\ time \in 1..MaxTime /\ record.revision \in Nat /\ Revisions \subseteq Nat
    BY RequestTypes DEF RequestsInv, RecordRow, Revisions
  <1>2. CASE UNCHANGED requestVars
    BY <1>1, <1>2, AsideStep DEF requestVars
  <1>3. ASSUME NEW d \in Drafts, CreateDraft(d) PROVE RequestsInv'
    BY <1>3, DraftStep DEF CreateDraft
  <1>4. ASSUME NEW shown \in Revisions, NEW d \in Drafts, SaveDraft(shown, d) PROVE RequestsInv'
    BY <1>1, <1>4, DraftStep DEF SaveDraft
  <1>5. ASSUME NEW shown \in Revisions, NEW p \in ProposedArguments, SubmitProposal(shown, p)
        PROVE  RequestsInv'
    BY <1>1, <1>5, AddCheckStep DEF SubmitProposal
  <1>6. ASSUME NEW t \in Tabs, NEW p \in ProposedArguments, StoreAnswer(t, p)
        PROVE  RequestsInv'
    BY <1>1, <1>6, AddCheckStep DEF StoreAnswer
  <1>7. ASSUME \/ \E t \in Tabs, shown \in Revisions : AskModel(t, shown)
               \/ \E t \in Tabs : DropAnswer(t)
        PROVE  RequestsInv'
    <2>1. asked' \in [Tabs -> Nat] /\ UNCHANGED <<record, checks, attempt, tool, time>>
      BY <1>1, <1>7 DEF AskModel, DropAnswer
    <2> QED
      BY <1>1, <2>1, AsideStep
  <1>8. ASSUME PassTime \/ Redeploy PROVE RequestsInv'
    <2>1. /\ UNCHANGED <<record, checks, attempt, asked>>
          /\ tool' \in 1..MaxTools /\ time' \in 1..MaxTime
      BY <1>1, <1>8, RequestConstants DEF PassTime, Redeploy
    <2> QED
      BY <1>1, <2>1, AsideStep
  <1> QED
    BY <1>2, <1>3, <1>4, <1>5, <1>6, <1>7, <1>8, ConfirmStep, RevokeRequestStep, ExecuteStep,
       FinishStep DEF RequestsNext

LEMMA RequestsInvariant == RequestsSpec => []RequestsInv
  BY RequestsInitial, RequestsStep, PTL DEF RequestsSpec

-----------------------------------------------------------------------------
(* Theorems *)

\* The request, its checks, the attempt and the questions to the model keep
\* their types.
THEOREM RequestTypeCorrect == RequestsSpec => []RequestsTypeOK
  <1>1. RequestsInv => RequestsTypeOK
    BY DEF RequestsInv
  <1> QED
    BY <1>1, RequestsInvariant, PTL

\* A finished attempt reports the request its user looked at, and says
\* matches_task only if no execution, of whatever contract, was unsafe and the
\* last contract was executed.
THEOREM AttemptResultsAreTrue == RequestsSpec => []ResultsAreTrue
  <1>1. RequestsInv => ResultsAreTrue
    BY DEF RequestsInv
  <1> QED
    BY <1>1, RequestsInvariant, PTL

\* Only execute makes a check an executed one.
LEMMA ExecutionIsAStep ==
    ASSUME RequestsInv, [RequestsNext]_requestVars, NEW c \in ExecutedChecks' \ ExecutedChecks
    PROVE  c \in DOMAIN checks /\ ExecuteCheck(c)
  <1>1. checks \in Seq(CheckRow) /\ c \in DOMAIN checks' /\ checks'[c].executed > 0
    BY RequestTypes DEF RequestsInv, ExecutedChecks
  <1>2. ~(c \in DOMAIN checks /\ checks'[c] = checks[c])
    BY <1>1 DEF ExecutedChecks
  <1>3. checks' # checks
    BY <1>1, <1>2
  <1>4. ASSUME NEW shown, NEW p, AddCheck(shown, p) PROVE FALSE
    <2>1. PICK check : checks' = Append(checks, check) /\ check.executed = 0
      BY <1>4 DEF AddCheck
    <2>2. c \notin DOMAIN checks => checks'[c] = check
      BY <1>1, <2>1
    <2>3. c \in DOMAIN checks => checks'[c] = checks[c]
      BY <1>1, <2>1
    <2> QED
      BY <1>1, <1>2, <2>1, <2>2, <2>3
  <1>5. ASSUME NEW d \in DOMAIN checks, ExecuteCheck(d) PROVE c = d
    <2>1. PICK check : checks' = [checks EXCEPT ![d] = check]
      BY <1>5 DEF ExecuteCheck
    <2>2. DOMAIN checks' = DOMAIN checks
      BY <2>1
    <2>3. c # d => checks'[c] = checks[c]
      BY <1>1, <2>1, <2>2
    <2> QED
      BY <1>1, <1>2, <2>2, <2>3
  <1>6. \/ \E shown, p : AddCheck(shown, p)
        \/ \E d \in DOMAIN checks : ExecuteCheck(d)
    BY <1>3
    DEF RequestsNext, requestVars, CreateDraft, SaveDraft, Confirm, RevokeRequest,
        SubmitProposal, AskModel, StoreAnswer, DropAnswer, FinishAttempt, PassTime, Redeploy
  <1> QED
    BY <1>4, <1>5, <1>6

\* However tabs edit, confirm, generate and execute around each other: what is
\* executed is the contract that somebody who had it on the screen confirmed
\* less than CONFIRMATION_TTL ago, with its arguments, in its tool, and with
\* nothing in between.
THEOREM OnlyConfirmedIsExecuted == RequestsSpec => ExecutionsWereConfirmed
  <1>1. ASSUME RequestsInv, [RequestsNext]_requestVars,
               NEW c \in ExecutedChecks' \ ExecutedChecks
        PROVE  /\ checks'[c].proposal = checks'[c].contract.draft.asks
               /\ checks'[c].ran = checks'[c].contract.tool
               /\ record.latest.event = "confirmed"
               /\ record.latest.shown = checks'[c].contract.revision
               /\ checks'[c].contract.revision = record.revision
               /\ checks'[c].executed_at < record.latest.at + ConfirmedFor
    <2>1. c \in DOMAIN checks /\ ExecuteCheck(c)
      BY <1>1, ExecutionIsAStep
    <2>2. /\ checks[c].contract = ContractOf(record) /\ Permitted(checks[c].proposal)
          /\ checks \in Seq(CheckRow) /\ checks[c] \in CheckRow
      BY <1>1, <2>1, RequestTypes DEF ExecuteCheck, RequestsInv
    <2>3. PICK old, n : old \in CheckRow /\ old = checks[c] /\ n = Version + 1
      BY <2>2
    <2>4. PICK check : check = [old EXCEPT !.executed = n, !.executed_at = time, !.ran = tool]
      OBVIOUS
    <2>5. /\ check.contract = old.contract /\ check.proposal = old.proposal
          /\ check.ran = tool /\ check.executed_at = time
      BY <2>3, <2>4 DEF CheckRow
    <2>6. checks' = [checks EXCEPT ![c] = [@ EXCEPT !.executed = n, !.executed_at = time,
                                                    !.ran = tool]]
      BY <2>1, <2>3 DEF ExecuteCheck
    <2>7. checks'[c] = check
      BY <2>1, <2>3, <2>4, <2>6
    <2>8. /\ checks[c].proposal = record.draft.asks /\ record.status = "confirmed"
          /\ record.expires_at > time /\ record.executed_check = 0 /\ record.tool = tool
      BY <2>2 DEF Permitted, Matches
    <2>9. /\ record.latest.event = "confirmed" /\ record.latest.shown = record.revision
          /\ record.expires_at = record.latest.at + ConfirmedFor
      BY <1>1, <2>8 DEF RequestsInv, ConfirmationIsLatest
    <2>10. /\ ContractOf(record).draft = record.draft /\ ContractOf(record).tool = record.tool
           /\ ContractOf(record).revision = record.revision
      BY DEF ContractOf
    <2>11. time < record.latest.at + ConfirmedFor
      <3>1. record \in RecordRow /\ time \in 1..MaxTime
        BY <1>1, RequestTypes DEF RequestsInv
      <3>2. record.expires_at \in Nat /\ time \in Nat
        BY <3>1, RequestConstants DEF RecordRow
      <3> QED
        BY <2>8, <2>9, <3>2
    <2> QED
      BY <2>2, <2>3, <2>5, <2>7, <2>8, <2>9, <2>10, <2>11
  <1>2. RequestsInv /\ [RequestsNext]_requestVars =>
          [\A c \in ExecutedChecks' \ ExecutedChecks :
              LET ran == checks'[c].contract
                  confirmation == record.latest
              IN  /\ checks'[c].proposal = ran.draft.asks
                  /\ checks'[c].ran = ran.tool
                  /\ confirmation.event = "confirmed"
                  /\ confirmation.shown = ran.revision
                  /\ ran.revision = record.revision
                  /\ checks'[c].executed_at < confirmation.at + ConfirmedFor]_requestVars
    BY <1>1
  <1> QED
    BY <1>2, RequestsInvariant, PTL DEF RequestsSpec, ExecutionsWereConfirmed

-----------------------------------------------------------------------------
(***************************************************************************)
(* The assistant's reviews.  While a session executes, nothing else writes *)
(* the status of its proposal, and from its second look at the workspace   *)
(* until it commits nothing else moves a file, if nobody edits files in    *)
(* the middle of a move.  A second link, left by a crash or by a failure   *)
(* whose cleanup failed too, is therefore one of the file that the         *)
(* proposal showed at its source, and recovery, which has the same         *)
(* picture, finds it.                                                      *)
(***************************************************************************)

Statuses == {"pending", "superseded", "cancelled", "executing", "stale", "failed", "executed"}

Contents == [Places -> Files \cup {NoFile}]

ProposalRow ==
    [tool: {"move", "trash", "todo", "restore"}, src: Places, dst: Places,
     seen: [files: Contents, tasks: SUBSET Reviews], status: Statuses]

ReviewRow ==
    [kind: {"draft", "restore"}, fields: Intents \cup {[tool |-> "restore"]}, revision: Nat,
     proposal: 0..MaxProposals, evidence: Contents]

Held == {"intent", "writing", "linked", "unlinked"}

BusySession == [step: Held \cup {"asked", "restoring", "storing"}, proposal: Proposals]

AssistantTypes ==
    /\ place \in Contents
    /\ tasks \subseteq Reviews
    /\ proposals \in Seq(ProposalRow) /\ Len(proposals) <= MaxProposals
    /\ review \in [Reviews -> {FreeReview} \cup ReviewRow]
    /\ session \in [Sessions -> {NoSession} \cup BusySession]
    /\ moved \in [Proposals -> 0..1]
    /\ crashes \in 0..MaxCrashes
    /\ edits \in 0..MaxEdits

Made == 1..Len(proposals)

ProposalSound(p) ==
    /\ proposals[p].tool # "todo" => proposals[p].src # proposals[p].dst
    /\ proposals[p].status \in {"executing", "failed"} => proposals[p].tool # "todo"
    /\ moved[p] # 0 => proposals[p].status # "pending"

\* What a draft kept for its recovery is what its proposal showed.
ReviewSound(r) ==
    review[r].kind # "free" =>
        /\ review[r].kind = "draft" => review[r].fields \in Intents
        /\ review[r].proposal \in 0..Len(proposals)
        /\ review[r].proposal # 0 /\ proposals[review[r].proposal].tool # "restore" =>
              review[r].evidence = proposals[review[r].proposal].seen.files

Shown(p) == proposals[p].status = "superseded" \/ \E r \in Reviews : ShownBy(r, p)

\* The only double links are of the file that proposal p moves.
LinkOf(p) ==
    /\ place[proposals[p].src] = proposals[p].seen.files[proposals[p].src]
    /\ place[proposals[p].dst] = place[proposals[p].src]
    /\ \A n, m \in Places : SameLink(n, m) => n \in {proposals[p].src, proposals[p].dst}

SessionSound(s) ==
    session[s] # NoSession =>
        /\ session[s].proposal \in Made
        /\ session[s].step \in Held \cup {"asked"} => Shown(session[s].proposal)
        /\ session[s].step \in Held => proposals[session[s].proposal].status = "executing"
        /\ session[s].step \in {"intent", "writing", "linked"} => moved[session[s].proposal] = 0
        /\ session[s].step = "writing" => Unchanged(session[s].proposal)
        /\ session[s].step \in {"intent", "writing", "unlinked"} => ~HardLinked
        /\ session[s].step = "linked" => LinkOf(session[s].proposal)
        /\ session[s].step = "storing" => proposals[session[s].proposal].tool = "restore"

Explained(p) ==
    LET file == proposals[p].seen.files[proposals[p].src] IN
      /\ Recoverable(p) \/ (proposals[p].tool = "restore" /\ edits > 0)
      /\ \A n, m \in Places : SameLink(n, m) => place[n] = file
      /\ edits = 0 => \A n \in Places : place[n] = file => n \in {proposals[p].src, proposals[p].dst}

FilesKept == \A f \in Files : \E n \in Places : place[n] = f

OneExecutes ==
    \A s, t \in Sessions : session[s].step \in Held /\ session[t].step \in Held => s = t

AssistantInv ==
    /\ AssistantTypes
    /\ \A p \in Made : ProposalSound(p)
    /\ \A p \in Proposals : p > Len(proposals) => moved[p] = 0
    /\ \A r \in Reviews : ReviewSound(r)
    /\ \A s \in Sessions : SessionSound(s)
    /\ OneExecutes
    /\ FilesKept
    /\ HardLinked => \E p \in Made : Explained(p)

-----------------------------------------------------------------------------
(* What holds of every step *)

\* Proposals are made once and change in nothing but their status.
KeepsProposals ==
    /\ Len(proposals') >= Len(proposals)
    /\ \A p \in Made :
         /\ proposals'[p].tool = proposals[p].tool
         /\ proposals'[p].src = proposals[p].src
         /\ proposals'[p].dst = proposals[p].dst
         /\ proposals'[p].seen = proposals[p].seen

LEMMA ProposalIds ==
    ASSUME AssistantTypes
    PROVE  /\ Len(proposals) \in Nat
           /\ DOMAIN proposals = Made
           /\ Made \subseteq Proposals
           /\ \A p \in Made : proposals[p] \in ProposalRow
           /\ \A p \in Proposals : p \in Nat \ {0} /\ (p <= Len(proposals) <=> p \in Made)
  <1>1. proposals \in Seq(ProposalRow) /\ Len(proposals) <= MaxProposals /\ MaxProposals \in Nat
    BY AssistantAssumption DEF AssistantTypes
  <1>2. Len(proposals) \in Nat /\ DOMAIN proposals = Made
    BY <1>1, LenProperties DEF Made
  <1>3. \A p \in Made : proposals[p] \in ProposalRow
    BY <1>1, ElementOfSeq DEF Made
  <1> QED
    BY <1>1, <1>2, <1>3 DEF Made, Proposals

\* The status of one proposal changes.
StatusWritten(p, status) ==
    /\ proposals' \in Seq(ProposalRow)
    /\ Len(proposals') = Len(proposals)
    /\ KeepsProposals
    /\ \A q \in Made : proposals'[q].status = IF q = p THEN status ELSE proposals[q].status

LEMMA StatusStep ==
    ASSUME AssistantTypes, NEW p \in Made, NEW status \in Statuses,
           proposals' = [proposals EXCEPT ![p].status = status]
    PROVE  StatusWritten(p, status)
  <1>1. PICK row : row = [proposals[p] EXCEPT !.status = status]
    OBVIOUS
  <1>2. proposals[p] \in ProposalRow /\ Len(proposals) \in Nat /\ DOMAIN proposals = Made
    BY ProposalIds
  <1>3. /\ row \in ProposalRow /\ row.status = status
        /\ row.tool = proposals[p].tool /\ row.src = proposals[p].src
        /\ row.dst = proposals[p].dst /\ row.seen = proposals[p].seen
    BY <1>1, <1>2 DEF ProposalRow
  <1>4. proposals' = [proposals EXCEPT ![p] = row]
    BY <1>1
  <1>5. /\ proposals' \in Seq(ProposalRow) /\ Len(proposals') = Len(proposals)
        /\ \A q \in Made : proposals'[q] = IF q = p THEN row ELSE proposals[q]
    <2>1. proposals \in Seq(ProposalRow) /\ p \in 1..Len(proposals) /\ row \in ProposalRow
      BY <1>3 DEF AssistantTypes, Made
    <2>2. PICK T : T = ProposalRow
      OBVIOUS
    <2>3. PICK list : list \in Seq(T) /\ list = proposals
      BY <2>1, <2>2
    <2>4. /\ [list EXCEPT ![p] = row] \in Seq(T)
          /\ Len([list EXCEPT ![p] = row]) = Len(list)
          /\ \A q \in 1..Len(list) : [list EXCEPT ![p] = row][q] = IF q = p THEN row ELSE list[q]
      BY <2>1, <2>2, <2>3, ExceptSeq
    <2> QED
      BY <1>4, <2>2, <2>3, <2>4 DEF Made
  <1> QED
    BY <1>2, <1>3, <1>5 DEF StatusWritten, KeepsProposals

LEMMA ReviewKept ==
    ASSUME AssistantTypes, KeepsProposals, Len(proposals') \in Nat, NEW r \in Reviews,
           ReviewSound(r), review'[r] = review[r]
    PROVE  ReviewSound(r)'
  <1>1. Len(proposals) \in Nat /\ Len(proposals') >= Len(proposals)
    BY ProposalIds DEF KeepsProposals
  <1>2. PICK p : p = review[r].proposal
    OBVIOUS
  <1>3. p \in 0..Len(proposals) => p \in 0..Len(proposals') /\ (p # 0 => p \in Made)
    BY <1>1 DEF Made
  <1>4. p \in Made => proposals'[p].tool = proposals[p].tool /\ proposals'[p].seen = proposals[p].seen
    BY DEF KeepsProposals
  <1> QED
    BY <1>2, <1>3, <1>4 DEF ReviewSound

LEMMA ProposalKept ==
    ASSUME KeepsProposals, NEW p \in Made, ProposalSound(p), moved'[p] = moved[p],
           \/ proposals'[p].status = proposals[p].status
           \/ proposals'[p].status \notin {"pending", "executing", "failed"}
    PROVE  ProposalSound(p)'
  BY DEF ProposalSound, KeepsProposals

LEMMA ShownKept ==
    ASSUME NEW p, Shown(p),
           proposals[p].status = "superseded" => proposals'[p].status = "superseded",
           \A r \in Reviews : ShownBy(r, p) => ShownBy(r, p)' \/ proposals'[p].status = "superseded"
    PROVE  Shown(p)'
  BY DEF Shown

\* A session that does not take part; while it executes, nothing it relies on
\* may change.
LEMMA SessionKept ==
    ASSUME AssistantTypes, KeepsProposals, Len(proposals') \in Nat, NEW s \in Sessions, SessionSound(s),
           session'[s] = session[s],
           session[s].step \in Held \cup {"asked"} => Shown(session[s].proposal)',
           session[s].step \in Held =>
              /\ proposals'[session[s].proposal].status = "executing"
              /\ moved'[session[s].proposal] = moved[session[s].proposal]
              /\ UNCHANGED <<place, tasks>>
    PROVE  SessionSound(s)'
  <1> SUFFICES ASSUME session[s] # NoSession PROVE SessionSound(s)'
    BY DEF SessionSound, NoSession
  <1>1. PICK p : p = session[s].proposal
    OBVIOUS
  <1>2. p \in Made /\ p \in Made'
    BY <1>1, ProposalIds DEF SessionSound, KeepsProposals, Made
  <1>3. CASE session[s].step \in Held
    <2>1. /\ proposals'[p].src = proposals[p].src /\ proposals'[p].dst = proposals[p].dst
          /\ proposals'[p].seen = proposals[p].seen
      BY <1>2 DEF KeepsProposals
    <2>2. UNCHANGED <<place, tasks>>
      BY <1>3
    <2>3. (LinkOf(p) => LinkOf(p)') /\ (Unchanged(p) => Unchanged(p)') /\ (~HardLinked => ~HardLinked')
      BY <2>1, <2>2 DEF LinkOf, SameLink, Unchanged, WorkspaceState, HardLinked
    <2> QED
      BY <1>1, <1>2, <1>3, <2>3 DEF SessionSound, Held
  <1>4. CASE session[s].step \notin Held
    <2>1. proposals'[p].tool = proposals[p].tool
      BY <1>2 DEF KeepsProposals
    <2> QED
      BY <1>1, <1>2, <1>4, <2>1 DEF SessionSound, Held
  <1> QED
    BY <1>3, <1>4

\* The places of files stay, and so do the proposals that explain links.
LEMMA LinksKept ==
    ASSUME AssistantInv, KeepsProposals, Len(proposals') \in Nat, UNCHANGED <<place, edits>>,
           HardLinked => \A p \in Made : Recoverable(p) => Recoverable(p)'
    PROVE  FilesKept' /\ (HardLinked => \E p \in Made : Explained(p))'
  <1>1. FilesKept'
    BY DEF AssistantInv, FilesKept
  <1>2. SUFFICES ASSUME HardLinked' PROVE \E p \in Made' : Explained(p)'
    BY <1>1
  <1>3. HardLinked
    BY <1>2 DEF HardLinked
  <1>4. PICK p \in Made : Explained(p)
    BY <1>3 DEF AssistantInv
  <1>5. p \in Made'
    BY <1>4, ProposalIds DEF AssistantInv, KeepsProposals, Made
  <1>6. Explained(p)'
    BY <1>3, <1>4 DEF Explained, SameLink, KeepsProposals
  <1> QED
    BY <1>5, <1>6

LEMMA SessionIds ==
    ASSUME AssistantTypes, NEW s \in Sessions
    PROVE  /\ session[s] = NoSession \/ session[s] \in BusySession
           /\ session[s] = NoSession <=> session[s].step = "idle"
           /\ session[s] # NoSession => session[s].step \in Held \cup {"asked", "restoring", "storing"}
  BY DEF AssistantTypes, BusySession, NoSession, Held

\* Sessions end and nothing else changes that matters here.
LEMMA SessionsEnd ==
    ASSUME AssistantInv, AssistantTypes',
           UNCHANGED <<place, tasks, proposals, review, moved, edits>>,
           \A t \in Sessions : session'[t] \in {session[t], NoSession}
    PROVE  AssistantInv'
  <1>1. KeepsProposals /\ Len(proposals') \in Nat /\ AssistantTypes
    BY ProposalIds DEF AssistantInv, KeepsProposals
  <1>2. \A p \in Made' : ProposalSound(p)'
    BY DEF AssistantInv, ProposalSound, Made
  <1>3. \A r \in Reviews : ReviewSound(r)'
    BY <1>1, ReviewKept DEF AssistantInv
  <1>4. ASSUME NEW t \in Sessions PROVE SessionSound(t)'
    <2>1. CASE session'[t] = NoSession
      BY <2>1 DEF SessionSound
    <2>2. CASE session'[t] = session[t]
      BY <2>2 DEF AssistantInv, SessionSound, Made, Shown, ShownBy, Unchanged, WorkspaceState,
                  HardLinked, LinkOf, SameLink
    <2> QED
      BY <2>1, <2>2
  <1>5. OneExecutes'
    BY DEF AssistantInv, OneExecutes, NoSession, Held
  <1>6. FilesKept' /\ (HardLinked => \E p \in Made : Explained(p))'
    <2>1. \A p \in Made : Recoverable(p) => Recoverable(p)'
      BY DEF Recoverable, ShownBy, ProposalStatus
    <2> QED
      BY <1>1, <2>1, LinksKept
  <1>7. \A p \in Proposals : p > Len(proposals') => moved'[p] = 0
    BY DEF AssistantInv
  <1> QED
    BY <1>2, <1>3, <1>4, <1>5, <1>6, <1>7 DEF AssistantInv

\* A proposal reaches another status, and whoever executes it ends.
LEMMA StatusChange ==
    ASSUME AssistantInv, AssistantTypes', NEW p \in Made, NEW status \in Statuses \ {"pending", "executing"},
           StatusWritten(p, status), UNCHANGED <<review, moved>>,
           status = "failed" => proposals[p].tool # "todo",
           proposals[p].status # "superseded",
           \A t \in Sessions :
              /\ session'[t] \in {session[t], NoSession}
              /\ session[t].step \in Held /\ session'[t] # NoSession =>
                    session[t].proposal # p /\ UNCHANGED <<place, tasks>>,
           FilesKept', (HardLinked => \E q \in Made : Explained(q))'
    PROVE  AssistantInv'
  <1>1. KeepsProposals /\ Len(proposals') \in Nat /\ Len(proposals') = Len(proposals) /\ AssistantTypes
    BY ProposalIds DEF AssistantInv, StatusWritten
  <1>2. ASSUME NEW q \in Made' PROVE ProposalSound(q)'
    <2>1. q \in Made /\ ProposalSound(q)
      BY <1>1, <1>2 DEF Made, AssistantInv
    <2>2. CASE q = p
      BY <1>1, <2>1, <2>2 DEF ProposalSound, StatusWritten, KeepsProposals
    <2>3. CASE q # p
      BY <1>1, <2>1, <2>3, ProposalKept DEF StatusWritten
    <2> QED
      BY <2>2, <2>3
  <1>3. \A r \in Reviews : ReviewSound(r)'
    BY <1>1, ReviewKept DEF AssistantInv
  <1>4. ASSUME NEW t \in Sessions PROVE SessionSound(t)'
    <2>1. CASE session'[t] = NoSession
      BY <2>1 DEF SessionSound
    <2>2. CASE session'[t] = session[t] /\ session[t] # NoSession
      <3>1. session[t].proposal \in Made
        BY <2>2 DEF AssistantInv, SessionSound
      <3>2. Shown(session[t].proposal) => Shown(session[t].proposal)'
        BY <2>2, <3>1 DEF Shown, ShownBy, StatusWritten
      <3>3. session[t].step \in Held =>
              /\ proposals'[session[t].proposal].status = "executing"
              /\ UNCHANGED <<place, tasks>>
        BY <2>2, <3>1 DEF AssistantInv, SessionSound, StatusWritten
      <3>4. SessionSound(t)
        BY DEF AssistantInv
      <3>5. session[t].step \in Held \cup {"asked"} => Shown(session[t].proposal)'
        BY <2>2, <3>2, <3>4 DEF SessionSound
      <3> QED
        BY <1>1, <2>2, <3>3, <3>4, <3>5, SessionKept
    <2> QED
      BY <2>1, <2>2
  <1>5. OneExecutes'
    BY DEF AssistantInv, OneExecutes, NoSession, Held
  <1>6. \A q \in Proposals : q > Len(proposals') => moved'[q] = 0
    BY <1>1 DEF AssistantInv
  <1> QED
    BY <1>2, <1>3, <1>4, <1>5, <1>6 DEF AssistantInv

\* A request begins.
LEMMA SessionOpens ==
    ASSUME AssistantInv, NEW s \in Sessions, NEW p \in Made, NEW step \in {"asked", "restoring"},
           session' = [session EXCEPT ![s] = [step |-> step, proposal |-> p]],
           UNCHANGED <<place, tasks, proposals, review, moved, crashes, edits>>,
           step = "asked" => Shown(p)
    PROVE  AssistantInv'
  <1>1. AssistantTypes /\ p \in Proposals
    BY ProposalIds DEF AssistantInv
  <1>2. AssistantTypes'
    BY <1>1 DEF AssistantTypes, BusySession
  <1>3. /\ KeepsProposals /\ Len(proposals') \in Nat
        /\ \A q \in Made' : ProposalSound(q)'
        /\ \A q \in Proposals : q > Len(proposals') => moved'[q] = 0
    BY <1>1, ProposalIds DEF AssistantInv, KeepsProposals, ProposalSound, Made
  <1>4. \A r \in Reviews : ReviewSound(r)'
    BY <1>1, <1>3, ReviewKept DEF AssistantInv
  <1>5. session'[s] = [step |-> step, proposal |-> p] /\ \A t \in Sessions \ {s} : session'[t] = session[t]
    BY <1>1 DEF AssistantTypes
  <1>6. ASSUME NEW t \in Sessions PROVE SessionSound(t)'
    <2>1. CASE t = s
      <3>1. step = "asked" => Shown(p)'
        BY DEF Shown, ShownBy
      <3>2. p \in Made' /\ step \notin Held
        BY DEF Made, Held
      <3> QED
        BY <1>5, <2>1, <3>1, <3>2 DEF SessionSound, Held
    <2>2. CASE t # s
      BY <1>5, <2>2 DEF AssistantInv, SessionSound, Made, Shown, ShownBy, Unchanged, WorkspaceState,
                  HardLinked, LinkOf, SameLink
    <2> QED
      BY <2>1, <2>2
  <1>7. OneExecutes'
    BY <1>5 DEF AssistantInv, OneExecutes, Held
  <1>8. FilesKept' /\ (HardLinked => \E q \in Made : Explained(q))'
    <2>1. \A q \in Made : Recoverable(q) => Recoverable(q)'
      BY DEF Recoverable, ShownBy, ProposalStatus
    <2> QED
      BY <1>3, <2>1, LinksKept
  <1> QED
    BY <1>2, <1>3, <1>4, <1>6, <1>7, <1>8 DEF AssistantInv

LEMMA AssistantInitial == AssistantInit => AssistantInv
  <1> SUFFICES ASSUME AssistantInit PROVE AssistantInv
    OBVIOUS
  <1>1. \A n \in Places : place[n] \in Files => n \in Names /\ StoredAt[place[n]] = n
    BY AssistantAssumption, Zenon DEF AssistantInit
  <1>2. \A f \in Files : StoredAt[f] \in Places
    BY AssistantAssumption DEF Places
  <1>3. AssistantTypes
    <2>1. place \in Contents
      <3>1. ASSUME NEW n \in Places
            PROVE  (IF \E f \in Files : StoredAt[f] = n
                    THEN CHOOSE f \in Files : StoredAt[f] = n ELSE NoFile) \in Files \cup {NoFile}
        <4>1. CASE \E f \in Files : StoredAt[f] = n
          BY <4>1
        <4>2. CASE ~\E f \in Files : StoredAt[f] = n
          BY <4>2
        <4> QED
          BY <4>1, <4>2
      <3> QED
        BY <3>1 DEF AssistantInit, Contents
    <2>2. proposals = <<>> /\ proposals \in Seq(ProposalRow) /\ Len(proposals) = 0
      BY EmptySeq DEF AssistantInit
    <2>3. moved \in [Proposals -> 0..1]
      BY DEF AssistantInit
    <2> QED
      BY <2>1, <2>2, <2>3, AssistantAssumption DEF AssistantInit, AssistantTypes
  <1>4. Made = {}
    BY EmptySeq DEF AssistantInit, Made
  <1>5. \A r \in Reviews : ReviewSound(r)
    BY DEF AssistantInit, ReviewSound, FreeReview
  <1>6. (\A s \in Sessions : SessionSound(s)) /\ OneExecutes
    BY DEF AssistantInit, SessionSound, OneExecutes, NoSession, Held
  <1>7. FilesKept
    <2>1. ASSUME NEW f \in Files PROVE place[StoredAt[f]] = f
      <3>1. place[StoredAt[f]] = CHOOSE g \in Files : StoredAt[g] = StoredAt[f]
        BY <1>2 DEF AssistantInit
      <3>2. \A g \in Files : StoredAt[g] = StoredAt[f] => g = f
        BY AssistantAssumption
      <3> QED
        BY <3>1, <3>2
    <2> QED
      BY <1>2, <2>1 DEF FilesKept
  <1>8. ~HardLinked
    <2> SUFFICES ASSUME NEW n \in Places, NEW m \in Places, n # m, place[n] # NoFile, place[n] = place[m]
                 PROVE FALSE
      BY DEF HardLinked
    <2>1. place[n] \in Files
      BY <1>3 DEF AssistantTypes, Contents
    <2> QED
      BY <1>1, <2>1
  <1>9. \A p \in Proposals : moved[p] = 0
    BY DEF AssistantInit
  <1> QED
    BY <1>3, <1>4, <1>5, <1>6, <1>7, <1>8, <1>9 DEF AssistantInv

\* The requests that only ask, and those that are refused or die.
LEMMA AskApprovalStep ==
    ASSUME AssistantInv, NEW s \in Sessions, NEW r \in Reviews, AskApproval(s, r) PROVE AssistantInv'
  <1>1. review[r].proposal \in Made
    BY ProposalIds DEF AskApproval, AssistantInv, ReviewSound, Made
  <1>2. Shown(review[r].proposal)
    BY DEF AskApproval, Shown, ShownBy
  <1> QED
    BY <1>1, <1>2, SessionOpens DEF AskApproval

LEMMA AskRestoreStep ==
    ASSUME AssistantInv, NEW s \in Sessions, NEW r \in Reviews, AskRestore(s, r) PROVE AssistantInv'
  <1>1. review[r].proposal \in Made
    BY ProposalIds DEF AskRestore, AssistantInv, ReviewSound, Made
  <1> QED
    BY <1>1, SessionOpens DEF AskRestore

LEMMA EndsStep ==
    ASSUME AssistantTypes, NEW s \in Sessions, Ends(s)
    PROVE  /\ session' \in [Sessions -> {NoSession} \cup BusySession]
           /\ session'[s] = NoSession
           /\ \A t \in Sessions : session'[t] \in {session[t], NoSession}
           /\ \A t \in Sessions \ {s} : session'[t] = session[t]
  BY DEF AssistantTypes, Ends

LEMMA RefuseApprovalStep ==
    ASSUME AssistantInv, NEW s \in Sessions, RefuseApproval(s) PROVE AssistantInv'
  <1>1. AssistantTypes /\ Ends(s)
    BY DEF AssistantInv, RefuseApproval
  <1>2. AssistantTypes'
    BY <1>1, EndsStep DEF RefuseApproval, AssistantTypes
  <1> QED
    BY <1>1, <1>2, EndsStep, SessionsEnd DEF RefuseApproval

LEMMA CrashSessionStep ==
    ASSUME AssistantInv, NEW s \in Sessions, CrashSession(s) PROVE AssistantInv'
  <1>1. AssistantTypes /\ Ends(s)
    BY DEF AssistantInv, CrashSession
  <1>2. crashes' \in 0..MaxCrashes
    BY <1>1, AssistantAssumption DEF CrashSession, AssistantTypes
  <1>3. AssistantTypes'
    BY <1>1, <1>2, EndsStep DEF CrashSession, AssistantTypes
  <1> QED
    BY <1>1, <1>3, EndsStep, SessionsEnd DEF CrashSession

\* A session that executes holds a proposal that is executing.
LEMMA HeldProposal ==
    ASSUME AssistantInv, NEW s \in Sessions, session[s].step \in Held
    PROVE  /\ session[s].proposal \in Made
           /\ proposals[session[s].proposal].status = "executing"
           /\ session[s] \in BusySession
  BY SessionIds DEF AssistantInv, SessionSound, NoSession, Held

LEMMA CancelReviewStep ==
    ASSUME AssistantInv, NEW r \in Reviews, CancelReview(r) PROVE AssistantInv'
  <1>1. PICK p : p = review[r].proposal
    OBVIOUS
  <1>2. p \in Made /\ AssistantTypes
    BY <1>1, ProposalIds DEF CancelReview, AssistantInv, ReviewSound, Made
  <1>3. proposals[p].status = "pending" /\ StatusWritten(p, "cancelled")
    BY <1>1, <1>2, StatusStep DEF CancelReview, ProposalStatus, Statuses
  <1>4. AssistantTypes'
    BY <1>2, <1>3 DEF CancelReview, AssistantTypes, StatusWritten
  <1>5. FilesKept' /\ (HardLinked => \E q \in Made : Explained(q))'
    <2>1. \A q \in Made : Recoverable(q) => Recoverable(q)'
      BY <1>2, <1>3 DEF CancelReview, StatusWritten, Recoverable, ShownBy, ProposalStatus
    <2> QED
      BY <1>2, <1>3, <2>1, LinksKept, ProposalIds DEF CancelReview, StatusWritten
  <1>6. \A t \in Sessions : session[t].step \in Held => session[t].proposal # p
    BY <1>3, HeldProposal
  <1> QED
    BY <1>2, <1>3, <1>4, <1>5, <1>6, StatusChange DEF CancelReview, Statuses

LEMMA StaleApprovalStep ==
    ASSUME AssistantInv, NEW s \in Sessions, StaleApproval(s) PROVE AssistantInv'
  <1>1. PICK p : p = session[s].proposal
    OBVIOUS
  <1>2. AssistantTypes /\ p \in Made /\ Ends(s)
    BY <1>1 DEF StaleApproval, AssistantInv, SessionSound, NoSession
  <1>3. proposals[p].status = "pending" /\ StatusWritten(p, "stale")
    BY <1>1, <1>2, StatusStep DEF StaleApproval, Approvable, ProposalStatus, Statuses
  <1>4. AssistantTypes'
    BY <1>2, <1>3, EndsStep DEF StaleApproval, AssistantTypes, StatusWritten
  <1>5. FilesKept' /\ (HardLinked => \E q \in Made : Explained(q))'
    <2>1. \A q \in Made : Recoverable(q) => Recoverable(q)'
      BY <1>2, <1>3 DEF StaleApproval, StatusWritten, Recoverable, ShownBy, ProposalStatus
    <2> QED
      BY <1>2, <1>3, <2>1, LinksKept, ProposalIds DEF StaleApproval, StatusWritten
  <1>6. \A t \in Sessions : session[t].step \in Held => session[t].proposal # p
    BY <1>3, HeldProposal
  <1> QED
    BY <1>2, <1>3, <1>4, <1>5, <1>6, EndsStep, StatusChange DEF StaleApproval, Statuses

LEMMA StoreReceiptStep ==
    ASSUME AssistantInv, NEW s \in Sessions, StoreReceipt(s) PROVE AssistantInv'
  <1>1. PICK p : p = session[s].proposal
    OBVIOUS
  <1>2. AssistantTypes /\ p \in Made /\ Ends(s) /\ session[s].step \in Held /\ ~HardLinked
    BY <1>1 DEF StoreReceipt, AssistantInv, SessionSound, NoSession, Held
  <1>3. proposals[p].status = "executing" /\ StatusWritten(p, "executed")
    BY <1>1, <1>2, StatusStep, HeldProposal DEF StoreReceipt, Statuses
  <1>4. AssistantTypes'
    BY <1>2, <1>3, EndsStep DEF StoreReceipt, AssistantTypes, StatusWritten
  <1>5. FilesKept' /\ (HardLinked => \E q \in Made : Explained(q))'
    BY <1>2, <1>3, LinksKept, ProposalIds DEF StoreReceipt, StatusWritten
  <1>6. \A t \in Sessions : session[t].step \in Held => t = s
    BY <1>2 DEF AssistantInv, OneExecutes
  <1> QED
    BY <1>2, <1>3, <1>4, <1>5, <1>6, EndsStep, StatusChange DEF StoreReceipt, Statuses

-----------------------------------------------------------------------------
(* Drafts and previews *)

LEMMA CreateReviewStep ==
    ASSUME AssistantInv, NEW r \in Reviews, NEW i \in Intents, CreateReview(r, i) PROVE AssistantInv'
  <1>1. AssistantTypes
    BY DEF AssistantInv
  <1>2. PICK row : row = [kind |-> "draft", fields |-> i, revision |-> 1, proposal |-> 0, evidence |-> place]
    OBVIOUS
  <1>3. row \in ReviewRow /\ row.kind = "draft" /\ row.fields = i /\ row.proposal = 0
    BY <1>1, <1>2, AssistantAssumption DEF ReviewRow, AssistantTypes
  <1>4. review' = [review EXCEPT ![r] = row]
    BY <1>2 DEF CreateReview
  <1>5. review'[r] = row /\ \A x \in Reviews \ {r} : review'[x] = review[x]
    BY <1>1, <1>4 DEF AssistantTypes
  <1>6. AssistantTypes'
    BY <1>1, <1>3, <1>4 DEF CreateReview, AssistantTypes
  <1>7. /\ KeepsProposals /\ Len(proposals') \in Nat
        /\ \A p \in Made' : ProposalSound(p)'
        /\ \A p \in Proposals : p > Len(proposals') => moved'[p] = 0
    BY <1>1, ProposalIds DEF CreateReview, AssistantInv, KeepsProposals, ProposalSound, Made
  <1>8. \A x \in Reviews : ReviewSound(x)'
    <2>1. ReviewSound(r)'
      BY <1>3, <1>5, <1>7 DEF ReviewSound
    <2> QED
      BY <1>1, <1>5, <1>7, <2>1, ReviewKept DEF AssistantInv
  <1>9. ASSUME NEW t \in Sessions PROVE SessionSound(t)'
    <2>1. \A x \in Reviews : ShownBy(x, session[t].proposal) => ShownBy(x, session[t].proposal)'
      BY <1>5 DEF CreateReview, ShownBy
    <2>2. Shown(session[t].proposal) => Shown(session[t].proposal)'
      BY <2>1 DEF CreateReview, Shown
    <2> QED
      BY <2>2 DEF CreateReview, AssistantInv, SessionSound, Made, Unchanged, WorkspaceState,
                  HardLinked, LinkOf, SameLink
  <1>10. OneExecutes'
    BY DEF CreateReview, AssistantInv, OneExecutes
  <1>11. FilesKept' /\ (HardLinked => \E q \in Made : Explained(q))'
    <2>1. \A q \in Made : Recoverable(q) => Recoverable(q)'
      <3>1. ASSUME NEW q, NEW x \in Reviews, ShownBy(x, q) PROVE ShownBy(x, q)'
        BY <1>5, <3>1 DEF CreateReview, ShownBy
      <3> QED
        BY <3>1 DEF CreateReview, Recoverable, ProposalStatus
    <2> QED
      BY <1>7, <2>1, LinksKept DEF CreateReview
  <1> QED
    BY <1>6, <1>7, <1>8, <1>9, <1>10, <1>11 DEF AssistantInv

\* A review takes another revision, and the proposal it had is superseded.
LEMMA RevisionStep ==
    ASSUME AssistantInv, AssistantTypes', NEW r \in Reviews, Editable(r), KeepsProposals,
           \A p \in Made : proposals'[p].status =
              IF p = review[r].proposal THEN "superseded" ELSE proposals[p].status,
           \A x \in Reviews \ {r} : review'[x] = review[x],
           UNCHANGED <<place, tasks, session, moved, edits>>,
           ReviewSound(r)', \A p \in Made' \ Made : ProposalSound(p)'
    PROVE  AssistantInv'
  <1>1. AssistantTypes /\ Len(proposals) \in Nat /\ Len(proposals') \in Nat /\ Len(proposals') >= Len(proposals)
    <2>1. (Len(proposals) \in Nat)'
      BY LenProperties DEF AssistantTypes
    <2> QED
      BY <2>1, ProposalIds DEF AssistantInv, KeepsProposals
  <1>2. ASSUME NEW p \in Made
        PROVE  proposals[p].status \in {"executing", "failed"} => p # review[r].proposal
    BY <1>2 DEF Editable, ProposalStatus, Made
  <1>3. \A p \in Made' : ProposalSound(p)'
    <2>1. ASSUME NEW p \in Made PROVE ProposalSound(p)'
      <3>1. \/ proposals'[p].status = proposals[p].status
            \/ proposals'[p].status = "superseded"
        BY <2>1
      <3> QED
        BY <3>1, ProposalKept DEF AssistantInv
    <2> QED
      BY <2>1
  <1>4. \A x \in Reviews : ReviewSound(x)'
    BY <1>1, ReviewKept DEF AssistantInv
  <1>5. ASSUME NEW t \in Sessions PROVE SessionSound(t)'
    <2> SUFFICES ASSUME session[t] # NoSession PROVE SessionSound(t)'
      BY DEF SessionSound
    <2>1. PICK p : p = session[t].proposal
      OBVIOUS
    <2>2. p \in Made /\ SessionSound(t)
      BY <2>1 DEF AssistantInv, SessionSound
    <2>3. Shown(p) => Shown(p)'
      <3>1. \A x \in Reviews : ShownBy(x, p) => ShownBy(x, p)' \/ proposals'[p].status = "superseded"
        BY <2>2 DEF ShownBy
      <3>2. proposals[p].status = "superseded" => proposals'[p].status = "superseded"
        BY <2>2
      <3> QED
        BY <3>1, <3>2 DEF Shown
    <2>4. session[t].step \in Held => proposals'[p].status = "executing"
      BY <1>2, <2>1, <2>2, HeldProposal
    <2>5. session[t].step \in Held \cup {"asked"} => Shown(session[t].proposal)'
      BY <2>1, <2>2, <2>3 DEF SessionSound
    <2> QED
      BY <1>1, <2>1, <2>2, <2>4, <2>5, SessionKept
  <1>6. OneExecutes'
    BY DEF AssistantInv, OneExecutes
  <1>7. \A p \in Proposals : p > Len(proposals') => moved'[p] = 0
    BY <1>1 DEF AssistantInv, Proposals
  <1>8. FilesKept' /\ (HardLinked => \E q \in Made : Explained(q))'
    <2>1. ASSUME NEW p \in Made, Recoverable(p) PROVE Recoverable(p)'
      <3>1. p # review[r].proposal /\ proposals'[p].status = proposals[p].status
        BY <1>2, <2>1 DEF Recoverable, ProposalStatus
      <3>2. \A x \in Reviews : ShownBy(x, p) => ShownBy(x, p)'
        BY <3>1 DEF ShownBy
      <3> QED
        BY <2>1, <3>1, <3>2 DEF Recoverable, ProposalStatus
    <2> QED
      BY <1>1, <2>1, LinksKept
  <1> QED
    BY <1>3, <1>4, <1>5, <1>6, <1>7, <1>8 DEF AssistantInv

\* The proposal of a review that is written to is superseded.
LEMMA SupersededStep ==
    ASSUME AssistantInv, NEW r \in Reviews, Editable(r)
    PROVE  /\ Superseded(r) \in Seq(ProposalRow)
           /\ Len(Superseded(r)) = Len(proposals)
           /\ \A p \in Made :
                /\ Superseded(r)[p].tool = proposals[p].tool
                /\ Superseded(r)[p].src = proposals[p].src
                /\ Superseded(r)[p].dst = proposals[p].dst
                /\ Superseded(r)[p].seen = proposals[p].seen
                /\ Superseded(r)[p].status =
                     IF p = review[r].proposal THEN "superseded" ELSE proposals[p].status
  <1>1. AssistantTypes /\ 0 \notin Made /\ review[r].proposal \in 0..Len(proposals)
    BY ProposalIds DEF AssistantInv, ReviewSound, Editable, Made
  <1>2. CASE review[r].proposal = 0
    <2>1. Superseded(r) = proposals
      BY <1>2 DEF Superseded
    <2> QED
      BY <1>1, <1>2, <2>1 DEF AssistantTypes
  <1>3. CASE review[r].proposal # 0
    <2>1. PICK p : p = review[r].proposal
      OBVIOUS
    <2>2. p \in Made
      BY <1>1, <1>3, <2>1, ProposalIds DEF Made
    <2>3. PICK row : row = [proposals[p] EXCEPT !.status = "superseded"]
      OBVIOUS
    <2>4. /\ row \in ProposalRow /\ row.status = "superseded"
          /\ row.tool = proposals[p].tool /\ row.src = proposals[p].src
          /\ row.dst = proposals[p].dst /\ row.seen = proposals[p].seen
      BY <1>1, <2>2, <2>3, ProposalIds DEF ProposalRow, Statuses
    <2>5. PICK T : T = ProposalRow
      OBVIOUS
    <2>6. PICK list : list \in Seq(T) /\ list = proposals
      BY <1>1, <2>5 DEF AssistantTypes
    <2>7. Superseded(r) = [list EXCEPT ![p] = row]
      BY <1>3, <2>1, <2>3, <2>6 DEF Superseded
    <2>8. /\ [list EXCEPT ![p] = row] \in Seq(T)
          /\ Len([list EXCEPT ![p] = row]) = Len(list)
          /\ \A q \in 1..Len(list) : [list EXCEPT ![p] = row][q] = IF q = p THEN row ELSE list[q]
      BY <2>2, <2>4, <2>5, <2>6, ExceptSeq DEF Made
    <2> QED
      BY <2>1, <2>4, <2>5, <2>6, <2>7, <2>8 DEF Made
  <1> QED
    BY <1>2, <1>3

LEMMA RevisedRow ==
    ASSUME NEW row \in ReviewRow, NEW i \in Intents
    PROVE  /\ SavedReview(row, i) \in ReviewRow
           /\ SavedReview(row, i).proposal = 0
           /\ SavedReview(row, i).fields = i
  <1>1. PICK a : a = [row EXCEPT !.fields = i]
    OBVIOUS
  <1>2. a \in ReviewRow /\ a.fields = i
    BY <1>1 DEF ReviewRow
  <1>3. PICK b : b = [a EXCEPT !.revision = @ + 1]
    OBVIOUS
  <1>4. b \in ReviewRow /\ b.fields = i
    BY <1>2, <1>3 DEF ReviewRow
  <1>5. PICK c : c = [b EXCEPT !.proposal = 0]
    OBVIOUS
  <1>6. c \in ReviewRow /\ c.fields = i /\ c.proposal = 0
    BY <1>4, <1>5, AssistantAssumption DEF ReviewRow
  <1>7. SavedReview(row, i) = c
    BY <1>1, <1>3, <1>5, Zenon DEF SavedReview
  <1> QED
    BY <1>6, <1>7

LEMMA PreviewedRow ==
    ASSUME NEW row \in ReviewRow, NEW p \in Proposals, place \in Contents
    PROVE  /\ ConfirmedReview(row, p) \in ReviewRow
           /\ ConfirmedReview(row, p).proposal = p
           /\ ConfirmedReview(row, p).fields = row.fields
           /\ ConfirmedReview(row, p).evidence = place
  <1>1. PICK a : a = [row EXCEPT !.revision = @ + 1]
    OBVIOUS
  <1>2. a \in ReviewRow /\ a.fields = row.fields
    BY <1>1 DEF ReviewRow
  <1>3. PICK b : b = [a EXCEPT !.proposal = p]
    OBVIOUS
  <1>4. b \in ReviewRow /\ b.fields = row.fields /\ b.proposal = p
    BY <1>2, <1>3, AssistantAssumption DEF ReviewRow, Proposals
  <1>5. PICK c : c = [b EXCEPT !.evidence = place]
    OBVIOUS
  <1>6. c \in ReviewRow /\ c.fields = row.fields /\ c.proposal = p /\ c.evidence = place
    BY <1>4, <1>5 DEF ReviewRow
  <1>7. ConfirmedReview(row, p) = c
    BY <1>1, <1>3, <1>5, Zenon DEF ConfirmedReview
  <1> QED
    BY <1>6, <1>7

LEMMA SaveReviewStep ==
    ASSUME AssistantInv, NEW r \in Reviews, NEW i \in Intents, SaveReview(r, i) PROVE AssistantInv'
  <1>1. AssistantTypes /\ Editable(r) /\ proposals' = Superseded(r) /\ review[r] \in ReviewRow
    BY DEF AssistantInv, SaveReview, AssistantTypes, Editable, FreeReview
  <1>2. PICK row : row = SavedReview(review[r], i)
    OBVIOUS
  <1>3. row \in ReviewRow /\ row.proposal = 0 /\ row.fields = i
    BY <1>1, <1>2, RevisedRow
  <1>4. review' = [review EXCEPT ![r] = row]
    BY <1>2 DEF SaveReview
  <1>5. review'[r] = row /\ \A x \in Reviews \ {r} : review'[x] = review[x]
    BY <1>1, <1>4 DEF AssistantTypes
  <1>6. /\ KeepsProposals /\ Made' = Made /\ proposals' \in Seq(ProposalRow)
        /\ Len(proposals') = Len(proposals) /\ Len(proposals) \in Nat
        /\ \A p \in Made : proposals'[p].status =
              IF p = review[r].proposal THEN "superseded" ELSE proposals[p].status
    BY <1>1, SupersededStep, ProposalIds DEF KeepsProposals, Made
  <1>7. AssistantTypes'
    BY <1>1, <1>3, <1>4, <1>6 DEF SaveReview, AssistantTypes
  <1>8. ReviewSound(r)'
    BY <1>3, <1>5, <1>6 DEF ReviewSound
  <1> QED
    BY <1>1, <1>5, <1>6, <1>7, <1>8, RevisionStep DEF SaveReview

\* A plan whose source and destination differ, unless it is a todo.
LEMMA CompiledPlan ==
    ASSUME AssistantTypes, NEW r \in Reviews, NEW i \in Intents, Compiles(r, i), NEW p \in Proposals
    PROVE  /\ i.tool \in {"move", "trash", "todo"} /\ i.src \in Places
           /\ (IF i.tool = "trash" THEN p ELSE i.dst) \in Places
           /\ i.tool # "todo" => i.src # (IF i.tool = "trash" THEN p ELSE i.dst)
  <1>1. i \in [tool: {"move", "trash", "todo"}, src: Names, dst: Names]
    BY AssistantAssumption
  <1>2. p \notin Names
    BY AssistantAssumption DEF Proposals
  <1>3. i.tool = "move" => place[i.src] # place[i.dst]
    BY DEF Compiles
  <1> QED
    BY <1>1, <1>2, <1>3 DEF Places

LEMMA ConfirmReviewStep ==
    ASSUME AssistantInv, NEW r \in Reviews, ConfirmReview(r) PROVE AssistantInv'
  <1>1. /\ AssistantTypes /\ Editable(r) /\ review[r] \in ReviewRow
        /\ Len(proposals) \in Nat /\ Len(proposals) < MaxProposals
    BY ProposalIds DEF AssistantInv, ConfirmReview, AssistantTypes, Editable, FreeReview
  <1>2. PICK p : p = Len(proposals) + 1
    OBVIOUS
  <1>3. p \in Proposals /\ p \notin Made /\ 1..p = Made \cup {p} /\ p # 0
    BY <1>1, <1>2, AssistantAssumption DEF Proposals, Made
  <1>4. PICK i : i = review[r].fields
    OBVIOUS
  <1>5. i \in Intents /\ Compiles(r, i)
    BY <1>2, <1>4 DEF ConfirmReview, AssistantInv, ReviewSound, Editable
  <1>6. PICK dst : dst = IF i.tool = "trash" THEN p ELSE i.dst
    OBVIOUS
  <1>7. PICK plan : plan = Preview(i.src, dst, i.tool)
    OBVIOUS
  <1>8. /\ plan \in ProposalRow /\ plan.status = "pending" /\ plan.seen.files = place
        /\ plan.tool # "todo" => plan.src # plan.dst
    <2>1. WorkspaceState \in [files: Contents, tasks: SUBSET Reviews] /\ WorkspaceState.files = place
      BY <1>1 DEF WorkspaceState, AssistantTypes
    <2>2. i.tool \in {"move", "trash", "todo"} /\ i.src \in Places /\ dst \in Places
          /\ (i.tool # "todo" => i.src # dst)
      BY <1>1, <1>3, <1>5, <1>6, CompiledPlan
    <2> QED
      BY <1>7, <2>1, <2>2 DEF Preview, ProposalRow, Statuses
  <1>9. PICK list : list = Superseded(r)
    OBVIOUS
  <1>10. proposals' = Append(list, plan)
    BY <1>2, <1>4, <1>6, <1>7, <1>9, Zenon DEF ConfirmReview
  <1>11. /\ proposals' \in Seq(ProposalRow) /\ Len(proposals') = p
         /\ proposals'[p] = plan /\ \A q \in Made : proposals'[q] = list[q]
    <2>1. list \in Seq(ProposalRow) /\ Len(list) = Len(proposals)
      BY <1>1, <1>9, SupersededStep
    <2> QED
      BY <1>1, <1>2, <1>8, <1>10, <2>1, AppendProperties DEF Made
  <1>12. KeepsProposals /\ Made' = Made \cup {p} /\ \A q \in Made : proposals'[q].status =
              IF q = review[r].proposal THEN "superseded" ELSE proposals[q].status
    BY <1>1, <1>2, <1>3, <1>9, <1>11, SupersededStep DEF KeepsProposals, Made
  <1>13. PICK row : row = ConfirmedReview(review[r], p)
    OBVIOUS
  <1>14. row \in ReviewRow /\ row.proposal = p /\ row.fields = i /\ row.evidence = place
    BY <1>1, <1>3, <1>4, <1>13, PreviewedRow DEF AssistantTypes
  <1>15. review' = [review EXCEPT ![r] = row]
    BY <1>2, <1>13 DEF ConfirmReview
  <1>16. review'[r] = row /\ \A x \in Reviews \ {r} : review'[x] = review[x]
    BY <1>1, <1>15 DEF AssistantTypes
  <1>17. AssistantTypes'
    <2>1. review' \in [Reviews -> {FreeReview} \cup ReviewRow]
      BY <1>1, <1>14, <1>15 DEF AssistantTypes
    <2>2. UNCHANGED <<place, tasks, session, moved, crashes, edits>>
      BY DEF ConfirmReview
    <2>3. Len(proposals') <= MaxProposals
      BY <1>1, <1>2, <1>11, AssistantAssumption
    <2> QED
      BY <1>1, <1>11, <2>1, <2>2, <2>3 DEF AssistantTypes
  <1>18. ReviewSound(r)'
    BY <1>1, <1>2, <1>5, <1>8, <1>11, <1>14, <1>16 DEF ReviewSound
  <1>19. ProposalSound(p)'
    <2>1. moved'[p] = 0
      BY <1>1, <1>2, <1>3 DEF ConfirmReview, AssistantInv
    <2> QED
      BY <1>8, <1>11, <2>1 DEF ProposalSound
  <1> QED
    BY <1>1, <1>12, <1>16, <1>17, <1>18, <1>19, RevisionStep DEF ConfirmReview

-----------------------------------------------------------------------------
(* Files *)

LEMMA EditOutsideStep ==
    ASSUME ~EditsDuringMoves, AssistantInv, NEW n \in Names, NEW m \in Names, EditOutside(n, m)
    PROVE  AssistantInv'
  <1>1. /\ AssistantTypes /\ n \in Places /\ m \in Places /\ NoFile \notin Files
        /\ edits \in Nat /\ MaxEdits \in Nat
    BY AssistantAssumption DEF AssistantInv, AssistantTypes, Places
  <1>2. /\ place[n] # NoFile /\ place[m] = NoFile /\ n # m
        /\ UNCHANGED <<tasks, proposals, review, session, moved, crashes>>
    BY DEF EditOutside
  <1>3. PICK file : file = place[n]
    OBVIOUS
  <1>4. /\ place' \in Contents
        /\ \A x \in Places : place'[x] = IF x = n THEN NoFile ELSE IF x = m THEN file ELSE place[x]
    <2>1. PICK mid : mid = [place EXCEPT ![m] = place[n]]
      OBVIOUS
    <2>2. place' = [mid EXCEPT ![n] = NoFile]
      BY <2>1, Zenon DEF EditOutside
    <2> QED
      BY <1>1, <1>3, <2>1, <2>2 DEF AssistantTypes, Contents
  <1>5. edits' = edits + 1 /\ edits' \in 0..MaxEdits /\ edits' > 0
    BY <1>1 DEF EditOutside
  <1>6. AssistantTypes'
    BY <1>1, <1>2, <1>4, <1>5 DEF AssistantTypes
  <1>7. FilesKept'
    <2>1. ASSUME NEW f \in Files PROVE \E x \in Places : place'[x] = f
      <3>1. PICK x \in Places : place[x] = f
        BY DEF AssistantInv, FilesKept
      <3>2. x # m
        BY <1>1, <1>2, <3>1
      <3> QED
        BY <1>1, <1>2, <1>3, <1>4, <3>1, <3>2
    <2> QED
      BY <2>1 DEF FilesKept
  <1>8. ASSUME NEW x \in Places, NEW y \in Places, SameLink(x, y)'
        PROVE  \E z \in Places : SameLink(z, IF y = m THEN n ELSE y) /\ place[z] = place'[x]
    <2>1. x # y /\ x # n /\ y # n /\ place'[x] # NoFile /\ place'[x] = place'[y]
      BY <1>4, <1>8 DEF SameLink
    <2>2. CASE x = m
      BY <1>1, <1>2, <1>3, <1>4, <2>1, <2>2 DEF SameLink
    <2>3. CASE x # m
      BY <1>1, <1>2, <1>3, <1>4, <2>1, <2>3 DEF SameLink
    <2> QED
      BY <2>2, <2>3
  <1>9. HardLinked' => HardLinked
    <2>1. ASSUME HardLinked' PROVE HardLinked
      <3>1. PICK x, y \in Places : SameLink(x, y)'
        BY <2>1 DEF HardLinked, SameLink
      <3>2. (IF y = m THEN n ELSE y) \in Places
        BY <1>1
      <3> QED
        BY <1>8, <3>1, <3>2 DEF HardLinked, SameLink
    <2> QED
      BY <2>1
  <1>10. ASSUME HardLinked' PROVE \E p \in Made' : Explained(p)'
    <2>1. PICK p \in Made : Explained(p)
      BY <1>9, <1>10 DEF AssistantInv
    <2>2. p \in Made' /\ proposals'[p] = proposals[p]
      BY <1>2 DEF Made
    <2>3. ASSUME NEW x \in Places, NEW y \in Places, SameLink(x, y)'
          PROVE  place'[x] = proposals[p].seen.files[proposals[p].src]
      <3>1. (IF y = m THEN n ELSE y) \in Places
        BY <1>1
      <3> QED
        BY <1>8, <2>1, <2>3, <3>1 DEF Explained
    <2>4. Recoverable(p)' \/ (proposals[p].tool = "restore" /\ edits' > 0)
      BY <1>2, <1>5, <2>1 DEF Explained, Recoverable, ShownBy, ProposalStatus
    <2> QED
      BY <1>5, <2>2, <2>3, <2>4 DEF Explained
  <1>11. ASSUME NEW t \in Sessions PROVE SessionSound(t)'
    <2>1. session[t].step \notin {"writing", "linked", "unlinked"}
      BY DEF EditOutside, Writing
    <2> QED
      BY <1>2, <1>9, <2>1 DEF AssistantInv, SessionSound, Made, Shown, ShownBy
  <1>12. /\ \A p \in Made' : ProposalSound(p)'
         /\ \A p \in Proposals : p > Len(proposals') => moved'[p] = 0
         /\ \A r \in Reviews : ReviewSound(r)'
         /\ OneExecutes'
    BY <1>2 DEF AssistantInv, ProposalSound, ReviewSound, OneExecutes, Made
  <1> QED
    BY <1>6, <1>7, <1>10, <1>11, <1>12 DEF AssistantInv

\* A session goes on to another step of its execution.
LEMMA AdvanceStep ==
    ASSUME AssistantTypes, NEW s \in Sessions, session[s] # NoSession, NEW step \in Held,
           session' = [session EXCEPT ![s].step = step]
    PROVE  /\ session' \in [Sessions -> {NoSession} \cup BusySession]
           /\ session'[s].step = step /\ session'[s].proposal = session[s].proposal
           /\ session'[s] # NoSession
           /\ \A t \in Sessions \ {s} : session'[t] = session[t]
  <1>1. session[s] \in BusySession
    BY SessionIds
  <1>2. PICK row : row = [session[s] EXCEPT !.step = step]
    OBVIOUS
  <1>3. row \in BusySession /\ row.step = step /\ row.proposal = session[s].proposal
    BY <1>1, <1>2 DEF BusySession
  <1>4. session' = [session EXCEPT ![s] = row]
    BY <1>2
  <1>5. row # NoSession
    BY <1>3 DEF NoSession, Held
  <1> QED
    BY <1>3, <1>4, <1>5 DEF AssistantTypes

\* Nobody else executes, so the others rely on nothing.
LEMMA OthersIdle ==
    ASSUME AssistantInv, AssistantTypes', KeepsProposals, NEW s \in Sessions,
           \A t \in Sessions \ {s} : session[t].step \notin Held /\ session'[t] = session[t],
           UNCHANGED review,
           \A p \in Made : proposals[p].status = "superseded" => proposals'[p].status = "superseded"
    PROVE  \A t \in Sessions \ {s} : SessionSound(t)'
  <1> SUFFICES ASSUME NEW t \in Sessions \ {s} PROVE SessionSound(t)'
    OBVIOUS
  <1>1. AssistantTypes /\ Len(proposals') \in Nat /\ SessionSound(t) /\ session'[t] = session[t]
    BY LenProperties DEF AssistantInv, AssistantTypes
  <1>2. ASSUME session[t].step = "asked" PROVE Shown(session[t].proposal)'
    <2>1. session[t] # NoSession
      BY <1>2 DEF NoSession
    <2>2. session[t].proposal \in Made /\ Shown(session[t].proposal)
      BY <1>1, <1>2, <2>1 DEF SessionSound
    <2> QED
      BY <1>1, <2>2 DEF Shown, ShownBy
  <1> QED
    BY <1>1, <1>2, SessionKept

\* The session that executes goes on, alone.
LEMMA HolderStep ==
    ASSUME AssistantInv, AssistantTypes', NEW s \in Sessions, KeepsProposals,
           Len(proposals') = Len(proposals), UNCHANGED review,
           \A t \in Sessions \ {s} : session[t].step \notin Held /\ session'[t] = session[t],
           \A p \in Made : proposals[p].status = "superseded" => proposals'[p].status = "superseded",
           \A p \in Made : ProposalSound(p)',
           \A p \in Proposals : p \notin Made => moved'[p] = moved[p],
           SessionSound(s)', FilesKept', (HardLinked => \E p \in Made : Explained(p))'
    PROVE  AssistantInv'
  <1>1. AssistantTypes /\ Len(proposals) \in Nat /\ Len(proposals') \in Nat /\ Made' = Made
    BY ProposalIds DEF AssistantInv, Made
  <1>2. \A r \in Reviews : ReviewSound(r)'
    BY <1>1, ReviewKept DEF AssistantInv
  <1>3. \A t \in Sessions : SessionSound(t)'
    BY OthersIdle
  <1>4. OneExecutes'
    BY DEF OneExecutes
  <1>5. \A p \in Proposals : p > Len(proposals') => moved'[p] = 0
    BY <1>1, ProposalIds DEF AssistantInv
  <1>6. \A p \in Made' : ProposalSound(p)'
    BY <1>1
  <1> QED
    BY <1>2, <1>3, <1>4, <1>5, <1>6 DEF AssistantInv

LEMMA StartExecutionStep ==
    ASSUME AssistantInv, NEW s \in Sessions, StartExecution(s) PROVE AssistantInv'
  <1>1. PICK p : p = session[s].proposal
    OBVIOUS
  <1>2. session[s] # NoSession /\ session[s].step = "asked"
    BY DEF StartExecution, NoSession
  <1>3. AssistantTypes /\ p \in Made /\ p \in Proposals /\ Shown(p)
    <2>1. AssistantTypes /\ SessionSound(s)
      BY DEF AssistantInv
    <2> QED
      BY <1>1, <1>2, <2>1, ProposalIds DEF SessionSound
  <1>4. proposals[p].status = "pending" /\ ~HardLinked /\ UNCHANGED <<place, review, crashes, edits>>
    BY <1>1 DEF StartExecution, Approvable, ProposalStatus
  <1>5. \A t \in Sessions : session[t].step \notin Held
    BY DEF StartExecution, Executing, Held
  <1>6. moved[p] = 0
    BY <1>3, <1>4 DEF AssistantInv, ProposalSound
  <1>7. ~HardLinked' /\ FilesKept'
    BY <1>4 DEF HardLinked, FilesKept, AssistantInv
  <1>8. CASE proposals[p].tool = "todo"
    <2>1. /\ StatusWritten(p, "executed") /\ Ends(s)
          /\ tasks' \subseteq Reviews /\ moved' = [moved EXCEPT ![p] = moved[p] + 1]
      <3>1. /\ proposals' = [proposals EXCEPT ![p].status = "executed"] /\ Ends(s)
            /\ tasks' = tasks \cup {r \in Reviews : review[r].kind # "free" /\ review[r].proposal = p}
            /\ moved' = [moved EXCEPT ![p] = moved[p] + 1]
        BY <1>1, <1>8 DEF StartExecution
      <3> QED
        BY <1>3, <3>1, StatusStep DEF Statuses, AssistantTypes
    <2>2. moved' \in [Proposals -> 0..1] /\ \A q \in Proposals \ {p} : moved'[q] = moved[q]
      BY <1>3, <1>6, <2>1 DEF AssistantTypes
    <2>3. AssistantTypes'
      BY <1>3, <1>4, <2>1, <2>2, EndsStep DEF AssistantTypes, StatusWritten
    <2>4. ASSUME NEW q \in Made PROVE ProposalSound(q)'
      <3>1. CASE q = p
        BY <1>3, <1>8, <2>1, <3>1 DEF ProposalSound, StatusWritten, KeepsProposals
      <3>2. CASE q # p
        <4>1. q \in Proposals /\ ProposalSound(q) /\ KeepsProposals
          BY <1>3, <2>1, ProposalIds DEF AssistantInv, StatusWritten
        <4> QED
          BY <2>1, <2>2, <3>2, <4>1, ProposalKept DEF StatusWritten
      <3> QED
        BY <3>1, <3>2
    <2>5. SessionSound(s)' /\ \A t \in Sessions \ {s} : session'[t] = session[t]
      BY <1>3, <2>1, EndsStep DEF SessionSound
    <2> QED
      BY <1>3, <1>4, <1>5, <1>7, <2>1, <2>2, <2>3, <2>4, <2>5, HolderStep DEF StatusWritten
  <1>9. CASE proposals[p].tool # "todo"
    <2>1. /\ StatusWritten(p, "executing") /\ UNCHANGED <<tasks, moved>>
          /\ session' = [session EXCEPT ![s].step = "intent"]
      <3>1. /\ proposals' = [proposals EXCEPT ![p].status = "executing"] /\ UNCHANGED <<tasks, moved>>
            /\ session' = [session EXCEPT ![s].step = "intent"]
        BY <1>1, <1>9 DEF StartExecution
      <3> QED
        BY <1>3, <3>1, StatusStep DEF Statuses
    <2>2. /\ session' \in [Sessions -> {NoSession} \cup BusySession]
          /\ session'[s].step = "intent" /\ session'[s].proposal = p
          /\ \A t \in Sessions \ {s} : session'[t] = session[t]
      BY <1>1, <1>2, <1>3, <2>1, AdvanceStep DEF Held
    <2>3. AssistantTypes'
      BY <1>3, <1>4, <2>1, <2>2 DEF AssistantTypes, StatusWritten
    <2>4. ASSUME NEW q \in Made PROVE ProposalSound(q)'
      BY <1>6, <1>9, <2>1 DEF AssistantInv, ProposalSound, StatusWritten, KeepsProposals
    <2>5. Shown(p)'
      BY <1>3, <1>4 DEF Shown, ShownBy
    <2>6. SessionSound(s)'
      <3>1. p \in Made' /\ proposals'[p].status = "executing" /\ moved'[p] = 0
        BY <1>3, <1>6, <2>1 DEF StatusWritten, Made
      <3> QED
        BY <1>7, <2>2, <2>5, <3>1 DEF SessionSound
    <2> QED
      BY <1>3, <1>4, <1>5, <1>7, <2>1, <2>2, <2>3, <2>4, <2>6, HolderStep DEF StatusWritten
  <1> QED
    BY <1>8, <1>9

LEMMA RecheckStep ==
    ASSUME AssistantInv, NEW s \in Sessions, Recheck(s) PROVE AssistantInv'
  <1>1. PICK p : p = session[s].proposal
    OBVIOUS
  <1>2. /\ AssistantTypes /\ session[s].step = "intent" /\ session[s] # NoSession
        /\ UNCHANGED <<place, tasks, review, moved, crashes, edits>>
    BY DEF Recheck, AssistantInv, NoSession
  <1>3. /\ p \in Made /\ proposals[p].status = "executing" /\ Shown(p) /\ moved[p] = 0 /\ ~HardLinked
    BY <1>1, <1>2 DEF AssistantInv, SessionSound, Held
  <1>4. \A t \in Sessions \ {s} : session[t].step \notin Held
    BY <1>2 DEF AssistantInv, OneExecutes, Held
  <1>5. ~HardLinked' /\ FilesKept'
    BY <1>2, <1>3 DEF HardLinked, FilesKept, AssistantInv
  <1>6. CASE Unchanged(p)
    <2>1. session' = [session EXCEPT ![s].step = "writing"] /\ UNCHANGED proposals
      BY <1>1, <1>6 DEF Recheck
    <2>2. /\ session' \in [Sessions -> {NoSession} \cup BusySession]
          /\ session'[s].step = "writing" /\ session'[s].proposal = p
          /\ \A t \in Sessions \ {s} : session'[t] = session[t]
      BY <1>1, <1>2, <2>1, AdvanceStep DEF Held
    <2>3. AssistantTypes'
      BY <1>2, <2>1, <2>2 DEF AssistantTypes
    <2>4. \A q \in Made : ProposalSound(q)'
      BY <1>2, <2>1 DEF AssistantInv, ProposalSound
    <2>5. Shown(p)' /\ Unchanged(p)'
      BY <1>2, <1>3, <1>6, <2>1 DEF Shown, ShownBy, Unchanged, WorkspaceState
    <2>6. SessionSound(s)'
      <3>1. p \in Made' /\ proposals'[p].status = "executing" /\ moved'[p] = 0
        BY <1>2, <1>3, <2>1 DEF Made
      <3> QED
        BY <1>5, <2>2, <2>5, <3>1 DEF SessionSound
    <2>7. KeepsProposals
      BY <1>2, <2>1, ProposalIds DEF KeepsProposals
    <2> QED
      BY <1>2, <1>4, <1>5, <2>1, <2>2, <2>3, <2>4, <2>6, <2>7, HolderStep
  <1>7. CASE ~Unchanged(p)
    <2>1. StatusWritten(p, "stale") /\ Ends(s)
      BY <1>1, <1>2, <1>3, <1>7, StatusStep DEF Recheck, Statuses
    <2>2. AssistantTypes'
      BY <1>2, <2>1, EndsStep DEF AssistantTypes, StatusWritten
    <2> QED
      BY <1>2, <1>3, <1>4, <1>5, <2>1, <2>2, EndsStep, StatusChange DEF Statuses
  <1> QED
    BY <1>6, <1>7

\* An execution that fails without a second link left behind.
LEMMA FailureStep ==
    ASSUME AssistantInv, NEW s \in Sessions, session[s].step \in Held, FailExecution(s),
           UNCHANGED <<tasks, review, moved, crashes, edits>>, place' \in Contents,
           FilesKept', ~HardLinked'
    PROVE  AssistantInv'
  <1>1. PICK p : p = session[s].proposal
    OBVIOUS
  <1>2. AssistantTypes /\ p \in Made /\ proposals[p].status = "executing"
    BY <1>1, HeldProposal DEF AssistantInv
  <1>3. StatusWritten(p, "failed") /\ Ends(s) /\ proposals[p].tool # "todo"
    BY <1>1, <1>2, StatusStep DEF FailExecution, Statuses, AssistantInv, ProposalSound
  <1>4. AssistantTypes'
    BY <1>2, <1>3, EndsStep DEF AssistantTypes, StatusWritten
  <1>5. \A t \in Sessions : session[t].step \in Held => t = s
    BY DEF AssistantInv, OneExecutes
  <1> QED
    BY <1>2, <1>3, <1>4, <1>5, EndsStep, StatusChange DEF Statuses

LEMMA LinkFileStep ==
    ASSUME AssistantInv, NEW s \in Sessions, LinkFile(s) PROVE AssistantInv'
  <1>1. PICK p : p = session[s].proposal
    OBVIOUS
  <1>2. PICK src, dst : src = proposals[p].src /\ dst = proposals[p].dst
    OBVIOUS
  <1>3. /\ AssistantTypes /\ session[s].step = "writing" /\ session[s] # NoSession
        /\ session[s].step \in Held /\ UNCHANGED <<tasks, review, moved, crashes, edits>>
    BY DEF LinkFile, AssistantInv, NoSession, Held
  <1>4. /\ p \in Made /\ proposals[p].status = "executing" /\ Shown(p) /\ moved[p] = 0 /\ ~HardLinked
        /\ Unchanged(p)
    BY <1>1, <1>3 DEF AssistantInv, SessionSound, Held
  <1>5. src \in Places /\ dst \in Places /\ src # dst /\ proposals[p].seen.files = place
    <2>1. proposals[p] \in ProposalRow /\ ProposalSound(p)
      BY <1>3, <1>4, ProposalIds DEF AssistantInv
    <2> QED
      BY <1>2, <1>4, <2>1 DEF ProposalRow, ProposalSound, Unchanged, WorkspaceState
  <1>6. CASE FailExecution(s) /\ UNCHANGED place
    <2>1. place' \in Contents /\ FilesKept' /\ ~HardLinked'
      BY <1>3, <1>4, <1>6 DEF AssistantTypes, AssistantInv, FilesKept, HardLinked
    <2> QED
      BY <1>3, <1>6, <2>1, FailureStep
  <1>7. CASE /\ place[src] # NoFile /\ place[dst] = NoFile
             /\ place' = [place EXCEPT ![dst] = place[src]]
             /\ session' = [session EXCEPT ![s].step = "linked"] /\ UNCHANGED proposals
    <2>1. PICK file : file = place[src]
      OBVIOUS
    <2>2. /\ place' \in Contents /\ place'[dst] = file /\ \A x \in Places \ {dst} : place'[x] = place[x]
          /\ place'[src] = file /\ file # NoFile
      BY <1>3, <1>5, <1>7, <2>1 DEF AssistantTypes, Contents
    <2>3. ASSUME NEW x \in Places, place'[x] = file PROVE x \in {src, dst}
      BY <1>4, <1>5, <2>1, <2>2, <2>3 DEF HardLinked
    <2>4. ASSUME NEW x \in Places, NEW y \in Places, SameLink(x, y)' PROVE place'[x] = file
      <3>1. x # y /\ place'[x] # NoFile /\ place'[x] = place'[y]
        BY <2>4 DEF SameLink
      <3>2. CASE x = dst \/ y = dst
        BY <2>2, <3>1, <3>2
      <3>3. CASE x # dst /\ y # dst
        BY <1>4, <2>2, <3>1, <3>3 DEF HardLinked
      <3> QED
        BY <3>2, <3>3
    <2>5. FilesKept'
      <3>1. ASSUME NEW f \in Files PROVE \E x \in Places : place'[x] = f
        <4>1. PICK x \in Places : place[x] = f
          BY DEF AssistantInv, FilesKept
        <4>2. x # dst
          BY <1>7, <4>1, AssistantAssumption
        <4> QED
          BY <2>2, <4>1, <4>2
      <3> QED
        BY <3>1 DEF FilesKept
    <2>6. p \in Made' /\ Explained(p)' /\ LinkOf(p)'
      <3>1. /\ proposals' = proposals /\ Made' = Made
            /\ proposals[p].seen.files[proposals[p].src] = file
        BY <1>2, <1>5, <1>7, <2>1 DEF Made
      <3>2. \A x, y \in Places : SameLink(x, y)' => place'[x] = file /\ x \in {src, dst}
        BY <2>3, <2>4
      <3>3. Recoverable(p)'
        BY <1>3, <1>4, <3>1 DEF Recoverable, ProposalStatus, Shown, ShownBy
      <3>4. Explained(p)'
        BY <1>2, <2>3, <3>1, <3>2, <3>3 DEF Explained
      <3>5. LinkOf(p)'
        BY <1>2, <2>2, <3>1, <3>2 DEF LinkOf
      <3> QED
        BY <1>4, <3>1, <3>4, <3>5
    <2>7. /\ session' \in [Sessions -> {NoSession} \cup BusySession]
          /\ session'[s].step = "linked" /\ session'[s].proposal = p
          /\ \A t \in Sessions \ {s} : session'[t] = session[t]
      BY <1>1, <1>3, <1>7, AdvanceStep DEF Held
    <2>8. AssistantTypes'
      BY <1>3, <1>7, <2>2, <2>7 DEF AssistantTypes
    <2>9. SessionSound(s)'
      <3>1. Shown(p)' /\ proposals'[p].status = "executing" /\ moved'[p] = 0
        BY <1>3, <1>4, <1>7 DEF Shown, ShownBy
      <3> QED
        BY <2>6, <2>7, <3>1 DEF SessionSound
    <2>10. KeepsProposals /\ \A q \in Made : ProposalSound(q)'
      BY <1>3, <1>7, ProposalIds DEF KeepsProposals, AssistantInv, ProposalSound
    <2>11. \A t \in Sessions \ {s} : session[t].step \notin Held
      BY <1>3 DEF AssistantInv, OneExecutes
    <2> QED
      BY <1>3, <1>7, <2>5, <2>6, <2>7, <2>8, <2>9, <2>10, <2>11, HolderStep
  <1> QED
    BY <1>1, <1>2, <1>6, <1>7, Zenon DEF LinkFile

LEMMA UnlinkSourceStep ==
    ASSUME AssistantInv, NEW s \in Sessions, UnlinkSource(s) PROVE AssistantInv'
  <1>1. PICK p : p = session[s].proposal
    OBVIOUS
  <1>2. PICK src, dst : src = proposals[p].src /\ dst = proposals[p].dst
    OBVIOUS
  <1>3. /\ AssistantTypes /\ session[s].step = "linked" /\ session[s] # NoSession
        /\ session[s].step \in Held /\ UNCHANGED <<tasks, review, crashes, edits>>
    BY DEF UnlinkSource, AssistantInv, NoSession, Held
  <1>4. /\ p \in Made /\ p \in Proposals /\ proposals[p].status = "executing" /\ Shown(p)
        /\ moved[p] = 0 /\ LinkOf(p)
    BY <1>1, <1>3, ProposalIds DEF AssistantInv, SessionSound, Held
  <1>5. src \in Places /\ dst \in Places /\ src # dst
    <2>1. proposals[p] \in ProposalRow /\ ProposalSound(p)
      BY <1>3, <1>4, ProposalIds DEF AssistantInv
    <2> QED
      BY <1>2, <1>4, <2>1 DEF ProposalRow, ProposalSound
  <1>6. place[dst] = place[src] /\ \A x, y \in Places : SameLink(x, y) => x \in {src, dst}
    BY <1>2, <1>4 DEF LinkOf
  <1>7. ASSUME NEW gone \in {src, dst}, place' = [place EXCEPT ![gone] = NoFile]
        PROVE  place' \in Contents /\ FilesKept' /\ ~HardLinked'
    <2>1. place' \in Contents /\ place'[gone] = NoFile /\ \A x \in Places \ {gone} : place'[x] = place[x]
      BY <1>3, <1>5, <1>7 DEF AssistantTypes, Contents
    <2>2. ASSUME NEW f \in Files PROVE \E x \in Places : place'[x] = f
      <3>1. PICK x \in Places : place[x] = f
        BY DEF AssistantInv, FilesKept
      <3>2. PICK y \in Places \ {gone} : place[y] = f
        BY <1>5, <1>6, <3>1
      <3> QED
        BY <2>1, <3>2
    <2>3. ASSUME NEW x \in Places, NEW y \in Places, x # y, place'[x] # NoFile, place'[x] = place'[y]
          PROVE  FALSE
      <3>1. SameLink(x, y) /\ SameLink(y, x) /\ x # gone /\ y # gone
        BY <2>1, <2>3 DEF SameLink
      <3> QED
        BY <1>6, <2>3, <3>1
    <2> QED
      BY <2>1, <2>2, <2>3 DEF FilesKept, HardLinked
  <1>8. CASE place' = [place EXCEPT ![dst] = NoFile] /\ FailExecution(s) /\ UNCHANGED moved
    BY <1>3, <1>7, <1>8, FailureStep
  <1>10. CASE FailExecution(s) /\ UNCHANGED <<place, moved>>   \* both links stay
    <2>1. StatusWritten(p, "failed") /\ Ends(s) /\ proposals[p].tool # "todo"
      BY <1>1, <1>3, <1>4, <1>10, StatusStep DEF FailExecution, Statuses, AssistantInv, ProposalSound
    <2>2. AssistantTypes'
      BY <1>3, <1>10, <2>1, EndsStep DEF AssistantTypes, StatusWritten
    <2>3. FilesKept'
      BY <1>10 DEF AssistantInv, FilesKept
    <2>4. ASSUME HardLinked' PROVE p \in Made' /\ Explained(p)'
      <3>1. PICK file : file = proposals[p].seen.files[src]
        OBVIOUS
      <3>2. /\ p \in Made' /\ proposals'[p].seen.files[proposals'[p].src] = file
            /\ proposals'[p].src = src /\ proposals'[p].dst = dst /\ proposals'[p].status = "failed"
        BY <1>2, <1>4, <2>1, <3>1 DEF StatusWritten, KeepsProposals, Made
      <3>3. Recoverable(p)'
        BY <1>3, <1>4, <3>2 DEF Recoverable, ProposalStatus, Shown, ShownBy
      <3>4. place[src] = file /\ place[dst] = file
        BY <1>2, <1>4, <3>1 DEF LinkOf
      <3>5. \A x, y \in Places : SameLink(x, y)' => SameLink(x, y)
        BY <1>10 DEF SameLink
      <3>6. file # NoFile
        BY <1>6, <1>10, <2>4, <3>4 DEF HardLinked, SameLink
      <3>7. \A x \in Places : place'[x] = file => x \in {src, dst}
        BY <1>5, <1>6, <1>10, <3>4, <3>6 DEF SameLink
      <3>8. \A x, y \in Places : SameLink(x, y)' => place'[x] = file
        BY <1>6, <1>10, <3>4, <3>5
      <3> QED
        BY <3>2, <3>3, <3>7, <3>8 DEF Explained
    <2>5. \A t \in Sessions : session[t].step \in Held => t = s
      BY <1>3 DEF AssistantInv, OneExecutes
    <2> QED
      BY <1>1, <1>3, <1>4, <1>10, <2>1, <2>2, <2>3, <2>4, <2>5, EndsStep, StatusChange DEF Statuses
  <1>9. CASE /\ place' = [place EXCEPT ![src] = NoFile] /\ moved' = [moved EXCEPT ![p] = moved[p] + 1]
             /\ session' = [session EXCEPT ![s].step = "unlinked"] /\ UNCHANGED proposals
    <2>1. place' \in Contents /\ FilesKept' /\ ~HardLinked'
      BY <1>7, <1>9
    <2>2. moved' \in [Proposals -> 0..1] /\ \A q \in Proposals \ {p} : moved'[q] = moved[q]
      BY <1>3, <1>4, <1>9 DEF AssistantTypes
    <2>3. /\ session' \in [Sessions -> {NoSession} \cup BusySession]
          /\ session'[s].step = "unlinked" /\ session'[s].proposal = p
          /\ \A t \in Sessions \ {s} : session'[t] = session[t]
      BY <1>1, <1>3, <1>9, AdvanceStep DEF Held
    <2>4. AssistantTypes'
      BY <1>3, <1>9, <2>1, <2>2, <2>3 DEF AssistantTypes
    <2>5. SessionSound(s)'
      <3>1. Shown(p)' /\ proposals'[p].status = "executing" /\ p \in Made'
        BY <1>3, <1>4, <1>9 DEF Shown, ShownBy, Made
      <3> QED
        BY <2>1, <2>3, <3>1 DEF SessionSound
    <2>6. KeepsProposals
      BY <1>3, <1>9, ProposalIds DEF KeepsProposals
    <2>7. ASSUME NEW q \in Made PROVE ProposalSound(q)'
      <3>1. q \in Proposals /\ ProposalSound(q) /\ proposals' = proposals
        BY <1>3, <1>9, ProposalIds DEF AssistantInv
      <3>2. q # p => moved'[q] = moved[q]
        BY <2>2, <3>1
      <3> QED
        BY <1>4, <3>1, <3>2 DEF ProposalSound
    <2>8. \A t \in Sessions \ {s} : session[t].step \notin Held
      BY <1>3 DEF AssistantInv, OneExecutes
    <2>9. \A q \in Proposals : q \notin Made => moved'[q] = moved[q]
      BY <1>4, <2>2
    <2> QED
      BY <1>3, <1>9, <2>1, <2>3, <2>4, <2>5, <2>6, <2>7, <2>8, <2>9, HolderStep
  <1> QED
    BY <1>1, <1>2, <1>8, <1>9, <1>10, Zenon DEF UnlinkSource

-----------------------------------------------------------------------------
(* Recovery and restore *)

LEMMA RecoverReviewStep ==
    ASSUME AssistantInv, NEW r \in Reviews, RecoverReview(r) PROVE AssistantInv'
  <1>1. PICK p : p = review[r].proposal
    OBVIOUS
  <1>2. PICK src, dst : src = proposals[p].src /\ dst = proposals[p].dst
    OBVIOUS
  <1>3. PICK expected : expected = review[r].evidence[src]
    OBVIOUS
  <1>4. /\ AssistantTypes /\ review[r].kind # "free" /\ p # 0
        /\ UNCHANGED <<tasks, review, session, moved, crashes, edits>>
    BY <1>1 DEF RecoverReview, AssistantInv
  <1>5. p \in Made /\ proposals[p].status \in {"executing", "failed"} /\ proposals[p].tool # "todo"
    <2>1. p \in Made
      BY <1>1, <1>4, ProposalIds DEF AssistantInv, ReviewSound, Made
    <2>2. proposals[p].status \in {"executing", "failed"}
      BY <1>1 DEF RecoverReview, ProposalStatus
    <2> QED
      BY <2>1, <2>2 DEF AssistantInv, ProposalSound
  <1>6. src \in Places /\ dst \in Places /\ src # dst
    <2>1. proposals[p] \in ProposalRow /\ ProposalSound(p)
      BY <1>4, <1>5, ProposalIds DEF AssistantInv
    <2> QED
      BY <1>2, <1>5, <2>1 DEF ProposalRow, ProposalSound
  <1>7. /\ expected # NoFile
        /\ \A x \in {src, dst} : place[x] \in {NoFile, expected}
        /\ \A x \in Places : place[x] = expected => x \in {src, dst}
    <2>1. ~Ambiguous(p, expected)
      BY <1>1, <1>2, <1>3 DEF RecoverReview
    <2> QED
      BY <1>2, <2>1 DEF Ambiguous
  <1>8. \A t \in Sessions : session[t].step \notin Held
    BY DEF RecoverReview, Executing, Held
  <1>9. PICK status \in {"cancelled", "executed"} :
          /\ proposals' = [proposals EXCEPT ![p].status = status]
          /\ \/ place[src] # NoFile /\ place' = [place EXCEPT ![dst] = NoFile]
             \/ place[src] = NoFile /\ UNCHANGED place
    BY <1>1, <1>2 DEF RecoverReview
  <1>10. StatusWritten(p, status)
    BY <1>4, <1>5, <1>9, StatusStep DEF Statuses
  <1>11. /\ place' \in Contents
         /\ \A x \in Places : place'[x] = place[x] \/ place'[x] = NoFile
         /\ \A x \in Places : place'[x] = NoFile /\ place[x] # NoFile =>
               x = dst /\ place[src] = place[x] /\ place'[src] = place[src]
         /\ place'[src] = NoFile \/ place'[dst] = NoFile
    BY <1>4, <1>6, <1>7, <1>9 DEF AssistantTypes, Contents
  <1>12. AssistantTypes'
    BY <1>4, <1>10, <1>11 DEF AssistantTypes, StatusWritten
  <1>13. FilesKept'
    <2>1. ASSUME NEW f \in Files PROVE \E x \in Places : place'[x] = f
      <3>1. PICK x \in Places : place[x] = f
        BY DEF AssistantInv, FilesKept
      <3>2. f # NoFile
        BY AssistantAssumption
      <3> QED
        BY <1>6, <1>11, <3>1, <3>2
    <2> QED
      BY <2>1 DEF FilesKept
  <1>14. \A x, y \in Places : SameLink(x, y)' => SameLink(x, y) /\ SameLink(y, x) /\ place'[x] = place[x]
    BY <1>11 DEF SameLink
  <1>15. ASSUME HardLinked' PROVE \E q \in Made' : Explained(q)'
    <2>1. PICK x, y \in Places : SameLink(x, y)'
      BY <1>15 DEF HardLinked, SameLink
    <2>2. SameLink(x, y) /\ SameLink(y, x) /\ place'[x] = place[x] /\ place'[y] = place[y]
      BY <1>14, <2>1 DEF SameLink
    <2>3. PICK q \in Made : Explained(q)
      BY <2>2 DEF AssistantInv, HardLinked, SameLink
    <2>4. /\ q \in Made' /\ proposals'[q].tool = proposals[q].tool
          /\ proposals'[q].src = proposals[q].src /\ proposals'[q].dst = proposals[q].dst
          /\ proposals'[q].seen = proposals[q].seen
      BY <1>10 DEF StatusWritten, KeepsProposals, Made
    <2>5. PICK file : file = proposals[q].seen.files[proposals[q].src]
      OBVIOUS
    <2>6. /\ place[x] = file /\ place[y] = file /\ file # NoFile
          /\ edits = 0 => \A z \in Places : place[z] = file => z \in {proposals[q].src, proposals[q].dst}
      BY <2>2, <2>3, <2>5 DEF Explained, SameLink
    <2>7. \A z \in Places : place'[z] = file => place[z] = file
      BY <1>11, <2>6
    <2>8. \/ Recoverable(q)'
          \/ proposals[q].tool = "restore" /\ edits > 0
      <3>1. CASE q # p
        BY <1>4, <1>10, <2>3, <3>1 DEF Explained, StatusWritten, Recoverable, ShownBy, ProposalStatus
      <3>2. CASE q = p /\ ~(proposals[q].tool = "restore" /\ edits > 0)
        <4>1. CASE proposals[p].tool # "restore"
          <5>1. expected = file
            BY <1>1, <1>2, <1>3, <1>4, <1>5, <2>5, <3>2, <4>1 DEF AssistantInv, ReviewSound
          <5> QED
            BY <1>7, <1>11, <2>1, <2>2, <2>6, <5>1 DEF SameLink
        <4>2. CASE edits = 0
          BY <1>2, <1>11, <2>1, <2>2, <2>6, <3>2, <4>2 DEF SameLink
        <4>3. edits \in Nat
          BY <1>4, AssistantAssumption DEF AssistantTypes
        <4> QED
          BY <3>2, <4>1, <4>2, <4>3
      <3> QED
        BY <3>1, <3>2
    <2>9. \A z, w \in Places : SameLink(z, w)' => place'[z] = file
      BY <1>14, <2>3, <2>5 DEF Explained
    <2> QED
      BY <1>4, <2>4, <2>5, <2>6, <2>7, <2>8, <2>9 DEF Explained
  <1> QED
    BY <1>4, <1>5, <1>8, <1>10, <1>12, <1>13, <1>15, StatusChange DEF Statuses

LEMMA PrepareUndoStep ==
    ASSUME AssistantInv, NEW s \in Sessions, PrepareUndo(s) PROVE AssistantInv'
  <1>1. PICK q : q = session[s].proposal
    OBVIOUS
  <1>2. /\ AssistantTypes /\ session[s].step = "restoring" /\ session[s] # NoSession
        /\ UNCHANGED <<place, tasks, review, moved, crashes, edits>>
    BY DEF PrepareUndo, AssistantInv, NoSession
  <1>3. q \in Made /\ Len(proposals) \in Nat /\ \A p \in Made : p \in Nat \ {0} /\ p <= Len(proposals)
    BY <1>1, <1>2, ProposalIds DEF AssistantInv, SessionSound, Made
  <1>4. CASE Ends(s) /\ UNCHANGED proposals
    <2>1. AssistantTypes'
      BY <1>2, <1>4, EndsStep DEF AssistantTypes
    <2> QED
      BY <1>2, <1>4, <2>1, EndsStep, SessionsEnd
  <1>5. PICK n : n = Len(proposals) + 1
    OBVIOUS
  <1>6. PICK plan : plan = Preview(proposals[q].dst, proposals[q].src, "restore")
    OBVIOUS
  <1>7. CASE /\ proposals[q].status = "executed" /\ proposals[q].tool \in {"move", "trash"}
             /\ Len(proposals) < MaxProposals
             /\ proposals' = Append(proposals, plan)
             /\ session' = [session EXCEPT ![s] = [step |-> "storing", proposal |-> n]]
    <2>1. n \in Proposals /\ n \notin Made /\ 1..n = Made \cup {n}
      BY <1>3, <1>5, <1>7, AssistantAssumption DEF Proposals, Made
    <2>2. plan \in ProposalRow /\ plan.status = "pending" /\ plan.tool = "restore" /\ plan.src # plan.dst
      <3>1. WorkspaceState \in [files: Contents, tasks: SUBSET Reviews]
        BY <1>2 DEF WorkspaceState, AssistantTypes
      <3>2. proposals[q] \in ProposalRow /\ proposals[q].src # proposals[q].dst
        BY <1>2, <1>3, <1>7, ProposalIds DEF AssistantInv, ProposalSound
      <3> QED
        BY <1>6, <3>1, <3>2 DEF Preview, ProposalRow, Statuses
    <2>3. /\ proposals' \in Seq(ProposalRow) /\ Len(proposals') = n
          /\ proposals'[n] = plan /\ \A p \in Made : proposals'[p] = proposals[p]
      BY <1>2, <1>3, <1>5, <1>7, <2>2, AppendProperties DEF AssistantTypes, Made
    <2>4. KeepsProposals /\ Made' = Made \cup {n} /\ Len(proposals') \in Nat
      BY <1>3, <1>5, <2>1, <2>3 DEF KeepsProposals, Made
    <2>5. /\ session'[s] = [step |-> "storing", proposal |-> n]
          /\ \A t \in Sessions \ {s} : session'[t] = session[t]
          /\ session' \in [Sessions -> {NoSession} \cup BusySession]
      BY <1>2, <1>7, <2>1 DEF AssistantTypes, BusySession
    <2>6. AssistantTypes'
      <3>1. Len(proposals') <= MaxProposals
        BY <1>3, <1>5, <1>7, <2>3, AssistantAssumption
      <3> QED
        BY <1>2, <2>3, <2>5, <3>1 DEF AssistantTypes
    <2>7. ASSUME NEW p \in Made' PROVE ProposalSound(p)'
      <3>1. CASE p = n
        <4>1. moved'[n] = 0
          BY <1>2, <1>3, <1>5, <2>1 DEF AssistantInv
        <4> QED
          BY <2>2, <2>3, <3>1, <4>1 DEF ProposalSound
      <3>2. CASE p \in Made
        BY <1>2, <2>3, <3>2 DEF AssistantInv, ProposalSound
      <3> QED
        BY <2>4, <3>1, <3>2
    <2>8. \A x \in Reviews : ReviewSound(x)'
      BY <1>2, <2>4, ReviewKept DEF AssistantInv
    <2>9. ASSUME NEW t \in Sessions PROVE SessionSound(t)'
      <3>1. CASE t = s
        BY <2>2, <2>3, <2>4, <2>5, <3>1 DEF SessionSound, Held
      <3>2. CASE t # s /\ session[t] # NoSession
        <4>1. session[t].proposal \in Made /\ SessionSound(t)
          BY <3>2 DEF AssistantInv, SessionSound
        <4>2. Shown(session[t].proposal) => Shown(session[t].proposal)'
          BY <1>2, <2>3, <2>5, <3>2, <4>1 DEF Shown, ShownBy
        <4>3. session[t].step \in Held \cup {"asked"} => Shown(session[t].proposal)'
          BY <3>2, <4>1, <4>2 DEF SessionSound
        <4>4. session[t].step \in Held => proposals'[session[t].proposal].status = "executing"
          BY <2>3, <4>1, HeldProposal
        <4> QED
          BY <1>2, <2>4, <2>5, <3>2, <4>1, <4>3, <4>4, SessionKept
      <3>3. CASE t # s /\ session[t] = NoSession
        BY <2>5, <3>3 DEF SessionSound
      <3> QED
        BY <3>1, <3>2, <3>3
    <2>10. OneExecutes'
      BY <2>5 DEF AssistantInv, OneExecutes, Held
    <2>11. \A p \in Proposals : p > Len(proposals') => moved'[p] = 0
      <3>1. \A p \in Proposals : p > n => p > Len(proposals)
        BY <1>3, <1>5, AssistantAssumption DEF Proposals
      <3> QED
        BY <1>2, <2>3, <3>1 DEF AssistantInv
    <2>12. FilesKept' /\ (HardLinked => \E p \in Made : Explained(p))'
      <3>1. \A p \in Made : Recoverable(p) => Recoverable(p)'
        BY <1>2, <2>3 DEF Recoverable, ShownBy, ProposalStatus
      <3> QED
        BY <1>2, <2>4, <3>1, LinksKept
    <2> QED
      BY <2>6, <2>7, <2>8, <2>9, <2>10, <2>11, <2>12 DEF AssistantInv
  <1> QED
    BY <1>1, <1>4, <1>5, <1>6, <1>7, Zenon DEF PrepareUndo

LEMMA StoreRestoreStep ==
    ASSUME AssistantInv, NEW s \in Sessions, NEW r \in Reviews, StoreRestore(s, r) PROVE AssistantInv'
  <1>1. PICK p : p = session[s].proposal
    OBVIOUS
  <1>2. /\ AssistantTypes /\ session[s].step = "storing" /\ session[s] # NoSession /\ Ends(s)
        /\ review[r].kind = "free"
        /\ UNCHANGED <<place, tasks, proposals, moved, crashes, edits>>
    BY DEF StoreRestore, AssistantInv, NoSession
  <1>3. p \in Made /\ p \in Proposals /\ proposals[p].tool = "restore"
    BY <1>1, <1>2, ProposalIds DEF AssistantInv, SessionSound
  <1>4. CASE HardLinked
    <2>1. UNCHANGED review
      BY <1>4 DEF StoreRestore
    <2>2. AssistantTypes'
      BY <1>2, <2>1, EndsStep DEF AssistantTypes
    <2> QED
      BY <1>2, <2>1, <2>2, EndsStep, SessionsEnd
  <1>5. CASE ~HardLinked
    <2>1. PICK row : row = [kind |-> "restore", revision |-> 1, proposal |-> p,
                            fields |-> [tool |-> "restore"], evidence |-> place]
      OBVIOUS
    <2>2. row \in ReviewRow /\ row.kind = "restore" /\ row.proposal = p
      BY <1>2, <1>3, <2>1, AssistantAssumption DEF ReviewRow, AssistantTypes, Proposals
    <2>3. review' = [review EXCEPT ![r] = row]
      BY <1>1, <1>5, <2>1, Zenon DEF StoreRestore
    <2>4. review'[r] = row /\ \A x \in Reviews \ {r} : review'[x] = review[x]
      BY <1>2, <2>3 DEF AssistantTypes
    <2>5. AssistantTypes'
      BY <1>2, <2>2, <2>3, EndsStep DEF AssistantTypes
    <2>6. KeepsProposals /\ Len(proposals') \in Nat /\ Made' = Made /\ proposals' = proposals
      BY <1>2, ProposalIds DEF KeepsProposals, Made
    <2>7. ASSUME NEW x \in Reviews PROVE ReviewSound(x)'
      <3>1. CASE x = r
        <4>1. p \in 0..Len(proposals')
          BY <1>3, <2>6 DEF Made
        <4> QED
          BY <1>3, <2>2, <2>4, <2>6, <3>1, <4>1 DEF ReviewSound
      <3>2. CASE x # r
        BY <1>2, <2>4, <2>6, <3>2, ReviewKept DEF AssistantInv
      <3> QED
        BY <3>1, <3>2
    <2>8. ASSUME NEW t \in Sessions PROVE SessionSound(t)'
      <3>1. CASE session'[t] = NoSession
        BY <3>1 DEF SessionSound
      <3>2. CASE session'[t] = session[t] /\ session[t] # NoSession
        <4>1. SessionSound(t)
          BY DEF AssistantInv
        <4>2. \A q : \A x \in Reviews : ShownBy(x, q) => ShownBy(x, q)'
          BY <1>2, <2>4 DEF ShownBy
        <4>3. Shown(session[t].proposal) => Shown(session[t].proposal)'
          BY <1>2, <3>2, <4>2 DEF Shown
        <4>4. session[t].step \in Held \cup {"asked"} => Shown(session[t].proposal)'
          BY <3>2, <4>1, <4>3 DEF SessionSound
        <4>5. session[t].step \in Held => proposals'[session[t].proposal].status = "executing"
          BY <2>6, HeldProposal
        <4> QED
          BY <1>2, <2>6, <3>2, <4>1, <4>4, <4>5, SessionKept
      <3> QED
        BY <1>2, <3>1, <3>2, EndsStep
    <2>9. OneExecutes'
      BY <1>2, EndsStep DEF AssistantInv, OneExecutes, NoSession, Held
    <2>10. /\ \A q \in Made' : ProposalSound(q)'
           /\ \A q \in Proposals : q > Len(proposals') => moved'[q] = 0
      BY <1>2, <2>6 DEF AssistantInv, ProposalSound
    <2>11. FilesKept' /\ (HardLinked => \E q \in Made : Explained(q))'
      <3>1. \A x \in Reviews : \A q : ShownBy(x, q) => ShownBy(x, q)'
        BY <1>2, <2>4 DEF ShownBy
      <3>2. \A q \in Made : Recoverable(q) => Recoverable(q)'
        BY <2>6, <3>1 DEF Recoverable, ProposalStatus
      <3> QED
        BY <1>2, <2>6, <3>2, LinksKept
    <2> QED
      BY <2>5, <2>7, <2>8, <2>9, <2>10, <2>11 DEF AssistantInv
  <1> QED
    BY <1>4, <1>5

-----------------------------------------------------------------------------
(* What follows *)

LEMMA AssistantStep ==
    ASSUME ~EditsDuringMoves PROVE AssistantInv /\ [AssistantNext]_assistantVars => AssistantInv'
  <1> SUFFICES ASSUME AssistantInv, [AssistantNext]_assistantVars PROVE AssistantInv'
    OBVIOUS
  <1>1. CASE UNCHANGED assistantVars
    <2>1. AssistantTypes'
      BY <1>1 DEF assistantVars, AssistantInv, AssistantTypes
    <2> QED
      BY <1>1, <2>1, SessionsEnd DEF assistantVars
  <1>2. CASE AssistantNext
    BY <1>2, EditOutsideStep, CreateReviewStep, SaveReviewStep, ConfirmReviewStep, CancelReviewStep,
       AskApprovalStep, RefuseApprovalStep, StaleApprovalStep, StartExecutionStep, RecheckStep,
       LinkFileStep, UnlinkSourceStep, StoreReceiptStep, CrashSessionStep, RecoverReviewStep,
       AskRestoreStep, PrepareUndoStep, StoreRestoreStep DEF AssistantNext
  <1> QED
    BY <1>1, <1>2

LEMMA AssistantInvariant ==
    ASSUME ~EditsDuringMoves PROVE AssistantSpec => []AssistantInv
  BY AssistantInitial, AssistantStep, PTL DEF AssistantSpec

\* Every variable keeps its type, and at most one session executes: approvals
\* are taken under the lock of the workspace.  In this theorem and the next two
\* nobody edits files in the middle of a move.
THEOREM AssistantTypeCorrect ==
    ASSUME ~EditsDuringMoves PROVE AssistantSpec => []AssistantTypeOK
  <1>1. AssistantInv => AssistantTypeOK
    <2> SUFFICES ASSUME AssistantInv PROVE AssistantTypeOK
      OBVIOUS
    <2>1. AssistantTypes /\ DOMAIN proposals = Made /\ \A p \in Made : proposals[p] \in ProposalRow
      BY ProposalIds DEF AssistantInv
    <2>2. \A p \in DOMAIN proposals : ProposalStatus(p) \in Statuses
      BY <2>1 DEF ProposalRow, ProposalStatus
    <2>3. \A r \in Reviews : review[r].kind # "free" => review[r].proposal \in 0..Len(proposals)
      BY DEF AssistantInv, ReviewSound
    <2>4. Cardinality(Executing) <= 1
      <3>1. CASE Executing = {}
        BY <3>1, FS_EmptySet
      <3>2. CASE Executing # {}
        <4>1. PICK s \in Sessions : s \in Executing
          BY <3>2 DEF Executing
        <4>2. Executing = {s}
          BY <4>1 DEF AssistantInv, OneExecutes, Executing, Held
        <4> QED
          BY <4>2, FS_Singleton
      <3> QED
        BY <3>1, <3>2
    <2> QED
      BY <2>1, <2>2, <2>3, <2>4 DEF AssistantTypes, AssistantTypeOK, Contents, Statuses
  <1> QED
    BY <1>1, AssistantInvariant, PTL

\* Whatever a move, its failure, a crash or a recovery does, every file is
\* somewhere, and a second link is one of the file of a proposal that recovery
\* is offered for, or of a restore when files have been edited.
THEOREM FilesAreKept ==
    ASSUME ~EditsDuringMoves PROVE AssistantSpec => []NoFileIsLost
  <1>1. AssistantInv => NoFileIsLost
    <2> SUFFICES ASSUME AssistantInv PROVE NoFileIsLost
      OBVIOUS
    <2>1. DOMAIN proposals = Made
      BY ProposalIds DEF AssistantInv
    <2> QED
      BY <2>1 DEF AssistantInv, FilesKept, Explained, NoFileIsLost, ProposalStatus
  <1> QED
    BY <1>1, AssistantInvariant, PTL

\* Only LinkFile takes a session to a linked file.
LEMMA LinkingStep ==
    ASSUME AssistantInv, [AssistantNext]_assistantVars, NEW s \in Sessions,
           session'[s].step = "linked", session[s].step # "linked"
    PROVE  LinkFile(s)
  <1>1. AssistantTypes
    BY DEF AssistantInv
  <1>2. session'[s] # session[s]
    OBVIOUS
  <1>3. ASSUME NEW t \in Sessions, Ends(t) PROVE FALSE
    BY <1>1, <1>2, <1>3, EndsStep DEF NoSession
  <1>4. ASSUME NEW t \in Sessions, NEW step \in Held \ {"linked"}, session[t] # NoSession,
               session' = [session EXCEPT ![t].step = step]
        PROVE  FALSE
    BY <1>1, <1>2, <1>4, AdvanceStep
  <1>5. ASSUME NEW t \in Sessions, NEW p, NEW step, step # "linked",
               session' = [session EXCEPT ![t] = [step |-> step, proposal |-> p]]
        PROVE  FALSE
    BY <1>1, <1>2, <1>5 DEF AssistantTypes
  <1>6. ASSUME UNCHANGED session PROVE FALSE
    BY <1>2, <1>6
  <1>7. ASSUME NEW t \in Sessions, StartExecution(t) PROVE FALSE
    BY <1>3, <1>4, <1>7 DEF StartExecution, NoSession, Held
  <1>8. ASSUME NEW t \in Sessions, Recheck(t) PROVE FALSE
    BY <1>3, <1>4, <1>8 DEF Recheck, NoSession, Held
  <1>9. ASSUME NEW t \in Sessions, UnlinkSource(t) PROVE FALSE
    BY <1>3, <1>4, <1>9 DEF UnlinkSource, FailExecution, NoSession, Held
  <1>10. ASSUME NEW t \in Sessions, PrepareUndo(t) PROVE FALSE
    BY <1>3, <1>5, <1>10 DEF PrepareUndo
  <1>11. ASSUME NEW t \in Sessions, LinkFile(t) PROVE t = s
    <2>1. session' = [session EXCEPT ![t].step = "linked"]
      BY <1>3, <1>11 DEF LinkFile, FailExecution
    <2>2. session[t] # NoSession
      BY <1>11 DEF LinkFile, NoSession
    <2> QED
      BY <1>1, <1>2, <2>1, <2>2, AdvanceStep DEF Held
  <1>12. ASSUME NEW t \in Sessions, NEW r \in Reviews,
                AskApproval(t, r) \/ AskRestore(t, r) \/ StoreRestore(t, r)
         PROVE  FALSE
    BY <1>3, <1>5, <1>12 DEF AskApproval, AskRestore, StoreRestore
  <1>13. ASSUME NEW t \in Sessions,
                RefuseApproval(t) \/ StaleApproval(t) \/ StoreReceipt(t) \/ CrashSession(t)
         PROVE  FALSE
    BY <1>3, <1>13 DEF RefuseApproval, StaleApproval, StoreReceipt, CrashSession
  <1>14. ASSUME NEW r \in Reviews, ConfirmReview(r) \/ CancelReview(r) \/ RecoverReview(r) PROVE FALSE
    BY <1>6, <1>14 DEF ConfirmReview, CancelReview, RecoverReview
  <1>15. ASSUME NEW r \in Reviews, NEW i \in Intents, CreateReview(r, i) \/ SaveReview(r, i) PROVE FALSE
    BY <1>6, <1>15 DEF CreateReview, SaveReview
  <1>16. ASSUME NEW n \in Names, NEW m \in Names, EditOutside(n, m) PROVE FALSE
    BY <1>6, <1>16 DEF EditOutside
  <1>17. AssistantNext
    BY <1>6 DEF assistantVars
  <1> QED
    BY <1>7, <1>8, <1>9, <1>10, <1>11, <1>12, <1>13, <1>14, <1>15, <1>16, <1>17 DEF AssistantNext

\* Only StartExecution lets a todo take effect.
LEMMA TodoStep ==
    ASSUME AssistantInv, [AssistantNext]_assistantVars, NEW p \in Made, MakesTodo(p)
    PROVE  \E s \in Sessions : session[s].proposal = p /\ StartExecution(s)
  <1>1. /\ AssistantTypes /\ p \in Proposals /\ proposals[p].tool = "todo" /\ moved'[p] # moved[p]
        /\ proposals[p].status # "executing"
    BY ProposalIds DEF AssistantInv, MakesTodo, ProposalSound
  <1>2. ASSUME UNCHANGED moved PROVE FALSE
    BY <1>1, <1>2
  <1>3. ASSUME NEW q, moved' = [moved EXCEPT ![q] = @ + 1] PROVE q = p
    BY <1>1, <1>3 DEF AssistantTypes
  <1>4. ASSUME NEW s \in Sessions, UnlinkSource(s) PROVE FALSE
    <2>1. session[s].proposal = p
      BY <1>2, <1>3, <1>4 DEF UnlinkSource
    <2> QED
      BY <1>1, <1>4, <2>1, HeldProposal DEF UnlinkSource, Held
  <1>5. ASSUME NEW s \in Sessions, StartExecution(s) PROVE session[s].proposal = p
    BY <1>2, <1>3, <1>5 DEF StartExecution
  <1>6. ASSUME NEW s \in Sessions,
               \/ RefuseApproval(s) \/ StaleApproval(s) \/ Recheck(s) \/ LinkFile(s)
               \/ StoreReceipt(s) \/ CrashSession(s) \/ PrepareUndo(s)
        PROVE  FALSE
    BY <1>2, <1>6 DEF RefuseApproval, StaleApproval, Recheck, LinkFile, StoreReceipt, CrashSession,
                      PrepareUndo
  <1>7. ASSUME NEW s \in Sessions, NEW r \in Reviews,
               AskApproval(s, r) \/ AskRestore(s, r) \/ StoreRestore(s, r)
        PROVE  FALSE
    BY <1>2, <1>7 DEF AskApproval, AskRestore, StoreRestore
  <1>8. ASSUME NEW r \in Reviews, ConfirmReview(r) \/ CancelReview(r) \/ RecoverReview(r) PROVE FALSE
    BY <1>2, <1>8 DEF ConfirmReview, CancelReview, RecoverReview
  <1>9. ASSUME NEW r \in Reviews, NEW i \in Intents, CreateReview(r, i) \/ SaveReview(r, i) PROVE FALSE
    BY <1>2, <1>9 DEF CreateReview, SaveReview
  <1>10. ASSUME NEW n \in Names, NEW m \in Names, EditOutside(n, m) PROVE FALSE
    BY <1>2, <1>10 DEF EditOutside
  <1>11. AssistantNext
    BY <1>2 DEF assistantVars
  <1> QED
    BY <1>4, <1>5, <1>6, <1>7, <1>8, <1>9, <1>10, <1>11 DEF AssistantNext

\* A file is linked, and a todo made, only by a proposal that a review shows,
\* and only in the state that was shown with it.
THEOREM EffectsAreAsShown ==
    ASSUME ~EditsDuringMoves PROVE AssistantSpec => ExecutedAsShown
  <1>1. ASSUME AssistantInv, [AssistantNext]_assistantVars, NEW p \in DOMAIN proposals,
               Links(p) \/ MakesTodo(p)
        PROVE  /\ WorkspaceState = proposals[p].seen
               /\ ProposalStatus(p) = IF Links(p) THEN "executing" ELSE "pending"
               /\ \E r \in Reviews : ShownBy(r, p)
    <2>1. p \in Made
      BY <1>1, ProposalIds DEF AssistantInv
    <2>2. CASE Links(p)
      <3>1. PICK s \in Sessions : /\ session[s] # NoSession /\ session[s].proposal = p
                                  /\ session[s].step # "linked" /\ session'[s].step = "linked"
        BY <2>2 DEF Links
      <3>2. session[s].step = "writing"
        BY <1>1, <3>1, LinkingStep DEF LinkFile
      <3>3. Unchanged(p) /\ proposals[p].status = "executing" /\ Shown(p)
        BY <1>1, <3>1, <3>2 DEF AssistantInv, SessionSound, Held
      <3> QED
        BY <2>2, <3>3 DEF Unchanged, Shown, ProposalStatus
    <2>3. CASE ~Links(p)
      <3>1. PICK s \in Sessions : session[s].proposal = p /\ StartExecution(s)
        BY <1>1, <2>1, <2>3, TodoStep
      <3>2. proposals[p].status = "pending" /\ WorkspaceState = proposals[p].seen
        BY <3>1 DEF StartExecution, Approvable, ProposalStatus
      <3>3. Shown(p)
        BY <1>1, <3>1 DEF StartExecution, AssistantInv, SessionSound, NoSession
      <3> QED
        BY <2>3, <3>2, <3>3 DEF Shown, ProposalStatus
    <2> QED
      BY <2>2, <2>3
  <1>2. AssistantInv /\ [AssistantNext]_assistantVars =>
          [\A p \in DOMAIN proposals :
             Links(p) \/ MakesTodo(p) =>
                /\ WorkspaceState = proposals[p].seen
                /\ ProposalStatus(p) = IF Links(p) THEN "executing" ELSE "pending"
                /\ \E r \in Reviews : ShownBy(r, p)]_assistantVars
    BY <1>1
  <1> QED
    BY <1>2, AssistantInvariant, PTL DEF AssistantSpec, ExecutedAsShown
=============================================================================
