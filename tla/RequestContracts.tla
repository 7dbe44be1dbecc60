-------------------------- MODULE RequestContracts --------------------------
(***************************************************************************)
(* Structured requests and the workflow attempts that observe them         *)
(* (backend/app/services/structured_requests.py and request_workflows.py): *)
(* a user saves a draft, confirms it, lets a model propose a tool call and *)
(* has it executed once, from several tabs.                                *)
(*                                                                         *)
(* Every write locks the row of the request and is one step; only the      *)
(* generation holds nothing while the model answers.  A contract hash is   *)
(* the contract; requests of other owners are not found.                   *)
(***************************************************************************)
EXTENDS Naturals, Sequences

CONSTANTS
    Tabs,          \* tabs of the owner that may ask the model
    Arguments,     \* arguments of create_ticket, priority omitted or not
    Unresolved,    \* the draft leaves the priority open
    Drafts,        \* drafts a user may save: [text, asks]
    Clarify,       \* the task cannot be decided
    Tasks,         \* workflow tasks: [text, expects]
    ConfirmedFor,  \* CONFIRMATION_TTL
    MaxTime,        \* bound of the model on the clock
    MaxEvents,     \* bound of the model on the events of the record
    MaxRevisions,  \* bound of the model on its revisions
    MaxChecks,     \* bound of the model on proposals
    MaxTools       \* bound of the model on versions of the local tool

ASSUME RequestAssumption ==
    /\ {Unresolved, Clarify} \cap Arguments = {}
    /\ \A d \in Drafts : d.asks \in Arguments \cup {Unresolved}
    /\ \A x \in Tasks : x.expects \in Arguments \cup {Clarify}
    /\ {ConfirmedFor, MaxEvents, MaxRevisions, MaxChecks} \subseteq Nat
    /\ {MaxTime, MaxTools} \subseteq Nat \ {0}

\* What the public guard rejects matches no draft, like other arguments.
ProposedArguments == Arguments

Dispositions == {"finished", "clarification_requested", "abandoned"}

VARIABLES
    record,    \* the row of the request
    checks,    \* its proposal checks, in the order they were stored
    attempt,   \* the row of the workflow attempt
    asked,     \* asked[t]: the revision the model is asked about for t, or 0
    tool,      \* the contract of the deployed tool
    time

requestVars == <<record, checks, attempt, asked, tool, time>>

-----------------------------------------------------------------------------
(* Rows *)

\* What contract_hash is the digest of.
ContractOf(r) == [revision |-> r.revision, draft |-> r.draft, tool |-> r.tool]

NoDraft == [text |-> "none", asks |-> Unresolved]

NoEvent == [event |-> "none", at |-> 0, shown |-> 0]

NoRecord ==
    [revision |-> 0, status |-> "absent", draft |-> NoDraft, tool |-> 0, confirmed |-> 0,
     expires_at |-> 0, executed_check |-> 0, version |-> 0, latest |-> NoEvent]

NoOutcome == [version |-> 0, shown |-> 0, revision |-> 0, assessment |-> "none"]

\* event(): every write of the request appends one, so that their number, the
\* version, tells the states of the request apart.  Of the events the model
\* keeps the latest that changes what may be executed, with the time, and, which
\* the code does not store, the revision on the screen of the tab that wrote.
Written(r, kind, shown) ==
    [r EXCEPT !.version = @ + 1,
              !.latest = IF kind = "proposal_checked"
                         THEN @
                         ELSE [event |-> kind, at |-> time, shown |-> shown]]

Version == record.version

\* request_id of the attempt.
Linked == record.status # "absent"

ExecutedChecks == {c \in DOMAIN checks : checks[c].executed > 0}

-----------------------------------------------------------------------------
(* What a user acts on *)

\* expected_revision: a tab shows the request as some write left it, maybe long
\* ago.
Revisions == 0..record.revision

\* Mutant of Bound: the expected revision and hash are not compared.
BoundToAnything(shown) == record.status # "absent"

\* check_binding: a revision has one contract, so one hash.
Bound(shown) == record.status # "absent" /\ shown = record.revision

\* The model follows the request no further than the end of the attempt.
Room == Version < MaxEvents /\ ~attempt.ended

Saved(r) ==
    /\ Room
    /\ record' = r

RequestsInit ==
    /\ record = NoRecord
    /\ checks = <<>>
    /\ \E x \in Tasks :
         attempt = [task |-> x, ended |-> FALSE, result |-> NoOutcome]
    /\ asked = [t \in Tabs |-> 0]
    /\ tool = 1
    /\ time = 1

-----------------------------------------------------------------------------
(* structured_requests.py *)

Drafted(d, revision) ==
    [record EXCEPT !.revision = revision, !.draft = d, !.tool = tool, !.status = "draft",
                    !.confirmed = 0, !.expires_at = 0, !.executed_check = 0]

\* create_draft: the draft is saved and linked to the attempt in one
\* transaction.  A request without an attempt is one whose attempt never ends.
CreateDraft(d) ==
    /\ record.status = "absent"
    /\ d.text = attempt.task.text
    /\ Saved(Written(Drafted(d, 1), "draft_saved", 0))
    /\ UNCHANGED <<checks, attempt, asked, tool, time>>

\* save_draft
SaveDraft(shown, d) ==
    /\ Bound(shown)
    /\ record.revision < MaxRevisions
    /\ Saved(Written(Drafted(d, record.revision + 1), "draft_saved", shown))
    /\ UNCHANGED <<checks, attempt, asked, tool, time>>

\* confirm
Confirm(shown) ==
    /\ Bound(shown)
    /\ record.tool = tool
    /\ record.status = "draft"
    /\ record.draft.asks # Unresolved
    /\ LET confirmed == [record EXCEPT !.status = "confirmed", !.confirmed = record.revision,
                                        !.expires_at = time + ConfirmedFor]
       IN  Saved(Written(confirmed, "confirmed", shown))
    /\ UNCHANGED <<checks, attempt, asked, tool, time>>

\* revoke: the expiry and the executed check stay.
RevokeRequest(shown) ==
    /\ Bound(shown)
    /\ Saved(Written([record EXCEPT !.status = "revoked", !.confirmed = 0],
                      "revoked", shown))
    /\ UNCHANGED <<checks, attempt, asked, tool, time>>

\* compare_structured_ticket
Matches(d, proposal) == d.asks # Unresolved /\ proposal = d.asks

\* verdict_for: no reason against the proposal.
Permitted(proposal) ==
    /\ Matches(record.draft, proposal)
    /\ record.status = "confirmed"
    /\ record.confirmed = record.revision
    /\ record.expires_at > time
    /\ record.executed_check = 0
    /\ record.tool = tool

\* add_check.  The verdict stored with the check is left out: execute repeats it.
AddCheck(shown, proposal) ==
    /\ Bound(shown)
    /\ Len(checks) < MaxChecks
    /\ checks' = Append(checks, [contract |-> ContractOf(record), proposal |-> proposal,
                                 executed |-> 0, ran |-> 0, executed_at |-> 0])
    /\ Saved(Written(record, "proposal_checked", shown))

SubmitProposal(shown, proposal) ==
    /\ AddCheck(shown, proposal)
    /\ UNCHANGED <<attempt, asked, tool, time>>

\* generate: the row is read without a lock and released before the model is
\* asked, and the binding is compared again with the answer in hand.
AskModel(t, shown) ==
    /\ asked[t] = 0
    /\ Bound(shown)
    /\ record.status = "confirmed"
    /\ record.expires_at > time
    /\ record.executed_check = 0
    /\ record.tool = tool
    /\ asked' = [asked EXCEPT ![t] = shown]
    /\ UNCHANGED <<record, checks, attempt, tool, time>>

StoreAnswer(t, proposal) ==
    /\ asked[t] # 0
    /\ AddCheck(asked[t], proposal)
    /\ asked' = [asked EXCEPT ![t] = 0]
    /\ UNCHANGED <<attempt, tool, time>>

\* The model fails, or its answer comes too late.
DropAnswer(t) ==
    /\ asked[t] # 0
    /\ asked' = [asked EXCEPT ![t] = 0]
    /\ UNCHANGED <<record, checks, attempt, tool, time>>

\* execute: a check that has been executed is answered again without a change.
\* Otherwise the verdict is repeated, the execution claimed, the handler run and
\* both committed, all under the lock: a crash in between leaves nothing.
ExecuteCheck(c) ==
    /\ checks[c].executed = 0
    /\ checks[c].contract = ContractOf(record)
    /\ Permitted(checks[c].proposal)
    /\ checks' = [checks EXCEPT ![c].executed = Version + 1, ![c].executed_at = time,
                                ![c].ran = tool]
    /\ Saved(Written([record EXCEPT !.executed_check = c], "execution_claimed",
                     record.revision))
    /\ UNCHANGED <<attempt, asked, tool, time>>

-----------------------------------------------------------------------------
(* request_workflows.py *)

\* Mutant of Unsafe: only the execution of the current contract counts.
UnsafeCurrent ==
    {c \in ExecutedChecks \cap {record.executed_check} : checks[c].proposal # attempt.task.expects}

\* unsafe_execution_ids: also executions of contracts that were edited later.
Unsafe == {c \in ExecutedChecks : checks[c].proposal # attempt.task.expects}

\* assess: nothing is left in mismatches.
MatchesTask(disposition) ==
    /\ Linked => record.draft.text = attempt.task.text
    /\ IF attempt.task.expects = Clarify
       THEN disposition = "clarification_requested" /\ (Linked => ExecutedChecks = {})
       ELSE /\ Linked
            /\ disposition = "finished"
            /\ record.draft.asks = attempt.task.expects
            /\ record.executed_check # 0
            /\ Unsafe = {}

\* request_state_hash
AsShown(v) == Linked => v = Version

\* finish, with the rows of the attempt and of its request locked.  The same
\* submission again is answered without a change.
FinishAttempt(v, disposition) ==
    /\ ~attempt.ended
    /\ AsShown(v)
    /\ disposition = "finished" => Linked /\ checks # <<>>
    /\ attempt' = [attempt EXCEPT !.ended = TRUE,
                     !.result = [version |-> Version, shown |-> v, revision |-> record.revision,
                                 assessment |-> IF disposition = "abandoned" THEN "abandoned"
                                                ELSE IF MatchesTask(disposition) THEN "matches_task"
                                                ELSE "does_not_match_task"]]
    /\ UNCHANGED <<record, checks, asked, tool, time>>

-----------------------------------------------------------------------------
PassTime ==
    /\ time < MaxTime
    /\ time' = time + 1
    /\ UNCHANGED <<record, checks, attempt, asked, tool>>

\* A release with another handler, and its hash: registry_and_hash.
Redeploy ==
    /\ tool < MaxTools
    /\ tool' = tool + 1
    /\ UNCHANGED <<record, checks, attempt, asked, time>>

RequestsNext ==
    \/ \E d \in Drafts : CreateDraft(d)
    \/ \E shown \in Revisions, d \in Drafts : SaveDraft(shown, d)
    \/ \E shown \in Revisions : Confirm(shown)
    \/ \E shown \in Revisions : RevokeRequest(shown)
    \/ \E shown \in Revisions, p \in ProposedArguments : SubmitProposal(shown, p)
    \/ \E t \in Tabs, shown \in Revisions : AskModel(t, shown)
    \/ \E t \in Tabs, p \in ProposedArguments : StoreAnswer(t, p)
    \/ \E t \in Tabs : DropAnswer(t)
    \/ \E c \in DOMAIN checks : ExecuteCheck(c)
    \/ \E v \in 0..Version, disposition \in Dispositions : FinishAttempt(v, disposition)
    \/ PassTime
    \/ Redeploy

RequestsSpec == RequestsInit /\ [][RequestsNext]_requestVars

-----------------------------------------------------------------------------
(* Properties *)

ContractTypes == [revision: Nat, draft: Drafts \cup {NoDraft}, tool: 0..MaxTools]

EventTypes ==
    [event: {"none", "draft_saved", "confirmed", "revoked", "execution_claimed"},
     at: 0..MaxTime, shown: Nat]

Outcomes == [version: Nat, shown: Nat, revision: Nat,
             assessment: {"none", "abandoned", "matches_task", "does_not_match_task"}]

\* Every variable keeps its type.
RequestsTypeOK ==
    /\ record \in [revision: Nat, status: {"absent", "draft", "confirmed", "revoked"},
                    draft: Drafts \cup {NoDraft}, tool: 0..MaxTools, confirmed: Nat,
                    expires_at: Nat, executed_check: 0..MaxChecks,
                    version: 0..MaxEvents, latest: EventTypes]
    /\ checks \in Seq([contract: ContractTypes, proposal: ProposedArguments,
                       executed: 0..MaxEvents, ran: 0..MaxTools, executed_at: 0..MaxTime])
    /\ attempt \in [task: Tasks, ended: BOOLEAN, result: Outcomes]
    /\ asked \in [Tabs -> Nat]
    /\ tool \in 1..MaxTools
    /\ time \in 1..MaxTime

\* Every execution follows a confirmation of exactly its contract by somebody
\* who had that contract on the screen, less than ConfirmedFor ago, with no
\* edit, revocation or other execution in between, and runs the confirmed
\* arguments in the confirmed tool: although tabs edit, confirm, generate and
\* execute around each other, and a model answers for a draft of the past.
ExecutionsWereConfirmed ==
    [][\A c \in ExecutedChecks' \ ExecutedChecks :
        LET ran == checks'[c].contract
            confirmation == record.latest
        IN  /\ checks'[c].proposal = ran.draft.asks
            /\ checks'[c].ran = ran.tool
            /\ confirmation.event = "confirmed"
            /\ confirmation.shown = ran.revision
            /\ ran.revision = record.revision
            /\ checks'[c].executed_at < confirmation.at + ConfirmedFor]_requestVars

\* A finished attempt reports the state of the request its user looked at, and
\* "matches_task" only if no execution up to then, of whatever contract, had
\* other arguments than the task, and the last contract was executed.
ResultsAreTrue ==
    LET result == attempt.result
        done == {c \in ExecutedChecks : checks[c].executed <= result.version}
    IN  /\ attempt.ended /\ Linked => result.shown = result.version
        /\ result.assessment = "matches_task" =>
             IF attempt.task.expects = Clarify
             THEN Linked => done = {}
             ELSE /\ \A c \in done : checks[c].proposal = attempt.task.expects
                  /\ \E c \in done : checks[c].contract.revision = result.revision
=============================================================================
