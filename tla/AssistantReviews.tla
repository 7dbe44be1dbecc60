-------------------------- MODULE AssistantReviews --------------------------
(***************************************************************************)
(* The personal assistant's reviews: saved fields, confirmed previews,     *)
(* approvals that execute once, restores, crashes in the middle of a file  *)
(* operation and their recovery (backend/app/services/personal_assistant/  *)
(*  reviews.py, service.py, sandbox.py, recovery.py and locking.py).       *)
(*                                                                         *)
(* Every write transaction is BEGIN IMMEDIATE and is one step here, except *)
(* that of an executor, which moves the file before it commits.  A file is *)
(* its content; two places that hold it are two links.                     *)
(***************************************************************************)
EXTENDS Naturals, Sequences, FiniteSets

CONSTANTS
    Names,        \* paths under files/
    Files,        \* files
    StoredAt,     \* StoredAt[f]: where f lies in the beginning
    NoFile,
    Reviews,      \* ids of reviews
    Intents,      \* fields a user may save: [tool, src, dst]
    Sessions,     \* requests of the review API
    MaxProposals, \* bound of the model on proposals
    MaxRevision,  \* bound of the model on revisions
    EditsDuringMoves, \* whether files are edited in the middle of a move too
    MaxCrashes,   \* bound of the model on crashes
    MaxEdits      \* bound of the model on edits from outside

ASSUME AssistantAssumption ==
    /\ Intents \subseteq [tool: {"move", "trash", "todo"}, src: Names, dst: Names]
    /\ NoFile \notin Files
    /\ StoredAt \in [Files -> Names]
    /\ \A f, g \in Files : f # g => StoredAt[f] # StoredAt[g]
    /\ MaxProposals \in Nat
    /\ Names \cap (1..MaxProposals) = {}   \* quarantine is another directory
    /\ MaxRevision \in Nat
    /\ EditsDuringMoves \in BOOLEAN
    /\ MaxCrashes \in Nat
    /\ MaxEdits \in Nat

VARIABLES
    place,     \* place[n]: the file at n
    tasks,     \* reviews whose todo exists
    proposals, \* the proposals, in the order they were made
    review,    \* review[r]: the row of r
    session,   \* session[s]: where s stands
    moved,     \* moved[p]: how often proposal p took effect
    crashes,
    edits

assistantVars == <<place, tasks, proposals, review, session, moved, crashes, edits>>

-----------------------------------------------------------------------------
(* Rows *)

Proposals == 1..MaxProposals

\* A quarantined file is named after its proposal.
Places == Names \cup Proposals

WorkspaceState == [files |-> place, tasks |-> tasks]

\* files_snapshot, and so state(), raises when a file has two links.
HardLinked == \E n, m \in Places : n # m /\ place[n] # NoFile /\ place[n] = place[m]

FreeReview == [kind |-> "free"]

NoSession == [step |-> "idle"]

\* Who holds the OS lock of the workspace, and the write lock of SQLite.
Executing == {s \in Sessions : session[s].step \in {"intent", "writing", "linked", "unlinked"}}

Writing == {s \in Sessions : session[s].step \in {"writing", "linked", "unlinked"}}

ProposalStatus(p) == proposals[p].status

AssistantInit ==
    /\ place = [n \in Places |-> IF \E f \in Files : StoredAt[f] = n
                                THEN CHOOSE f \in Files : StoredAt[f] = n ELSE NoFile]
    /\ tasks = {}
    /\ proposals = <<>>
    /\ review = [r \in Reviews |-> FreeReview]
    /\ session = [s \in Sessions |-> NoSession]
    /\ moved = [p \in Proposals |-> 0]
    /\ crashes = 0
    /\ edits = 0

-----------------------------------------------------------------------------
(* Drafts and previews *)

\* Somebody else renames a file.  No lock keeps them from doing so between the
\* second look at the workspace and the end of a move.
EditOutside(n, m) ==
    /\ edits < MaxEdits
    /\ Writing # {} => EditsDuringMoves
    /\ place[n] # NoFile
    /\ place[m] = NoFile
    /\ place' = [place EXCEPT ![m] = place[n], ![n] = NoFile]
    /\ edits' = edits + 1
    /\ UNCHANGED <<tasks, proposals, review, session, moved, crashes>>

\* create
CreateReview(r, i) ==
    /\ review[r].kind = "free"
    /\ Writing = {}
    /\ review' = [review EXCEPT ![r] =
          [kind |-> "draft", fields |-> i, revision |-> 1, proposal |-> 0, evidence |-> place]]
    /\ UNCHANGED <<place, tasks, proposals, session, moved, crashes, edits>>

Editable(r) ==
    /\ review[r].kind = "draft"
    /\ review[r].revision < MaxRevision
    /\ review[r].proposal # 0 =>
          ProposalStatus(review[r].proposal) \notin {"executed", "executing", "failed"}

Superseded(r) ==
    IF review[r].proposal = 0 THEN proposals
    ELSE [proposals EXCEPT ![review[r].proposal].status = "superseded"]

\* The row after a save, which takes the proposal off the review.
SavedReview(row, i) == [row EXCEPT !.fields = i, !.revision = @ + 1, !.proposal = 0]

\* save
SaveReview(r, i) ==
    /\ Writing = {}
    /\ Editable(r)
    /\ i # review[r].fields
    /\ proposals' = Superseded(r)
    /\ review' = [review EXCEPT ![r] = SavedReview(@, i)]
    /\ UNCHANGED <<place, tasks, session, moved, crashes, edits>>

\* compile_action
Compiles(r, i) ==
    CASE i.tool = "move"  -> place[i.src] # NoFile /\ place[i.dst] = NoFile
      [] i.tool = "trash" -> place[i.src] # NoFile
      [] i.tool = "todo"  -> r \notin tasks

Preview(src, dst, tool) ==
    [tool |-> tool, src |-> src, dst |-> dst, seen |-> WorkspaceState, status |-> "pending"]

\* The row after a confirmation, with the files as they are.
ConfirmedReview(row, p) == [row EXCEPT !.revision = @ + 1, !.proposal = p, !.evidence = place]

\* confirm: the earlier proposal is superseded and the plan of the saved
\* fields stored with the state it was made for.
ConfirmReview(r) ==
    /\ Writing = {}
    /\ Editable(r)
    /\ ~HardLinked
    /\ Len(proposals) < MaxProposals
    /\ LET i == review[r].fields
           p == Len(proposals) + 1
       IN
         /\ Compiles(r, i)
         /\ proposals' = Append(Superseded(r),
               Preview(i.src, IF i.tool = "trash" THEN p ELSE i.dst, i.tool))
         /\ review' = [review EXCEPT ![r] = ConfirmedReview(@, p)]
    /\ UNCHANGED <<place, tasks, session, moved, crashes, edits>>

\* cancel_review
CancelReview(r) ==
    /\ Writing = {}
    /\ review[r].kind # "free"
    /\ review[r].proposal # 0
    /\ ProposalStatus(review[r].proposal) = "pending"
    /\ proposals' = [proposals EXCEPT ![review[r].proposal].status = "cancelled"]
    /\ UNCHANGED <<place, tasks, review, session, moved, crashes, edits>>

-----------------------------------------------------------------------------
(* Approval and execution *)

\* approve_review reads the proposal of the revision the client names.
AskApproval(s, r) ==
    /\ session[s] = NoSession
    /\ review[r].kind # "free"
    /\ review[r].proposal # 0
    /\ session' = [session EXCEPT ![s] = [step |-> "asked", proposal |-> review[r].proposal]]
    /\ UNCHANGED <<place, tasks, proposals, review, moved, crashes, edits>>

Approvable(p) == ProposalStatus(p) = "pending"

Ends(s) == session' = [session EXCEPT ![s] = NoSession]

\* approve under the OS lock: a proposal that is not pending, or a workspace
\* with a doubly linked file, is refused.
RefuseApproval(s) ==
    /\ session[s].step = "asked"
    /\ \/ Executing # {}
       \/ ~Approvable(session[s].proposal)
       \/ HardLinked
    /\ Ends(s)
    /\ UNCHANGED <<place, tasks, proposals, review, moved, crashes, edits>>

\* An expired approval, or one for another state, becomes stale.
StaleApproval(s) ==
    /\ session[s].step = "asked"
    /\ Executing = {}
    /\ ~HardLinked
    /\ Approvable(session[s].proposal)
    /\ proposals' = [proposals EXCEPT ![session[s].proposal].status = "stale"]
    /\ Ends(s)
    /\ UNCHANGED <<place, tasks, review, moved, crashes, edits>>

\* A todo is created and its receipt stored in one transaction; a file
\* operation first commits that it is executing.
StartExecution(s) ==
    /\ session[s].step = "asked"
    /\ Executing = {}
    /\ LET p == session[s].proposal IN
         /\ Approvable(p)
         /\ ~HardLinked
         /\ WorkspaceState = proposals[p].seen
         /\ IF proposals[p].tool = "todo"
            THEN /\ tasks' = tasks \cup {r \in Reviews : review[r].kind # "free" /\ review[r].proposal = p}
                 /\ proposals' = [proposals EXCEPT ![p].status = "executed"]
                 /\ moved' = [moved EXCEPT ![p] = @ + 1]
                 /\ Ends(s)
            ELSE /\ proposals' = [proposals EXCEPT ![p].status = "executing"]
                 /\ session' = [session EXCEPT ![s].step = "intent"]
                 /\ UNCHANGED <<tasks, moved>>
    /\ UNCHANGED <<place, review, crashes, edits>>

\* Mutant of Unchanged: the state is not compared a second time.
UnchangedAssumed(p) == TRUE

Unchanged(p) == WorkspaceState = proposals[p].seen

\* The second transaction compares the state again.
Recheck(s) ==
    /\ session[s].step = "intent"
    /\ LET p == session[s].proposal IN
         IF Unchanged(p)
         THEN /\ session' = [session EXCEPT ![s].step = "writing"]
              /\ UNCHANGED proposals
         ELSE /\ proposals' = [proposals EXCEPT ![p].status = "stale"]
              /\ Ends(s)
    /\ UNCHANGED <<place, tasks, review, moved, crashes, edits>>

FailExecution(s) ==
    /\ proposals' = [proposals EXCEPT ![session[s].proposal].status = "failed"]
    /\ Ends(s)

\* move_exclusive: a second link, then the first one is removed; either may
\* fail, the first always when there is nothing to link or the place is taken.
LinkFile(s) ==
    /\ session[s].step = "writing"
    /\ LET p == proposals[session[s].proposal] IN
         \/ /\ place[p.src] # NoFile
            /\ place[p.dst] = NoFile
            /\ place' = [place EXCEPT ![p.dst] = place[p.src]]
            /\ session' = [session EXCEPT ![s].step = "linked"]
            /\ UNCHANGED proposals
         \/ FailExecution(s) /\ UNCHANGED place
    /\ UNCHANGED <<tasks, review, moved, crashes, edits>>

\* When the first link cannot be removed the new one is, unless that fails too
\* and both stay.  The proposal has failed either way.
UnlinkSource(s) ==
    /\ session[s].step = "linked"
    /\ LET p == proposals[session[s].proposal] IN
         \/ /\ place[p.src] # NoFile
            /\ place' = [place EXCEPT ![p.src] = NoFile]
            /\ moved' = [moved EXCEPT ![session[s].proposal] = @ + 1]
            /\ session' = [session EXCEPT ![s].step = "unlinked"]
            /\ UNCHANGED proposals
         \/ /\ place' = [place EXCEPT ![p.dst] = NoFile]
            /\ FailExecution(s)
            /\ UNCHANGED moved
         \/ FailExecution(s) /\ UNCHANGED <<place, moved>>
    /\ UNCHANGED <<tasks, review, crashes, edits>>

\* The receipt and the commit.
StoreReceipt(s) ==
    /\ session[s].step = "unlinked"
    /\ proposals' = [proposals EXCEPT ![session[s].proposal].status = "executed"]
    /\ Ends(s)
    /\ UNCHANGED <<place, tasks, review, moved, crashes, edits>>

\* The process dies: locks and the open transaction are gone, the file and
\* what was committed stay.
CrashSession(s) ==
    /\ session[s] # NoSession
    /\ crashes < MaxCrashes
    /\ crashes' = crashes + 1
    /\ Ends(s)
    /\ UNCHANGED <<place, tasks, proposals, review, moved, edits>>

-----------------------------------------------------------------------------
(* Recovery and restore *)

\* Mutant of Ambiguous: what lies at the two places is not compared.
AmbiguousNever(p, expected) == FALSE

\* recovery_state_ambiguous, or no evidence.
Ambiguous(p, expected) ==
    \/ expected = NoFile
    \/ \E n \in {proposals[p].src, proposals[p].dst} : place[n] \notin {NoFile, expected}
    \/ place[proposals[p].src] = NoFile /\ place[proposals[p].dst] = NoFile
    \/ \E n \in Places \ {proposals[p].src, proposals[p].dst} : place[n] = expected

\* recover and reconcile_file, under the OS lock, from the two places and the
\* files as they were when the preview was stored.
RecoverReview(r) ==
    /\ Executing = {}
    /\ review[r].kind # "free"
    /\ review[r].proposal # 0
    /\ LET p == review[r].proposal
           src == proposals[p].src
           dst == proposals[p].dst
       IN
         /\ ProposalStatus(p) \in {"executing", "failed"}
         /\ ~Ambiguous(p, review[r].evidence[src])
         /\ IF place[src] # NoFile
            THEN /\ place' = [place EXCEPT ![dst] = NoFile]
                 /\ proposals' = [proposals EXCEPT ![p].status = "cancelled"]
            ELSE /\ proposals' = [proposals EXCEPT ![p].status = "executed"]
                 /\ UNCHANGED place
    /\ UNCHANGED <<tasks, review, session, moved, crashes, edits>>

\* restore_preview, first transaction: a restore cannot be restored.
AskRestore(s, r) ==
    /\ session[s] = NoSession
    /\ review[r].kind = "draft"
    /\ review[r].proposal # 0
    /\ session' = [session EXCEPT ![s] = [step |-> "restoring", proposal |-> review[r].proposal]]
    /\ UNCHANGED <<place, tasks, proposals, review, moved, crashes, edits>>

\* prepare_undo, the second: what was moved is still there, unchanged, and
\* its place is free.
PrepareUndo(s) ==
    /\ session[s].step = "restoring"
    /\ Writing = {}
    /\ LET p == proposals[session[s].proposal] IN
         IF /\ p.status = "executed"
            /\ p.tool \in {"move", "trash"}
            /\ place[p.dst] = p.seen.files[p.src]
            /\ place[p.src] = NoFile
            /\ ~HardLinked
            /\ Len(proposals) < MaxProposals
         THEN /\ proposals' = Append(proposals, Preview(p.dst, p.src, "restore"))
              /\ session' = [session EXCEPT ![s] =
                    [step |-> "storing", proposal |-> Len(proposals) + 1]]
         ELSE Ends(s) /\ UNCHANGED proposals
    /\ UNCHANGED <<place, tasks, review, moved, crashes, edits>>

\* The third stores the review of the restore with the files as they are now,
\* or is rolled back because they cannot be listed.
StoreRestore(s, r) ==
    /\ session[s].step = "storing"
    /\ Writing = {}
    /\ review[r].kind = "free"
    /\ review' = IF HardLinked THEN review ELSE [review EXCEPT ![r] =
          [kind |-> "restore", revision |-> 1, proposal |-> session[s].proposal,
           fields |-> [tool |-> "restore"], evidence |-> place]]
    /\ Ends(s)
    /\ UNCHANGED <<place, tasks, proposals, moved, crashes, edits>>

-----------------------------------------------------------------------------
AssistantNext ==
    \/ \E n, m \in Names : EditOutside(n, m)
    \/ \E r \in Reviews, i \in Intents : CreateReview(r, i)
    \/ \E r \in Reviews, i \in Intents : SaveReview(r, i)
    \/ \E r \in Reviews : ConfirmReview(r)
    \/ \E r \in Reviews : CancelReview(r)
    \/ \E s \in Sessions, r \in Reviews : AskApproval(s, r)
    \/ \E s \in Sessions : RefuseApproval(s)
    \/ \E s \in Sessions : StaleApproval(s)
    \/ \E s \in Sessions : StartExecution(s)
    \/ \E s \in Sessions : Recheck(s)
    \/ \E s \in Sessions : LinkFile(s)
    \/ \E s \in Sessions : UnlinkSource(s)
    \/ \E s \in Sessions : StoreReceipt(s)
    \/ \E s \in Sessions : CrashSession(s)
    \/ \E r \in Reviews : RecoverReview(r)
    \/ \E s \in Sessions, r \in Reviews : AskRestore(s, r)
    \/ \E s \in Sessions : PrepareUndo(s)
    \/ \E s \in Sessions, r \in Reviews : StoreRestore(s, r)

AssistantSpec == AssistantInit /\ [][AssistantNext]_assistantVars

-----------------------------------------------------------------------------
(* Properties *)

\* Every variable keeps its type, and at most one session executes.
AssistantTypeOK ==
    /\ place \in [Places -> Files \cup {NoFile}]
    /\ tasks \subseteq Reviews
    /\ Len(proposals) <= MaxProposals
    /\ \A p \in DOMAIN proposals :
         ProposalStatus(p) \in {"pending", "superseded", "cancelled", "executing", "stale", "failed", "executed"}
    /\ \A r \in Reviews : review[r].kind # "free" => review[r].proposal \in 0..Len(proposals)
    /\ moved \in [Proposals -> 0..1]
    /\ Cardinality(Executing) <= 1
    /\ crashes \in 0..MaxCrashes
    /\ edits \in 0..MaxEdits

\* The review r shows the proposal p, and offers what p allows.
ShownBy(r, p) == review[r].kind # "free" /\ review[r].proposal = p

\* Recovery is offered for p.
Recoverable(p) ==
    /\ ProposalStatus(p) \in {"executing", "failed"}
    /\ \E r \in Reviews : ShownBy(r, p)

SameLink(n, m) == n # m /\ place[n] # NoFile /\ place[n] = place[m]

\* No file is lost or overwritten by a move, its failure, a crash in the
\* middle of it or its recovery, and a second link is one of the file that
\* some proposal moves, for which recovery is offered.  The exception: recovery
\* of a restore compares with the files as they were when its review was
\* stored, not as they were previewed, and after edits may settle it without
\* removing its second link.
NoFileIsLost ==
    /\ \A f \in Files : \E n \in Places : place[n] = f
    /\ HardLinked => \E p \in DOMAIN proposals :
          /\ \A n, m \in Places :
               SameLink(n, m) => place[n] = proposals[p].seen.files[proposals[p].src]
          /\ Recoverable(p) \/ (proposals[p].tool = "restore" /\ edits > 0)

\* This step links the file that the proposal p moves.
Links(p) ==
    \E s \in Sessions :
        /\ session[s] # NoSession /\ session[s].proposal = p
        /\ session[s].step # "linked" /\ session'[s].step = "linked"

\* This step makes the todo of the proposal p.
MakesTodo(p) == proposals[p].tool = "todo" /\ moved'[p] # moved[p]

\* A file is linked, and a todo made, only by a proposal that a review shows
\* now, and only while the workspace is exactly the one that was shown with
\* it: no revision saved, proposal superseded or file changed between the
\* preview and the operation goes unnoticed.  It holds as long as nobody
\* edits files in the middle of a move; otherwise an edit after the second
\* look does go unnoticed.
ExecutedAsShown ==
    [][\A p \in DOMAIN proposals :
         Links(p) \/ MakesTodo(p) =>
            /\ WorkspaceState = proposals[p].seen
            /\ ProposalStatus(p) = IF Links(p) THEN "executing" ELSE "pending"
            /\ \E r \in Reviews : ShownBy(r, p)
       ]_assistantVars

\* A proposal that is executed took effect, and one that is cancelled or stale
\* did not: recovery finds out what happened or stops.
OutcomesAreTrue ==
    \A p \in DOMAIN proposals :
        /\ ProposalStatus(p) = "executed" => moved[p] = 1
        /\ ProposalStatus(p) \in {"cancelled", "stale", "superseded"} => moved[p] = 0
=============================================================================
