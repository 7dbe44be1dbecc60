---------------------------- MODULE OidcSessions ----------------------------
(***************************************************************************)
(* Browser sessions of operators (backend/app/services/oidc_state.py and   *)
(* oidc_session_administration.py).                                        *)
(*                                                                         *)
(* A row is written by four kinds of transaction: the login that issues    *)
(* it, a request that notes that the session was seen, a logout that reads *)
(* the row without a lock, and administrators and the retention cleanup,   *)
(* which lock rows first; the bulk actions and the cleanup leave out rows  *)
(* that somebody else has locked.  Events outlive their session.           *)
(***************************************************************************)
EXTENDS Naturals, Sequences, FiniteSets

CONSTANTS
    BrowserSessions, \* sessions that may be issued
    Groups,          \* sets of sessions of one subject or provider session
    NoCurrent,       \* the current session of an operator without one
    Admins,          \* administrators' requests
    Cleaners,        \* workers and requests that run the cleanup
    CleanupBatch,    \* oidc_session_cleanup_batch_size
    MaxAdminActions  \* bound of the model on administrative actions

ASSUME OidcAssumption ==
    /\ Groups \subseteq SUBSET BrowserSessions
    /\ NoCurrent \notin BrowserSessions
    /\ CleanupBatch \in Nat \ {0}
    /\ MaxAdminActions \in Nat

VARIABLES
    row,      \* row[s]: the oidc_browser_sessions row
    events,   \* events[s]: the events of s, in the order of their commits
    visit,    \* visit[s]: a request of the session's own browser
    action,   \* action[a]: the action of administrator a
    cleanup,  \* cleanup[c]: the transaction of cleaner c
    actions   \* administrative actions so far

oidcVars == <<row, events, visit, action, cleanup, actions>>

-----------------------------------------------------------------------------

\* age: of the expiry while the row is not revoked, then of the revocation;
\* due: retention_days past it.
SessionRow == [state: {"absent", "stored", "deleted"}, revoked: BOOLEAN, token: BOOLEAN,
        age: {"live", "expired", "due"}]

\* token: the metadata says that the session was issued with a provider token,
\* or lost it with this event.
Event == [type: {"issued", "revoked", "provider_token_purged", "retention_deleted"},
          token: BOOLEAN]

Visit == [phase: {"none", "touching", "resolved", "loaded"}, token: BOOLEAN]

Action == [phase: {"none", "locked"}, rows: SUBSET BrowserSessions,
           current: BrowserSessions \cup {NoCurrent}]

Cleanup == [phase: {"none", "selected", "locked"}, expired: SUBSET BrowserSessions,
            delete: SUBSET BrowserSessions, purge: SUBSET BrowserSessions]

NoVisit == [phase |-> "none", token |-> FALSE]
NoAction == [phase |-> "none", rows |-> {}, current |-> NoCurrent]
NoCleanup == [phase |-> "none", expired |-> {}, delete |-> {}, purge |-> {}]

Stored(s) == row[s].state = "stored"

Active(s) == Stored(s) /\ ~row[s].revoked /\ row[s].age = "live"

\* Rows locked until the commit of their transaction.
LockedRows == {s \in BrowserSessions :
             \/ visit[s].phase = "touching"
             \/ \E a \in Admins : s \in action[a].rows
             \/ \E c \in Cleaners : s \in cleanup[c].delete \cup cleanup[c].purge}

\* A row that SKIP LOCKED returns.
Available(s) == Stored(s) /\ s \notin LockedRows

OidcInit ==
    /\ row = [s \in BrowserSessions |->
                [state |-> "absent", revoked |-> FALSE, token |-> FALSE, age |-> "live"]]
    /\ events = [s \in BrowserSessions |-> <<>>]
    /\ visit = [s \in BrowserSessions |-> NoVisit]
    /\ action = [a \in Admins |-> NoAction]
    /\ cleanup = [c \in Cleaners |-> NoCleanup]
    /\ actions = 0

-----------------------------------------------------------------------------
(* The login and time *)

\* issue of DatabaseBrowserSessionStore: the row and its event in one commit.
Issue(s) ==
    /\ row[s].state = "absent"
    /\ \E token \in BOOLEAN :
          /\ row' = [row EXCEPT ![s].state = "stored", ![s].token = token]
          /\ events' = [events EXCEPT ![s] = <<[type |-> "issued", token |-> token]>>]
    /\ UNCHANGED <<visit, action, cleanup, actions>>

\* Time passes: expires_at, or retention_days after the end of the session.
Age(s) ==
    /\ Stored(s)
    /\ row[s].age # "due"
    /\ row' = [row EXCEPT ![s].age =
                 IF row[s].age = "live" /\ ~row[s].revoked THEN "expired" ELSE "due"]
    /\ UNCHANGED <<events, visit, action, cleanup, actions>>

-----------------------------------------------------------------------------
(* The session's own browser *)

\* resolve: the flush of last_seen_at holds the row until the commit.
Touch(s) ==
    /\ visit[s].phase = "none"
    /\ Active(s)
    /\ s \notin LockedRows
    /\ visit' = [visit EXCEPT ![s].phase = "touching"]
    /\ UNCHANGED <<row, events, action, cleanup, actions>>

EndTouch(s) ==
    /\ visit[s].phase = "touching"
    /\ visit' = [visit EXCEPT ![s] = NoVisit]
    /\ UNCHANGED <<row, events, action, cleanup, actions>>

\* The middleware has resolved the session of a logout request.
BeginLogout(s) ==
    /\ visit[s].phase = "none"
    /\ Active(s)
    /\ visit' = [visit EXCEPT ![s].phase = "resolved"]
    /\ UNCHANGED <<row, events, action, cleanup, actions>>

\* revoke reads the row again, without a lock.
LoadLogout(s) ==
    /\ visit[s].phase = "resolved"
    /\ visit' = [visit EXCEPT ![s] = IF Stored(s) /\ ~row[s].revoked
                                     THEN [phase |-> "loaded", token |-> row[s].token]
                                     ELSE NoVisit]
    /\ UNCHANGED <<row, events, action, cleanup, actions>>

\* Mutant of CommitLogout: the event is committed without the row.
CommitLogoutUnconditional(s) ==
    /\ visit[s].phase = "loaded"
    /\ s \notin LockedRows
    /\ row' = [row EXCEPT ![s].revoked = TRUE, ![s].age = "live",
                          ![s].token = @ /\ ~visit[s].token]
    /\ events' = [events EXCEPT ![s] =
                    Append(@, [type |-> "revoked", token |-> visit[s].token])]
    /\ visit' = [visit EXCEPT ![s] = NoVisit]
    /\ UNCHANGED <<action, cleanup, actions>>

\* The commit waits for the row's lock; an update that finds no row fails
\* and leaves no event.
CommitLogout(s) ==
    /\ visit[s].phase = "loaded"
    /\ s \notin LockedRows
    /\ IF Stored(s)
       THEN /\ row' = [row EXCEPT ![s].revoked = TRUE, ![s].age = "live",
                                  ![s].token = @ /\ ~visit[s].token]
            /\ events' = [events EXCEPT ![s] =
                            Append(@, [type |-> "revoked", token |-> visit[s].token])]
       ELSE UNCHANGED <<row, events>>
    /\ visit' = [visit EXCEPT ![s] = NoVisit]
    /\ UNCHANGED <<action, cleanup, actions>>

-----------------------------------------------------------------------------
(* Administrators *)

\* The session the request itself came with, if it came with one.
Current(s) == s = NoCurrent \/ (s \in BrowserSessions /\ Active(s))

Hold(a, rows, current) ==
    /\ action' = [action EXCEPT ![a] = [phase |-> "locked", rows |-> rows,
                                        current |-> current]]
    /\ actions' = actions + 1
    /\ UNCHANGED <<row, events, visit, cleanup>>

\* revoke_browser_session waits for the row, and refuses the own session.
LockOne(a) ==
    /\ action[a].phase = "none"
    /\ actions < MaxAdminActions
    /\ \E s \in BrowserSessions, current \in BrowserSessions \cup {NoCurrent} :
          s # current /\ Available(s) /\ Current(current) /\ Hold(a, {s}, current)

\* revoke_subject_sessions and revoke_provider_sessions take the rows that
\* are free.
LockGroup(a) ==
    /\ action[a].phase = "none"
    /\ actions < MaxAdminActions
    /\ \E group \in Groups, current \in BrowserSessions \cup {NoCurrent} :
          Current(current) /\ Hold(a, {s \in group : Available(s)}, current)

\* The event for a row that an administrator ends or clears.
Ended(s) ==
    IF Active(s) THEN [type |-> "revoked", token |-> row[s].token]
    ELSE [type |-> "provider_token_purged", token |-> TRUE]

\* _revoke_rows: active rows are revoked, inactive ones lose their token.
Revoke(a) ==
    /\ action[a].phase = "locked"
    /\ LET changed == {s \in action[a].rows \ {action[a].current} :
                         Active(s) \/ row[s].token}
       IN  /\ row' = [s \in BrowserSessions |->
                        IF s \in changed
                        THEN [row[s] EXCEPT !.token = FALSE, !.revoked = @ \/ Active(s)]
                        ELSE row[s]]
           /\ events' = [s \in BrowserSessions |->
                           IF s \in changed THEN Append(events[s], Ended(s)) ELSE events[s]]
    /\ action' = [action EXCEPT ![a] = NoAction]
    /\ UNCHANGED <<visit, cleanup, actions>>

-----------------------------------------------------------------------------
(* cleanup_browser_sessions *)

\* A full batch of the candidates, or all of them.
Batch(candidates) ==
    {batch \in SUBSET candidates :
       Cardinality(batch) = IF Cardinality(candidates) < CleanupBatch
                            THEN Cardinality(candidates) ELSE CleanupBatch}

\* observed_at is taken once; then the rows past their retention are locked.
LockDue(c) ==
    /\ cleanup[c].phase = "none"
    /\ \E batch \in Batch({s \in BrowserSessions : Available(s) /\ row[s].age = "due"}) :
          cleanup' = [cleanup EXCEPT ![c] =
                        [phase |-> "selected", delete |-> batch, purge |-> {},
                         expired |-> {s \in BrowserSessions : row[s].age # "live"}]]
    /\ UNCHANGED <<row, events, visit, action, actions>>

\* Mutant of Purgeable: only revoked sessions lose their token.
PurgeableRevoked(c, s) == row[s].token /\ row[s].revoked

Purgeable(c, s) == row[s].token /\ (row[s].revoked \/ s \in cleanup[c].expired)

LockPurgeable(c) ==
    /\ cleanup[c].phase = "selected"
    /\ \E batch \in Batch({s \in BrowserSessions \ cleanup[c].delete :
                             Available(s) /\ Purgeable(c, s)}) :
          cleanup' = [cleanup EXCEPT ![c].phase = "locked", ![c].purge = batch]
    /\ UNCHANGED <<row, events, visit, action, actions>>

CommitCleanup(c) ==
    /\ cleanup[c].phase = "locked"
    /\ row' = [s \in BrowserSessions |->
                 IF s \in cleanup[c].delete
                 THEN [row[s] EXCEPT !.state = "deleted", !.token = FALSE]
                 ELSE IF s \in cleanup[c].purge THEN [row[s] EXCEPT !.token = FALSE]
                 ELSE row[s]]
    /\ events' = [s \in BrowserSessions |->
                    IF s \in cleanup[c].delete
                    THEN Append(events[s], [type |-> "retention_deleted",
                                            token |-> row[s].token])
                    ELSE IF s \in cleanup[c].purge
                    THEN Append(events[s], [type |-> "provider_token_purged",
                                            token |-> TRUE])
                    ELSE events[s]]
    /\ cleanup' = [cleanup EXCEPT ![c] = NoCleanup]
    /\ UNCHANGED <<visit, action, actions>>

-----------------------------------------------------------------------------

OidcNext ==
    \/ \E s \in BrowserSessions : Issue(s)
    \/ \E s \in BrowserSessions : Age(s)
    \/ \E s \in BrowserSessions : Touch(s)
    \/ \E s \in BrowserSessions : EndTouch(s)
    \/ \E s \in BrowserSessions : BeginLogout(s)
    \/ \E s \in BrowserSessions : LoadLogout(s)
    \/ \E s \in BrowserSessions : CommitLogout(s)
    \/ \E a \in Admins : LockOne(a)
    \/ \E a \in Admins : LockGroup(a)
    \/ \E a \in Admins : Revoke(a)
    \/ \E c \in Cleaners : LockDue(c)
    \/ \E c \in Cleaners : LockPurgeable(c)
    \/ \E c \in Cleaners : CommitCleanup(c)

OidcSpec == OidcInit /\ [][OidcNext]_oidcVars

\* Transactions end, and the scheduled cleanup comes round.
OidcFairness ==
    /\ \A s \in BrowserSessions :
          WF_oidcVars(EndTouch(s)) /\ WF_oidcVars(LoadLogout(s)) /\ WF_oidcVars(CommitLogout(s))
    /\ \A a \in Admins : WF_oidcVars(Revoke(a))
    /\ \A c \in Cleaners : /\ WF_oidcVars(LockDue(c))
                           /\ WF_oidcVars(LockPurgeable(c))
                           /\ WF_oidcVars(CommitCleanup(c))

OidcFairSpec == OidcSpec /\ OidcFairness

-----------------------------------------------------------------------------
(* Properties *)

Events(s) == {events[s][i] : i \in DOMAIN events[s]}

\* Rows, events and open transactions are well formed, and no row is locked
\* by two transactions at once.
OidcTypeOK ==
    /\ row \in [BrowserSessions -> SessionRow]
    /\ \A s \in BrowserSessions : Events(s) \subseteq Event
    /\ visit \in [BrowserSessions -> Visit]
    /\ action \in [Admins -> Action]
    /\ cleanup \in [Cleaners -> Cleanup]
    /\ actions \in 0..MaxAdminActions
    /\ \A a, b \in Admins : a = b \/ action[a].rows \cap action[b].rows = {}

\* Deleting a session is the last thing its log tells, and it tells it once:
\* a second cleanup skips the row, a waiting administrator and a logout that
\* had read it find it gone.
DeletionEndsTheLog(s) ==
    LET deletions == {i \in DOMAIN events[s] : events[s][i].type = "retention_deleted"}
    IN  deletions = IF row[s].state = "deleted" THEN {Len(events[s])} ELSE {}

\* A provider token left the row with an event that says so, and a row is
\* revoked if its log says so.
LogTellsTheRow(s) ==
    /\ row[s].token <=> /\ events[s][1].token
                        /\ \A i \in 2..Len(events[s]) : ~events[s][i].token
    /\ row[s].revoked <=> \E e \in Events(s) : e.type = "revoked"
    /\ row[s].revoked => ~row[s].token

\* The event log of a browser session is true of its row, although logout,
\* administrators and cleanups end sessions, clear tokens and delete rows on
\* different paths, some on a copy of the row that was read without a lock.
SessionLogsAreTrue ==
    \A s \in BrowserSessions : DeletionEndsTheLog(s) /\ (Stored(s) => LogTellsTheRow(s))

\* The token of a session that expired is purged, although the cleanup skips
\* rows that are locked and takes only a batch at a time.
ExpiredTokensArePurged ==
    \A s \in BrowserSessions :
       (row[s].token /\ row[s].age # "live") ~> ~row[s].token
=============================================================================
