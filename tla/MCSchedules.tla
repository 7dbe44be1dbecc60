---------------------------- MODULE MCSchedules ----------------------------
(* Small instances of components that keep no state in common and whose    *)
(* work must come to an end, checked together: a behaviour runs one of     *)
(* them, and the others stay as they began.  The gate and the releases are *)
(* one component in two instances: two sessions that evaluate and nothing  *)
(* signed, or one session (s1) and releases.                               *)
EXTENDS ReleaseDecisions, TrustSourceSchedule, PagingDelivery, OidcSessions

CONSTANTS p1, s1, s2, c1, b1, b2, ad1, cl1, g1, g2

VARIABLE part   \* the component that runs; the others stay as they began

Parts == {"gate", "releases", "schedule", "paging", "sessions"}

SchedulesInit ==
    /\ part \in Parts
    /\ ReleaseInit
    /\ ScheduleInit
    /\ PagingInit
    /\ OidcInit

\* Under the releases one session evaluates, and no review is requested, which
\* flags a release anyway.
ReleaseBounds ==
    /\ tx[s2] = Idle
    /\ \A c \in Clients : request[c].action # "review_requested"

SchedulesNext ==
    \/ /\ part = "gate"
       /\ Next
       /\ UNCHANGED <<part, decisions, request, scheduleVars, pagingVars, oidcVars>>
    \/ /\ part = "releases"
       /\ Next
       /\ ReleaseBounds'
       /\ UNCHANGED <<part, scheduleVars, pagingVars, oidcVars>>
    \/ /\ part = "schedule"
       /\ ScheduleNext
       /\ UNCHANGED <<part, vars, pagingVars, oidcVars>>
    \/ /\ part = "paging"
       /\ PagingNext
       /\ UNCHANGED <<part, vars, scheduleVars, oidcVars>>
    \/ /\ part = "sessions"
       /\ OidcNext
       /\ UNCHANGED <<part, vars, scheduleVars, pagingVars>>

SchedulesVars == <<part, vars, scheduleVars, pagingVars, oidcVars>>

\* The fairness of each component, while it is the one that runs.
SchedulesFairness ==
    /\ WF_vars(part \in {"gate", "releases"} /\ ReconcileRead(Worker) /\ UNCHANGED releaseVars)
    /\ SF_vars(part \in {"gate", "releases"} /\ ReconcileAndRecord(Worker))
    /\ \A o \in Sessions : WF_vars(part \in {"gate", "releases"} /\ EndEvaluation(o))
    /\ WF_scheduleVars(part = "schedule" /\ CommitChange)
    /\ WF_scheduleVars(part = "schedule" /\ (Adopt \/ EnqueueRun))
    /\ WF_scheduleVars(part = "schedule" /\ ScheduleLeaseRunsOut)
    /\ \A n \in RunNumbers : /\ WF_scheduleVars(part = "schedule" /\ TakeRun(n))
                             /\ WF_scheduleVars(part = "schedule" /\ Works(n))
    /\ \A p \in Pages : /\ WF_pagingVars(part = "paging" /\ EnqueuePage(p))
                        /\ WF_pagingVars(part = "paging" /\ ClaimPage(p))
                        /\ WF_pagingVars(part = "paging" /\ PostPage(p))
                        /\ WF_pagingVars(part = "paging" /\ RecordPage(p))
                        /\ WF_pagingVars(part = "paging" /\ FinishPage(p))
    /\ \A s \in BrowserSessions : /\ WF_oidcVars(part = "sessions" /\ EndTouch(s))
                                  /\ WF_oidcVars(part = "sessions" /\ LoadLogout(s))
                                  /\ WF_oidcVars(part = "sessions" /\ CommitLogout(s))
    /\ \A a \in Admins : WF_oidcVars(part = "sessions" /\ Revoke(a))
    /\ \A c \in Cleaners : /\ WF_oidcVars(part = "sessions" /\ LockDue(c))
                           /\ WF_oidcVars(part = "sessions" /\ LockPurgeable(c))
                           /\ WF_oidcVars(part = "sessions" /\ CommitCleanup(c))

SchedulesSpec == SchedulesInit /\ [][SchedulesNext]_SchedulesVars /\ SchedulesFairness

\* Every variable of every component keeps its type.
SchedulesTypeOK ==
    /\ TypeOK
    /\ ScheduleTypeOK
    /\ PagingTypeOK
=============================================================================
