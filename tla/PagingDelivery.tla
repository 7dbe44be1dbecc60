--------------------------- MODULE PagingDelivery ---------------------------
(***************************************************************************)
(* The outbox pages of the operational alerts, the jobs that send them,    *)
(* and the provider that receives them                                     *)
(* (backend/app/services/operational_reliability/paging.py, and the        *)
(*  capture and delivery jobs of agent_jobs.py).                           *)
(*                                                                         *)
(* One worker at a time executes a job here: the lease outlives the        *)
(* bounded request.  What a lost lease does is in AgentJobs.               *)
(***************************************************************************)
EXTENDS Naturals

CONSTANTS
    Pages,         \* rows of operational_alert_deliveries
    PageAttempts,  \* max_attempts of a delivery job
    MaxPageCrashes,\* bound of the model on crashes
    MaxRequeues    \* bound of the model on requeues

ASSUME PagingAssumption ==
    /\ PageAttempts \in Nat \ {0}
    /\ MaxPageCrashes \in Nat
    /\ MaxRequeues \in Nat

VARIABLES
    delivery,     \* delivery[p]: status of the row
    pageJob,      \* pageJob[p]: status and attempts of its job
    pending,      \* pages of a committed capture that have no job yet
    post,         \* post[p]: how far the running job of p is
    acceptances,  \* acceptances[p]: how often the provider accepted p
    orphans,      \* pages whose capture ended before their job was queued
    pageCrashes,
    requeues

pagingVars == <<delivery, pageJob, pending, post, acceptances, orphans, pageCrashes, requeues>>

-----------------------------------------------------------------------------
\* Answers of one attempt: what execute_operational_alert_delivery meets.
\*   misconfigured, oversized: raised as permanent
\*   refused:       HTTP 4xx other than 408 and 429
\*   cut:           HTTP 4xx whose body cannot be read to its end
\*   unreachable:   transport error, HTTP 5xx, 408, 429, or no key or CA file
\*   unconfirmed:   accepted, but the receipt is invalid
Answer == {"misconfigured", "oversized", "refused", "cut", "unreachable", "unconfirmed", "accepted"}

NoPost == [step |-> "none", answer |-> "none"]

PagingInit ==
    /\ delivery = [p \in Pages |-> "absent"]
    /\ pageJob = [p \in Pages |-> [status |-> "none", attempts |-> 0]]
    /\ pending = {}
    /\ post = [p \in Pages |-> NoPost]
    /\ acceptances = [p \in Pages |-> 0]
    /\ orphans = {}
    /\ pageCrashes = 0
    /\ requeues = 0

\* A capture commits the pages of its transitions; a test page is one alone.
CommitPages(S) ==
    /\ pending = {}
    /\ S # {}
    /\ \A p \in S : delivery[p] = "absent"
    /\ delivery' = [p \in Pages |-> IF p \in S THEN "queued" ELSE delivery[p]]
    /\ pending' = S
    /\ UNCHANGED <<pageJob, post, acceptances, orphans, pageCrashes, requeues>>

\* enqueue_operational_alert_delivery_job, one page after the other; writing
\* delivery_job_id is left out: the dedupe key finds the job as well.
EnqueuePage(p) ==
    /\ p \in pending
    /\ pending' = pending \ {p}
    /\ pageJob' = [pageJob EXCEPT ![p].status = "queued"]
    /\ UNCHANGED <<delivery, post, acceptances, orphans, pageCrashes, requeues>>

\* The process ends in between.  The capture job is run again, finds the
\* snapshot of its bucket and returns no pages.
CrashCapture ==
    /\ pending # {}
    /\ pageCrashes < MaxPageCrashes
    /\ pageCrashes' = pageCrashes + 1
    /\ orphans' = orphans \cup pending
    /\ pending' = {}
    /\ UNCHANGED <<delivery, pageJob, post, acceptances, requeues>>

-----------------------------------------------------------------------------
(* One execution of a delivery job *)

\* claim_agent_job
ClaimPage(p) ==
    /\ pageJob[p].status = "queued"
    /\ pageJob[p].attempts < PageAttempts
    /\ pageJob' = [pageJob EXCEPT ![p] = [status |-> "running", attempts |-> @.attempts + 1]]
    /\ post' = [post EXCEPT ![p] = [step |-> "claimed", answer |-> "none"]]
    /\ UNCHANGED <<delivery, pending, acceptances, orphans, pageCrashes, requeues>>

\* Mutant of Replays: a delivered row is sent again.
ReplaysNever(p) == FALSE

Replays(p) == delivery[p] = "delivered"

\* The row is locked; a delivered one is answered, any other posted under the
\* delivery id.  The provider may accept what never gets its receipt back.
PostPage(p) ==
    /\ post[p].step = "claimed"
    /\ \/ /\ Replays(p)
          /\ post' = [post EXCEPT ![p] = [step |-> "recorded", answer |-> "accepted"]]
          /\ UNCHANGED acceptances
       \/ /\ ~Replays(p)
          /\ \E a \in Answer :
               /\ post' = [post EXCEPT ![p] = [step |-> "answered", answer |-> a]]
               /\ IF a \in {"accepted", "unconfirmed"} /\ acceptances[p] < PageAttempts
                  THEN acceptances' = [acceptances EXCEPT ![p] = @ + 1]
                  ELSE UNCHANGED acceptances
    /\ UNCHANGED <<delivery, pageJob, pending, orphans, pageCrashes, requeues>>

\* permanent, as the call of _record_delivery_failure for the answer says.
Permanent(a) == a \in {"misconfigured", "oversized", "cut"}

Recorded(p, a) ==
    IF a = "accepted" THEN "delivered"
    ELSE IF Permanent(a) \/ pageJob[p].attempts >= PageAttempts THEN "failed" ELSE "queued"

\* The commit of the success or of _record_delivery_failure.
RecordPage(p) ==
    /\ post[p].step = "answered"
    /\ delivery' = [delivery EXCEPT ![p] = Recorded(p, post[p].answer)]
    /\ post' = [post EXCEPT ![p].step = "recorded"]
    /\ UNCHANGED <<pageJob, pending, acceptances, orphans, pageCrashes, requeues>>

\* Answers raised as a DomainValidationError, which ends the job.
Fatal(a) == a \in {"misconfigured", "oversized", "refused"}

Outcome(p, a) ==
    IF a = "accepted" THEN "completed"
    ELSE IF Fatal(a) \/ pageJob[p].attempts >= PageAttempts THEN "failed" ELSE "queued"

\* process_claimed_agent_job writes the outcome of the job.
FinishPage(p) ==
    /\ post[p].step = "recorded"
    /\ pageJob' = [pageJob EXCEPT ![p].status = Outcome(p, post[p].answer)]
    /\ post' = [post EXCEPT ![p].step = "none"]
    /\ UNCHANGED <<delivery, pending, acceptances, orphans, pageCrashes, requeues>>

\* Mutant of Recovered: only the last attempt is given up by recovery.
RecoveredNever(p) == IF pageJob[p].attempts >= PageAttempts THEN "failed" ELSE "running"

\* _recover_expired_leases
Recovered(p) == IF pageJob[p].attempts >= PageAttempts THEN "failed" ELSE "queued"

\* The worker dies at any point of the execution; its lease expires.
CrashPage(p) ==
    /\ post[p].step # "none"
    /\ pageCrashes < MaxPageCrashes
    /\ pageCrashes' = pageCrashes + 1
    /\ pageJob' = [pageJob EXCEPT ![p].status = Recovered(p)]
    /\ post' = [post EXCEPT ![p] = NoPost]
    /\ UNCHANGED <<delivery, pending, acceptances, orphans, requeues>>

\* requeue_agent_job
RequeuePage(p) ==
    /\ pageJob[p].status = "failed"
    /\ requeues < MaxRequeues
    /\ requeues' = requeues + 1
    /\ pageJob' = [pageJob EXCEPT ![p] = [status |-> "queued", attempts |-> 0]]
    /\ UNCHANGED <<delivery, pending, post, acceptances, orphans, pageCrashes>>

-----------------------------------------------------------------------------
PagingNext ==
    \/ \E S \in SUBSET Pages : CommitPages(S)
    \/ \E p \in Pages : EnqueuePage(p)
    \/ CrashCapture
    \/ \E p \in Pages : ClaimPage(p)
    \/ \E p \in Pages : PostPage(p)
    \/ \E p \in Pages : RecordPage(p)
    \/ \E p \in Pages : FinishPage(p)
    \/ \E p \in Pages : CrashPage(p)
    \/ \E p \in Pages : RequeuePage(p)

PagingSpec == PagingInit /\ [][PagingNext]_pagingVars

\* Workers poll the queue, the request has a timeout, and the capture job goes
\* on until it ends or dies.
PagingFairness ==
    \A p \in Pages :
        /\ WF_pagingVars(EnqueuePage(p))
        /\ WF_pagingVars(ClaimPage(p))
        /\ WF_pagingVars(PostPage(p))
        /\ WF_pagingVars(RecordPage(p))
        /\ WF_pagingVars(FinishPage(p))

PagingFairSpec == PagingSpec /\ PagingFairness

-----------------------------------------------------------------------------
(* Properties *)

\* Every variable keeps its type; a page that is delivered was accepted by the
\* provider, and a job completes only when its page is delivered.
PagingTypeOK ==
    /\ delivery \in [Pages -> {"absent", "queued", "delivered", "failed"}]
    /\ pageJob \in [Pages -> [status: {"none", "queued", "running", "completed", "failed"},
                              attempts: 0..PageAttempts]]
    /\ post \in [Pages -> [step: {"none", "claimed", "answered", "recorded"},
                           answer: Answer \cup {"none"}]]
    /\ pending \cup orphans \subseteq Pages
    /\ \A p \in Pages :
         /\ delivery[p] = "delivered" => acceptances[p] > 0
         /\ pageJob[p].status = "completed" => delivery[p] = "delivered"

\* A delivered page stays delivered and is never posted again, however often
\* its job crashes, is retried or is requeued.
DeliveredIsFinal ==
    [][\A p \in Pages : delivery[p] = "delivered" =>
         delivery'[p] = "delivered" /\ acceptances'[p] = acceptances[p]]_pagingVars

\* Every queued page is eventually delivered or failed, whatever its provider
\* answers, with three exceptions.  The process that captured it died before it
\* had queued the job; or the job is dead and the row still queued, because the
\* worker died in the last attempt, or because the provider refused the page
\* before the last attempt (RefusalsAreRecorded).
PagesSettle ==
    \A p \in Pages : delivery[p] = "queued" ~>
        \/ delivery[p] \in {"delivered", "failed"}
        \/ p \in orphans
        \/ pageJob[p].status = "failed" /\ post[p].answer \in {"refused", "none"}

\* "Configuration and permanent HTTP 4xx failures are recorded as `failed`."
\* (docs/data_contract.md:1263).  The code ends the job of a page that the
\* provider refuses, but records its row as failed only in the last attempt.
RefusalsAreRecorded ==
    \A p \in Pages : post[p].answer = "refused" /\ post[p].step \in {"recorded", "none"} =>
        delivery[p] = "failed"
=============================================================================
