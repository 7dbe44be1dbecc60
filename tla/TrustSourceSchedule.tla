------------------------ MODULE TrustSourceSchedule ------------------------
(***************************************************************************)
(* The schedule of one trust source: operators who change it or ask for a  *)
(* run, the scheduler that enqueues due runs as jobs of the queue, and the *)
(* workers that synchronise the source                                     *)
(* (backend/app/services/trust_source_scheduler.py and                     *)
(*  trust_source_sync.py).                                                 *)
(*                                                                         *)
(* Every run is a job of its own.  The queue appears as JobLifecycle shows *)
(* it to its users, with the cancellation of queued jobs added: a job is   *)
(* queued, held by a worker, or ended, and a held job whose worker died is *)
(* queued again or fails.  Heartbeats arrive in time, so a living worker   *)
(* keeps its job.                                                          *)
(***************************************************************************)
EXTENDS Naturals

CONSTANTS
    MaxRuns,      \* bound of the model on run_sequence
    SyncAttempts, \* max_attempts of the schedule
    MaxChanges    \* bound of the model on operator requests

ASSUME ScheduleAssumption ==
    /\ MaxRuns \in Nat \ {0}
    /\ SyncAttempts \in Nat \ {0}
    /\ MaxChanges \in Nat

VARIABLES
    schedule,  \* the evidence_trust_source_schedules row
    runs,      \* runs[n]: the job of run_sequence n
    worker,    \* worker[n]: how far the holder of job n is
    change,    \* the operator transaction that has locked the schedule
    changes,   \* operator transactions begun
    asked      \* a run was asked for and has not been attempted since

scheduleVars == <<schedule, runs, worker, change, changes, asked>>

-----------------------------------------------------------------------------
(* Rows *)

RunNumbers == 1..MaxRuns

\* due: next_run_at <= now.  lease is lease_expires_at against now, holder is
\* the run whose lease_token_hash is on the row, 0 for NULL.
Schedule == [enabled: BOOLEAN, due: BOOLEAN, policy: {1, 2},
             sequence: 0..MaxRuns, lease: {"none", "live", "due"},
             holder: 0..MaxRuns]

JobRow == [status: {"absent", "queued", "held", "completed", "failed", "cancelled"},
           left: 0..SyncAttempts, policy: {1, 2}]

\* none: nobody; taken: claimed, before the lineage check; a member of Result:
\* the sync is committed and the schedule will be locked again; done, again,
\* rejected: the job returned, raised to be retried, or raised for good.
Result == {"succeeded", "retryable", "permanent"}
Phase == {"none", "taken"} \cup Result \cup {"done", "again", "rejected"}

NoChange == [kind |-> "none", cancels |-> 0]
Changes == [kind: {"none", "enable", "enable_now", "disable", "run"},
            cancels: 0..MaxRuns]

\* last_job_id: every run number is enqueued with its job in one commit.
LastJob == schedule.sequence

ActiveRun(n) == n # 0 /\ runs[n].status \in {"queued", "held"}

\* Mutant of Unleased: the fingerprint stays.
UnleasedKeepsHolder(row) == [row EXCEPT !.lease = "none"]

\* _clear_schedule_lease
Unleased(row) == [row EXCEPT !.lease = "none", !.holder = 0]

ScheduleInit ==
    /\ schedule = [enabled |-> TRUE, due |-> FALSE, policy |-> 1, sequence |-> 0,
                   lease |-> "none", holder |-> 0]
    /\ runs = [n \in RunNumbers |-> [status |-> "absent", left |-> 0, policy |-> 1]]
    /\ worker = [n \in RunNumbers |-> "none"]
    /\ change = NoChange
    /\ changes = 0
    /\ asked = FALSE

-----------------------------------------------------------------------------
(* Operators *)

\* Mutant of BeginChange: a held job does not reject the change.
BeginChangeUnchecked(kind) ==
    /\ change = NoChange
    /\ changes < MaxChanges
    /\ kind = "run" => schedule.enabled
    /\ change' = [kind |-> kind, cancels |-> IF ActiveRun(LastJob) THEN LastJob ELSE 0]
    /\ changes' = changes + 1
    /\ UNCHANGED <<schedule, runs, worker, asked>>

\* upsert_evidence_trust_source_schedule and
\* request_evidence_trust_source_schedule_run lock the schedule and read its
\* last job without a lock: a queued job will be cancelled, a held one rejects
\* the request.
BeginChange(kind) ==
    /\ change = NoChange
    /\ changes < MaxChanges
    /\ kind = "run" => schedule.enabled
    /\ ~(LastJob # 0 /\ runs[LastJob].status = "held")
    /\ change' = [kind |-> kind, cancels |-> IF ActiveRun(LastJob) THEN LastJob ELSE 0]
    /\ changes' = changes + 1
    /\ UNCHANGED <<schedule, runs, worker, asked>>

\* Mutant of NextPolicyRun: the new interval starts from now.
NextPolicyRunRestarts(kind) == kind \in {"enable_now", "run"}

\* _next_policy_run_at: is the schedule due after the change?
NextPolicyRun(kind) ==
    \/ kind \in {"enable_now", "run"}
    \/ kind = "enable" /\ schedule.enabled /\ schedule.due

\* The change commits.  The job it read is cancelled whatever it is by now.
CommitChange ==
    /\ change # NoChange
    /\ LET kind == change.kind IN
         /\ \E policy \in IF kind = "run" THEN {schedule.policy} ELSE {1, 2} :
               schedule' = [Unleased(schedule) EXCEPT
                              !.enabled = (kind # "disable"),
                              !.due = NextPolicyRun(kind),
                              !.policy = policy]
         /\ asked' = (kind # "disable" /\ (asked \/ kind \in {"enable_now", "run"}))
    /\ runs' = IF change.cancels = 0
               THEN runs ELSE [runs EXCEPT ![change.cancels].status = "cancelled"]
    /\ change' = NoChange
    /\ UNCHANGED <<worker, changes>>

\* requeue_agent_job on a failed run.
RequeueRun(n) ==
    /\ changes < MaxChanges
    /\ runs[n].status = "failed"
    /\ runs' = [runs EXCEPT ![n].status = "queued", ![n].left = SyncAttempts]
    /\ changes' = changes + 1
    /\ UNCHANGED <<schedule, worker, change, asked>>

-----------------------------------------------------------------------------
(* The scheduler *)

Free == change = NoChange

EnqueueableNow ==
    /\ Free                      \* SKIP LOCKED
    /\ schedule.enabled
    /\ schedule.due
    /\ schedule.lease # "live"

\* enqueue_due_trust_source_sync_jobs, last job still active: its lease is
\* taken up again.
Adopt ==
    /\ EnqueueableNow
    /\ ActiveRun(LastJob)
    /\ schedule' = [schedule EXCEPT !.lease = "live", !.holder = LastJob]
    /\ UNCHANGED <<runs, worker, change, changes, asked>>

\* ... and otherwise: a new run with its job and its lease.
EnqueueRun ==
    /\ EnqueueableNow
    /\ ~ActiveRun(LastJob)
    /\ schedule.sequence < MaxRuns
    /\ LET n == schedule.sequence + 1 IN
         /\ schedule' = [schedule EXCEPT !.sequence = n, !.lease = "live", !.holder = n]
         /\ runs' = [runs EXCEPT ![n] = [status |-> "queued", left |-> SyncAttempts,
                                         policy |-> schedule.policy]]
    /\ UNCHANGED <<worker, change, changes, asked>>

-----------------------------------------------------------------------------
(* Workers *)

TakeRun(n) ==
    /\ runs[n].status = "queued"
    /\ runs[n].left > 0
    /\ runs' = [runs EXCEPT ![n].status = "held", ![n].left = @ - 1]
    /\ worker' = [worker EXCEPT ![n] = "taken"]
    /\ UNCHANGED <<schedule, change, changes, asked>>

\* A job that was cancelled under its worker: either the worker's check of
\* the lease notices, or its late "running" writes over it.
NoticeCancelled(n) ==
    /\ worker[n] = "taken"
    /\ runs[n].status = "cancelled"
    /\ \/ worker' = [worker EXCEPT ![n] = "none"] /\ UNCHANGED runs
       \/ runs' = [runs EXCEPT ![n].status = "held"] /\ UNCHANGED worker
    /\ UNCHANGED <<schedule, change, changes, asked>>

\* lineage_matches.  The fingerprint tells runs apart and outlives the lease's
\* expiry; run_sequence and last_job_id move together.
Lineage(n) ==
    /\ schedule.enabled
    /\ LastJob = n
    /\ schedule.policy = runs[n].policy
    /\ schedule.holder = n

\* execute_trust_source_sync_job, lineage changed: the run is skipped and,
\* if it is the last one, the schedule is made due again.
SkipRun(n) ==
    /\ worker[n] = "taken"
    /\ runs[n].status = "held"
    /\ Free
    /\ ~Lineage(n)
    /\ schedule' = IF LastJob = n
                   THEN [Unleased(schedule) EXCEPT !.due = TRUE] ELSE schedule
    /\ worker' = [worker EXCEPT ![n] = "done"]
    /\ UNCHANGED <<runs, change, changes, asked>>

\* ... lineage intact: the sync commits its record and with it releases the
\* schedule, or raises before there is a record.
Synchronize(n) ==
    /\ worker[n] = "taken"
    /\ runs[n].status = "held"
    /\ Free
    /\ Lineage(n)
    /\ \E phase \in Result \cup {"rejected"} : worker' = [worker EXCEPT ![n] = phase]
    /\ asked' = FALSE
    /\ UNCHANGED <<schedule, runs, change, changes>>

\* How the job ends after a sync with this result.
Raised(result) ==
    IF result = "succeeded" THEN "done"
    ELSE IF result = "retryable" THEN "again" ELSE "rejected"

\* The schedule is locked again and written, whatever happened to it since: a
\* failure with attempts left extends the lease over the retry, success and a
\* final failure end the lease and set the next run.
RecordSync(n) ==
    \E result \in Result :
        /\ worker[n] = result
        /\ Free
        /\ schedule' = IF result = "retryable" /\ runs[n].left > 0
                       THEN [schedule EXCEPT !.lease = "live"]
                       ELSE [Unleased(schedule) EXCEPT !.due = FALSE]
        /\ worker' = [worker EXCEPT ![n] = Raised(result)]
        /\ UNCHANGED <<runs, change, changes, asked>>

\* process_claimed_agent_job writes the outcome of the job.
FinishRun(n) ==
    /\ \/ /\ worker[n] = "done"
          /\ runs' = [runs EXCEPT ![n].status = "completed"]
       \/ /\ worker[n] = "again"
          /\ runs[n].left > 0
          /\ runs' = [runs EXCEPT ![n].status = "queued"]
       \/ /\ worker[n] = "rejected" \/ (worker[n] = "again" /\ runs[n].left = 0)
          /\ runs' = [runs EXCEPT ![n].status = "failed"]
    /\ worker' = [worker EXCEPT ![n] = "none"]
    /\ UNCHANGED <<schedule, change, changes, asked>>

\* The queue recovers the job of a worker that died.
RecoverRun(n) ==
    /\ runs[n].status = "held"
    /\ worker[n] = "none"
    /\ runs' = [runs EXCEPT ![n].status = IF runs[n].left > 0 THEN "queued" ELSE "failed"]
    /\ UNCHANGED <<schedule, worker, change, changes, asked>>

\* A worker dies.
KillWorker(n) ==
    /\ worker[n] # "none"
    /\ worker' = [worker EXCEPT ![n] = "none"]
    /\ UNCHANGED <<schedule, runs, change, changes, asked>>

-----------------------------------------------------------------------------
(* Time *)

BecomeDue ==
    /\ ~schedule.due
    /\ schedule' = [schedule EXCEPT !.due = TRUE]
    /\ UNCHANGED <<runs, worker, change, changes, asked>>

ScheduleLeaseRunsOut ==
    /\ schedule.lease = "live"
    /\ schedule' = [schedule EXCEPT !.lease = "due"]
    /\ UNCHANGED <<runs, worker, change, changes, asked>>

-----------------------------------------------------------------------------
ScheduleNext ==
    \/ \E kind \in {"enable", "enable_now", "disable", "run"} : BeginChange(kind)
    \/ CommitChange
    \/ \E n \in RunNumbers : RequeueRun(n)
    \/ Adopt
    \/ EnqueueRun
    \/ \E n \in RunNumbers : TakeRun(n)
    \/ \E n \in RunNumbers : NoticeCancelled(n)
    \/ \E n \in RunNumbers : SkipRun(n)
    \/ \E n \in RunNumbers : Synchronize(n)
    \/ \E n \in RunNumbers : RecordSync(n)
    \/ \E n \in RunNumbers : FinishRun(n)
    \/ \E n \in RunNumbers : RecoverRun(n)
    \/ \E n \in RunNumbers : KillWorker(n)
    \/ BecomeDue
    \/ ScheduleLeaseRunsOut

ScheduleSpec == ScheduleInit /\ [][ScheduleNext]_scheduleVars

\* One worker stays up: it scans for due schedules in every turn of its loop
\* and works the jobs of the queue; transactions end and time passes.
Works(n) ==
    \/ NoticeCancelled(n) \/ SkipRun(n) \/ Synchronize(n)
    \/ RecordSync(n) \/ FinishRun(n) \/ RecoverRun(n)

ScheduleFairness ==
    /\ WF_scheduleVars(CommitChange)
    /\ WF_scheduleVars(Adopt \/ EnqueueRun)
    /\ WF_scheduleVars(ScheduleLeaseRunsOut)
    /\ \A n \in RunNumbers : WF_scheduleVars(TakeRun(n)) /\ WF_scheduleVars(Works(n))

ScheduleFairSpec == ScheduleSpec /\ ScheduleFairness

-----------------------------------------------------------------------------
(* Properties *)

\* Every variable keeps its type, and lease and fingerprint come and go
\* together.
ScheduleTypeOK ==
    /\ schedule \in Schedule
    /\ runs \in [RunNumbers -> JobRow]
    /\ worker \in [RunNumbers -> Phase]
    /\ change \in Changes
    /\ changes \in 0..MaxChanges
    /\ asked \in BOOLEAN
    /\ schedule.lease = "none" <=> schedule.holder = 0

\* execute_trust_source_sync_job checks the lineage of a run once, lets the
\* sync commit and then writes the schedule without a second check.  It need
\* not check: while a run is between the two, no operator change, scheduler
\* or other run touches the schedule, so the result is written to the run,
\* policy and lease it was obtained under, and two syncs never overlap.
LineageStillHolds ==
    \A n \in RunNumbers : worker[n] \in Result => Lineage(n)

\* A run somebody asked for (run_immediately, or the run request) leads to an
\* attempt to synchronise, whatever is cancelled, skipped, retried, lost with
\* its worker or left behind by an expired schedule lease, unless the
\* schedule is disabled first.
RequestedRunsHappen ==
    asked ~> (~asked \/ schedule.sequence = MaxRuns)
=============================================================================
