----------------------------- MODULE AgentJobs -----------------------------
(***************************************************************************)
(* The durable job queue of the agent control plane: the rows of           *)
(* agent_execution_jobs, the worker processes that lease them, and the     *)
(* heartbeat thread beside each worker                                     *)
(* (backend/app/services/agent_jobs.py and                                 *)
(*  backend/app/workers/agent_control_worker.py).                          *)
(*                                                                         *)
(* A step is one database transaction, except where the code reads a row   *)
(* without locking it and writes it later: there the read and the write    *)
(* are two steps and the worker keeps what it read in view.  Time is       *)
(* abstract: a lease that is live may run out, and a retry delay may       *)
(* elapse, at any moment.                                                  *)
(***************************************************************************)
EXTENDS Naturals

CONSTANTS
    Jobs,             \* dedupe keys; dedupe_key is UNIQUE, so a key names a row
    NoJob,            \* the NULL of current_job_id
    Workers,          \* worker processes
    Crashable,        \* workers that may be killed or interrupted
    Cancellable,      \* trust_source_sync jobs, the only ones ever cancelled
    Priority,         \* Priority[j]: lower is claimed first
    InitialAttempts,  \* max_attempts given at enqueue
    AttemptCap,       \* the 10 of requeue_agent_job
    RequeueLimits,    \* max_attempts values an operator may ask for
    MaxRequeues,      \* bound of the model on requeue_count
    Stalls            \* may a living worker lose its lease?

ASSUME JobsAssumption ==
    /\ NoJob \notin Jobs
    /\ Crashable \subseteq Workers
    /\ Cancellable \subseteq Jobs
    /\ Priority \in [Jobs -> Nat]
    /\ AttemptCap \in Nat \ {0}
    /\ InitialAttempts \in [Jobs -> 1..AttemptCap]
    /\ RequeueLimits \subseteq Nat
    /\ MaxRequeues \in Nat
    /\ Stalls \in BOOLEAN

VARIABLES
    jobs,       \* jobs[j]: the row with dedupe key j
    claims,     \* claims[j]: leases ever granted for j; a fresh lease_token
    cancelling, \* jobs a schedule change has read as queued and will cancel
    pc,         \* pc[w]: where worker w is in its main loop
    task,       \* task[w]: the job it claimed
    token,      \* token[w]: the lease_token it was given
    view,       \* view[w]: the row as its session last loaded it
    beating,    \* beating[w]: its heartbeat thread is running
    registry    \* registry[w]: its agent_worker_states row

vars == <<jobs, claims, cancelling, pc, task, token, view, beating, registry>>
workerVars == <<pc, task, token, view, beating, registry>>

-----------------------------------------------------------------------------
(* Rows *)

Status == {"absent", "queued", "leased", "running",
           "completed", "failed", "cancelled"}

\* lease_expires_at: NULL, in the future, or not after now.
Lease == {"none", "live", "due"}

Row == [status: Status,
        attempt_count: Nat,
        max_attempts: Nat,
        lease_token: Nat,        \* 0 is NULL
        lease: Lease,
        available: BOOLEAN,      \* available_at <= now
        requeue_count: Nat]

NoRow == [status |-> "absent", attempt_count |-> 0, max_attempts |-> 0,
          lease_token |-> 0, lease |-> "none", available |-> FALSE,
          requeue_count |-> 0]

HeldStatus == {"leased", "running"}

Held(row) == row.status \in HeldStatus

OutOfAttempts(row) == row.attempt_count >= row.max_attempts

\* Mutant of Released: the token is left on the row.
ReleasedKeepsToken(row, status) ==
    [row EXCEPT !.status = status, !.lease = "none"]

\* The lease ends and the row gets a new status.
Released(row, status) ==
    [row EXCEPT !.status = status, !.lease = "none", !.lease_token = 0]

\* _mark_dead_letter
DeadLetter(row) == Released(row, "failed")

\* Mutants of RecoverLease: lease_expires_at is not compared with now; only
\* running rows are looked at.
RecoverAnyLease(row) ==
    IF Held(row) THEN [Released(row, "queued") EXCEPT !.available = TRUE] ELSE row

RecoverRunningOnly(row) ==
    IF row.status = "running" /\ row.lease = "due"
    THEN [Released(row, IF OutOfAttempts(row) THEN "failed" ELSE "queued")
            EXCEPT !.available = TRUE]
    ELSE row

\* _recover_expired_leases, for one row.
RecoverLease(row) ==
    IF Held(row) /\ row.lease = "due"
    THEN IF OutOfAttempts(row)
         THEN DeadLetter(row)
         ELSE [Released(row, "queued") EXCEPT !.available = TRUE]
    ELSE row

\* Mutant of Leased: the attempt is not counted.
LeasedUncounted(row, t) ==
    [row EXCEPT !.status = "leased", !.lease = "live", !.lease_token = t]

\* The columns claim_agent_job and requeue_agent_job set on a row.
Leased(row, t) ==
    [row EXCEPT !.status = "leased", !.lease = "live", !.lease_token = t,
                !.attempt_count = row.attempt_count + 1]

Requeued(row, limit) ==
    [row EXCEPT !.status = "queued", !.available = TRUE, !.lease = "none",
                !.lease_token = 0, !.attempt_count = 0, !.max_attempts = limit,
                !.requeue_count = row.requeue_count + 1]

\* The session writes back the columns that differ from what it loaded.
Flush(row, loaded, target) ==
    [status        |-> IF target.status = loaded.status
                       THEN row.status ELSE target.status,
     attempt_count |-> row.attempt_count,
     max_attempts  |-> row.max_attempts,
     lease_token   |-> IF target.lease_token = loaded.lease_token
                       THEN row.lease_token ELSE target.lease_token,
     lease         |-> IF target.lease = loaded.lease
                       THEN row.lease ELSE target.lease,
     available     |-> row.available,
     requeue_count |-> row.requeue_count]

ClampAttempts(n) == IF n < 1 THEN 1 ELSE IF n > AttemptCap THEN AttemptCap ELSE n

\* Mutant of Ready: attempt_count < max_attempts is not asked for.
ReadyOverBudget(row) == row.status = "queued" /\ row.available

Ready(row) ==
    row.status = "queued" /\ row.available /\ ~OutOfAttempts(row)

\* What the claim query may return: the ready rows of the best priority.
NextJobs(table) ==
    {j \in Jobs : /\ Ready(table[j])
                  /\ \A k \in Jobs : Ready(table[k]) => Priority[j] <= Priority[k]}

-----------------------------------------------------------------------------
(* Workers *)

\* down: no process; idle: polling; claimed: lease granted, not announced;
\* announced: about to check the lease; checked: saw its lease, will write
\* "running"; executing: in _execute_job; completing, failing: loaded the row
\* again, will write the outcome; processed: outcome written, not recorded;
\* stopping: in the finally block of main.
PC == {"down", "idle", "claimed", "announced", "checked", "executing",
       "completing", "rejecting", "failing", "processed", "stopping"}

Working == {"claimed", "announced", "checked", "executing",
            "completing", "rejecting", "failing"}

Registration == [status: {"absent", "online", "stopped"},
                 current_job_id: Jobs \cup {NoJob}]

Online(j) == [status |-> "online", current_job_id |-> j]
Stopped == [status |-> "stopped", current_job_id |-> NoJob]

\* Worker w works under the lease that row j records.
Holds(w, j) ==
    pc[w] \in Working /\ task[w] = j /\ token[w] = jobs[j].lease_token

Init ==
    /\ jobs = [j \in Jobs |-> NoRow]
    /\ claims = [j \in Jobs |-> 0]
    /\ cancelling = {}
    /\ pc = [w \in Workers |-> "down"]
    /\ task = [w \in Workers |-> NoJob]
    /\ token = [w \in Workers |-> 0]
    /\ view = [w \in Workers |-> NoRow]
    /\ beating = [w \in Workers |-> FALSE]
    /\ registry = [w \in Workers |-> [status |-> "absent", current_job_id |-> NoJob]]

-----------------------------------------------------------------------------
(* Requests to the queue *)

\* _enqueue_job: a key that is taken returns the existing row unchanged.
Enqueue(j) ==
    /\ jobs[j].status = "absent"
    /\ jobs' = [jobs EXCEPT ![j] =
                   [@ EXCEPT !.status = "queued", !.available = TRUE,
                             !.max_attempts = InitialAttempts[j]]]
    /\ UNCHANGED <<claims, cancelling, workerVars>>

\* requeue_agent_job: the row is locked, and only failed jobs come back.
Requeue(j) ==
    /\ jobs[j].status = "failed"
    /\ jobs[j].requeue_count < MaxRequeues
    /\ \E limit \in {jobs[j].max_attempts} \cup {ClampAttempts(n) : n \in RequeueLimits} :
         jobs' = [jobs EXCEPT ![j] = Requeued(@, limit)]
    /\ UNCHANGED <<claims, cancelling, workerVars>>

\* _cancel_or_reject_active_job reads the last job of a schedule unlocked...
CancelRead(j) ==
    /\ j \in Cancellable \ cancelling
    /\ jobs[j].status = "queued"
    /\ cancelling' = cancelling \cup {j}
    /\ UNCHANGED <<jobs, claims, workerVars>>

\* ... and the schedule change commits "cancelled" over whatever is there then.
CancelWrite(j) ==
    /\ j \in cancelling
    /\ jobs' = [jobs EXCEPT ![j].status = "cancelled"]
    /\ cancelling' = cancelling \ {j}
    /\ UNCHANGED <<claims, workerVars>>

-----------------------------------------------------------------------------
(* The worker's main loop *)

\* main registers the worker before its loop.
Start(w) ==
    /\ pc[w] = "down"
    /\ pc' = [pc EXCEPT ![w] = "idle"]
    /\ registry' = [registry EXCEPT ![w] = Online(NoJob)]
    /\ UNCHANGED <<jobs, claims, cancelling, task, token, view, beating>>

Recovered == [j \in Jobs |-> RecoverLease(jobs[j])]

\* claim_agent_job: recover the leases that ran out and lease one ready job,
\* in one transaction.
Claim(w) ==
    /\ pc[w] = "idle"
    /\ \E j \in NextJobs(Recovered) :
         /\ claims' = [claims EXCEPT ![j] = @ + 1]
         /\ jobs' = [Recovered EXCEPT ![j] = Leased(@, claims[j] + 1)]
         /\ task' = [task EXCEPT ![w] = j]
         /\ token' = [token EXCEPT ![w] = claims[j] + 1]
    /\ pc' = [pc EXCEPT ![w] = "claimed"]
    /\ UNCHANGED <<cancelling, view, beating, registry>>

\* No job is ready: the recovery still commits and the worker reports idle.
ClaimNothing(w) ==
    /\ pc[w] = "idle"
    /\ NextJobs(Recovered) = {}
    /\ jobs' = Recovered
    /\ registry' = [registry EXCEPT ![w] = Online(NoJob)]
    /\ UNCHANGED <<claims, cancelling, pc, task, token, view, beating>>

\* heartbeat_agent_worker with the job, then LeaseHeartbeat.start.
Announce(w) ==
    /\ pc[w] = "claimed"
    /\ pc' = [pc EXCEPT ![w] = "announced"]
    /\ registry' = [registry EXCEPT ![w] = Online(task[w])]
    /\ beating' = [beating EXCEPT ![w] = TRUE]
    /\ UNCHANGED <<jobs, claims, cancelling, task, token, view>>

\* Mutant of CheckLease: the heartbeat thread outlives the error.
CheckLeaseLeaksThread(w) ==
    /\ pc[w] = "announced"
    /\ LET row == jobs[task[w]] IN
         pc' = [pc EXCEPT ![w] =
                  IF row.lease_token = token[w] /\ row.status = "leased"
                  THEN "checked" ELSE "stopping"]
    /\ UNCHANGED <<jobs, claims, cancelling, task, token, view, beating, registry>>

\* process_claimed_agent_job loads the row without a lock.  A lease that is
\* not its own raises out of main, which ends the worker.
CheckLease(w) ==
    /\ pc[w] = "announced"
    /\ LET row == jobs[task[w]] IN
         IF row.lease_token = token[w] /\ row.status = "leased"
         THEN /\ pc' = [pc EXCEPT ![w] = "checked"]
              /\ UNCHANGED beating
         ELSE /\ pc' = [pc EXCEPT ![w] = "stopping"]
              /\ beating' = [beating EXCEPT ![w] = FALSE]
    /\ UNCHANGED <<jobs, claims, cancelling, task, token, view, registry>>

\* Only the status column changed, so only it is written.
MarkRunning(w) ==
    /\ pc[w] = "checked"
    /\ pc' = [pc EXCEPT ![w] = "executing"]
    /\ jobs' = [jobs EXCEPT ![task[w]].status = "running"]
    /\ UNCHANGED <<claims, cancelling, task, token, view, beating, registry>>

\* _execute_job returned (completing), raised DomainValidationError
\* (rejecting) or raised anything else (failing).  The session may have
\* loaded the row at any moment of the execution.
Execute(w) ==
    /\ pc[w] = "executing"
    /\ \E outcome \in {"completing", "rejecting", "failing"} :
         pc' = [pc EXCEPT ![w] = outcome]
    /\ view' = [view EXCEPT ![w] = jobs[task[w]]]
    /\ UNCHANGED <<jobs, claims, cancelling, task, token, beating, registry>>

WriteOutcome(w, row) ==
    /\ jobs' = [jobs EXCEPT ![task[w]] = row]
    /\ pc' = [pc EXCEPT ![w] = "processed"]
    /\ view' = [view EXCEPT ![w] = NoRow]
    /\ UNCHANGED <<claims, cancelling, task, token, beating, registry>>

\* The success path: the lease is not looked at again.
Complete(w) ==
    /\ pc[w] = "completing"
    /\ WriteOutcome(w, Flush(jobs[task[w]], view[w], Released(view[w], "completed")))

\* The failure path with no further attempt: a domain error, or the budget
\* is spent.
Fail(w) ==
    /\ \/ pc[w] = "rejecting"
       \/ pc[w] = "failing" /\ OutOfAttempts(view[w])
    /\ WriteOutcome(w, Flush(jobs[task[w]], view[w], DeadLetter(view[w])))

\* The failure path with a retry: available_at moves _retry_delay_seconds
\* into the future.
Retry(w) ==
    /\ pc[w] = "failing"
    /\ ~OutOfAttempts(view[w])
    /\ WriteOutcome(w, [Flush(jobs[task[w]], view[w], Released(view[w], "queued"))
                         EXCEPT !.available = FALSE])

\* LeaseHeartbeat.stop and record_agent_worker_outcome.
RecordOutcome(w) ==
    /\ pc[w] = "processed"
    /\ pc' = [pc EXCEPT ![w] = "idle"]
    /\ task' = [task EXCEPT ![w] = NoJob]
    /\ token' = [token EXCEPT ![w] = 0]
    /\ beating' = [beating EXCEPT ![w] = FALSE]
    /\ registry' = [registry EXCEPT ![w].current_job_id = NoJob]
    /\ UNCHANGED <<jobs, claims, cancelling, view>>

\* The finally block of main: mark_agent_worker_stopped, then the process ends.
MarkStopped(w) ==
    /\ pc[w] = "stopping"
    /\ pc' = [pc EXCEPT ![w] = "down"]
    /\ task' = [task EXCEPT ![w] = NoJob]
    /\ token' = [token EXCEPT ![w] = 0]
    /\ registry' = [registry EXCEPT ![w] = Stopped]
    /\ UNCHANGED <<jobs, claims, cancelling, view, beating>>

-----------------------------------------------------------------------------
(* The heartbeat thread *)

\* One round of LeaseHeartbeat._run.  heartbeat_agent_job locks the row; a
\* token or a status that does not match ends the thread.
Heartbeat(w) ==
    /\ beating[w]
    /\ LET row == jobs[task[w]] IN
         IF row.lease_token = token[w] /\ Held(row)
         THEN /\ jobs' = [jobs EXCEPT ![task[w]].lease = "live"]
              /\ registry' = [registry EXCEPT ![w] = Online(task[w])]
              /\ UNCHANGED beating
         ELSE /\ beating' = [beating EXCEPT ![w] = FALSE]
              /\ UNCHANGED <<jobs, registry>>
    /\ UNCHANGED <<claims, cancelling, pc, task, token, view>>

-----------------------------------------------------------------------------
(* The environment *)

\* SIGINT: KeyboardInterrupt is no Exception, so process_claimed_agent_job
\* lets it through and the job keeps its lease.
Interrupt(w) ==
    /\ w \in Crashable
    /\ pc[w] \notin {"down", "stopping"}
    /\ pc' = [pc EXCEPT ![w] = "stopping"]
    /\ view' = [view EXCEPT ![w] = NoRow]
    /\ beating' = [beating EXCEPT ![w] = FALSE]
    /\ UNCHANGED <<jobs, claims, cancelling, task, token, registry>>

\* The process is killed: its registry row is not touched.
Crash(w) ==
    /\ w \in Crashable
    /\ pc[w] # "down"
    /\ pc' = [pc EXCEPT ![w] = "down"]
    /\ task' = [task EXCEPT ![w] = NoJob]
    /\ token' = [token EXCEPT ![w] = 0]
    /\ view' = [view EXCEPT ![w] = NoRow]
    /\ beating' = [beating EXCEPT ![w] = FALSE]
    /\ UNCHANGED <<jobs, claims, cancelling, registry>>

\* lease_expires_at passes.  Without stalls the heartbeats of a working
\* process arrive in time and only an abandoned lease runs out.
LeaseRunsOut(j) ==
    /\ jobs[j].lease = "live"
    /\ Stalls \/ \A w \in Workers : ~Holds(w, j)
    /\ jobs' = [jobs EXCEPT ![j].lease = "due"]
    /\ UNCHANGED <<claims, cancelling, workerVars>>

\* available_at passes.
DelayElapses(j) ==
    /\ jobs[j].status # "absent"
    /\ ~jobs[j].available
    /\ jobs' = [jobs EXCEPT ![j].available = TRUE]
    /\ UNCHANGED <<claims, cancelling, workerVars>>

-----------------------------------------------------------------------------
Next ==
    \/ \E j \in Jobs : Enqueue(j)
    \/ \E j \in Jobs : Requeue(j)
    \/ \E j \in Jobs : CancelRead(j)
    \/ \E j \in Jobs : CancelWrite(j)
    \/ \E j \in Jobs : LeaseRunsOut(j)
    \/ \E j \in Jobs : DelayElapses(j)
    \/ \E w \in Workers : Start(w)
    \/ \E w \in Workers : Claim(w)
    \/ \E w \in Workers : ClaimNothing(w)
    \/ \E w \in Workers : Announce(w)
    \/ \E w \in Workers : CheckLease(w)
    \/ \E w \in Workers : MarkRunning(w)
    \/ \E w \in Workers : Execute(w)
    \/ \E w \in Workers : Complete(w)
    \/ \E w \in Workers : Fail(w)
    \/ \E w \in Workers : Retry(w)
    \/ \E w \in Workers : RecordOutcome(w)
    \/ \E w \in Workers : MarkStopped(w)
    \/ \E w \in Workers : Heartbeat(w)
    \/ \E w \in Workers : Interrupt(w)
    \/ \E w \in Workers : Crash(w)

Spec == Init /\ [][Next]_vars

\* A worker that is up keeps polling and works its job to the end, and time
\* passes.  Nothing starts a process that is down: no deployment file has a
\* restart policy for agent-worker.
Progress(w) ==
    \/ Announce(w) \/ CheckLease(w) \/ MarkRunning(w) \/ Execute(w)
    \/ Complete(w) \/ Fail(w) \/ Retry(w) \/ RecordOutcome(w) \/ MarkStopped(w)

Fairness ==
    /\ \A w \in Workers : WF_vars(Progress(w)) /\ WF_vars(Claim(w) \/ ClaimNothing(w))
    /\ \A j \in Jobs : WF_vars(LeaseRunsOut(j)) /\ WF_vars(DelayElapses(j))

FairSpec == Spec /\ Fairness

-----------------------------------------------------------------------------
(* Properties *)

\* Every variable keeps its type.
TypeOK ==
    /\ jobs \in [Jobs -> Row]
    /\ claims \in [Jobs -> Nat]
    /\ cancelling \subseteq Cancellable
    /\ pc \in [Workers -> PC]
    /\ task \in [Workers -> Jobs \cup {NoJob}]
    /\ token \in [Workers -> Nat]
    /\ view \in [Workers -> Row]
    /\ beating \in [Workers -> BOOLEAN]
    /\ registry \in [Workers -> Registration]
    /\ \A w \in Workers : task[w] = NoJob => pc[w] \in {"down", "idle", "stopping"}
    /\ \A w \in Workers : beating[w] => pc[w] \notin {"down", "idle", "claimed", "stopping"}

\* The leases that n queueings of a job may use up.
LeasesOf == [n \in Nat |-> AttemptCap * n]

\* claim_agent_job never grants a lease beyond the attempt budget, whatever
\* crashes, stalls, stale writes and requeues happen: a row's attempt_count
\* stays within max_attempts, and over its life a job is leased at most
\* AttemptCap times per (re)queueing.
AttemptBudget ==
    \A j \in Jobs :
        /\ jobs[j].attempt_count <= jobs[j].max_attempts
        /\ claims[j] <= LeasesOf[jobs[j].requeue_count + 1]

\* Workers that process a job: from the check of the lease to the outcome.
Processing(w, j) ==
    pc[w] \in {"checked", "executing", "completing", "rejecting", "failing"} /\ task[w] = j

\* When heartbeats arrive in time, no two workers process one job at once
\* (process_claimed_agent_job), although leases are recovered, retried,
\* cancelled and requeued around them.
MutualExclusion ==
    \A j \in Jobs, v, w \in Workers : Processing(v, j) /\ Processing(w, j) => v = w

\* When heartbeats arrive in time, exactly the leased and running rows carry
\* a lease_token and a lease_expires_at, so _recover_expired_leases finds
\* every job whose worker died.
LeaseMatchesStatus ==
    \A j \in Jobs \ Cancellable :
        /\ Held(jobs[j]) <=> jobs[j].lease_token # 0
        /\ Held(jobs[j]) <=> jobs[j].lease # "none"

\* "A lease token gives one worker temporary ownership": while a lease is
\* live, only the worker that was given its token ends it, by writing an
\* outcome (process_claimed_agent_job).
LeaseOwnership ==
    [][\A j \in Jobs \ Cancellable :
         /\ Held(jobs[j])
         /\ jobs[j].lease = "live"
         /\ \/ ~Held(jobs'[j])
            \/ jobs'[j].lease_token # jobs[j].lease_token
         => \E w \in Workers : Holds(w, j) /\ pc'[w] # pc[w]]_vars

\* Nobody serves the queue but workers that may be killed: the others were
\* never started, or ended themselves, which takes a cancelled job.
Unserved ==
    \A w \in Workers \ Crashable :
        /\ pc[w] = "down"
        /\ registry[w].status = "absent" \/ \E j \in Jobs : jobs[j].status = "cancelled"

\* Every queued job is eventually completed, failed or cancelled, unless the
\* workers that nobody kills are all down, not started yet or ended by
\* themselves (main) after a cancellation: the retries, the deaths of the
\* others and the leases they abandon only delay it.
EventuallySettled ==
    \A j \in Jobs :
        jobs[j].status = "queued" ~>
            jobs[j].status \in {"completed", "failed", "cancelled"} \/ Unserved

\* When heartbeats arrive in time, a worker that nobody kills ends itself only
\* where the job it has claimed was cancelled meanwhile
\* (process_claimed_agent_job raises out of main): recoveries and requeues
\* never take the lease of a worker that is about to look at it.
EndsOnlyOnCancellation ==
    [][\A w \in Workers \ Crashable :
         pc[w] # "stopping" /\ pc'[w] = "stopping" =>
            jobs[task[w]].status = "cancelled"]_vars

-----------------------------------------------------------------------------
(* Refinement *)

\* What a job looks like to the component that enqueued it.
Work == [j \in Jobs \ Cancellable |->
            [status |-> IF Held(jobs[j]) THEN "held" ELSE jobs[j].status,
             left   |-> jobs[j].max_attempts - jobs[j].attempt_count]]

Lifecycle ==
    INSTANCE JobLifecycle WITH
        Jobs <- Jobs \ Cancellable,
        Budget <- AttemptCap,
        work <- Work

\* When heartbeats arrive in time, the queue keeps its promise: claims,
\* recoveries, retries, dead letters and requeues of the workers add up to
\* counted starts, one end per budget and no second life of a finished job.
ImplementsLifecycle == Lifecycle!LifecycleSpec
=============================================================================
