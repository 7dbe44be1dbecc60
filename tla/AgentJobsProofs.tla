-------------------------- MODULE AgentJobsProofs --------------------------
(* What AgentJobs guarantees for every set of jobs and workers. *)
EXTENDS AgentJobs, TLAPS

\* The row operators build rows.
LEMMA RowOperators ==
    ASSUME NEW row \in Row, NEW loaded \in Row, NEW target \in Row
    PROVE  /\ \A s \in Status : /\ [row EXCEPT !.status = s] \in Row
                               /\ Released(row, s) \in Row
           /\ \A l \in Lease : [row EXCEPT !.lease = l] \in Row
           /\ \A b \in BOOLEAN : [row EXCEPT !.available = b] \in Row
           /\ \A t \in Nat : Leased(row, t) \in Row /\ Requeued(row, t) \in Row
           /\ RecoverLease(row) \in Row
           /\ Flush(row, loaded, target) \in Row
  <1>1. \A s \in Status : [row EXCEPT !.status = s] \in Row
    BY DEF Row
  <1>2. \A s \in Status : Released(row, s) \in Row
    BY DEF Row, Released, Lease
  <1>3. \A l \in Lease : [row EXCEPT !.lease = l] \in Row
    BY DEF Row
  <1>4. \A b \in BOOLEAN, r \in Row : [r EXCEPT !.available = b] \in Row
    BY DEF Row
  <1>5. ASSUME NEW t \in Nat PROVE Leased(row, t) \in Row
    <2>1. row.attempt_count + 1 \in Nat
      BY DEF Row
    <2> QED
      BY <2>1 DEF Row, Leased, Status, Lease
  <1>6. ASSUME NEW t \in Nat PROVE Requeued(row, t) \in Row
    <2>1. row.requeue_count + 1 \in Nat
      BY DEF Row
    <2> QED
      BY <2>1 DEF Row, Requeued, Status, Lease
  <1>7. RecoverLease(row) \in Row
    <2>1. "failed" \in Status /\ "queued" \in Status
      BY DEF Status
    <2> QED
      BY <1>2, <1>4, <2>1 DEF RecoverLease, DeadLetter
  <1>8. Flush(row, loaded, target) \in Row
    BY DEF Row, Flush
  <1> QED
    BY <1>1, <1>2, <1>3, <1>4, <1>5, <1>6, <1>7, <1>8

\* Every status a step writes is a status, and the empty row is a row.
LEMMA RowConstants ==
    /\ {"queued", "leased", "running", "completed", "failed", "cancelled"} \subseteq Status
    /\ {"none", "live", "due"} = Lease
    /\ NoRow \in Row
  BY DEF Status, Lease, Row, NoRow

\* A max_attempts given at requeue lies within the cap.
LEMMA ClampInRange == \A n \in Nat : ClampAttempts(n) \in 1..AttemptCap
  BY JobsAssumption DEF ClampAttempts

\* The queue starts empty and the workers down.
LEMMA TypeInit == Init => TypeOK
  BY JobsAssumption
  DEF Init, TypeOK, Row, NoRow, Status, Lease, PC, Registration

\* No request, worker step, heartbeat, crash or passing of time breaks a type.
LEMMA TypeStep == TypeOK /\ [Next]_vars => TypeOK'
  <1> SUFFICES ASSUME TypeOK, [Next]_vars PROVE TypeOK'
    OBVIOUS
  <1> USE JobsAssumption DEF TypeOK
  <1>1. ASSUME NEW j \in Jobs, Enqueue(j) PROVE TypeOK'
    <2>1. InitialAttempts[j] \in Nat
      OBVIOUS
    <2>2. PICK row : row = [jobs[j] EXCEPT !.status = "queued", !.available = TRUE,
                                           !.max_attempts = InitialAttempts[j]]
      OBVIOUS
    <2>3. jobs[j] \in Row
      BY <1>1
    <2>4. row \in Row
      BY <2>1, <2>2, <2>3 DEF Row, Status
    <2>5. jobs' = [jobs EXCEPT ![j] = row]
      BY <1>1, <2>2, Zenon DEF Enqueue
    <2> QED
      BY <1>1, <2>4, <2>5 DEF Enqueue, workerVars
  <1>2. ASSUME NEW j \in Jobs, Requeue(j) PROVE TypeOK'
    <2>1. \A n \in RequeueLimits : ClampAttempts(n) \in Nat
      BY ClampInRange
    <2>2. PICK limit \in {jobs[j].max_attempts} \cup {ClampAttempts(n) : n \in RequeueLimits} :
             jobs' = [jobs EXCEPT ![j] = Requeued(@, limit)]
      BY <1>2 DEF Requeue
    <2>3. jobs[j] \in Row /\ jobs[j].max_attempts \in Nat
      BY DEF Row
    <2>4. Requeued(jobs[j], limit) \in Row
      BY <2>1, <2>3, RowOperators
    <2> QED
      BY <1>2, <2>2, <2>4 DEF Requeue, workerVars
  <1>3. ASSUME NEW j \in Jobs, CancelRead(j) PROVE TypeOK'
    BY <1>3 DEF CancelRead, workerVars
  <1>4. ASSUME NEW j \in Jobs, CancelWrite(j) PROVE TypeOK'
    BY <1>4, RowOperators, RowConstants DEF CancelWrite, workerVars
  <1>5. ASSUME NEW j \in Jobs, LeaseRunsOut(j) PROVE TypeOK'
    BY <1>5, RowOperators, RowConstants DEF LeaseRunsOut, workerVars
  <1>6. ASSUME NEW j \in Jobs, DelayElapses(j) PROVE TypeOK'
    BY <1>6, RowOperators DEF DelayElapses, workerVars
  <1>7. ASSUME NEW w \in Workers, Start(w) PROVE TypeOK'
    BY <1>7 DEF Start, PC, Registration, Online
  <1>8. Recovered \in [Jobs -> Row]
    BY RowOperators DEF Recovered
  <1>9. ASSUME NEW w \in Workers, Claim(w) PROVE TypeOK'
    <2>1. PICK j \in NextJobs(Recovered) :
             /\ claims' = [claims EXCEPT ![j] = @ + 1]
             /\ jobs' = [Recovered EXCEPT ![j] = Leased(@, claims[j] + 1)]
             /\ task' = [task EXCEPT ![w] = j]
             /\ token' = [token EXCEPT ![w] = claims[j] + 1]
      BY <1>9 DEF Claim
    <2>2. j \in Jobs
      BY DEF NextJobs
    <2>3. claims[j] + 1 \in Nat /\ Recovered[j] \in Row
      BY <1>8, <2>2
    <2>4. Leased(Recovered[j], claims[j] + 1) \in Row
      BY <2>3, RowOperators
    <2>5. jobs' \in [Jobs -> Row]
      BY <1>8, <2>1, <2>2, <2>4
    <2> QED
      BY <1>9, <2>1, <2>2, <2>3, <2>5 DEF Claim, PC
  <1>10. ASSUME NEW w \in Workers, ClaimNothing(w) PROVE TypeOK'
    BY <1>8, <1>10 DEF ClaimNothing, Registration, Online
  <1>11. ASSUME NEW w \in Workers, Announce(w) PROVE TypeOK'
    BY <1>11 DEF Announce, PC, Registration, Online
  <1>12. ASSUME NEW w \in Workers, CheckLease(w) PROVE TypeOK'
    BY <1>12 DEF CheckLease, PC
  <1>13. ASSUME NEW w \in Workers, MarkRunning(w) PROVE TypeOK'
    <2>1. task[w] \in Jobs /\ jobs[task[w]] \in Row
      BY <1>13 DEF MarkRunning
    <2>2. [jobs[task[w]] EXCEPT !.status = "running"] \in Row
      BY <2>1, RowOperators, RowConstants
    <2> QED
      BY <1>13, <2>1, <2>2 DEF MarkRunning, PC
  <1>14. ASSUME NEW w \in Workers, Execute(w) PROVE TypeOK'
    BY <1>14 DEF Execute, PC
  <1>15. ASSUME NEW w \in Workers, NEW row \in Row, WriteOutcome(w, row),
                pc[w] \in {"completing", "rejecting", "failing"}
         PROVE TypeOK'
    BY <1>15, RowConstants DEF WriteOutcome, PC
  <1>16. ASSUME NEW w \in Workers, pc[w] \in {"completing", "rejecting", "failing"},
                NEW target \in Row
         PROVE  Flush(jobs[task[w]], view[w], target) \in Row
    <2>1. jobs[task[w]] \in Row /\ view[w] \in Row
      BY <1>16
    <2> QED
      BY <2>1, RowOperators
  <1>17. ASSUME NEW w \in Workers, Complete(w) PROVE TypeOK'
    <2>1. Released(view[w], "completed") \in Row
      BY RowOperators, RowConstants
    <2> QED
      BY <1>15, <1>16, <1>17, <2>1 DEF Complete
  <1>18. ASSUME NEW w \in Workers, Fail(w) PROVE TypeOK'
    <2>1. DeadLetter(view[w]) \in Row
      BY RowOperators, RowConstants DEF DeadLetter
    <2> QED
      BY <1>15, <1>16, <1>18, <2>1 DEF Fail
  <1>19. ASSUME NEW w \in Workers, Retry(w) PROVE TypeOK'
    <2> DEFINE row == Flush(jobs[task[w]], view[w], Released(view[w], "queued"))
    <2>1. Released(view[w], "queued") \in Row
      BY RowOperators, RowConstants
    <2>2. row \in Row
      BY <1>16, <1>19, <2>1 DEF Retry
    <2>3. [row EXCEPT !.available = FALSE] \in Row
      BY <2>2, RowOperators
    <2> QED
      BY <1>15, <1>19, <2>3 DEF Retry
  <1>20. ASSUME NEW w \in Workers, RecordOutcome(w) PROVE TypeOK'
    BY <1>20 DEF RecordOutcome, PC, Registration
  <1>21. ASSUME NEW w \in Workers, MarkStopped(w) PROVE TypeOK'
    BY <1>21 DEF MarkStopped, PC, Registration, Stopped
  <1>22. ASSUME NEW w \in Workers, Heartbeat(w) PROVE TypeOK'
    <2>1. task[w] \in Jobs /\ jobs[task[w]] \in Row
      BY <1>22 DEF Heartbeat
    <2>2. [jobs[task[w]] EXCEPT !.lease = "live"] \in Row
      BY <2>1, RowOperators, RowConstants
    <2>3. jobs' \in [Jobs -> Row]
      BY <1>22, <2>1, <2>2 DEF Heartbeat
    <2>4. registry' \in [Workers -> Registration]
      BY <1>22, <2>1 DEF Heartbeat, Registration, Online
    <2>5. beating' \in [Workers -> BOOLEAN] /\ \A v \in Workers : beating'[v] => beating[v]
      BY <1>22 DEF Heartbeat
    <2> QED
      BY <1>22, <2>3, <2>4, <2>5 DEF Heartbeat
  <1>23. ASSUME NEW w \in Workers, Interrupt(w) PROVE TypeOK'
    BY <1>23, RowConstants DEF Interrupt, PC
  <1>24. ASSUME NEW w \in Workers, Crash(w) PROVE TypeOK'
    BY <1>24, RowConstants DEF Crash, PC
  <1>25. CASE UNCHANGED vars
    BY <1>25 DEF vars
  <1> QED
    BY <1>1, <1>2, <1>3, <1>4, <1>5, <1>6, <1>7, <1>9, <1>10, <1>11, <1>12,
       <1>13, <1>14, <1>17, <1>18, <1>19, <1>20, <1>21, <1>22, <1>23, <1>24,
       <1>25 DEF Next

\* The rows of the queue, the workers' positions and what they remember keep
\* their types whatever happens to workers and leases.
THEOREM TypeCorrect == Spec => []TypeOK
  BY TypeInit, TypeStep, PTL DEF Spec

-----------------------------------------------------------------------------
(* The attempt budget *)

\* Each lease granted since the last requeue is counted by attempt_count, and
\* each earlier queueing granted at most AttemptCap.
BudgetInv ==
    \A j \in Jobs :
        /\ jobs[j].attempt_count <= jobs[j].max_attempts
        /\ jobs[j].max_attempts <= AttemptCap
        /\ claims[j] <= LeasesOf[jobs[j].requeue_count] + jobs[j].attempt_count
        /\ jobs[j].status = "absent" => jobs[j].attempt_count = 0

\* What the row operators do to the columns the invariants speak of.
LEMMA RowEffects ==
    ASSUME NEW row \in Row
    PROVE  /\ \A s \in Status :
                /\ Released(row, s).status = s
                /\ Released(row, s).lease = "none"
                /\ Released(row, s).lease_token = 0
                /\ Released(row, s).attempt_count = row.attempt_count
                /\ Released(row, s).max_attempts = row.max_attempts
                /\ Released(row, s).requeue_count = row.requeue_count
           /\ Held(row) /\ row.lease = "due" =>
                /\ RecoverLease(row).status \in {"queued", "failed"}
                /\ RecoverLease(row).lease = "none"
                /\ RecoverLease(row).lease_token = 0
           /\ ~(Held(row) /\ row.lease = "due") => RecoverLease(row) = row
           /\ RecoverLease(row).attempt_count = row.attempt_count
           /\ RecoverLease(row).max_attempts = row.max_attempts
           /\ RecoverLease(row).requeue_count = row.requeue_count
  <1>1. \A s \in Status :
           /\ Released(row, s).status = s
           /\ Released(row, s).lease = "none"
           /\ Released(row, s).lease_token = 0
           /\ Released(row, s).attempt_count = row.attempt_count
           /\ Released(row, s).max_attempts = row.max_attempts
           /\ Released(row, s).requeue_count = row.requeue_count
    BY DEF Row, Released
  <1>2. \A r \in Row :
           LET r2 == [r EXCEPT !.available = TRUE] IN
           /\ r2.status = r.status
           /\ r2.lease = r.lease
           /\ r2.lease_token = r.lease_token
           /\ r2.attempt_count = r.attempt_count
           /\ r2.max_attempts = r.max_attempts
           /\ r2.requeue_count = r.requeue_count
    BY DEF Row
  <1>3. /\ "failed" \in Status
        /\ "queued" \in Status
        /\ Released(row, "queued") \in Row
    BY RowOperators, RowConstants
  <1> QED
    BY <1>1, <1>2, <1>3 DEF RecoverLease, DeadLetter

\* A row has its columns, and updating one leaves the others alone.
LEMMA RowColumns ==
    ASSUME NEW row \in Row
    PROVE  /\ row.attempt_count \in Nat
           /\ row.max_attempts \in Nat
           /\ row.requeue_count \in Nat
           /\ row.lease_token \in Nat
           /\ row.status \in Status
           /\ row.lease \in Lease
  BY DEF Row

\* What an update of status alone leaves in the other columns.
LEMMA StatusUpdate ==
    ASSUME NEW row \in Row, NEW s \in Status
    PROVE  /\ [row EXCEPT !.status = s].status = s
           /\ [row EXCEPT !.status = s].lease = row.lease
           /\ [row EXCEPT !.status = s].lease_token = row.lease_token
           /\ [row EXCEPT !.status = s].attempt_count = row.attempt_count
           /\ [row EXCEPT !.status = s].max_attempts = row.max_attempts
           /\ [row EXCEPT !.status = s].requeue_count = row.requeue_count
  BY DEF Row

\* What an update of lease_expires_at alone leaves in the other columns.
LEMMA LeaseUpdate ==
    ASSUME NEW row \in Row, NEW l \in Lease
    PROVE  /\ [row EXCEPT !.lease = l].status = row.status
           /\ [row EXCEPT !.lease = l].lease = l
           /\ [row EXCEPT !.lease = l].lease_token = row.lease_token
           /\ [row EXCEPT !.lease = l].attempt_count = row.attempt_count
           /\ [row EXCEPT !.lease = l].max_attempts = row.max_attempts
           /\ [row EXCEPT !.lease = l].requeue_count = row.requeue_count
  BY DEF Row

\* What an update of available_at alone leaves in the other columns.
LEMMA DelayUpdate ==
    ASSUME NEW row \in Row, NEW b \in BOOLEAN
    PROVE  /\ [row EXCEPT !.available = b].status = row.status
           /\ [row EXCEPT !.available = b].lease = row.lease
           /\ [row EXCEPT !.available = b].lease_token = row.lease_token
           /\ [row EXCEPT !.available = b].attempt_count = row.attempt_count
           /\ [row EXCEPT !.available = b].max_attempts = row.max_attempts
           /\ [row EXCEPT !.available = b].requeue_count = row.requeue_count
  BY DEF Row

\* The columns of a row that claim_agent_job leased.
LEMMA LeaseGrant ==
    ASSUME NEW row \in Row, NEW t \in Nat
    PROVE  /\ Leased(row, t).status = "leased"
           /\ Leased(row, t).lease = "live"
           /\ Leased(row, t).lease_token = t
           /\ Leased(row, t).attempt_count = row.attempt_count + 1
           /\ Leased(row, t).max_attempts = row.max_attempts
           /\ Leased(row, t).requeue_count = row.requeue_count
  BY DEF Row, Leased

\* The columns of a row that requeue_agent_job put back.
LEMMA RequeueUpdate ==
    ASSUME NEW row \in Row, NEW n \in Nat
    PROVE  /\ Requeued(row, n).status = "queued"
           /\ Requeued(row, n).lease = "none"
           /\ Requeued(row, n).lease_token = 0
           /\ Requeued(row, n).attempt_count = 0
           /\ Requeued(row, n).max_attempts = n
           /\ Requeued(row, n).requeue_count = row.requeue_count + 1
  BY DEF Row, Requeued

\* The budget columns of row j and its claims are left alone.
SameBudget(j) ==
    /\ claims'[j] = claims[j]
    /\ jobs'[j].attempt_count = jobs[j].attempt_count
    /\ jobs'[j].max_attempts = jobs[j].max_attempts
    /\ jobs'[j].requeue_count = jobs[j].requeue_count
    /\ jobs'[j].status = "absent" => jobs[j].status = "absent"

\* Each further queueing allows AttemptCap more leases.
LEMMA LeasesOfQueueings ==
    /\ LeasesOf[0] = 0
    /\ \A n \in Nat : LeasesOf[n] \in Nat /\ LeasesOf[n + 1] = LeasesOf[n] + AttemptCap
  BY JobsAssumption DEF LeasesOf

\* An empty queue has used no attempt.
LEMMA BudgetInit == Init => BudgetInv
  <1> SUFFICES ASSUME Init, NEW j \in Jobs
               PROVE  /\ jobs[j].attempt_count <= jobs[j].max_attempts
                      /\ jobs[j].max_attempts <= AttemptCap
                      /\ claims[j] <= LeasesOf[jobs[j].requeue_count] + jobs[j].attempt_count
                      /\ jobs[j].status = "absent" => jobs[j].attempt_count = 0
    BY DEF BudgetInv
  <1>1. /\ jobs[j].attempt_count = 0
        /\ jobs[j].max_attempts = 0
        /\ jobs[j].requeue_count = 0
        /\ claims[j] = 0
    BY DEF Init, NoRow
  <1> QED
    BY <1>1, JobsAssumption, LeasesOfQueueings

\* Every step keeps the budget, the writes of a worker that lost its lease
\* included: they leave attempt_count and max_attempts alone.
LEMMA BudgetStep == TypeOK /\ BudgetInv /\ [Next]_vars => BudgetInv'
  <1> SUFFICES ASSUME TypeOK, BudgetInv, [Next]_vars PROVE BudgetInv'
    OBVIOUS
  <1>0. ASSUME \A j \in Jobs : SameBudget(j) PROVE BudgetInv'
    BY <1>0 DEF BudgetInv, SameBudget
  <1>r. \A k \in Jobs : /\ jobs[k] \in Row
                         /\ claims[k] \in Nat
                         /\ jobs[k].attempt_count \in Nat
                         /\ jobs[k].max_attempts \in Nat
                         /\ jobs[k].requeue_count \in Nat
                         /\ LeasesOf[jobs[k].requeue_count] \in Nat
    BY RowColumns, LeasesOfQueueings DEF TypeOK
  <1>s. ASSUME NEW j \in Jobs, NEW row, jobs' = [jobs EXCEPT ![j] = row],
               claims' = claims,
               row.attempt_count = jobs[j].attempt_count,
               row.max_attempts = jobs[j].max_attempts,
               row.requeue_count = jobs[j].requeue_count,
               row.status = "absent" => jobs[j].status = "absent"
        PROVE  BudgetInv'
    BY <1>0, <1>s DEF SameBudget, TypeOK
  <1>1. ASSUME NEW j \in Jobs, Enqueue(j) PROVE BudgetInv'
    <2>1. \A k \in Jobs : k # j => SameBudget(k)
      BY <1>1 DEF Enqueue, SameBudget, TypeOK
    <2>2. /\ claims'[j] = claims[j]
          /\ jobs'[j].attempt_count = jobs[j].attempt_count
          /\ jobs'[j].requeue_count = jobs[j].requeue_count
          /\ jobs'[j].max_attempts = InitialAttempts[j]
          /\ jobs'[j].status = "queued"
      BY <1>1 DEF Enqueue, TypeOK, Row
    <2>3. jobs[j].attempt_count = 0
      BY <1>1 DEF Enqueue, BudgetInv
    <2>4. InitialAttempts[j] \in Nat /\ InitialAttempts[j] <= AttemptCap
      BY JobsAssumption
    <2>5. /\ jobs'[j].attempt_count <= jobs'[j].max_attempts
          /\ jobs'[j].max_attempts <= AttemptCap
          /\ claims'[j] <= LeasesOf[jobs'[j].requeue_count] + jobs'[j].attempt_count
          /\ jobs'[j].status # "absent"
      BY <2>2, <2>3, <2>4 DEF BudgetInv
    <2> QED
      BY <2>1, <2>5 DEF BudgetInv, SameBudget
  <1>2. ASSUME NEW j \in Jobs, Requeue(j) PROVE BudgetInv'
    <2>1. PICK limit \in {jobs[j].max_attempts} \cup {ClampAttempts(n) : n \in RequeueLimits} :
             jobs' = [jobs EXCEPT ![j] = Requeued(@, limit)]
      BY <1>2 DEF Requeue
    <2>2. \A k \in Jobs : k # j => SameBudget(k)
      BY <1>2, <2>1 DEF Requeue, SameBudget, TypeOK
    <2>3. limit \in Nat /\ limit <= AttemptCap
      <3>1. CASE limit = jobs[j].max_attempts
        BY <1>r, <3>1 DEF BudgetInv
      <3>2. CASE \E n \in RequeueLimits : limit = ClampAttempts(n)
        BY <3>2, ClampInRange, JobsAssumption
      <3> QED
        BY <2>1, <3>1, <3>2
    <2>4. jobs[j] \in Row /\ jobs'[j] = Requeued(jobs[j], limit)
      BY <2>1 DEF TypeOK
    <2>5. /\ jobs'[j].attempt_count = 0
          /\ jobs'[j].requeue_count = jobs[j].requeue_count + 1
          /\ jobs'[j].max_attempts = limit
          /\ jobs'[j].status = "queued"
      BY <2>3, <2>4, RequeueUpdate
    <2>6. claims'[j] <= LeasesOf[jobs'[j].requeue_count]
      <3>1. jobs[j].attempt_count <= AttemptCap
        BY <1>r, JobsAssumption DEF BudgetInv
      <3>2. claims[j] <= LeasesOf[jobs[j].requeue_count] + AttemptCap
        BY <1>r, <3>1, JobsAssumption DEF BudgetInv
      <3> QED
        BY <1>2, <1>r, <2>5, <3>2, LeasesOfQueueings DEF Requeue
    <2>7. LeasesOf[jobs'[j].requeue_count] \in Nat
      BY <1>r, <2>5, LeasesOfQueueings
    <2>8. /\ jobs'[j].attempt_count <= jobs'[j].max_attempts
          /\ jobs'[j].max_attempts <= AttemptCap
          /\ claims'[j] <= LeasesOf[jobs'[j].requeue_count] + jobs'[j].attempt_count
          /\ jobs'[j].status # "absent"
      BY <2>3, <2>5, <2>6, <2>7
    <2> QED
      BY <2>2, <2>8 DEF BudgetInv, SameBudget
  <1>3. ASSUME NEW j \in Jobs, CancelRead(j) PROVE BudgetInv'
    BY <1>0, <1>3 DEF CancelRead, SameBudget
  <1>4. ASSUME NEW j \in Jobs, CancelWrite(j) PROVE BudgetInv'
    <2>1. jobs' = [jobs EXCEPT ![j] = [jobs[j] EXCEPT !.status = "cancelled"]]
      BY <1>4 DEF CancelWrite
    <2> QED
      BY <1>4, <1>r, <1>s, <2>1, StatusUpdate, RowConstants DEF CancelWrite
  <1>5. ASSUME NEW j \in Jobs, LeaseRunsOut(j) PROVE BudgetInv'
    <2>1. jobs' = [jobs EXCEPT ![j] = [jobs[j] EXCEPT !.lease = "due"]]
      BY <1>5 DEF LeaseRunsOut
    <2> DEFINE row == [jobs[j] EXCEPT !.lease = "due"]
    <2>2. /\ row.attempt_count = jobs[j].attempt_count
          /\ row.max_attempts = jobs[j].max_attempts
          /\ row.requeue_count = jobs[j].requeue_count
          /\ row.status = jobs[j].status
      BY <1>r, LeaseUpdate, RowConstants
    <2>3. claims' = claims
      BY <1>5 DEF LeaseRunsOut
    <2> HIDE DEF row
    <2> QED
      BY <1>s, <2>1, <2>2, <2>3 DEF row
  <1>6. ASSUME NEW j \in Jobs, DelayElapses(j) PROVE BudgetInv'
    <2>1. jobs' = [jobs EXCEPT ![j] = [jobs[j] EXCEPT !.available = TRUE]]
      BY <1>6 DEF DelayElapses
    <2> QED
      BY <1>6, <1>r, <1>s, <2>1, DelayUpdate DEF DelayElapses
  <1>7. PICK R : /\ R = Recovered
                 /\ R \in [Jobs -> Row]
                 /\ \A k \in Jobs : /\ R[k].attempt_count = jobs[k].attempt_count
                                    /\ R[k].max_attempts = jobs[k].max_attempts
                                    /\ R[k].requeue_count = jobs[k].requeue_count
                                    /\ R[k].status = "absent" => jobs[k].status = "absent"
    <2>1. PICK R : R = Recovered
      OBVIOUS
    <2>2. \A k \in Jobs : R[k] = RecoverLease(jobs[k])
      BY <2>1 DEF Recovered
    <2>3. R \in [Jobs -> Row]
      BY <1>r, <2>1, RowOperators DEF Recovered
    <2>4. \A k \in Jobs : /\ R[k].attempt_count = jobs[k].attempt_count
                          /\ R[k].max_attempts = jobs[k].max_attempts
                          /\ R[k].requeue_count = jobs[k].requeue_count
                          /\ R[k].status = "absent" => jobs[k].status = "absent"
      BY <1>r, <2>2, RowEffects
    <2> QED
      BY <2>1, <2>3, <2>4
  <1>8. ASSUME NEW w \in Workers, Claim(w) PROVE BudgetInv'
    <2>1. PICK j \in Jobs : /\ Ready(R[j])
                            /\ claims' = [claims EXCEPT ![j] = @ + 1]
                            /\ jobs' = [R EXCEPT ![j] = Leased(R[j], claims[j] + 1)]
      BY <1>7, <1>8 DEF Claim, NextJobs
    <2>2. /\ \A k \in Jobs : k # j => jobs'[k] = R[k] /\ claims'[k] = claims[k]
          /\ jobs'[j] = Leased(R[j], claims[j] + 1)
          /\ claims'[j] = claims[j] + 1
      BY <1>7, <2>1 DEF TypeOK
    <2>3. \A k \in Jobs : k # j => SameBudget(k)
      BY <1>7, <2>2 DEF SameBudget
    <2>4. /\ R[j] \in Row
          /\ claims[j] + 1 \in Nat
      BY <1>r, <1>7
    <2>5. /\ jobs'[j].attempt_count = jobs[j].attempt_count + 1
          /\ jobs'[j].max_attempts = jobs[j].max_attempts
          /\ jobs'[j].requeue_count = jobs[j].requeue_count
          /\ jobs'[j].status = "leased"
      <3>1. /\ Leased(R[j], claims[j] + 1).attempt_count = R[j].attempt_count + 1
            /\ Leased(R[j], claims[j] + 1).max_attempts = R[j].max_attempts
            /\ Leased(R[j], claims[j] + 1).requeue_count = R[j].requeue_count
            /\ Leased(R[j], claims[j] + 1).status = "leased"
        BY <2>4, LeaseGrant
      <3> QED
        BY <1>7, <2>2, <3>1
    <2>6. ~(jobs[j].attempt_count >= jobs[j].max_attempts)
      BY <1>7, <2>1 DEF Ready, OutOfAttempts
    <2>7. /\ jobs[j].attempt_count <= jobs[j].max_attempts
          /\ jobs[j].max_attempts <= AttemptCap
          /\ claims[j] <= LeasesOf[jobs[j].requeue_count] + jobs[j].attempt_count
      BY DEF BudgetInv
    <2>8. /\ jobs[j].attempt_count + 1 <= jobs[j].max_attempts
          /\ claims[j] + 1 <= LeasesOf[jobs[j].requeue_count] + (jobs[j].attempt_count + 1)
      BY <1>r, <2>6, <2>7
    <2>9. /\ jobs'[j].attempt_count <= jobs'[j].max_attempts
          /\ jobs'[j].max_attempts <= AttemptCap
          /\ claims'[j] <= LeasesOf[jobs'[j].requeue_count] + jobs'[j].attempt_count
          /\ jobs'[j].status # "absent"
      BY <2>2, <2>5, <2>7, <2>8
    <2> QED
      BY <2>3, <2>9 DEF BudgetInv, SameBudget
  <1>9. ASSUME NEW w \in Workers, ClaimNothing(w) PROVE BudgetInv'
    <2>1. jobs' = R /\ claims' = claims
      BY <1>7, <1>9 DEF ClaimNothing
    <2>2. \A k \in Jobs : SameBudget(k)
      BY <1>7, <2>1 DEF SameBudget
    <2> QED
      BY <1>0, <2>2
  <1>10. ASSUME NEW w \in Workers, MarkRunning(w) PROVE BudgetInv'
    <2>1. /\ task[w] \in Jobs
          /\ jobs' = [jobs EXCEPT ![task[w]] = [jobs[task[w]] EXCEPT !.status = "running"]]
          /\ claims' = claims
      BY <1>10 DEF MarkRunning, TypeOK
    <2> DEFINE row == [jobs[task[w]] EXCEPT !.status = "running"]
    <2>2. /\ row.attempt_count = jobs[task[w]].attempt_count
          /\ row.max_attempts = jobs[task[w]].max_attempts
          /\ row.requeue_count = jobs[task[w]].requeue_count
          /\ row.status = "running"
      BY <1>r, <2>1, StatusUpdate, RowConstants
    <2> HIDE DEF row
    <2> QED
      BY <1>s, <2>1, <2>2 DEF row
  <1>11. ASSUME NEW w \in Workers, Heartbeat(w) PROVE BudgetInv'
    <2>1. /\ task[w] \in Jobs
          /\ \/ jobs' = jobs
             \/ jobs' = [jobs EXCEPT ![task[w]] = [jobs[task[w]] EXCEPT !.lease = "live"]]
      BY <1>11 DEF Heartbeat, TypeOK
    <2>2. CASE jobs' = jobs
      BY <1>11, <2>2 DEF Heartbeat, BudgetInv
    <2>3. CASE jobs' = [jobs EXCEPT ![task[w]] = [jobs[task[w]] EXCEPT !.lease = "live"]]
      BY <1>11, <1>r, <1>s, <2>1, <2>3, LeaseUpdate, RowConstants DEF Heartbeat
    <2> QED
      BY <2>1, <2>2, <2>3
  <1>12. ASSUME NEW w \in Workers, Complete(w) \/ Fail(w) \/ Retry(w) PROVE BudgetInv'
    <2>1. task[w] \in Jobs /\ view[w] \in Row /\ claims' = claims
      BY <1>12 DEF Complete, Fail, Retry, WriteOutcome, TypeOK
    <2>2. PICK s \in {"completed", "failed", "queued"} :
             LET row == Flush(jobs[task[w]], view[w], Released(view[w], s)) IN
             \/ jobs' = [jobs EXCEPT ![task[w]] = row]
             \/ jobs' = [jobs EXCEPT ![task[w]] = [row EXCEPT !.available = FALSE]]
      BY <1>12 DEF Complete, Fail, Retry, WriteOutcome, DeadLetter
    <2> DEFINE row == Flush(jobs[task[w]], view[w], Released(view[w], s))
    <2>3. /\ Released(view[w], s) \in Row
          /\ Released(view[w], s).status = s
      <3>1. s \in Status
        BY DEF Status
      <3>2. Released(view[w], s) \in Row
        BY <2>1, <3>1, RowOperators
      <3>3. Released(view[w], s).status = s
        BY <2>1, <3>1, RowEffects
      <3> QED
        BY <3>2, <3>3
    <2>4. /\ row \in Row
          /\ row.attempt_count = jobs[task[w]].attempt_count
          /\ row.max_attempts = jobs[task[w]].max_attempts
          /\ row.requeue_count = jobs[task[w]].requeue_count
          /\ row.status = "absent" => jobs[task[w]].status = "absent"
      <3>1. row \in Row
        BY <1>r, <2>1, <2>3, RowOperators
      <3> QED
        BY <2>3, <3>1 DEF Flush
    <2> HIDE DEF row
    <2>5. CASE jobs' = [jobs EXCEPT ![task[w]] = row]
      BY <1>s, <2>1, <2>4, <2>5
    <2>6. CASE jobs' = [jobs EXCEPT ![task[w]] = [row EXCEPT !.available = FALSE]]
      BY <1>s, <2>1, <2>4, <2>6, DelayUpdate
    <2> QED
      BY <2>2, <2>5, <2>6 DEF row
  <1>13. ASSUME NEW w \in Workers,
               \/ Start(w) \/ Announce(w) \/ CheckLease(w) \/ Execute(w)
               \/ RecordOutcome(w) \/ MarkStopped(w) \/ Interrupt(w) \/ Crash(w)
        PROVE  BudgetInv'
    <2>1. UNCHANGED <<jobs, claims>>
      BY <1>13 DEF Start, Announce, CheckLease, Execute, RecordOutcome, MarkStopped,
                  Interrupt, Crash
    <2> QED
      BY <2>1 DEF BudgetInv
  <1>14. CASE UNCHANGED vars
    BY <1>14 DEF vars, BudgetInv
  <1> QED
    BY <1>1, <1>2, <1>3, <1>4, <1>5, <1>6, <1>8, <1>9, <1>10, <1>11, <1>12,
       <1>13, <1>14 DEF Next

\* No crash, stall, stale write, retry, cancellation or requeue makes
\* claim_agent_job grant a lease beyond the budget.
THEOREM BudgetHolds == Spec => []AttemptBudget
  <1>1. TypeOK /\ BudgetInv => AttemptBudget
    <2> SUFFICES ASSUME TypeOK, BudgetInv, NEW j \in Jobs
                 PROVE  /\ jobs[j].attempt_count <= jobs[j].max_attempts
                        /\ claims[j] <= LeasesOf[jobs[j].requeue_count + 1]
      BY DEF AttemptBudget
    <2>1. /\ claims[j] \in Nat
          /\ jobs[j].attempt_count \in Nat
          /\ jobs[j].max_attempts \in Nat
          /\ LeasesOf[jobs[j].requeue_count] \in Nat
          /\ LeasesOf[jobs[j].requeue_count + 1]
               = LeasesOf[jobs[j].requeue_count] + AttemptCap
      BY RowColumns, LeasesOfQueueings DEF TypeOK
    <2> QED
      BY <2>1, JobsAssumption DEF BudgetInv
  <1> QED
    BY TypeCorrect, BudgetInit, BudgetStep, <1>1, PTL DEF Spec

-----------------------------------------------------------------------------
(* Mutual exclusion when heartbeats arrive in time *)

\* What lease holders leave on a row.
UnderWork == {"leased", "running", "cancelled"}

\* A worker with a job finds its own token and a live lease on the row.
WorkerSound(w) ==
    pc[w] \in Working =>
        /\ token[w] # 0
        /\ jobs[task[w]].lease_token = token[w]
        /\ jobs[task[w]].lease = "live"
        /\ jobs[task[w]].status \in UnderWork

\* So did it when it loaded the row before writing the outcome.
ViewSound(w) ==
    pc[w] \in {"completing", "rejecting", "failing"} =>
        /\ view[w].lease_token # 0
        /\ view[w].lease = "live"
        /\ view[w].status \in UnderWork

\* A row has a lease exactly while it is held; only cancellation may leave
\* one behind, and only cancellable jobs are cancelled.
RowSound(j, row) ==
    /\ Held(row) => row.lease_token # 0 /\ row.lease # "none"
    /\ ~Held(row) /\ row.status # "cancelled" => row.lease_token = 0 /\ row.lease = "none"
    /\ row.status = "cancelled" => j \in Cancellable

\* Two workers never work on one job.
Exclusive ==
    \A v, w \in Workers :
        pc[v] \in Working /\ pc[w] \in Working /\ task[v] = task[w] => v = w

TimelyInv ==
    /\ \A w \in Workers : WorkerSound(w) /\ ViewSound(w)
    /\ Exclusive
    /\ \A j \in Jobs : RowSound(j, jobs[j])

\* A step that rewrites one row, and no worker's position, keeps the invariant
\* if the new row is sound and keeps the lease of whoever works on it.
LEMMA RowStep ==
    ASSUME TypeOK, TimelyInv, NEW j \in Jobs, NEW row,
           jobs' = [jobs EXCEPT ![j] = row],
           UNCHANGED <<pc, task, token, view>>,
           RowSound(j, row),
           \A w \in Workers :
               pc[w] \in Working /\ task[w] = j =>
                   /\ row.lease_token = jobs[j].lease_token
                   /\ row.lease = "live"
                   /\ row.status \in UnderWork
    PROVE  TimelyInv'
  <1>1. \A k \in Jobs : jobs'[k] = IF k = j THEN row ELSE jobs[k]
    BY DEF TypeOK
  <1>2. \A w \in Workers : pc[w] \in Working => task[w] \in Jobs
    BY DEF TypeOK, Working
  <1>3. \A w \in Workers : WorkerSound(w)' /\ ViewSound(w)'
    BY <1>1, <1>2 DEF TimelyInv, WorkerSound, ViewSound
  <1>4. Exclusive'
    BY DEF TimelyInv, Exclusive
  <1>5. \A k \in Jobs : RowSound(k, jobs[k])'
    BY <1>1 DEF TimelyInv, RowSound, Held
  <1> QED
    BY <1>3, <1>4, <1>5 DEF TimelyInv

\* A step of one worker that leaves the rows alone keeps the invariant if the
\* worker stops working, or goes on with the job and lease it has.
LEMMA WorkerStep ==
    ASSUME TypeOK, TimelyInv, NEW w \in Workers, NEW p, NEW loaded,
           jobs' = jobs,
           pc' = [pc EXCEPT ![w] = p],
           view' = [view EXCEPT ![w] = loaded],
           \A v \in Workers : v # w => task'[v] = task[v] /\ token'[v] = token[v],
           p \in Working => /\ pc[w] \in Working
                            /\ task'[w] = task[w]
                            /\ token'[w] = token[w],
           p \in {"completing", "rejecting", "failing"} => loaded = jobs[task[w]]
    PROVE  TimelyInv'
  <1>1. \A v \in Workers : pc'[v] = IF v = w THEN p ELSE pc[v]
    BY DEF TypeOK
  <1>2. \A v \in Workers : view'[v] = IF v = w THEN loaded ELSE view[v]
    BY DEF TypeOK
  <1>3. \A v \in Workers : pc'[v] \in Working =>
           pc[v] \in Working /\ task'[v] = task[v] /\ token'[v] = token[v]
    BY <1>1
  <1>4. \A v \in Workers : WorkerSound(v)'
    BY <1>3 DEF TimelyInv, WorkerSound
  <1>5. \A v \in Workers : ViewSound(v)'
    <2> SUFFICES ASSUME NEW v \in Workers PROVE ViewSound(v)'
      OBVIOUS
    <2>1. CASE v # w
      BY <1>1, <1>2, <2>1 DEF TimelyInv, ViewSound
    <2>2. CASE v = w /\ p \in {"completing", "rejecting", "failing"}
      <3>1. p \in Working /\ WorkerSound(w) /\ view'[w] = jobs[task[w]]
        BY <1>2, <2>2 DEF TimelyInv, Working
      <3> QED
        BY <1>1, <2>2, <3>1 DEF WorkerSound, ViewSound
    <2>3. CASE v = w /\ p \notin {"completing", "rejecting", "failing"}
      BY <1>1, <2>3 DEF ViewSound
    <2> QED
      BY <2>1, <2>2, <2>3
  <1>6. Exclusive'
    BY <1>3 DEF TimelyInv, Exclusive
  <1>7. \A k \in Jobs : RowSound(k, jobs[k])'
    BY DEF TimelyInv, RowSound, Held
  <1> QED
    BY <1>4, <1>5, <1>6, <1>7 DEF TimelyInv

\* An outcome written by a worker that has its lease ends that lease.
LEMMA OutcomeEndsLease ==
    ASSUME TypeOK, TimelyInv, NEW w \in Workers,
           pc[w] \in {"completing", "rejecting", "failing"},
           NEW s \in {"completed", "failed", "queued"}
    PROVE  LET row == Flush(jobs[task[w]], view[w], Released(view[w], s)) IN
           /\ row \in Row
           /\ row.status = s
           /\ row.lease = "none"
           /\ row.lease_token = 0
  <1>1. task[w] \in Jobs /\ jobs[task[w]] \in Row /\ view[w] \in Row /\ s \in Status
    BY DEF TypeOK, Status
  <1>2. /\ Released(view[w], s) \in Row
        /\ Released(view[w], s).status = s
        /\ Released(view[w], s).lease = "none"
        /\ Released(view[w], s).lease_token = 0
    <2>1. Released(view[w], s) \in Row
      BY <1>1, RowOperators
    <2>2. /\ Released(view[w], s).status = s
          /\ Released(view[w], s).lease = "none"
          /\ Released(view[w], s).lease_token = 0
      BY <1>1, RowEffects
    <2> QED
      BY <2>1, <2>2
  <1>3. view[w].status # s /\ view[w].lease # "none" /\ view[w].lease_token # 0
    BY DEF TimelyInv, ViewSound, UnderWork
  <1>4. Flush(jobs[task[w]], view[w], Released(view[w], s)) \in Row
    BY <1>1, <1>2, RowOperators
  <1> QED
    BY <1>2, <1>3, <1>4 DEF Flush

\* Recovery touches no row whose lease is live, and makes no row unsound.
LEMMA RecoverySound ==
    ASSUME TypeOK, TimelyInv
    PROVE  /\ Recovered \in [Jobs -> Row]
           /\ \A j \in Jobs : RowSound(j, Recovered[j])
           /\ \A w \in Workers : pc[w] \in Working => Recovered[task[w]] = jobs[task[w]]
  <1>1. \A j \in Jobs : jobs[j] \in Row /\ Recovered[j] = RecoverLease(jobs[j])
    BY DEF TypeOK, Recovered
  <1>2. Recovered \in [Jobs -> Row]
    BY <1>1, RowOperators DEF Recovered
  <1>3. ASSUME NEW j \in Jobs PROVE RowSound(j, Recovered[j])
    <2>1. CASE Held(jobs[j]) /\ jobs[j].lease = "due"
      BY <1>1, <2>1, RowEffects DEF RowSound, Held, HeldStatus
    <2>2. CASE ~(Held(jobs[j]) /\ jobs[j].lease = "due")
      <3>1. Recovered[j] = jobs[j]
        BY <1>1, <2>2, RowEffects
      <3> QED
        BY <3>1 DEF TimelyInv
    <2> QED
      BY <2>1, <2>2
  <1>4. ASSUME NEW w \in Workers, pc[w] \in Working
        PROVE  Recovered[task[w]] = jobs[task[w]]
    <2>1. task[w] \in Jobs /\ jobs[task[w]].lease = "live"
      BY <1>4 DEF TypeOK, TimelyInv, WorkerSound, Working
    <2> QED
      BY <1>1, <2>1, RowEffects
  <1> QED
    BY <1>2, <1>3, <1>4

\* claim_agent_job gives a job only to a worker that is then its only one.
LEMMA ClaimStep ==
    ASSUME TypeOK, TimelyInv, NEW w \in Workers, Claim(w)
    PROVE  TimelyInv'
  <1>1. PICK j \in Jobs :
           /\ Ready(Recovered[j])
           /\ claims' = [claims EXCEPT ![j] = @ + 1]
           /\ jobs' = [Recovered EXCEPT ![j] = Leased(Recovered[j], claims[j] + 1)]
           /\ task' = [task EXCEPT ![w] = j]
           /\ token' = [token EXCEPT ![w] = claims[j] + 1]
    BY DEF Claim, NextJobs
  <1>2. /\ claims[j] \in Nat
        /\ claims[j] + 1 \in Nat
        /\ claims[j] + 1 # 0
    BY DEF TypeOK
  <1>3. /\ Recovered \in [Jobs -> Row]
        /\ \A k \in Jobs : RowSound(k, Recovered[k])
        /\ \A v \in Workers : pc[v] \in Working => Recovered[task[v]] = jobs[task[v]]
    BY RecoverySound
  <1>4. PICK row : row = Leased(Recovered[j], claims[j] + 1)
    OBVIOUS
  <1>5. row.status = "leased" /\ row.lease = "live" /\ row.lease_token = claims[j] + 1
    BY <1>2, <1>3, <1>4, LeaseGrant
  <1>6. \A k \in Jobs : jobs'[k] = IF k = j THEN row ELSE Recovered[k]
    BY <1>1, <1>3, <1>4
  <1>7. \A v \in Workers : /\ pc'[v] = IF v = w THEN "claimed" ELSE pc[v]
                           /\ task'[v] = IF v = w THEN j ELSE task[v]
                           /\ token'[v] = IF v = w THEN claims[j] + 1 ELSE token[v]
                           /\ view'[v] = view[v]
    BY <1>1 DEF Claim, TypeOK
  <1>8. \A v \in Workers : pc[v] \in Working => task[v] \in Jobs /\ task[v] # j
    <2> SUFFICES ASSUME NEW v \in Workers, pc[v] \in Working
                 PROVE  task[v] \in Jobs /\ task[v] # j
      OBVIOUS
    <2>1. task[v] \in Jobs
      BY DEF TypeOK, Working
    <2>2. Recovered[task[v]].status \in UnderWork
      BY <1>3 DEF TimelyInv, WorkerSound
    <2>3. Recovered[j].status = "queued"
      BY <1>1 DEF Ready
    <2> QED
      BY <2>1, <2>2, <2>3 DEF UnderWork
  <1>9. \A v \in Workers : WorkerSound(v)'
    <2> SUFFICES ASSUME NEW v \in Workers PROVE WorkerSound(v)'
      OBVIOUS
    <2>1. CASE v = w
      BY <1>2, <1>5, <1>6, <1>7, <2>1 DEF WorkerSound, UnderWork
    <2>2. CASE v # w /\ pc[v] \in Working
      <3>1. jobs'[task'[v]] = jobs[task[v]]
        BY <1>3, <1>6, <1>7, <1>8, <2>2
      <3> QED
        BY <1>7, <2>2, <3>1 DEF TimelyInv, WorkerSound
    <2>3. CASE v # w /\ pc[v] \notin Working
      BY <1>7, <2>3 DEF WorkerSound
    <2> QED
      BY <2>1, <2>2, <2>3
  <1>10. \A v \in Workers : ViewSound(v)'
    BY <1>7 DEF TimelyInv, ViewSound
  <1>11. Exclusive'
    BY <1>7, <1>8 DEF TimelyInv, Exclusive
  <1>12. \A k \in Jobs : RowSound(k, jobs[k])'
    <2> SUFFICES ASSUME NEW k \in Jobs PROVE RowSound(k, jobs'[k])
      BY DEF RowSound, Held
    <2>1. RowSound(j, row)
      BY <1>2, <1>5 DEF RowSound, Held, HeldStatus
    <2> QED
      BY <1>3, <1>6, <2>1
  <1> QED
    BY <1>9, <1>10, <1>11, <1>12 DEF TimelyInv

\* An empty queue has no lease and no worker at work.
LEMMA TimelyInit == Init => TimelyInv
  BY DEF Init, TimelyInv, WorkerSound, ViewSound, Exclusive, RowSound, Working,
         NoRow, Held, HeldStatus

\* While heartbeats arrive in time, every step keeps the leases with the
\* workers that have them.
LEMMA TimelyStep ==
    ASSUME ~Stalls
    PROVE  TypeOK /\ TimelyInv /\ [Next]_vars => TimelyInv'
  <1> SUFFICES ASSUME TypeOK, TimelyInv, [Next]_vars PROVE TimelyInv'
    OBVIOUS
  <1>r. \A k \in Jobs : jobs[k] \in Row /\ RowSound(k, jobs[k])
    BY DEF TypeOK, TimelyInv
  <1>w. \A w \in Workers : pc[w] \in Working =>
           /\ task[w] \in Jobs
           /\ token[w] # 0
           /\ jobs[task[w]].lease_token = token[w]
           /\ jobs[task[w]].lease = "live"
           /\ jobs[task[w]].status \in UnderWork
    BY DEF TypeOK, TimelyInv, WorkerSound, Working
  <1>n. \A j \in Jobs : jobs[j].status \notin UnderWork =>
           \A w \in Workers : pc[w] \in Working => task[w] # j
    BY <1>w
  <1>1. ASSUME NEW j \in Jobs, Enqueue(j) PROVE TimelyInv'
    <2>1. PICK row : row = [jobs[j] EXCEPT !.status = "queued", !.available = TRUE,
                                           !.max_attempts = InitialAttempts[j]]
      OBVIOUS
    <2>2. /\ row.status = "queued"
          /\ row.lease = jobs[j].lease
          /\ row.lease_token = jobs[j].lease_token
      BY <1>r, <2>1 DEF Row
    <2>3. RowSound(j, row)
      BY <1>1, <1>r, <2>2 DEF Enqueue, RowSound, Held, HeldStatus
    <2>4. jobs' = [jobs EXCEPT ![j] = row] /\ UNCHANGED <<pc, task, token, view>>
      BY <1>1, <2>1 DEF Enqueue, workerVars
    <2>5. \A w \in Workers : pc[w] \in Working => task[w] # j
      BY <1>1, <1>n DEF Enqueue, UnderWork
    <2> QED
      BY <2>3, <2>4, <2>5, RowStep
  <1>2. ASSUME NEW j \in Jobs, Requeue(j) PROVE TimelyInv'
    <2>1. PICK limit \in {jobs[j].max_attempts} \cup {ClampAttempts(n) : n \in RequeueLimits} :
             jobs' = [jobs EXCEPT ![j] = Requeued(@, limit)]
      BY <1>2 DEF Requeue
    <2>2. limit \in Nat
      <3>1. \A n \in RequeueLimits : ClampAttempts(n) \in Nat
        BY ClampInRange, JobsAssumption
      <3> QED
        BY <1>r, <2>1, <3>1, RowColumns
    <2>3. RowSound(j, Requeued(jobs[j], limit))
      BY <1>r, <2>2, RequeueUpdate DEF RowSound, Held, HeldStatus
    <2>4. UNCHANGED <<pc, task, token, view>>
      BY <1>2 DEF Requeue, workerVars
    <2>5. \A w \in Workers : pc[w] \in Working => task[w] # j
      BY <1>2, <1>n DEF Requeue, UnderWork
    <2> QED
      BY <2>1, <2>3, <2>4, <2>5, RowStep
  <1>3. ASSUME NEW j \in Jobs, CancelWrite(j) PROVE TimelyInv'
    <2>1. PICK row : row = [jobs[j] EXCEPT !.status = "cancelled"]
      OBVIOUS
    <2>2. /\ row.status = "cancelled"
          /\ row.lease = jobs[j].lease
          /\ row.lease_token = jobs[j].lease_token
      BY <1>r, <2>1, StatusUpdate, RowConstants
    <2>3. RowSound(j, row)
      BY <1>3, <2>2 DEF CancelWrite, TypeOK, RowSound, Held, HeldStatus
    <2>4. jobs' = [jobs EXCEPT ![j] = row] /\ UNCHANGED <<pc, task, token, view>>
      BY <1>3, <2>1 DEF CancelWrite, workerVars
    <2>5. \A w \in Workers : pc[w] \in Working /\ task[w] = j =>
             /\ row.lease_token = jobs[j].lease_token
             /\ row.lease = "live"
             /\ row.status \in UnderWork
      BY <1>w, <2>2 DEF UnderWork
    <2> QED
      BY <2>3, <2>4, <2>5, RowStep
  <1>4. ASSUME NEW j \in Jobs, LeaseRunsOut(j) PROVE TimelyInv'
    <2>1. PICK row : row = [jobs[j] EXCEPT !.lease = "due"]
      OBVIOUS
    <2>2. /\ row.status = jobs[j].status
          /\ row.lease = "due"
          /\ row.lease_token = jobs[j].lease_token
      BY <1>r, <2>1, LeaseUpdate, RowConstants
    <2>3. RowSound(j, row)
      BY <1>4, <1>r, <2>2 DEF LeaseRunsOut, RowSound, Held
    <2>4. jobs' = [jobs EXCEPT ![j] = row] /\ UNCHANGED <<pc, task, token, view>>
      BY <1>4, <2>1 DEF LeaseRunsOut, workerVars
    <2>5. \A w \in Workers : pc[w] \in Working => task[w] # j
      BY <1>4, <1>w DEF LeaseRunsOut, Holds
    <2> QED
      BY <2>3, <2>4, <2>5, RowStep
  <1>5. ASSUME NEW j \in Jobs, DelayElapses(j) PROVE TimelyInv'
    <2>1. PICK row : row = [jobs[j] EXCEPT !.available = TRUE]
      OBVIOUS
    <2>2. /\ row.status = jobs[j].status
          /\ row.lease = jobs[j].lease
          /\ row.lease_token = jobs[j].lease_token
      BY <1>r, <2>1, DelayUpdate
    <2>3. RowSound(j, row)
      BY <1>r, <2>2 DEF RowSound, Held
    <2>4. jobs' = [jobs EXCEPT ![j] = row] /\ UNCHANGED <<pc, task, token, view>>
      BY <1>5, <2>1 DEF DelayElapses, workerVars
    <2>5. \A w \in Workers : pc[w] \in Working /\ task[w] = j =>
             /\ row.lease_token = jobs[j].lease_token
             /\ row.lease = "live"
             /\ row.status \in UnderWork
      BY <1>w, <2>2
    <2> QED
      BY <2>3, <2>4, <2>5, RowStep
  <1>6. ASSUME NEW w \in Workers, ClaimNothing(w) PROVE TimelyInv'
    <2>1. jobs' = Recovered /\ UNCHANGED <<pc, task, token, view>>
      BY <1>6 DEF ClaimNothing
    <2>2. \A v \in Workers : WorkerSound(v)' /\ ViewSound(v)'
      BY <1>w, <2>1, RecoverySound DEF TimelyInv, WorkerSound, ViewSound
    <2>3. Exclusive'
      BY <2>1 DEF TimelyInv, Exclusive
    <2>4. \A k \in Jobs : RowSound(k, jobs[k])'
      BY <2>1, RecoverySound DEF RowSound, Held
    <2> QED
      BY <2>2, <2>3, <2>4 DEF TimelyInv
  <1>7. ASSUME NEW w \in Workers, MarkRunning(w) PROVE TimelyInv'
    <2>1. pc[w] \in Working /\ task[w] \in Jobs
      BY <1>7, <1>w DEF MarkRunning, Working
    <2>2. PICK row : row = [jobs[task[w]] EXCEPT !.status = "running"]
      OBVIOUS
    <2>3. /\ row.status = "running"
          /\ row.lease = jobs[task[w]].lease
          /\ row.lease_token = jobs[task[w]].lease_token
      BY <1>r, <2>1, <2>2, StatusUpdate, RowConstants
    <2>4. RowSound(task[w], row)
      BY <1>w, <2>1, <2>3 DEF RowSound, Held, HeldStatus
    <2>5. \A k \in Jobs : jobs'[k] = IF k = task[w] THEN row ELSE jobs[k]
      BY <1>7, <2>1, <2>2 DEF MarkRunning, TypeOK
    <2>6. \A v \in Workers : pc'[v] = IF v = w THEN "executing" ELSE pc[v]
      BY <1>7 DEF MarkRunning, TypeOK
    <2>7. UNCHANGED <<task, token, view>>
      BY <1>7 DEF MarkRunning
    <2>8. \A v \in Workers : WorkerSound(v)'
      BY <1>w, <2>1, <2>3, <2>5, <2>6, <2>7 DEF WorkerSound, UnderWork
    <2>9. \A v \in Workers : ViewSound(v)'
      BY <2>6, <2>7 DEF TimelyInv, ViewSound
    <2>10. Exclusive'
      BY <2>1, <2>6, <2>7 DEF TimelyInv, Exclusive
    <2>11. \A k \in Jobs : RowSound(k, jobs[k])'
      BY <1>r, <2>4, <2>5 DEF RowSound, Held
    <2> QED
      BY <2>8, <2>9, <2>10, <2>11 DEF TimelyInv
  <1>8. ASSUME NEW w \in Workers, Complete(w) \/ Fail(w) \/ Retry(w) PROVE TimelyInv'
    <2>1. /\ pc[w] \in {"completing", "rejecting", "failing"}
          /\ pc' = [pc EXCEPT ![w] = "processed"]
          /\ view' = [view EXCEPT ![w] = NoRow]
          /\ UNCHANGED <<task, token>>
      BY <1>8 DEF Complete, Fail, Retry, WriteOutcome
    <2>2. pc[w] \in Working /\ task[w] \in Jobs
      BY <1>w, <2>1 DEF Working
    <2>3. PICK s \in {"completed", "failed", "queued"} :
             LET row == Flush(jobs[task[w]], view[w], Released(view[w], s)) IN
             \/ jobs' = [jobs EXCEPT ![task[w]] = row]
             \/ jobs' = [jobs EXCEPT ![task[w]] = [row EXCEPT !.available = FALSE]]
      BY <1>8 DEF Complete, Fail, Retry, WriteOutcome, DeadLetter
    <2>4. PICK row : row = Flush(jobs[task[w]], view[w], Released(view[w], s))
      OBVIOUS
    <2>5. /\ row \in Row
          /\ row.status = s
          /\ row.lease = "none"
          /\ row.lease_token = 0
      BY <2>1, <2>4, OutcomeEndsLease
    <2>6. PICK written \in {row, [row EXCEPT !.available = FALSE]} :
             jobs' = [jobs EXCEPT ![task[w]] = written]
      BY <2>3, <2>4
    <2>7. written.status = s /\ written.lease = "none" /\ written.lease_token = 0
      BY <2>5, <2>6, DelayUpdate
    <2>8. RowSound(task[w], written)
      BY <2>7 DEF RowSound, Held, HeldStatus
    <2>9. \A k \in Jobs : jobs'[k] = IF k = task[w] THEN written ELSE jobs[k]
      BY <2>2, <2>6 DEF TypeOK
    <2>10. \A v \in Workers : /\ pc'[v] = IF v = w THEN "processed" ELSE pc[v]
                              /\ view'[v] = IF v = w THEN NoRow ELSE view[v]
      BY <2>1 DEF TypeOK
    <2>11. \A v \in Workers : pc'[v] \in Working => v # w /\ task[v] # task[w]
      BY <2>2, <2>10 DEF TimelyInv, Exclusive, Working
    <2>12. \A v \in Workers : WorkerSound(v)'
      BY <1>w, <2>1, <2>9, <2>10, <2>11 DEF WorkerSound
    <2>13. \A v \in Workers : ViewSound(v)'
      BY <2>10 DEF TimelyInv, ViewSound
    <2>14. Exclusive'
      BY <2>1, <2>10, <2>11 DEF TimelyInv, Exclusive
    <2>15. \A k \in Jobs : RowSound(k, jobs[k])'
      BY <1>r, <2>8, <2>9 DEF RowSound, Held
    <2> QED
      BY <2>12, <2>13, <2>14, <2>15 DEF TimelyInv
  <1>9. ASSUME NEW w \in Workers, Heartbeat(w) PROVE TimelyInv'
    <2>1. task[w] \in Jobs /\ UNCHANGED <<pc, task, token, view>>
      BY <1>9 DEF Heartbeat, TypeOK
    <2>2. CASE jobs' = jobs
      BY <2>1, <2>2 DEF TimelyInv, WorkerSound, ViewSound, Exclusive, RowSound, Held
    <2>3. CASE jobs' # jobs
      <3>1. /\ jobs' = [jobs EXCEPT ![task[w]] = [jobs[task[w]] EXCEPT !.lease = "live"]]
            /\ Held(jobs[task[w]])
        BY <1>9, <2>3 DEF Heartbeat
      <3>2. PICK row : row = [jobs[task[w]] EXCEPT !.lease = "live"]
        OBVIOUS
      <3>3. /\ row.status = jobs[task[w]].status
            /\ row.lease = "live"
            /\ row.lease_token = jobs[task[w]].lease_token
        BY <1>r, <2>1, <3>2, LeaseUpdate, RowConstants
      <3>4. RowSound(task[w], row)
        BY <1>r, <2>1, <3>1, <3>3 DEF RowSound, Held
      <3>5. \A v \in Workers : pc[v] \in Working /\ task[v] = task[w] =>
               /\ row.lease_token = jobs[task[w]].lease_token
               /\ row.lease = "live"
               /\ row.status \in UnderWork
        BY <1>w, <3>3
      <3>6. jobs' = [jobs EXCEPT ![task[w]] = row]
        BY <3>1, <3>2
      <3> QED
        BY <2>1, <3>4, <3>5, <3>6, RowStep
    <2> QED
      BY <2>2, <2>3
  <1>10. ASSUME NEW w \in Workers,
               \/ Start(w) \/ Announce(w) \/ CheckLease(w) \/ Execute(w)
               \/ RecordOutcome(w) \/ MarkStopped(w) \/ Interrupt(w) \/ Crash(w)
        PROVE  TimelyInv'
    <2>1. jobs' = jobs
      BY <1>10 DEF Start, Announce, CheckLease, Execute, RecordOutcome, MarkStopped,
                  Interrupt, Crash
    <2>2. \A v \in Workers : v # w => task'[v] = task[v] /\ token'[v] = token[v]
      BY <1>10 DEF Start, Announce, CheckLease, Execute, RecordOutcome, MarkStopped,
                  Interrupt, Crash, TypeOK
    <2>3. PICK p, loaded :
             /\ pc' = [pc EXCEPT ![w] = p]
             /\ view' = [view EXCEPT ![w] = loaded]
             /\ p \in Working => /\ pc[w] \in Working
                                 /\ task'[w] = task[w]
                                 /\ token'[w] = token[w]
             /\ p \in {"completing", "rejecting", "failing"} => loaded = jobs[task[w]]
      <3>1. view = [view EXCEPT ![w] = view[w]]
        BY DEF TypeOK
      <3>2. CASE Start(w) \/ Announce(w) \/ CheckLease(w)
        BY <3>1, <3>2 DEF Start, Announce, CheckLease, Working
      <3>3. CASE Execute(w)
        BY <3>3 DEF Execute, Working
      <3>4. CASE RecordOutcome(w) \/ MarkStopped(w)
        BY <3>1, <3>4 DEF RecordOutcome, MarkStopped, Working
      <3>5. CASE Interrupt(w) \/ Crash(w)
        BY <3>5 DEF Interrupt, Crash, Working
      <3> QED
        BY <1>10, <3>2, <3>3, <3>4, <3>5
    <2> QED
      BY <2>1, <2>2, <2>3, WorkerStep
  <1>11. CASE UNCHANGED vars \/ \E j \in Jobs : CancelRead(j)
    BY <1>11 DEF vars, CancelRead, workerVars, TimelyInv, WorkerSound, ViewSound,
                 Exclusive, RowSound, Held
  <1> QED
    BY <1>1, <1>2, <1>3, <1>4, <1>5, <1>6, <1>7, <1>8, <1>9, <1>10, <1>11,
       ClaimStep DEF Next

\* While heartbeats arrive in time, no two workers process one job at once,
\* whatever recoveries, retries, cancellations, requeues and crashes happen.
THEOREM ExclusionHolds ==
    ASSUME ~Stalls
    PROVE  Spec => []MutualExclusion
  <1>1. TimelyInv => MutualExclusion
    BY DEF TimelyInv, Exclusive, MutualExclusion, Processing, Working
  <1>2. TypeOK /\ TimelyInv /\ [Next]_vars => TimelyInv'
    BY TimelyStep
  <1> QED
    BY TypeCorrect, TimelyInit, <1>1, <1>2, PTL DEF Spec

\* While heartbeats arrive in time, exactly the leased and running rows carry
\* a lease, so recovery finds every job whose worker died.
THEOREM LeasesMatch ==
    ASSUME ~Stalls
    PROVE  Spec => []LeaseMatchesStatus
  <1>1. TimelyInv => LeaseMatchesStatus
    <2> SUFFICES ASSUME TimelyInv, NEW j \in Jobs \ Cancellable
                 PROVE  /\ Held(jobs[j]) <=> jobs[j].lease_token # 0
                        /\ Held(jobs[j]) <=> jobs[j].lease # "none"
      BY DEF LeaseMatchesStatus
    <2>1. RowSound(j, jobs[j])
      BY DEF TimelyInv
    <2> QED
      BY <2>1 DEF RowSound
  <1>2. TypeOK /\ TimelyInv /\ [Next]_vars => TimelyInv'
    BY TimelyStep
  <1> QED
    BY TypeCorrect, TimelyInit, <1>1, <1>2, PTL DEF Spec

-----------------------------------------------------------------------------
(* Which worker ends itself *)

\* Before it has marked its job running, a worker finds it leased, unless a
\* schedule change has cancelled it.
Fresh == {"claimed", "announced", "checked"}

FreshInv == \A w \in Workers : pc[w] \in Fresh => jobs[task[w]].status \in {"leased", "cancelled"}

LEMMA FreshStep ==
    ASSUME ~Stalls, TypeOK, TimelyInv, FreshInv, [Next]_vars
    PROVE  FreshInv'
  <1> SUFFICES ASSUME NEW w \in Workers, pc'[w] \in Fresh
               PROVE  jobs'[task'[w]].status \in {"leased", "cancelled"}
    BY DEF FreshInv
  <1> DEFINE Kept == /\ pc[w] \in Fresh
                     /\ task'[w] = task[w]
                     /\ jobs'[task[w]].status \in {jobs[task[w]].status, "cancelled"}
  <1>1. ASSUME Kept PROVE jobs'[task'[w]].status \in {"leased", "cancelled"}
    BY <1>1 DEF FreshInv
  <1>2. ASSUME pc[w] \in Fresh
        PROVE  /\ pc[w] \in Working /\ task[w] \in Jobs /\ jobs[task[w]] \in Row
               /\ jobs[task[w]].status \in {"leased", "cancelled"} /\ jobs[task[w]].lease = "live"
    BY <1>2 DEF Fresh, FreshInv, Working, TypeOK, TimelyInv, WorkerSound
  <1>3. ASSUME NEW x \in Jobs, Enqueue(x) \/ Requeue(x) \/ CancelRead(x) \/ CancelWrite(x)
        PROVE  Kept
    <2>1. pc[w] \in Fresh /\ task'[w] = task[w]
      BY <1>3 DEF Enqueue, Requeue, CancelRead, CancelWrite, workerVars
    <2> QED
      BY <1>2, <1>3, <2>1 DEF Enqueue, Requeue, CancelRead, CancelWrite, TypeOK, Row
  <1>4. ASSUME NEW x \in Jobs, LeaseRunsOut(x) \/ DelayElapses(x) PROVE Kept
    <2>1. pc[w] \in Fresh /\ task'[w] = task[w]
      BY <1>4 DEF LeaseRunsOut, DelayElapses, workerVars
    <2>2. \/ jobs'[task[w]] = jobs[task[w]]
          \/ jobs'[task[w]] = [jobs[task[w]] EXCEPT !.lease = "due"]
          \/ jobs'[task[w]] = [jobs[task[w]] EXCEPT !.available = TRUE]
      BY <1>2, <1>4, <2>1 DEF LeaseRunsOut, DelayElapses, TypeOK
    <2>3. jobs'[task[w]].status = jobs[task[w]].status
      <3>1. PICK row \in Row : row = jobs[task[w]]
        BY <1>2, <2>1
      <3>2. "due" \in Lease /\ TRUE \in BOOLEAN
        BY DEF Lease
      <3>3. [row EXCEPT !.lease = "due"].status = row.status /\ [row EXCEPT !.available = TRUE].status = row.status
        BY <3>2, LeaseUpdate, DelayUpdate
      <3> QED
        BY <2>2, <3>1, <3>3
    <2> QED
      BY <2>1, <2>3
  <1>5. ASSUME NEW v \in Workers, Claim(v) PROVE jobs'[task'[w]].status \in {"leased", "cancelled"}
    <2>1. PICK k \in Jobs :
             /\ Ready(Recovered[k])
             /\ jobs' = [Recovered EXCEPT ![k] = Leased(Recovered[k], claims[k] + 1)]
             /\ task' = [task EXCEPT ![v] = k]
      BY <1>5 DEF Claim, NextJobs
    <2>2. Recovered \in [Jobs -> Row] /\ claims[k] + 1 \in Nat
      BY RecoverySound DEF TypeOK
    <2>3. CASE v = w
      <3>1. jobs'[task'[w]] = Leased(Recovered[k], claims[k] + 1)
        BY <2>1, <2>2, <2>3 DEF TypeOK
      <3> QED
        BY <2>2, <3>1, LeaseGrant
    <2>4. CASE v # w
      <3>1. pc[w] \in Fresh /\ task'[w] = task[w]
        BY <1>5, <2>1, <2>4 DEF Claim, TypeOK
      <3>2. Recovered[task[w]] = jobs[task[w]] /\ task[w] # k
        BY <1>2, <2>1, <3>1, RecoverySound DEF Ready
      <3>3. jobs'[task[w]] = jobs[task[w]]
        BY <1>2, <2>1, <2>2, <3>1, <3>2
      <3> QED
        BY <1>2, <3>1, <3>3
    <2> QED
      BY <2>3, <2>4
  <1>6. ASSUME NEW v \in Workers, ClaimNothing(v) PROVE Kept
    <2>1. pc[w] \in Fresh /\ task'[w] = task[w] /\ jobs' = Recovered
      BY <1>6 DEF ClaimNothing
    <2> QED
      BY <1>2, <2>1, RecoverySound
  <1>7. ASSUME NEW v \in Workers, MarkRunning(v) \/ Complete(v) \/ Fail(v) \/ Retry(v) PROVE Kept
    <2>1. pc[v] \in Working /\ v # w
      BY <1>7 DEF MarkRunning, Complete, Fail, Retry, WriteOutcome, Working, Fresh, TypeOK
    <2>2. pc[w] \in Fresh /\ task'[w] = task[w]
      BY <1>7, <2>1 DEF MarkRunning, Complete, Fail, Retry, WriteOutcome, TypeOK
    <2>3. task[v] # task[w]
      BY <1>2, <2>1, <2>2 DEF TimelyInv, Exclusive
    <2>4. jobs'[task[w]] = jobs[task[w]]
      BY <1>2, <1>7, <2>2, <2>3 DEF MarkRunning, Complete, Fail, Retry, WriteOutcome, TypeOK
    <2> QED
      BY <2>2, <2>4
  <1>8. ASSUME NEW v \in Workers, Heartbeat(v) PROVE Kept
    <2>1. /\ pc[w] \in Fresh /\ task'[w] = task[w]
          /\ jobs' = jobs \/ jobs' = [jobs EXCEPT ![task[v]].lease = "live"]
      BY <1>8 DEF Heartbeat
    <2>2. \/ jobs'[task[w]] = jobs[task[w]]
          \/ jobs'[task[w]] = [jobs[task[w]] EXCEPT !.lease = "live"]
      BY <1>2, <2>1 DEF TypeOK
    <2>3. jobs'[task[w]].status = jobs[task[w]].status
      <3>1. PICK row \in Row : row = jobs[task[w]]
        BY <1>2, <2>1
      <3>2. "live" \in Lease
        BY DEF Lease
      <3>3. [row EXCEPT !.lease = "live"].status = row.status
        BY <3>2, LeaseUpdate
      <3> QED
        BY <2>2, <3>1, <3>3
    <2> QED
      BY <2>1, <2>3
  <1>9. ASSUME NEW v \in Workers,
               \/ Start(v) \/ Announce(v) \/ CheckLease(v) \/ Execute(v)
               \/ RecordOutcome(v) \/ MarkStopped(v) \/ Interrupt(v) \/ Crash(v)
        PROVE  Kept
    <2>1. jobs' = jobs
      BY <1>9 DEF Start, Announce, CheckLease, Execute, RecordOutcome, MarkStopped, Interrupt, Crash
    <2>2. pc[w] \in Fresh /\ task'[w] = task[w]
      <3>1. CASE v # w
        BY <1>9, <3>1 DEF Start, Announce, CheckLease, Execute, RecordOutcome, MarkStopped,
                          Interrupt, Crash, TypeOK
      <3>2. CASE v = w
        BY <1>9, <3>2 DEF Start, Announce, CheckLease, Execute, RecordOutcome, MarkStopped,
                          Interrupt, Crash, Fresh, TypeOK
      <3> QED
        BY <3>1, <3>2
    <2> QED
      BY <2>1, <2>2
  <1>10. CASE UNCHANGED vars
    BY <1>1, <1>10 DEF vars
  <1> QED
    BY <1>1, <1>3, <1>4, <1>5, <1>6, <1>7, <1>8, <1>9, <1>10 DEF Next

\* While heartbeats arrive in time, a worker that nobody kills ends itself
\* only where the job it has claimed was cancelled meanwhile: no recovery and
\* no requeue takes the lease of a worker that has yet to look at it.
THEOREM WorkersEndOnCancellation ==
    ASSUME ~Stalls
    PROVE  Spec => EndsOnlyOnCancellation
  <1>1. Init => FreshInv
    BY DEF Init, FreshInv, Fresh
  <1>2. TypeOK /\ TimelyInv /\ [Next]_vars => TimelyInv'
    BY TimelyStep
  <1>3. TypeOK /\ TimelyInv /\ FreshInv /\ [Next]_vars => FreshInv'
    BY FreshStep
  <1>4. TypeOK /\ TimelyInv /\ FreshInv /\ [Next]_vars =>
           [\A w \in Workers \ Crashable :
               pc[w] # "stopping" /\ pc'[w] = "stopping" => jobs[task[w]].status = "cancelled"]_vars
    <2> SUFFICES ASSUME TypeOK, TimelyInv, FreshInv, Next, NEW w \in Workers \ Crashable,
                        pc[w] # "stopping", pc'[w] = "stopping"
                 PROVE  jobs[task[w]].status = "cancelled"
      BY DEF vars
    <2>1. CheckLease(w)
      BY DEF Next, Enqueue, Requeue, CancelRead, CancelWrite, LeaseRunsOut, DelayElapses, Start,
             Claim, ClaimNothing, Announce, CheckLease, MarkRunning, Execute, Complete, Fail, Retry,
             WriteOutcome, RecordOutcome, MarkStopped, Heartbeat, Interrupt, Crash, workerVars, TypeOK
    <2>2. pc[w] = "announced" /\ ~(jobs[task[w]].lease_token = token[w] /\ jobs[task[w]].status = "leased")
      BY <2>1 DEF CheckLease, TypeOK
    <2> QED
      BY <2>2 DEF TimelyInv, WorkerSound, FreshInv, Fresh, Working
  <1> QED
    BY TypeCorrect, TimelyInit, <1>1, <1>2, <1>3, <1>4, PTL DEF Spec, EndsOnlyOnCancellation

-----------------------------------------------------------------------------
(* The life cycle that users of the queue rely on *)

SameCounts(before, after) ==
    /\ after.attempt_count = before.attempt_count
    /\ after.max_attempts = before.max_attempts

\* How one step may rewrite the row of a job that nobody cancels.
Moves(before, after) ==
    \/ /\ SameCounts(before, after)
       /\ after.status = before.status \/ (Held(after) /\ Held(before))
    \/ /\ before.status \in {"absent", "failed"}
       /\ after.status = "queued"
       /\ after.attempt_count = 0 /\ after.max_attempts \in 1..AttemptCap
    \/ /\ before.status = "queued" \/ Held(before)
       /\ ~OutOfAttempts(before)
       /\ after.status = "leased"
       /\ after.attempt_count = before.attempt_count + 1
       /\ after.max_attempts = before.max_attempts
    \/ /\ Held(before) /\ ~OutOfAttempts(before)
       /\ SameCounts(before, after) /\ after.status = "queued"
    \/ /\ Held(before)
       /\ SameCounts(before, after) /\ after.status \in {"completed", "failed"}

\* A job that was accepted has a budget, and what a worker loaded before it
\* writes the outcome tells the attempts of the row.
LifeInv ==
    /\ \A j \in Jobs \ Cancellable : jobs[j].status # "absent" => jobs[j].max_attempts >= 1
    /\ \A w \in Workers :
          pc[w] \in {"completing", "rejecting", "failing"} => SameCounts(jobs[task[w]], view[w])

\* Recovery gives a lease back for another attempt, or ends the job.
LEMMA RecoveryMoves ==
    ASSUME NEW row \in Row
    PROVE  Moves(row, RecoverLease(row))
  <1>1. SameCounts(row, RecoverLease(row))
    BY RowEffects DEF SameCounts
  <1>2. CASE ~(Held(row) /\ row.lease = "due")
    BY <1>1, <1>2, RowEffects DEF Moves
  <1>3. CASE Held(row) /\ row.lease = "due" /\ OutOfAttempts(row)
    <2>1. RecoverLease(row).status = "failed"
      BY <1>3, RowEffects, RowConstants DEF RecoverLease, DeadLetter
    <2> QED
      BY <1>1, <1>3, <2>1 DEF Moves
  <1>4. CASE Held(row) /\ row.lease = "due" /\ ~OutOfAttempts(row)
    <2>1. RecoverLease(row) = [Released(row, "queued") EXCEPT !.available = TRUE]
      BY <1>4 DEF RecoverLease
    <2>0. "queued" \in Status
      BY RowConstants
    <2>2. Released(row, "queued") \in Row /\ Released(row, "queued").status = "queued"
      <3>1. Released(row, "queued") \in Row
        BY <2>0, RowOperators
      <3>2. Released(row, "queued").status = "queued"
        BY <2>0, RowEffects
      <3> QED
        BY <3>1, <3>2
    <2>3. RecoverLease(row).status = "queued"
      BY <2>1, <2>2, DelayUpdate
    <2> QED
      BY <1>1, <1>4, <2>3 DEF Moves
  <1> QED
    BY <1>2, <1>3, <1>4

\* A claim starts an attempt of a job that waits, or whose worker was lost.
LEMMA ClaimMoves ==
    ASSUME TypeOK, NEW w \in Workers, Claim(w), NEW k \in Jobs
    PROVE  Moves(jobs[k], jobs'[k])
  <1>1. PICK j \in Jobs :
           /\ Ready(Recovered[j])
           /\ jobs' = [Recovered EXCEPT ![j] = Leased(Recovered[j], claims[j] + 1)]
    BY DEF Claim, NextJobs
  <1>2. /\ jobs[k] \in Row /\ jobs[j] \in Row /\ claims[j] + 1 \in Nat
        /\ Recovered[k] = RecoverLease(jobs[k]) /\ Recovered[j] = RecoverLease(jobs[j])
        /\ jobs'[k] = IF k = j THEN Leased(Recovered[j], claims[j] + 1) ELSE Recovered[k]
    BY <1>1 DEF TypeOK, Recovered
  <1>3. CASE k # j
    BY <1>2, <1>3, RecoveryMoves
  <1>4. CASE k = j
    <2>1. Recovered[j] \in Row
      BY <1>2, RowOperators
    <2>2. /\ jobs'[k].status = "leased"
          /\ jobs'[k].attempt_count = jobs[k].attempt_count + 1
          /\ jobs'[k].max_attempts = jobs[k].max_attempts
      BY <1>2, <1>4, <2>1, LeaseGrant, RowEffects
    <2>3. ~OutOfAttempts(jobs[k])
      BY <1>1, <1>2, <1>4, RowEffects DEF Ready, OutOfAttempts
    <2>4. jobs[k].status = "queued" \/ Held(jobs[k])
      BY <1>1, <1>2, <1>4, RowEffects DEF Ready
    <2> QED
      BY <2>2, <2>3, <2>4 DEF Moves
  <1> QED
    BY <1>3, <1>4

\* While heartbeats arrive in time, every step moves the row of a job that
\* nobody cancels in one of these ways.
LEMMA RowMoves ==
    ASSUME ~Stalls, TypeOK, BudgetInv, TimelyInv, LifeInv, [Next]_vars, NEW j \in Jobs \ Cancellable
    PROVE  Moves(jobs[j], jobs'[j])
  <1>1. jobs[j] \in Row /\ RowSound(j, jobs[j]) /\ j \in Jobs
    BY DEF TypeOK, TimelyInv
  <1>2. ASSUME jobs'[j] = jobs[j] PROVE Moves(jobs[j], jobs'[j])
    BY <1>2 DEF Moves, SameCounts
  <1>3. ASSUME NEW w \in Workers, pc[w] \in Working, task[w] = j PROVE Held(jobs[j])
    BY <1>1, <1>3 DEF TimelyInv, WorkerSound, UnderWork, RowSound, Held, HeldStatus
  <1>4. ASSUME NEW x \in Jobs, Enqueue(x) PROVE Moves(jobs[j], jobs'[j])
    <2>1. CASE x = j
      <3>1. jobs[j].status = "absent" /\ jobs[j].attempt_count = 0
        BY <1>4, <2>1 DEF Enqueue, BudgetInv
      <3>2. /\ jobs'[j].status = "queued" /\ jobs'[j].attempt_count = jobs[j].attempt_count
            /\ jobs'[j].max_attempts = InitialAttempts[j]
        BY <1>1, <1>4, <2>1 DEF Enqueue, TypeOK, Row
      <3>3. InitialAttempts[j] \in 1..AttemptCap
        BY JobsAssumption
      <3> QED
        BY <3>1, <3>2, <3>3 DEF Moves
    <2> QED
      BY <1>2, <1>4, <2>1 DEF Enqueue, TypeOK
  <1>5. ASSUME NEW x \in Jobs, Requeue(x) PROVE Moves(jobs[j], jobs'[j])
    <2>1. CASE x = j
      <3>1. jobs[j].status = "failed"
        BY <1>5, <2>1 DEF Requeue
      <3>2. PICK limit \in {jobs[j].max_attempts} \cup {ClampAttempts(n) : n \in RequeueLimits} :
               jobs' = [jobs EXCEPT ![j] = Requeued(jobs[j], limit)]
        BY <1>5, <2>1 DEF Requeue
      <3>3. jobs[j].max_attempts \in 1..AttemptCap
        BY <1>1, <3>1, RowColumns, JobsAssumption DEF LifeInv, BudgetInv
      <3>4. limit \in 1..AttemptCap /\ limit \in Nat
        BY <3>2, <3>3, ClampInRange, JobsAssumption
      <3>5. jobs'[j] = Requeued(jobs[j], limit)
        BY <1>1, <3>2 DEF TypeOK
      <3> QED
        BY <1>1, <3>1, <3>4, <3>5, RequeueUpdate DEF Moves
    <2> QED
      BY <1>2, <1>5, <2>1 DEF Requeue, TypeOK
  <1>6. ASSUME NEW x \in Jobs, CancelRead(x) \/ CancelWrite(x) PROVE Moves(jobs[j], jobs'[j])
    BY <1>1, <1>2, <1>6 DEF CancelRead, CancelWrite, TypeOK
  <1>7. ASSUME NEW x \in Jobs, LeaseRunsOut(x) PROVE Moves(jobs[j], jobs'[j])
    <2>1. jobs'[j] = IF x = j THEN [jobs[j] EXCEPT !.lease = "due"] ELSE jobs[j]
      BY <1>1, <1>7 DEF LeaseRunsOut, TypeOK
    <2> QED
      BY <1>1, <1>2, <2>1, LeaseUpdate, RowConstants DEF Moves, SameCounts
  <1>8. ASSUME NEW x \in Jobs, DelayElapses(x) PROVE Moves(jobs[j], jobs'[j])
    <2>1. jobs'[j] = IF x = j THEN [jobs[j] EXCEPT !.available = TRUE] ELSE jobs[j]
      BY <1>1, <1>8 DEF DelayElapses, TypeOK
    <2> QED
      BY <1>1, <1>2, <2>1, DelayUpdate DEF Moves, SameCounts
  <1>9. ASSUME NEW w \in Workers, Claim(w) PROVE Moves(jobs[j], jobs'[j])
    BY <1>1, <1>9, ClaimMoves
  <1>10. ASSUME NEW w \in Workers, ClaimNothing(w) PROVE Moves(jobs[j], jobs'[j])
    BY <1>1, <1>10, RecoveryMoves DEF ClaimNothing, Recovered
  <1>11. ASSUME NEW w \in Workers, MarkRunning(w) PROVE Moves(jobs[j], jobs'[j])
    <2>1. CASE task[w] # j
      BY <1>2, <1>11, <2>1 DEF MarkRunning, TypeOK
    <2>2. CASE task[w] = j
      <3>1. Held(jobs[j])
        BY <1>3, <1>11, <2>2 DEF MarkRunning, Working
      <3>2. jobs'[j] = [jobs[j] EXCEPT !.status = "running"]
        BY <1>1, <1>11, <2>2 DEF MarkRunning, TypeOK
      <3> QED
        BY <1>1, <3>1, <3>2, StatusUpdate, RowConstants DEF Moves, SameCounts, Held, HeldStatus
    <2> QED
      BY <2>1, <2>2
  <1>12. ASSUME NEW w \in Workers, Complete(w) \/ Fail(w) \/ Retry(w)
         PROVE  Moves(jobs[j], jobs'[j])
    <2>1. CASE task[w] # j
      BY <1>2, <1>12, <2>1 DEF Complete, Fail, Retry, WriteOutcome, TypeOK
    <2>2. CASE task[w] = j
      <3>1. pc[w] \in {"completing", "rejecting", "failing"} /\ Held(jobs[j])
        BY <1>3, <1>12, <2>2 DEF Complete, Fail, Retry, Working
      <3>2. PICK s \in {"completed", "failed", "queued"} :
               LET row == Flush(jobs[j], view[w], Released(view[w], s)) IN
               /\ jobs'[j] = row \/ jobs'[j] = [row EXCEPT !.available = FALSE]
               /\ s = "queued" => ~OutOfAttempts(view[w])
        BY <1>1, <1>12, <2>2 DEF Complete, Fail, Retry, WriteOutcome, DeadLetter, TypeOK
      <3>3. PICK row : row = Flush(jobs[j], view[w], Released(view[w], s))
        OBVIOUS
      <3>4. row \in Row /\ row.status = s
        BY <2>2, <3>1, <3>3, OutcomeEndsLease
      <3>5. row.attempt_count = jobs[j].attempt_count /\ row.max_attempts = jobs[j].max_attempts
        BY <3>3 DEF Flush
      <3>6. jobs'[j].status = s /\ SameCounts(jobs[j], jobs'[j])
        BY <3>2, <3>3, <3>4, <3>5, DelayUpdate DEF SameCounts
      <3>7. s = "queued" => ~OutOfAttempts(jobs[j])
        BY <2>2, <3>1, <3>2 DEF LifeInv, SameCounts, OutOfAttempts
      <3> QED
        BY <3>1, <3>6, <3>7 DEF Moves
    <2> QED
      BY <2>1, <2>2
  <1>13. ASSUME NEW w \in Workers, Heartbeat(w) PROVE Moves(jobs[j], jobs'[j])
    <2>1. jobs' = jobs \/ jobs' = [jobs EXCEPT ![task[w]].lease = "live"]
      BY <1>13 DEF Heartbeat
    <2>2. jobs'[j] = jobs[j] \/ jobs'[j] = [jobs[j] EXCEPT !.lease = "live"]
      <3>1. CASE task[w] = j
        BY <1>1, <2>1, <3>1 DEF TypeOK
      <3>2. CASE task[w] # j
        BY <1>1, <2>1, <3>2 DEF TypeOK
      <3> QED
        BY <3>1, <3>2
    <2>3. [jobs[j] EXCEPT !.lease = "live"].status = jobs[j].status
          /\ SameCounts(jobs[j], [jobs[j] EXCEPT !.lease = "live"])
      BY <1>1, LeaseUpdate, RowConstants DEF SameCounts
    <2> QED
      BY <1>2, <2>2, <2>3 DEF Moves
  <1>14. ASSUME NEW w \in Workers,
                \/ Start(w) \/ Announce(w) \/ CheckLease(w) \/ Execute(w)
                \/ RecordOutcome(w) \/ MarkStopped(w) \/ Interrupt(w) \/ Crash(w)
         PROVE  Moves(jobs[j], jobs'[j])
    BY <1>2, <1>14 DEF Start, Announce, CheckLease, Execute, RecordOutcome, MarkStopped,
                       Interrupt, Crash
  <1>15. CASE UNCHANGED vars
    BY <1>2, <1>15 DEF vars
  <1> QED
    BY <1>4, <1>5, <1>6, <1>7, <1>8, <1>9, <1>10, <1>11, <1>12, <1>13, <1>14, <1>15 DEF Next

\* Nobody changes the counts of a row while a worker has its lease.
LEMMA CountsKept ==
    ASSUME TypeOK, TimelyInv, [Next]_vars, NEW w \in Workers, pc[w] \in Working
    PROVE  task[w] \in Jobs /\ SameCounts(jobs[task[w]], jobs'[task[w]])
  <1>0. PICK j \in Jobs : j = task[w]
    BY DEF TypeOK, Working
  <1>1. /\ jobs[j] \in Row /\ jobs[j].status \in UnderWork
        /\ jobs[j].lease = "live"
    BY <1>0 DEF TypeOK, TimelyInv, WorkerSound
  <1>u. /\ \A s \in Status : SameCounts(jobs[j], [jobs[j] EXCEPT !.status = s])
        /\ \A l \in Lease : SameCounts(jobs[j], [jobs[j] EXCEPT !.lease = l])
        /\ \A b \in BOOLEAN : SameCounts(jobs[j], [jobs[j] EXCEPT !.available = b])
    BY <1>1, StatusUpdate, LeaseUpdate, DelayUpdate DEF SameCounts
  <1>2. ASSUME jobs'[j] = jobs[j] PROVE SameCounts(jobs[j], jobs'[j])
    BY <1>2 DEF SameCounts
  <1>3. ASSUME NEW x \in Jobs, Enqueue(x) \/ Requeue(x) PROVE SameCounts(jobs[j], jobs'[j])
    BY <1>1, <1>2, <1>3 DEF Enqueue, Requeue, TypeOK, UnderWork
  <1>4. ASSUME NEW x \in Jobs, CancelRead(x) \/ CancelWrite(x)
        PROVE  SameCounts(jobs[j], jobs'[j])
    <2>1. jobs'[j] = jobs[j] \/ jobs'[j] = [jobs[j] EXCEPT !.status = "cancelled"]
      BY <1>1, <1>4 DEF CancelRead, CancelWrite, TypeOK
    <2> QED
      BY <1>2, <1>u, <2>1, RowConstants
  <1>5. ASSUME NEW x \in Jobs, LeaseRunsOut(x) PROVE SameCounts(jobs[j], jobs'[j])
    <2>1. jobs'[j] = jobs[j] \/ jobs'[j] = [jobs[j] EXCEPT !.lease = "due"]
      BY <1>1, <1>5 DEF LeaseRunsOut, TypeOK
    <2> QED
      BY <1>2, <1>u, <2>1, RowConstants
  <1>6. ASSUME NEW x \in Jobs, DelayElapses(x) PROVE SameCounts(jobs[j], jobs'[j])
    <2>1. jobs'[j] = jobs[j] \/ jobs'[j] = [jobs[j] EXCEPT !.available = TRUE]
      BY <1>1, <1>6 DEF DelayElapses, TypeOK
    <2> QED
      BY <1>2, <1>u, <2>1
  <1>7. ASSUME NEW v \in Workers, Claim(v) PROVE SameCounts(jobs[j], jobs'[j])
    <2>1. PICK k \in Jobs :
             /\ Ready(Recovered[k])
             /\ jobs' = [Recovered EXCEPT ![k] = Leased(Recovered[k], claims[k] + 1)]
      BY <1>7 DEF Claim, NextJobs
    <2>2. Recovered[j] = jobs[j]
      BY <1>1, RowEffects DEF Recovered
    <2>3. j # k
      BY <1>1, <2>1, <2>2 DEF Ready, UnderWork
    <2>4. jobs'[j] = Recovered[j]
      BY <1>1, <2>1, <2>3 DEF Recovered
    <2> QED
      BY <1>2, <2>2, <2>4
  <1>8. ASSUME NEW v \in Workers, ClaimNothing(v) PROVE SameCounts(jobs[j], jobs'[j])
    BY <1>1, <1>2, <1>8, RowEffects DEF ClaimNothing, Recovered
  <1>9. ASSUME NEW v \in Workers, MarkRunning(v) PROVE SameCounts(jobs[j], jobs'[j])
    <2>1. jobs'[j] = jobs[j] \/ jobs'[j] = [jobs[j] EXCEPT !.status = "running"]
      BY <1>1, <1>9 DEF MarkRunning, TypeOK
    <2> QED
      BY <1>2, <1>u, <2>1, RowConstants
  <1>10. ASSUME NEW v \in Workers, Complete(v) \/ Fail(v) \/ Retry(v)
         PROVE  SameCounts(jobs[j], jobs'[j])
    <2>1. pc[v] \in {"completing", "rejecting", "failing"} /\ pc[v] \in Working
      BY <1>10 DEF Complete, Fail, Retry, Working
    <2>2. CASE task[v] # j
      BY <1>1, <1>2, <1>10, <2>2 DEF Complete, Fail, Retry, WriteOutcome, TypeOK
    <2>3. CASE task[v] = j
      <3>1. PICK s \in {"completed", "failed", "queued"} :
               LET row == Flush(jobs[j], view[v], Released(view[v], s)) IN
               jobs'[j] = row \/ jobs'[j] = [row EXCEPT !.available = FALSE]
        BY <1>1, <1>10, <2>3 DEF Complete, Fail, Retry, WriteOutcome, DeadLetter, TypeOK
      <3>2. PICK row : row = Flush(jobs[j], view[v], Released(view[v], s))
        OBVIOUS
      <3>3. row \in Row
        BY <2>1, <2>3, <3>2, OutcomeEndsLease
      <3>4. SameCounts(jobs[j], row)
        BY <3>2 DEF Flush, SameCounts
      <3> QED
        BY <3>1, <3>2, <3>3, <3>4, DelayUpdate DEF SameCounts
    <2> QED
      BY <2>2, <2>3
  <1>11. ASSUME NEW v \in Workers, Heartbeat(v) PROVE SameCounts(jobs[j], jobs'[j])
    <2>1. jobs' = jobs \/ jobs' = [jobs EXCEPT ![task[v]].lease = "live"]
      BY <1>11 DEF Heartbeat
    <2>2. CASE task[v] = j /\ jobs' # jobs
      <3>1. jobs'[j] = [jobs[j] EXCEPT !.lease = "live"]
        BY <1>1, <2>1, <2>2 DEF TypeOK
      <3> QED
        BY <1>u, <3>1, RowConstants
    <2>3. CASE task[v] # j \/ jobs' = jobs
      BY <1>1, <1>2, <2>1, <2>3 DEF TypeOK
    <2> QED
      BY <2>2, <2>3
  <1>12. ASSUME NEW v \in Workers,
                \/ Start(v) \/ Announce(v) \/ CheckLease(v) \/ Execute(v)
                \/ RecordOutcome(v) \/ MarkStopped(v) \/ Interrupt(v) \/ Crash(v)
         PROVE  SameCounts(jobs[j], jobs'[j])
    BY <1>2, <1>12 DEF Start, Announce, CheckLease, Execute, RecordOutcome, MarkStopped,
                       Interrupt, Crash
  <1>13. ASSUME UNCHANGED vars PROVE SameCounts(jobs[j], jobs'[j])
    BY <1>2, <1>13 DEF vars
  <1>14. SameCounts(jobs[j], jobs'[j])
    BY <1>3, <1>4, <1>5, <1>6, <1>7, <1>8, <1>9, <1>10, <1>11, <1>12, <1>13 DEF Next
  <1> QED
    BY <1>0, <1>14

\* A worker that will write an outcome loaded the row in this step, or before
\* and goes on with it.
LEMMA OutcomeViews ==
    ASSUME TypeOK, [Next]_vars, NEW w \in Workers,
           pc'[w] \in {"completing", "rejecting", "failing"}
    PROVE  /\ pc[w] \in Working
           /\ task'[w] = task[w]
           /\ \/ view'[w] = jobs[task[w]] /\ jobs' = jobs
              \/ /\ view'[w] = view[w]
                 /\ pc[w] \in {"completing", "rejecting", "failing"}
  <1>1. ASSUME NEW v \in Workers, Execute(v)
        PROVE  \/ v = w /\ pc[w] = "executing" /\ view'[w] = jobs[task[w]]
               \/ v # w /\ pc'[w] = pc[w] /\ view'[w] = view[w]
    BY <1>1 DEF Execute, TypeOK
  <1>2. CASE \E v \in Workers : Execute(v)
    BY <1>1, <1>2 DEF Execute, Working
  <1>3. ASSUME NEW v \in Workers,
               \/ Start(v) \/ Claim(v) \/ ClaimNothing(v) \/ Announce(v) \/ CheckLease(v)
               \/ MarkRunning(v) \/ RecordOutcome(v) \/ MarkStopped(v)
        PROVE  /\ (pc'[w] = pc[w] /\ v # w) \/ pc' = pc
               /\ view'[w] = view[w] /\ (v # w => task'[w] = task[w])
               /\ pc' = pc => task' = task
    BY <1>3 DEF Start, Claim, ClaimNothing, Announce, CheckLease, MarkRunning,
                RecordOutcome, MarkStopped, TypeOK
  <1>4. ASSUME NEW v \in Workers, Complete(v) \/ Fail(v) \/ Retry(v) \/ Interrupt(v) \/ Crash(v)
        PROVE  pc'[w] = pc[w] /\ v # w /\ view'[w] = view[w] /\ task'[w] = task[w]
    BY <1>4 DEF Complete, Fail, Retry, WriteOutcome, Interrupt, Crash, TypeOK
  <1>5. CASE UNCHANGED <<pc, task, view>>
    BY <1>5 DEF Working
  <1>6. CASE \E v \in Workers : Heartbeat(v)
    BY <1>5, <1>6 DEF Heartbeat
  <1>7. CASE \E j \in Jobs : \/ Enqueue(j) \/ Requeue(j) \/ CancelRead(j) \/ CancelWrite(j)
                            \/ LeaseRunsOut(j) \/ DelayElapses(j)
    BY <1>5, <1>7 DEF Enqueue, Requeue, CancelRead, CancelWrite, LeaseRunsOut,
                      DelayElapses, workerVars
  <1>8. CASE \E v \in Workers :
                \/ Start(v) \/ Claim(v) \/ ClaimNothing(v) \/ Announce(v) \/ CheckLease(v)
                \/ MarkRunning(v) \/ RecordOutcome(v) \/ MarkStopped(v)
    BY <1>3, <1>8 DEF Working
  <1>9. CASE \E v \in Workers :
                Complete(v) \/ Fail(v) \/ Retry(v) \/ Interrupt(v) \/ Crash(v)
    BY <1>4, <1>9 DEF Working
  <1>10. CASE UNCHANGED vars
    BY <1>5, <1>10 DEF vars
  <1> QED
    BY <1>2, <1>6, <1>7, <1>8, <1>9, <1>10 DEF Next

LEMMA LifeInit == Init => LifeInv
  BY DEF Init, LifeInv, NoRow

LEMMA LifeStep ==
    ASSUME ~Stalls, TypeOK, BudgetInv, TimelyInv, LifeInv, [Next]_vars
    PROVE  LifeInv'
  <1>1. ASSUME NEW j \in Jobs \ Cancellable, jobs'[j].status # "absent"
        PROVE  jobs'[j].max_attempts >= 1
    <2>1. Moves(jobs[j], jobs'[j])
      BY RowMoves
    <2>2. AttemptCap \in Nat
      BY JobsAssumption
    <2> QED
      BY <1>1, <2>1, <2>2 DEF Moves, SameCounts, LifeInv, Held, HeldStatus
  <1>2. ASSUME NEW w \in Workers, pc'[w] \in {"completing", "rejecting", "failing"}
        PROVE  SameCounts(jobs'[task'[w]], view'[w])
    <2>1. pc[w] \in Working /\ task'[w] = task[w]
      BY <1>2, OutcomeViews
    <2>2. SameCounts(jobs[task[w]], jobs'[task[w]])
      BY <2>1, CountsKept
    <2>3. CASE view'[w] = jobs[task[w]] /\ jobs' = jobs
      BY <2>1, <2>3 DEF SameCounts
    <2>4. CASE view'[w] = view[w] /\ pc[w] \in {"completing", "rejecting", "failing"}
      BY <2>1, <2>2, <2>4 DEF LifeInv, SameCounts
    <2> QED
      BY <1>2, <2>3, <2>4, OutcomeViews
  <1> QED
    BY <1>1, <1>2 DEF LifeInv, SameCounts

\* What users of the queue see of a row that moved: x before, y after.
LEMMA MoveContinues ==
    ASSUME NEW b \in Row, NEW a \in Row, Moves(b, a),
           b.attempt_count <= b.max_attempts, b.max_attempts <= AttemptCap,
           a.status # "cancelled", b.status # "cancelled",
           NEW x, x = [status |-> IF Held(b) THEN "held" ELSE b.status,
                       left   |-> b.max_attempts - b.attempt_count],
           NEW y, y = [status |-> IF Held(a) THEN "held" ELSE a.status,
                       left   |-> a.max_attempts - a.attempt_count]
    PROVE  y = x \/ Lifecycle!Continues(x, y)
  <1>1. /\ a.attempt_count \in Nat /\ a.max_attempts \in Nat
        /\ b.attempt_count \in Nat /\ b.max_attempts \in Nat /\ AttemptCap \in Nat
    BY RowColumns, JobsAssumption
  <1>2. CASE SameCounts(b, a) /\ (a.status = b.status \/ (Held(a) /\ Held(b)))
    BY <1>2 DEF SameCounts, Held
  <1>3. CASE /\ b.status \in {"absent", "failed"} /\ a.status = "queued"
             /\ a.attempt_count = 0 /\ a.max_attempts \in 1..AttemptCap
    <2>1. x.status \in {"absent", "failed"}
      BY <1>3 DEF Held, HeldStatus
    <2>2. y = [status |-> "queued", left |-> a.max_attempts]
      BY <1>1, <1>3 DEF Held, HeldStatus
    <2>3. y \in {Lifecycle!Idle(n) : n \in 1..AttemptCap}
      BY <1>3, <2>2 DEF Lifecycle!Idle
    <2> QED
      BY <2>1, <2>3 DEF Lifecycle!Continues
  <1>4. CASE /\ b.status = "queued" \/ Held(b)
             /\ ~OutOfAttempts(b)
             /\ a.status = "leased"
             /\ a.attempt_count = b.attempt_count + 1
             /\ a.max_attempts = b.max_attempts
    <2>1. x.status \in {"queued", "held"} /\ x.left > 0
      BY <1>1, <1>4 DEF Held, HeldStatus, OutOfAttempts
    <2>2. y.status = "held" /\ y.left = x.left - 1
      BY <1>1, <1>4 DEF Held, HeldStatus
    <2>3. y = Lifecycle!Busy(x.left - 1)
      BY <2>2 DEF Lifecycle!Busy
    <2> QED
      BY <2>1, <2>3 DEF Lifecycle!Continues
  <1>5. CASE /\ Held(b) /\ ~OutOfAttempts(b)
             /\ SameCounts(b, a) /\ a.status = "queued"
    <2>1. x.status = "held" /\ x.left > 0
      BY <1>1, <1>5 DEF OutOfAttempts
    <2>2. y.status = "queued" /\ y.left = x.left
      BY <1>1, <1>5 DEF Held, HeldStatus, SameCounts
    <2>3. y = Lifecycle!Idle(x.left)
      BY <2>2 DEF Lifecycle!Idle
    <2> QED
      BY <2>1, <2>3 DEF Lifecycle!Continues
  <1>6. CASE /\ Held(b) /\ SameCounts(b, a) /\ a.status \in {"completed", "failed"}
    <2>1. x.status = "held" /\ y.status \in {"completed", "failed"} /\ y.left = x.left
      BY <1>1, <1>6 DEF Held, HeldStatus, SameCounts
    <2> QED
      BY <2>1 DEF Lifecycle!Continues
  <1> QED
    BY <1>2, <1>3, <1>4, <1>5, <1>6 DEF Moves

\* What users see of a job, of the type JobLifecycle gives it.
WorkOK == Work \in [Jobs \ Cancellable -> [status : Lifecycle!WorkStatus, left : 0..AttemptCap]]

LEMMA WorkType == TypeOK /\ BudgetInv /\ TimelyInv => WorkOK
  <1> SUFFICES ASSUME TypeOK, BudgetInv, TimelyInv, NEW j \in Jobs \ Cancellable
               PROVE  [status |-> IF Held(jobs[j]) THEN "held" ELSE jobs[j].status,
                       left   |-> jobs[j].max_attempts - jobs[j].attempt_count]
                        \in [status : Lifecycle!WorkStatus, left : 0..AttemptCap]
    BY DEF Work, WorkOK
  <1>1. jobs[j] \in Row
    BY DEF TypeOK
  <1>2. /\ jobs[j].max_attempts \in Nat /\ jobs[j].attempt_count \in Nat
        /\ jobs[j].status \in Status
    BY <1>1, RowColumns
  <1>3. jobs[j].attempt_count <= jobs[j].max_attempts /\ jobs[j].max_attempts <= AttemptCap
    BY DEF BudgetInv
  <1>4. jobs[j].max_attempts - jobs[j].attempt_count \in 0..AttemptCap
    BY <1>2, <1>3, JobsAssumption
  <1>5. jobs[j].status # "cancelled"
    BY DEF TimelyInv, RowSound
  <1>6. (IF Held(jobs[j]) THEN "held" ELSE jobs[j].status) \in Lifecycle!WorkStatus
    BY <1>2, <1>5 DEF Status, Held, HeldStatus, Lifecycle!WorkStatus
  <1> QED
    BY <1>4, <1>6

LEMMA WorkInit == Init => Lifecycle!LifecycleInit
  <1> SUFFICES ASSUME Init
               PROVE  Work = [j \in Jobs \ Cancellable |-> [status |-> "absent", left |-> 0]]
    BY DEF Lifecycle!LifecycleInit
  <1>1. \A j \in Jobs : jobs[j] = NoRow
    BY DEF Init
  <1>2. NoRow.status = "absent" /\ NoRow.max_attempts = 0 /\ NoRow.attempt_count = 0
    BY DEF NoRow
  <1>3. ~Held(NoRow)
    BY <1>2 DEF Held, HeldStatus
  <1> QED
    BY <1>1, <1>2, <1>3 DEF Work

\* Every step of the queue is a step of the promise, or none.
LEMMA WorkStep ==
    ASSUME ~Stalls, TypeOK, BudgetInv, TimelyInv, LifeInv,
           TypeOK', BudgetInv', TimelyInv', WorkOK', [Next]_vars
    PROVE  [Lifecycle!LifecycleNext]_Work
  <1>1. Work' \in [Jobs \ Cancellable -> [status : Lifecycle!WorkStatus, left : 0..AttemptCap]]
    BY DEF WorkOK
  <1>2. ASSUME NEW j \in Jobs \ Cancellable
        PROVE  Work'[j] = Work[j] \/ Lifecycle!Continues(Work[j], Work'[j])
    <2>1. Moves(jobs[j], jobs'[j])
      BY RowMoves
    <2>2. jobs[j] \in Row /\ jobs'[j] \in Row
      BY DEF TypeOK
    <2>3. /\ jobs[j].attempt_count <= jobs[j].max_attempts
          /\ jobs[j].max_attempts <= AttemptCap
      BY DEF BudgetInv
    <2>4. jobs[j].status # "cancelled" /\ jobs'[j].status # "cancelled"
      BY DEF TimelyInv, RowSound
    <2>5. /\ Work[j] = [status |-> IF Held(jobs[j]) THEN "held" ELSE jobs[j].status,
                        left   |-> jobs[j].max_attempts - jobs[j].attempt_count]
          /\ Work'[j] = [status |-> IF Held(jobs'[j]) THEN "held" ELSE jobs'[j].status,
                         left   |-> jobs'[j].max_attempts - jobs'[j].attempt_count]
      BY DEF Work, Held, HeldStatus
    <2> QED
      BY <2>1, <2>2, <2>3, <2>4, <2>5, MoveContinues
  <1> QED
    BY <1>1, <1>2 DEF Lifecycle!LifecycleNext

\* While heartbeats arrive in time, the claims, recoveries, retries, dead
\* letters and requeues of agent_jobs.py implement JobLifecycle for the jobs
\* nobody cancels: every start is counted, a budget ends once, and only a
\* failed job comes back, with a fresh budget.
THEOREM QueueImplementsLifecycle ==
    ASSUME ~Stalls
    PROVE  Spec => ImplementsLifecycle
  <1>1. TypeOK /\ TimelyInv /\ [Next]_vars => TimelyInv'
    BY TimelyStep
  <1>2. TypeOK /\ BudgetInv /\ TimelyInv /\ LifeInv /\ [Next]_vars => LifeInv'
    BY LifeStep
  <1>3. TypeOK /\ BudgetInv /\ TimelyInv /\ LifeInv
          /\ TypeOK' /\ BudgetInv' /\ TimelyInv' /\ WorkOK' /\ [Next]_vars
          => [Lifecycle!LifecycleNext]_Work
    BY WorkStep
  <1> QED
    BY TypeInit, TypeStep, BudgetInit, BudgetStep, TimelyInit, <1>1, LifeInit, <1>2,
       WorkInit, WorkType, <1>3, PTL
    DEF Spec, ImplementsLifecycle, Lifecycle!LifecycleSpec
=============================================================================
