---------------------------- MODULE JobLifecycle ----------------------------
(***************************************************************************)
(* What the durable job queue promises to the components that enqueue      *)
(* work, without leases, workers or heartbeats: every start uses up one    *)
(* attempt of a budget, a finished job stays finished, and a job that      *)
(* failed comes back only with a fresh budget.  AgentJobs implements it    *)
(* for the jobs nobody cancels, as long as living workers keep their       *)
(* leases.                                                                 *)
(***************************************************************************)
EXTENDS Naturals

CONSTANTS
    Jobs,    \* the jobs
    Budget   \* the largest max_attempts

VARIABLE work  \* work[j]: its status and the attempts it has left

WorkStatus == {"absent", "queued", "held", "completed", "failed"}

Idle(left) == [status |-> "queued", left |-> left]
Busy(left) == [status |-> "held", left |-> left]

\* How the work on one job may go on.
Continues(before, after) ==
    \* accepted, or requeued after a failure
    \/ /\ before.status \in {"absent", "failed"}
       /\ after \in {Idle(n) : n \in 1..Budget}
    \* started, or started again at once after its worker was lost
    \/ /\ before.status \in {"queued", "held"}
       /\ before.left > 0
       /\ after = Busy(before.left - 1)
    \* given back for another attempt
    \/ /\ before.status = "held"
       /\ before.left > 0
       /\ after = Idle(before.left)
    \* ended
    \/ /\ before.status = "held"
       /\ after.status \in {"completed", "failed"}
       /\ after.left = before.left

LifecycleInit == work = [j \in Jobs |-> [status |-> "absent", left |-> 0]]

\* One transaction may move several jobs: a claim also recovers leases.
LifecycleNext ==
    /\ work' \in [Jobs -> [status: WorkStatus, left: 0..Budget]]
    /\ \A j \in Jobs : work'[j] = work[j] \/ Continues(work[j], work'[j])

LifecycleSpec == LifecycleInit /\ [][LifecycleNext]_work
=============================================================================
