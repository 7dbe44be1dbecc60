# Verification of Model Atlas

TLA+ modules for the parts of Model Atlas in which concurrent requests, worker
processes, retries, crashes and expiry decide whether the result is right, with
TLC runs on small instances and TLAPS proofs for every instance. Everything is
translated from the source under `backend/app`; paths below are relative to it
unless they start with `docs/`.

## The system

Model Atlas decides whether a model deployment may be released. Benchmark runs
and captured traffic produce *evidence*; a *deployment gate* evaluates it under
an acceptance policy; operators sign *release decisions* over gate evaluations.
Agent executions that need a human stop at *approval checkpoints*. Long work is
done by worker processes through a *durable job queue* in the database.

All state is in one relational database, with four exceptions: a worker shares
memory with its heartbeat thread, each process keeps a copy of the identity
provider's signing keys, the traffic collector has files of its own, and the
personal assistant works on a local SQLite store and a directory. API
requests and workers are sessions under READ COMMITTED without autoflush
(`db/session.py`). So the behaviour that is hard to test is nearly always of one
kind: a row is read without a lock, others commit, and the row is written; or a
process dies between two commits.

| Component | State | Operations | Interacts with | What makes it correct |
|---|---|---|---|---|
| Job queue and worker (`services/agent_jobs.py`, `workers/agent_control_worker.py`) | job rows with lease, attempts and requeues; worker registry; per worker its claim and heartbeat thread | enqueue, claim and recover, heartbeat, process, retry, dead-letter, requeue, cancel, register, stop | runs jobs of every component below | one worker at a time per job; bounded attempts; lost jobs come back; finished jobs stay finished |
| Approval checkpoints (`services/agent_control_plane.py`, `agent_approval_policy.py`) | checkpoint rows with version and expiry; append-only result revisions | request, approve, deny, revoke, resume, expire | resumed by API or job; revisions make gate evaluations stale | nothing runs past a checkpoint without a valid approval; one chain of revisions; due approvals close |
| Agent execution (`services/agent_execution/`) | the trace of the latest revision, the stored plan | execute, halt, recover, re-execute, replay | checkpoints, live model | guarded steps follow their approval; success is earned; re-execution agrees |
| Deployment gate (`services/deployment_gate/`) | evaluations with evidence hash, stale and superseded links; baselines | evaluate, mark stale, supersede, reconcile, promote | marks release decisions; reconciled by job and by reads | changed evidence is noticed; one replacement; the verdict follows the evidence that counts |
| Release decisions (`services/release_decisions.py`) | decisions and their append-only actions | sign, replace, revoke, request review, acknowledge, detect stale | gate | closed releases stay closed; outdated approvals are flagged |
| Trust source scheduler (`services/trust_source_scheduler.py`) | schedule with lease, run sequence, due time | upsert, run now, enqueue due, execute, cancel | job queue | requested runs happen; a result is written to the run it belongs to |
| Trust registry (`services/trust_registry.py`, `trust_source_sync.py`, `supply_chain.py`) | trust roots, sync receipts, signed evidence | register, act, synchronise, attest, revoke | remote key set | only published keys count; what was withdrawn stays withdrawn |
| Operational reliability (`services/operational_reliability/`) | snapshots, incidents with actions, deliveries | capture, acknowledge, escalate, resolve, deliver | job queue, paging provider | one open incident per alert; every transition is paged once; pages settle |
| Personal assistant (`services/personal_assistant/`) | proposals, reviews, files | save, confirm, approve, execute, restore, recover | file system | a file effect happens only as it was shown; no file is lost |
| Browser sessions (`services/oidc_*.py`) | sessions, provider tokens, events | issue, resolve, log out, revoke, clean up | job queue | the log is true of the row; expired tokens are purged |
| Token verification (`services/operator_identity.py`, `oidc_state.py`) | signing keys in the process and in a row all processes share | verify, fetch, refresh on an unknown key | identity provider | a withdrawn key does not outlive its time by being passed on; a new key is found |
| Structured requests (`services/structured_requests.py`, `request_workflows.py`) | requests with revisions, checks, attempts | save, confirm, revoke, generate, check, execute, finish | model | only what was confirmed is executed; results are true |
| Traffic ingestion (`collectors/`, `services/agent_traffic_ingestion.py`, `agent_evidence_import.py`) | outbox files and state file; receipts; imported evidence | deliver, replay, enqueue, import | job queue, gate | delivered means received; imported whole and once |

The remaining parts (inference adapters, retrieval, recommendations, read
models, the frontend and others) are listed in `PROJECT.json` with the reason why
they are not modelled. The hazards all this gives rise to are listed there too,
each with its line and the properties that would notice it going wrong.

## Modules

| Module | Models |
|---|---|
| `AgentJobs` | job queue, worker main loop, heartbeat thread, cancellation by a schedule change |
| `JobLifecycle` | what the queue promises to those who enqueue; `AgentJobs` implements it |
| `ApprovalCheckpoints` | checkpoints and revisions of one agent execution |
| `AgentExecution` | the bounded executor and the successive executions of one plan |
| `DeploymentGate` | evaluations, staleness and baselines of one configuration and suite |
| `ReleaseDecisions` | extends `DeploymentGate`: each gate transaction that marks evaluations stale also records it on the decisions it can see |
| `GateVerdict` | which results count, metrics, rules, regression and verdict |
| `TrustSourceSchedule` | the schedule of one source, its runs as jobs |
| `TrustRegistry` | roots, synchronisation and signed evidence of one issuer |
| `OperationalAlerts` | captures, incidents, escalation, operators' responses, outbox |
| `PagingDelivery` | the jobs that send the pages of the outbox |
| `AssistantReviews` | reviews, file effects step by step, crashes, recovery, restore |
| `OidcSessions` | browser sessions, their events, administration and cleanup |
| `OidcVerifier` | the caches of signing keys and the verifications that use them |
| `RequestContracts` | one structured request and the workflow attempt linked to it |
| `AgentTraffic` | collector, ingestion endpoint and import job |
| `MC*` | instances for TLC |
| `AgentJobsProofs` | theorems about `AgentJobs` and the refinement of `JobLifecycle` |
| `EvidenceProofs` | theorems about `ApprovalCheckpoints` and `AgentTraffic` |
| `GateProofs` | theorems about `DeploymentGate`, `ReleaseDecisions` and `GateVerdict` |
| `TrustProofs` | theorems about `TrustRegistry` and `TrustSourceSchedule` |
| `AlertProofs` | theorems about `OperationalAlerts` and `PagingDelivery` |
| `OidcProofs` | theorems about `OidcSessions` and `OidcVerifier` |
| `RequestProofs` | theorems about `RequestContracts` and `AssistantReviews` |
| `AgentExecutionProofs` | theorems about `AgentExecution` |

`MCServices`, `MCSchedules` and `MCApprovals` each check several components that
have no state in common: a variable `part`, chosen in the initial state, says
which one runs, and the others keep their initial values. This adds up their
state spaces instead of multiplying them; a property of one component holds
trivially in the other parts. Fairness is stated per part. A theorem is about the
specification of one component (`TrustSpec`, `AssistantSpec`, ...), and each part
of an instance is that specification with constants given. `MCReleaseDecisions` and
`MCSchedules` have the gate twice, alone with two evaluating sessions and under the
releases with one, and bound the second more narrowly.

### Conventions

A request that holds a row lock from its read to its commit is one step when
nothing else can observe the interval, and a locking step followed by a commit
step when something can (other rows, the clock, SKIP LOCKED). A request that
reads without a lock is always a read step and a write step, with what it read
kept in a variable (`view`, `tx`, `request`, `visit`). Hashes and signatures are
the data they are taken of. Texts, identities' details, log rows, counters and
timestamps nobody compares are left out. Steps that
write several fields of a row write it through a row operator (`Decided`,
`EscalatedRow`, `SavedReview`, ...), which is named for the statement and about
which the proofs have a lemma. Operators whose comment begins with
*Mutant of* are faulty variants of the definition below them; the properties are
known to notice them.

### AgentJobs and JobLifecycle

`jobs[j]` is the row with dedupe key `j` (`_enqueue_job`, unique). Lease time is
`none`, `live` or `due`; `available` says that `available_at` has passed. `pc[w]`
follows `main`: register (`Start`), `Claim` or `ClaimNothing`, `Announce`,
`CheckLease`, `MarkRunning`, `Execute`, one of `Complete`, `Fail`, `Retry`,
`RecordOutcome`; `Interrupt` and `MarkStopped` are the `except` and `finally` of
`main`, `Crash` a killed process. A `--once` worker behaves like one that is
interrupted after a job. `Flush` is how the session writes back: only columns
that differ from what it loaded, which is why a stale outcome can leave mixed
rows behind. `claims[j]` counts the leases ever granted, and serves as the
fresh token. SKIP LOCKED needs no lock variable because claiming is one
transaction. The two transactions of one heartbeat round are one step, the
timeout of the thread's `join` is not modelled, and which of several ready jobs
of one priority comes first is open. `Stalls` says whether a living worker may
lose its lease; with `FALSE` the heartbeat, at most half a lease apart by
`core/config.py`, always arrives in time.

`JobLifecycle` forgets leases and workers: a job is queued with a number of
attempts left, held, completed or failed. `ImplementsLifecycle` states the
refinement, with `leased` and `running` mapped to held, for the jobs nobody
cancels. A claim that recovers other leases is one abstract step for several
jobs. `TrustSourceSchedule`, `PagingDelivery` and `AgentTraffic` use the queue as
this specification describes it and leave lost leases of living workers to
`AgentJobs`.

### ApprovalCheckpoints and AgentExecution

A trace halts at its first undecided checkpoint, so a result has at most one
checkpoint row and `rows[r]` belongs to `results[r]`. A request is `Begin` (lock,
expiry, version, status, policy), for a denial or resume the re-execution
(`Deny`, `Resume`), and a commit. `RejectDue`, `ReadDue` with `WriteExpired`, and
`Reconcile` are the three ways a checkpoint expires.

`AgentExecution` opens what `ApprovalCheckpoints` treats as one step: every step
of a plan with the contract check, the limits, the checkpoint, the failure, the
choice of a recovery (a branch of the plan, or one live answer) and its steps.
Tools are deterministic fixtures in the code, so a step carries its error. A
decision re-executes the stored plan from its start with the decisions of the
stored trace; `replay` rebuilds the live recovery from the trace
(`callbacks.py`). What a step returns is a function of the steps before it and of
the decisions (`StatusOf`), and the verdict one of the trace (`Verdict`). A trace
that holds no decision is replayed with the decisions of the request
(`replay.py`), also when it is a revision that was made with others: such a replay
may differ, and `ReexecutionAgrees` says so. Left out: compiling native plans,
memory contents, summaries.

### DeploymentGate, GateVerdict and ReleaseDecisions

In `DeploymentGate` the evidence hash is a counter of changes. `ReviseEvidence`
is one step because its evidence is invisible until the commit that also marks
the evaluations; `ReviseSilently` is the writers that mark nothing. An evaluation
collects (`Collect`), locks the completed rows (`LockGates`), locks the stale rows
without a replacement (`LockStale`), commits and then reconciles as part of
reading its result. The verdict is reduced to approved or not.

`GateVerdict` has the verdict. Its evidence is the results of runs with their
revisions; runs complete or break off after some trials (then only a later
revision, which has a completed run of its own, counts), results are revised and
reviewed in place, cases retired, baselines promoted. Metrics are fractions over
integers, scores are in tenths, one metric stands for those with its formula
and has the direction of its definition (`HigherIsBetter`, `LowerIsBetter`),
`synthetic` is a property of the run, and a promotion follows its evaluation at
once. The critical evaluation (v2 records), trust summary and preflight are left
out. A rule may compare any metric with any operator, so `WorseNeverHelps` is about
the policies that bound each metric on its worse side, as those do that the
repository creates (`seed/demo.py`, `reference_workload/bootstrap.py`).

`ReleaseDecisions` composes the gate's steps with `record_stale_release_actions`.
An evaluation sees the decisions of the moment it locked the rows (`seen`) and
commits later. Whether a review request or an acknowledgement is the later one
is decided by whole-second times, so it is a choice (`Reviews`). Readiness is
reduced to what no approval can do without: a completed evaluation with an
approved verdict. Promotion does not touch decisions and is left out of its steps.

### TrustSourceSchedule and TrustRegistry

`runs[n]` is the job of `run_sequence` n. An operator's request locks the schedule
(`BeginChange`) and later commits with the cancellation of the job it had read as
queued. The scheduler adopts an active job or enqueues a new one. A worker takes
the run, checks its lineage once, skips or synchronises it, and locks the schedule
again to record the result (`RecordSync`). A killed worker's run is recovered; a
failed one may be requeued by hand. Whether the next run is due is a choice of
time, so the length of the back-off does not matter.

`TrustRegistry` is the synchronisation itself. No operation locks anything; every
request reads (`BeginSync`, `FetchKeys`, `BeginRegister`, `BeginRootAction`,
`BeginAttest`) and commits later (`ApplyKeys`, `Register`, `RecordRootAction`,
`Attest`), and the unique constraints decide. A key is its material, so a signature verifies by
comparison. Receipts are dated when the sync began, as in the code. The keys a
source may publish, and those operators register by hand, are constants.

### OperationalAlerts and PagingDelivery

A capture observes, inserts the snapshot of its bucket (unique), locks the open
incidents nobody else has locked and commits, opening, continuing, escalating or
resolving incidents and adding one page per transition to the outbox. Operators'
responses take their time before they wait for the lock. Which alerts are
observed is a choice; one unit of time is the snapshot interval.

`PagingDelivery` follows each page from the capture's commit through the queueing
of its job, one by one, to the attempt, whose outcome is one of seven answers,
and the two places where the row is recorded. A crash between the commit and the
queueing orphans pages: nothing enqueues them later. A crash after the
provider's acceptance makes the next attempt post again. A refusal (HTTP 4xx) ends
the job, but its row is recorded as `queued` unless it was the last attempt;
`PagesSettle` names this case as an exception, beside the orphans and the row whose
worker died in the last attempt, and `RefusalsAreRecorded` says what the
documentation says of it.

### AssistantReviews

Writing transactions are BEGIN IMMEDIATE, so they are one step, except the
executor's: it commits its intent, and under the workspace lock checks the state,
links the file at its destination and unlinks it at its source, and commits the
outcome; a crash may come anywhere in between. `WorkspaceState` is what the preview
showed and the executor compares. Recovery decides by where the file lies.
Recovery uses the files as they were when the review was confirmed or, for a
restore, stored, which is a transaction after its preview. A workspace with a
doubly linked file cannot be listed (`HardLinked`), so confirming, approving and
storing a restore are refused until recovery has removed the second link.
When the source cannot be unlinked the new link is removed, and if that fails too
both stay and the proposal has failed (`UnlinkSource`); recovery is offered for it as
for an interrupted one (`Recoverable`). Other programs edit files (`MaxEdits`).
`EditsDuringMoves` says whether they also do so between the second look at the
workspace and the end of a move, which the code cannot notice: the proposal is then
executed in a workspace nobody was shown, and TLC finds `ExecutedAsShown` violated in
a few steps. The runs and the theorems take it as `FALSE`, so that what a proposal was
shown holds until it took effect. `todo` stands for the tools without a file effect.

### OidcSessions

A session is issued, touched (a locked update), logged out (read without a lock,
written later), revoked by administrators who lock rows and skip locked ones, and
cleaned up in two rounds per batch. `events[s]` is the log in commit order. The
login itself keeps its state in a signed cookie and is left out.

### OidcVerifier

`document` is what the provider serves, `with` and `without` record when it last
served each key and last did not; they say what a verdict may rest on. `local` is
the copy of a verifier and `shared` the row of `oidc_cache_entries`. A thread is
`waiting` for the verifier's lock with the clock it has read, `fetching` while it
waits for the provider under the lock, and `fetched` until it has written. The
lookup under the lock is one step. A missing key makes the thread ask again,
beyond both caches. The deployment configures the JWKS URI; the discovery
document, cached in the same way, is left out. `{}` is any document that
`_load_jwks` rejects, and is shared before it is rejected, as in the code.

### RequestContracts

`record` is the request, `checks` its proposals, `attempt` the workflow attempt.
Every write locks the request; only the generation holds nothing while the model
answers (`AskModel`, then `StoreAnswer` or `DropAnswer`). A tab writes with the
revision it has on its screen. A contract hash is the contract. `tool` counts
deployments of the local tool. Attempts are not followed past their end.

### AgentTraffic

`collector` follows one round of `process_outbox_once` with its retries; `handlers`
are the requests the server has under way, also those whose sender no longer
waits; `workers` are the transactions of the import jobs. The collector, the
server and the worker die independently. A signature covers batch, nonce and
time, so their record stands for it. The instance has no invalid file.

## What is checked

| Run | Result | Shows |
|---|---|---|
| `jobs_timely` | holds | two workers, two jobs, crashes, interrupts, retries, a requeue and a cancellation: one worker per job, leases match statuses; every queued job settles unless the workers that nobody kills were never started, or ended themselves after a job was cancelled; and the queue implements `JobLifecycle` |
| `jobs_ownership` | **violated** | with stalls, a late outcome ends another worker's live lease |
| `approvals_safe` | holds | `MCApprovals`: one chain of revisions, approvals cover what ran, refusals are final, due checkpoints close; guarded steps follow their approval, success is earned and re-execution agrees over every plan of three of six steps; deliveries are true and imports whole; an approval rests on the evidence that counts, and worse evidence never improves a verdict |
| `checkpoints_final` | **violated** | a read can turn a denied, revoked or resumed checkpoint into an expired one |
| `gate_baselines` | **violated** | overlapping promotions leave two active baselines |
| `gate_current` | **violated** | a slow evaluation can make the evaluation of the current evidence stale |
| `releases_replacement` | holds | `MCReleaseDecisions`: two evaluators and the scheduled reconciliation write a replacement once, for an evaluation that stays stale; a decision and its replacement, an evaluation and the reconciliation: recorded staleness is true, closed releases stay closed |
| `services_safe` | holds | `MCServices`: attempt budget under stalls; only published keys count, applied keys are registered, withdrawn stays withdrawn; one open incident per alert, every transition paged once; no file lost, effects as shown; logs of sessions are true; verdicts on tokens follow the provider however its keys are cached; executions were confirmed, results of attempts are true |
| `alerts_chain` | **violated** | an action that took its time before it waited for the lock forks the chain of actions |
| `assistant_recovery` | **violated** | recovery credits an interrupted move with the effect of another proposal |
| `pages_refused` | **violated** | a page the provider refuses stays `queued` with its job dead |
| `schedules_live` | holds | `MCSchedules`: evaluations over changed evidence become stale, outdated releases are flagged, requested synchronisations happen and are recorded under the lineage they ran under, pages settle and delivered ones are never posted again, expired tokens are purged |

The seven violated properties state what the documentation says; `PROJECT.json`
quotes the lines under `findings`. Other behaviour that a reader may not expect
is in the models as it is in the code, without a property that claims otherwise,
and noted with its hazard: overlapping replacements of one release decision both
commit; a bulk revocation skips locked sessions and reports success; pages whose
capture died before queueing their jobs are never sent; a page whose worker
died in the last attempt stays `queued` with its job dead; a batch whose collector died after it forgot the
identity ends in `failed/` although it was delivered; recovery of an interrupted
restore compares with files that may have been edited since its preview, and can
then settle it without removing its second link, which nothing offers to remove
afterwards (`NoFileIsLost` states the exception); an import job run again
after its commit ends as failed although everything was imported; a checkpoint
of a broken-off benchmark run, once decided, adds a completed run that the gate
counts; a JWKS without keys is shared and fails every process until it runs out; a
policy change cancels a job that a worker has claimed meanwhile, and the worker ends
itself (see *Fairness*).

### Bounds

- Jobs: two workers and two jobs of different priority are enough for one worker
  to recover, claim, finish or requeue under the other at every point; the second
  job is the one that can be cancelled. In `jobs_timely` nobody kills one
  worker and the other crashes: without stalls only the job of a worker that is gone
  is ever taken over, and liveness needs somebody to take it. The runs with stalls use
  one job, because stalls multiply the states, and let both workers crash. Two
  attempts reach a retry, a spent budget and a dead letter; the requeue of
  `jobs_timely` adds a second life. `services_safe` has no requeue, so there the
  budget is one life's; `BudgetHolds` proves it for every number of requeues.
- Checkpoints: three checkpoints, two subjects (one of them the requester) and
  three sessions give a chain of four revisions with a decision, a resume and a
  reader open at once; lifetimes of 1 and 2 and four ticks let an approval expire
  before, during and after a resume.
- Plans: all plans of up to three of six steps and one that is too long, with and
  without a branch for the second step, three contracts, six live answers (one
  that breaks off, one too long, one whose checkpoint has no id), and four
  executions: enough for two checkpoints, each decided and resumed, with a
  recovery between them.
- Gate: two evaluating sessions, the worker, one change of the evidence and three
  evaluations let an evaluation overlap another one and a reconciliation with
  evidence of the past. Liveness of the gate has two evaluations: a slow one that
  commits over evidence of the past, and the one before it. Verdicts: two cases (one critical), a real and a synthetic
  run, three stored results, four contents and two policies of which one may
  approve conditionally; every rule both passes and fails, and has too few samples.
- Releases: one evaluating session, the worker and one client, with two
  evaluations and two decisions; in `schedules_live` one decision, and no review is
  requested, since a release with a request counts as flagged.
- Schedule: two runs, two attempts and two operator requests. Pages: two, two
  attempts, one crash, one requeue. Registry: one key id with two key materials,
  two concurrent requests, a freshness of one tick and two ticks. Alerts: one key,
  two captors, one operator, three buckets, two incidents. Assistant: two files,
  three names, two reviews, two sessions, two proposals, one crash, one edit (one
  file and no edit in `assistant_recovery`, where another proposal suffices).
  `pages_refused` has one page.
  Sessions: two of one group, one administrator, one cleaner with batches of one. Verifiers: two, with two threads that may meet
  at one or at different ones, two keys, one rotation, a lifetime of two ticks and
  three times; a fetch and its write fall within one tick, in which everybody else
  may step and the provider may rotate. Requests: one tab that asks the model (writes
  come with any revision that was shown), two revisions, two proposals, one
  deployment of the tool.
  Traffic: one batch of two events, two requests under way, two attempts each, two
  crashes, one requeue, one hour beyond the allowed skew.

The constants whose names begin with `Max`, `LastBucket` and the two attempt
limits of each job are guards; when they are used up the system may come to rest,
so deadlock is checked in `AgentJobs` alone. Symmetry is used for actors only, in
runs without liveness.

### Fairness

- A worker that is up polls and works its job to the end; jobs are assumed to
  return, as the calls they make have timeouts. No worker is assumed to be started,
  again or at all: `docker-compose.yml` has no restart policy for `agent-worker`, and a
  worker ends itself when the job it has just claimed is not its own any more
  (`process_claimed_agent_job` raises out of `main`). A policy change does that:
  `_cancel_or_reject_active_job` reads a job as queued without a lock and later writes
  `cancelled` over whatever it has become, although `docs/trust_source_scheduling.md:102`
  says that a leased or running job must finish first. `EventuallySettled` therefore
  says *settled, or nobody serves the queue* (`Unserved`: after a cancellation, or
  because nobody was started), and the theorem `WorkersEndOnCancellation` that nothing
  else ends a worker between its claim and its job.
- The liveness of the other components (`RequestedRunsHappen`, `PagesSettle`,
  `DueAreClosed`, `DriftIsCaught`, `OutdatedReleasesAreFlagged`,
  `ExpiredTokensArePurged`) assumes that some worker serves the queue: their
  specifications have no worker that is down for good. After a cancellation that
  meets a fresh claim this needs a second worker, or somebody who starts one.
- Time passes: leases run out, delays elapse, the clock ticks, sessions expire.
- A transaction ends, by commit or rollback, and a capture goes on to queue its
  jobs until it ends or dies.
- Workers enqueue the reconciliation, the synchronisation and the cleanup every
  interval, so `Reconcile`, `ReconcileRead(Worker)`, `Adopt` or `EnqueueRun`, and
  `LockDue` and `LockPurgeable` are fair. `ReconcileWrite(Worker)` is strongly fair:
  the database queues those who wait for a row lock.

No fairness is assumed of operators, clients, browsers, models or evidence.

## What is proved

The proof modules show, for all sets of actors and objects and all bounds, what
the runs show on their instances: type correctness of every component's
specification, every safety invariant and every action property that a passing run
checks, and one refinement. (`ApprovalsTypeOK`, `ServicesTypeOK` and
`SchedulesTypeOK`, the invariants of the instances, say part by part what the type
theorems of the components say.)
`PROJECT.json` lists the theorems with the property each of them states. The
proofs are laid out alike: an inductive invariant (`...Inv`, a conjunction of
named parts), a lemma per action that it is kept, lemmas on the row operators,
and the theorems at the end of each part.

**`AgentJobsProofs`**

- `TypeCorrect`: `Spec => []TypeOK`, with or without stalls. It rests on lemmas on
  the row operators (`RowOperators`) and goes action by action.
- `BudgetHolds`: `Spec => []AttemptBudget`, with or without stalls. The budget
  alone is not inductive: a claim raises both the count on the row and the number
  of leases granted, a requeue resets the first and not the second. `BudgetInv`
  therefore relates them: leases granted are at most `AttemptCap` for each earlier
  queueing plus the attempts on the row, and `max_attempts` stays within the cap.
  Stale writes keep it because an outcome never writes `attempt_count`,
  `max_attempts` or `requeue_count` (`Flush`).
- `ExclusionHolds` and `LeasesMatch`: without stalls, `Spec => []MutualExclusion`
  and `Spec => []LeaseMatchesStatus`. Both follow from `TimelyInv`: a worker with a
  job finds its own token and a live lease on the row, also in what it loaded
  before writing the outcome; two workers never have one job; a row has a lease
  exactly while it is held, cancellation excepted. The first part is what makes it
  inductive: recovery takes only leases that are due and a claim only queued rows,
  so neither can reach a job somebody has (`ClaimStep`), and an outcome always
  clears token and lease because the loaded ones differ from the cleared ones
  (`OutcomeEndsLease`). The runs with stalls show that the assumption is needed.
- `WorkersEndOnCancellation`: without stalls, `Spec => EndsOnlyOnCancellation`.
  `FreshInv` says that the job of a worker that has yet to mark it running is leased
  or cancelled. By `TimelyInv` its lease is live, so recovery passes it by, and no
  other worker or requeue can reach it.
- `QueueImplementsLifecycle`: without stalls, `Spec => ImplementsLifecycle`. The
  initial state maps to the initial state of `JobLifecycle`, and each step to a step
  of it or to none (`Moves`). `TimelyInv` is needed because a late outcome would
  move a held job twice, and `LifeInv` because what a worker has loaded must agree
  with the row in the counts that decide between a retry and a dead letter.

**`EvidenceProofs`**: `CheckpointTypeCorrect`, `LineageIsAChain`,
`EveryApprovalIsCovered`, `RefusalsStand`. The invariant says that the revisions are
1..n for some n, that only the checkpoint of the last one may be open, that a
transaction which has re-executed holds the lock of that row, so that two never
append at once (`OneWriter`), and what its re-execution found (`TxSound`). An open
checkpoint's revision has one approval more than its parent, which bounds the chain
by the number of keys. `TrafficTypeCorrect`, `SentFilesWereReceived`,
`BatchesAreImportedOnce`: whatever is under way for a batch was signed with the
identity the state file still holds, until the batch has its receipt; the import's
transaction that flushed an event has seen that the batch was not imported.

**`AgentExecutionProofs`**

- `AgentTypeCorrect`, by `AgentInv`. Type correctness needs to know where the steps
  of a recovery are in the trace: there is at most one recovery, its steps follow
  the failed step one by one and name it as their parent (`Layout`), and the
  program counter tells how many steps of the plan were executed (`Progress`).
- `GuardedStepsApproved`: `AgentSpec => []GuardedStepsWereApproved`. `GuardInv` adds
  that every decision an execution starts with was made by somebody, also the ones
  it reads from the trace of an earlier execution.
- `SuccessEarned`: `AgentSpec => []SuccessIsEarned`. `EarnInv` says that the plan's
  steps in the trace are the plan's first ones, that only a completed recovery makes
  up for a failure, and that a completed recovery did what was planned and what the
  contract expects. A success has no halt, so it went through the whole plan.
- `ReexecutionsAgree`: `AgentSpec => []ReexecutionAgrees`, for plans, contracts, live
  answers and decisions of any number and size. A trace of an execution that is
  over is `Whole`: every status follows from the steps before it and the decisions
  (`StatusesFollow`), every recovery from the failure it answers (`ReplanOf`), and the
  end from the last step (`IsOver`). Two such traces of one plan are compared at the
  least position where they differ, which exists because the positions are natural
  numbers (`WFMin`): the steps before it are the same, hence also what comes there,
  unless the decision of the checkpoint that was resumed, or the live answer, is
  another one. For a replay the live answer is the recorded one (`ReplayedLive`),
  and the decisions in the trace explain every status as the ones it was made with
  did (`TraceInv`).

**`GateProofs`**: `GateTypeCorrect`, `ReplacementsHold`; `ReleaseTypeCorrect`,
`StaleActionsStayTrue`, `ClosedStaysClosed`. Evaluations are numbered without a gap
and only stale ones have a replacement; no two sessions hold one row, and what a
session holds has no replacement yet, hence the one it writes is the first. For
releases, a session that is about to mark decisions holds the evaluations they
were signed over; the lemmas about the gate's steps are reused for the composition.

The theorems on verdicts, `VerdictTypeCorrect`, `ApprovalsAreEarned` and
`WorseEvidenceNeverHelps`, are about sums and percentiles over evidence of any size.

- A sum is a fold, defined by recursion on sets. That the recursion has a value is
  shown by building the function of partial sums (`PartialSums`), and facts about
  sums go by adding elements one by one (`OneByOne`): the subsets for which a
  fact fails are a set, and a least one among them would contradict it, so no
  induction theorem with an operator as its parameter is needed. `SumMonotone`,
  `SumShift` and `SumCounts` follow.
- The p95 latency is the least value with at least `Rank95(n)` results up to it. It
  exists (`P95Exists`), at most one result in twenty is above it (`RankBounds`), and
  it does not fall when latencies rise (`P95NotBetter`).
- `ApprovalsAreEarned` needs `VerdictInv`: a baseline without a mean has value 0
  (`ScorecardsHold`), which a sum over no results requires. The results that count
  in the property are those the code selects (`CountedIsSelected`).
- `WorseEvidenceNeverHelps`: when results get worse the same samples are selected,
  each metric moves to its worse side or stays (one lemma per formula, `MeanNotBetter`
  to `DeltaNotBetter`) and keeps its sample size; therefore a rule that failed fails
  (`RuleNotBetter`), a rule lacks samples as before, and critical failures stay; the order in
  which the verdict looks at them allows no more than before (`VerdictNotBetter`).

**`TrustProofs`**: `TrustTypeCorrect`, `EligibleKeysAreFresh`, `ReceiptsAreRegistered`,
`WithdrawalIsFinal`. Since requests write what they read before, the invariant says
what still holds of it (`RequestSound`): a key a synchronisation observed is
published yet or was when it began, and is registered unless it will be imported.
`RootsStay` and `SourceMoves` are what every step keeps for the requests of others.
`ScheduleTypeCorrect` and `LineageHolds`: a run with a result is the one the lease of
the schedule names, and an operator's transaction or another run cannot be
between its two steps at the same time (`WorkerSound`, `ChangeSound`).

**`AlertProofs`**: `AlertsTypeCorrect`, `OneIncidentIsOpen`, `EveryTransitionIsPaged`. A
row's version counts its transitions, and pages are exactly one per version of a
row (`PagesSound`), whichever predecessor an action names; captures hold only rows
that are open, which is why a row skipped by one capture is never resolved by it.
`PagingTypeCorrect` and `DeliveryIsFinal`: a job runs only while its page is not
delivered, unless the answer that delivers it is its own.

**`OidcProofs`**: `VerifierTypeCorrect`, `VerdictsAreTrue`. A cached document vouches
for the past: each of its keys was served so late that the rest of the entry's
lifetime is covered; an entry never lives longer than what it was made from.
`SessionTypeCorrect`, `SessionLogsCorrect`: the invariant relates the row, the log and
the copies that unlocked requests still hold (`LogInv`).

**`RequestProofs`**: `RequestTypeCorrect`, `AttemptResultsAreTrue`,
`OnlyConfirmedIsExecuted`. A confirmed request was confirmed by its latest event at
its revision, and the check that executed is of that revision.
`AssistantTypeCorrect`, `FilesAreKept`, `EffectsAreAsShown`. `NoFileIsLost` is not
inductive: whether a step may remove a link depends on who made it.
`AssistantInv` says that at most one session executes and that its proposal is
executing and still shown by a review; that the workspace is as the proposal saw
it from the second look on, as long as nobody edits files in the middle of a move
(`~EditsDuringMoves`, which the three theorems assume); that in the middle of a move the only second link is
of the file at the proposal's source (`LinkOf`); that a second link anybody left
behind, by a crash or by a failure whose cleanup failed too, has a proposal that
explains it and that recovery is offered for (`Explained`); and that what a draft kept for
recovery is what its proposal showed (`ReviewSound`), so that recovery removes that
link or refuses. An edit from outside moves a link but makes none (`EditOutsideStep`).
The proof attempt showed two things about the model: `StoreRestore` had to write
nothing when the workspace cannot be listed, and a restore recovered after edits
may leave its link behind, which is now an exception in the property.

The assumptions are the named `ASSUME`s of the modules: bounds are natural
numbers and attempt limits and lifetimes positive; values that stand for *none*
are not values; constants that map objects to objects do so; the events of a
batch are finite and not none; the paths of the assistant are not quarantine
names. `AgentAssumption` gives plans and contracts their types and the replan
limit its range (`MAX_AGENT_REPLANS` is 1), and lets a branch name a step of its
plan and have steps, which `planning.py` demands when it reads a plan.
`VerdictAssumption` makes the suite and the runs finite and gives rules the
values that the schema and the CHECK constraints of policies admit. Beyond them
only `~Stalls` is assumed, where said, that is, that heartbeats arrive in time, and
`~EditsDuringMoves`, that other programs leave the assistant's files alone from the
executor's second look at them until it has moved one.

Only model-checked:

- all liveness: fairness and `ENABLED` are outside the prover
  (`DriftIsCaught` and the other `~>` properties);
- that the properties in the runs that expect a violation are violated.

## Not modelled

What a job computes; cryptography, identity providers, inference and paging
services; the ranking of retrieval; reporting, read models and the frontend;
scripted request scenarios. Row-lock deadlocks between reconciliations that visit
several scopes in different orders (one scope is modelled; the database aborts
one of the two). What edits of the assistant's files in the middle of a move lead to.
`PROJECT.json` gives the reason for each part.

## Plan

What would come next, in this order:

1. The trust summary and the critical evaluation (v2 records) in `GateVerdict`.
2. Two batches that share an event in `AgentTraffic`, which is the hazard of the
   import's unlocked look for earlier events.
3. A statement for the two writes that nothing orders, the replacement of a release
   decision and the import of an event, once the code says which of two overlapping
   ones is to win.
