--------------------------- MODULE AgentExecution ---------------------------
(***************************************************************************)
(* The bounded executor of agent plans and the executions of one plan that *)
(* follow each other (backend/app/services/agent_execution/).              *)
(*                                                                         *)
(* A model returns a plan once.  The executor performs its steps against   *)
(* the contract of the evaluation case, halts at a checkpoint nobody has   *)
(* decided, and may recover one failed step, by a branch of the plan or by *)
(* one call of a live model.  Deciding and resuming a checkpoint execute   *)
(* the stored plan again, from its first step, with the decisions of the   *)
(* stored trace; a replay does so for comparison.                          *)
(*                                                                         *)
(* Tools, memory and retrieval are deterministic fixtures, so a step has   *)
(* the error it fails with, if it does, as a part of it.                   *)
(***************************************************************************)
EXTENDS Naturals, FiniteSets, Sequences

CONSTANTS
    Plans,         \* what the model may return
    PlanContracts, \* what the evaluation case may ask for
    LiveAnswers,   \* what a live model may return: sequences of steps
    Checkpoints,   \* checkpoint ids
    NoCheckpoint,  \* a step that names no checkpoint
    ToolErrors,    \* error types of failing steps
    NoError,       \* the step succeeds
    Inline,        \* the decisions a benchmark request may bring with it
    MaxExecutions  \* bound of the model on executions of the plan

VARIABLES
    contract,      \* the contract of the evaluation case
    plan,          \* normalized_output: the plan that is stored with the result
    inline,        \* agent_approval_decisions of the benchmark request
    run,           \* the execution that goes on
    trace,         \* the trace of the latest result revision
    before,        \* the trace it was executed again from
    replayed,      \* what replay_agent_result computed for trace
    approved,      \* every checkpoint an operator or the request approved
    executions     \* how often the plan was executed

agentVars == <<contract, plan, inline, run, trace, before, replayed, approved, executions>>

-----------------------------------------------------------------------------
(* Plans, contracts and traces *)

Actions == {"approval_checkpoint", "memory_read", "retrieve", "tool", "memory_write", "respond"}

\* gate: the checkpoint of an approval_checkpoint, else requires_approval.
Step == [action: Actions, gate: Checkpoints \cup {NoCheckpoint},
         error: ToolErrors \cup {NoError}]

\* A step of the contract, and one that says nothing (expected is None).
Expected == [action: Actions, gate: Checkpoints \cup {NoCheckpoint}]

Anything == [action |-> "any", gate |-> NoCheckpoint]

Decisions == {"pending", "approved", "denied"}

\* What _parse_plan accepts and prepare_agent_execution bounds.
ASSUME AgentAssumption ==
    /\ NoCheckpoint \notin Checkpoints
    /\ NoError \notin ToolErrors
    /\ \A p \in Plans :
          /\ p.steps \in Seq(Step)
          /\ \A b \in p.branches : b.trigger \in DOMAIN p.steps /\ b.steps \in Seq(Step) \ {<<>>}
    /\ \A c \in PlanContracts :
          /\ c.expected \in Seq(Expected)
          /\ \A i \in DOMAIN c.recovery : c.recovery[i] \in Seq(Expected)
          /\ \A a \in DOMAIN c.limit : c.limit[a] \in Nat
          /\ c.step_limit \in Nat /\ c.recovery_limit \in Nat
          /\ c.replan_limit \in {0, 1} /\ c.live \in BOOLEAN
    /\ LiveAnswers \subseteq Seq(Step) \ {<<>>}
    /\ Inline \subseteq [Checkpoints -> Decisions]
    /\ MaxExecutions \in Nat

ExpectedAt(expected, i) == IF i \in DOMAIN expected THEN expected[i] ELSE Anything

ActionsOf(steps) == [i \in DOMAIN steps |-> steps[i].action]

\* _expected_recovery_steps
ExpectedRecovery(i) == IF i \in DOMAIN contract.recovery THEN contract.recovery[i] ELSE <<>>

\* A step that was executed: in the plan, or (parent > 0) in the recovery of
\* the plan's step parent.
Executed == [step: Step,
             status: {"success", "failed", "approved", "denied", "pending", "policy_violation"},
             parent: Nat,
             recovered: BOOLEAN]

Successful(e) == e.status \in {"success", "approved"}

Replan == [trigger: Nat, error: ToolErrors, live: BOOLEAN,
           status: {"success", "failed", "policy_violation", "limit_exceeded",
                    "callback_error", "no_recovery", "running"},
           match: BOOLEAN,
           planned: Nat,         \* how many steps the recovery was to have
           steps: Seq(Nat \ {0})] \* recovery_step_indices: where they are in the trace

Halts == {"none", "limit_exceeded", "approval_pending", "approval_denied", "policy_violation",
          "live_replan_callback_error", "live_replan_no_recovery",
          "recovery_step_limit_exceeded", "recovery_sequence_violation", "recovery_failed"}

Trace == [steps: Seq(Executed), replans: Seq(Replan), halt: Halts,
          status: {"absent", "refused", "pending_approval", "approval_denied", "success",
                   "partial_failure", "failed"}]

NoTrace == [steps |-> <<>>, replans |-> <<>>, halt |-> "none", status |-> "absent"]

Pending(t) == {t.steps[i].step.gate : i \in {k \in DOMAIN t.steps : t.steps[k].status = "pending"}}

\* The step at position i is the n-th of the plan, or of its recovery.
Place(steps, i) == Cardinality({k \in 1..i : steps[k].parent = steps[i].parent})

\* approved_checkpoint_ids, _record_approved_checkpoint
ApprovedIn(steps) ==
    {steps[i].step.gate : i \in {k \in DOMAIN steps : steps[k].status = "approved"}}

\* _approval_decisions_from_trace
DecisionsIn(t) ==
    [c \in Checkpoints |->
        IF \E i \in DOMAIN t.steps : t.steps[i].step.gate = c /\ t.steps[i].status = "approved"
        THEN "approved"
        ELSE IF \E i \in DOMAIN t.steps : t.steps[i].step.gate = c /\ t.steps[i].status = "denied"
        THEN "denied" ELSE "pending"]

Undecided == [c \in Checkpoints |-> "pending"]

-----------------------------------------------------------------------------
(* One step *)

\* Mutant of Violates: a decision is enough, the checkpoint need not be passed.
ViolatesUndecided(prior, step, expected) ==
    \/ step.action \notin contract.allowed
    \/ expected # Anything /\ step.action # expected.action
    \/ expected.gate # NoCheckpoint /\ step.gate # expected.gate
    \/ IF step.action = "approval_checkpoint"
       THEN step.gate = NoCheckpoint
       ELSE step.gate # NoCheckpoint /\ run.decisions[step.gate] # "approved"

\* The checks of _execute_agent_step and of _execute_approval_checkpoint, after
\* the steps prior.  A tool outside allowed_tools counts as an action outside
\* allowed_actions.
Violates(prior, step, expected) ==
    \/ step.action \notin contract.allowed
    \/ expected # Anything /\ step.action # expected.action
    \/ /\ step.action \in DOMAIN contract.limit
       /\ Cardinality({i \in DOMAIN prior : prior[i].step.action = step.action})
            >= contract.limit[step.action]
    \/ expected.gate # NoCheckpoint /\ step.gate # expected.gate
    \/ IF step.action = "approval_checkpoint"
       THEN step.gate = NoCheckpoint
       ELSE step.gate \notin ApprovedIn(prior) \cup {NoCheckpoint}

StatusOf(prior, decisions, step, expected) ==
    IF Violates(prior, step, expected) THEN "policy_violation"
    ELSE IF step.action = "approval_checkpoint" THEN decisions[step.gate]
    ELSE IF step.error # NoError THEN "failed" ELSE "success"

\* _execute_agent_step: the record it adds to the trace.
Perform(step, expected, parent) ==
    [step |-> step, parent |-> parent, recovered |-> FALSE,
     status |-> StatusOf(run.steps, run.decisions, step, expected)]

-----------------------------------------------------------------------------
(* execute_agent_plan *)

Run == [pc: {"idle", "plan", "failed", "recovery", "done"},
        mode: {"execute", "resume", "replay"},
        decisions: [Checkpoints -> Decisions],
        next: Nat \ {0},          \* the plan's next step
        branch: Seq(Step),        \* the steps of the recovery
        steps: Seq(Executed),
        replans: Seq(Replan),
        halt: Halts]

NoRun == [pc |-> "idle", mode |-> "execute", decisions |-> Undecided, next |-> 1,
         branch |-> <<>>, steps |-> <<>>, replans |-> <<>>, halt |-> "none"]

Overlap(b, d) == b.trigger = d.trigger /\ (b.on = {} \/ d.on = {} \/ b.on \cap d.on # {})

\* The checks before the first step: limits and ambiguous recovery branches
\* (_limit_trace, _policy_trace).
Refused ==
    \/ Len(plan.steps) > contract.step_limit
    \/ plan.branches # {} /\ contract.replan_limit = 0
    \/ \E b, d \in plan.branches : b # d /\ Overlap(b, d)
    \/ \E b \in plan.branches : Len(b.steps) > contract.recovery_limit

Started(mode, decisions) ==
    [NoRun EXCEPT !.pc = IF Refused THEN "done" ELSE "plan",
                 !.mode = mode, !.decisions = decisions,
                 !.halt = IF Refused THEN "limit_exceeded" ELSE "none"]

\* A step of the plan; what it returned decides how the loop goes on.
PlanStep ==
    /\ run.pc = "plan" /\ run.next \in DOMAIN plan.steps
    /\ LET e == Perform(plan.steps[run.next], ExpectedAt(contract.expected, run.next), 0)
           did == [run EXCEPT !.steps = Append(@, e)]
       IN  run' = CASE e.status = "pending" -> [did EXCEPT !.pc = "done", !.halt = "approval_pending"]
                    [] e.status = "denied" -> [did EXCEPT !.pc = "done", !.halt = "approval_denied"]
                    [] e.status = "policy_violation" ->
                         [did EXCEPT !.pc = "done", !.halt = "policy_violation"]
                    [] e.status = "failed" -> [did EXCEPT !.pc = "failed"]
                    [] OTHER -> [did EXCEPT !.next = @ + 1]
    /\ UNCHANGED <<contract, plan, inline, trace, before, replayed, approved, executions>>

EndOfPlan ==
    /\ run.pc = "plan" /\ run.next \notin DOMAIN plan.steps
    /\ run' = [run EXCEPT !.pc = "done"]
    /\ UNCHANGED <<contract, plan, inline, trace, before, replayed, approved, executions>>

\* The error the plan's last step failed with.
Failure == run.steps[Len(run.steps)].step.error

\* _select_recovery_plan
Matching ==
    {b \in plan.branches : b.trigger = run.next /\ (b.on = {} \/ Failure \in b.on)}

BudgetLeft == Len(run.replans) < contract.replan_limit

WithReplan(steps, live, status, match) ==
    [run EXCEPT !.replans = Append(@, [trigger |-> run.next, error |-> Failure, live |-> live,
                                       status |-> status, match |-> match,
                                       planned |-> Len(steps), steps |-> <<>>])]

HaltedReplan(steps, live, status, halt) ==
    [WithReplan(steps, live, status, FALSE) EXCEPT !.pc = "done", !.halt = halt]

\* The recovery steps must be the actions the contract expects, if it expects
\* any.
Recovering(steps, live) ==
    IF ExpectedRecovery(run.next) # <<>> /\ ActionsOf(steps) # ActionsOf(ExpectedRecovery(run.next))
    THEN HaltedReplan(steps, live, "policy_violation", "recovery_sequence_violation")
    ELSE [WithReplan(steps, live, "running", TRUE) EXCEPT !.pc = "recovery", !.branch = steps]

TakeBranch ==
    /\ run.pc = "failed" /\ BudgetLeft
    /\ \E b \in Matching : run' = Recovering(b.steps, FALSE)
    /\ UNCHANGED <<contract, plan, inline, trace, before, replayed, approved, executions>>

\* The conditions under which the callback is called; its budget of one call
\* (MAX_AGENT_LIVE_REPLAN_CALLS) is the budget of replans at its largest
\* (MAX_AGENT_REPLANS).
LiveCallable == run.pc = "failed" /\ BudgetLeft /\ Matching = {} /\ contract.live

\* _RecordedLiveReplanCallback: the inputs of the steps that the recorded
\* recovery of this failure executed.
Recorded ==
    LET events == {i \in DOMAIN trace.replans : /\ trace.replans[i].live
                                               /\ trace.replans[i].trigger = run.next
                                               /\ trace.replans[i].error = Failure}
        indices == trace.replans[CHOOSE i \in events : TRUE].steps
    IN  IF events = {} THEN <<>> ELSE [k \in DOMAIN indices |-> trace.steps[indices[k]].step]

\* Mutant of Answers: a replay asks the model again.
AnswersFresh == LiveAnswers \cup {<<>>}

\* What the callback returns, <<>> for None: on a replay what was recorded, on
\* a resume whatever the model answers now.
Answers ==
    IF run.mode = "replay" /\ \E i \in DOMAIN trace.replans : trace.replans[i].live
    THEN {Recorded}
    ELSE LiveAnswers \cup {<<>>}

CallLive ==
    /\ LiveCallable
    /\ \E steps \in Answers :
          \/ /\ steps = <<>>
             /\ run' = HaltedReplan(<<>>, TRUE, "no_recovery", "live_replan_no_recovery")
          \/ /\ steps # <<>> /\ Len(steps) > contract.recovery_limit
             /\ run' = HaltedReplan(steps, TRUE, "limit_exceeded", "recovery_step_limit_exceeded")
          \/ /\ steps # <<>> /\ Len(steps) <= contract.recovery_limit
             /\ run' = Recovering(steps, TRUE)
    /\ UNCHANGED <<contract, plan, inline, trace, before, replayed, approved, executions>>

\* The callback raises; a recorded one never does.
LiveFails ==
    /\ LiveCallable
    /\ ~(run.mode = "replay" /\ \E i \in DOMAIN trace.replans : trace.replans[i].live)
    /\ run' = HaltedReplan(<<>>, TRUE, "callback_error", "live_replan_callback_error")
    /\ UNCHANGED <<contract, plan, inline, trace, before, replayed, approved, executions>>

\* No branch, no live model or no budget: the loop goes on after the failure.
GoOn ==
    /\ run.pc = "failed"
    /\ ~LiveCallable
    /\ Matching = {} \/ ~BudgetLeft
    /\ run' = [run EXCEPT !.pc = "plan", !.next = @ + 1]
    /\ UNCHANGED <<contract, plan, inline, trace, before, replayed, approved, executions>>

\* The replan event under way: it notes a step at position i, and how it ended.
Noted(replan, i) == [replan EXCEPT !.steps = Append(@, i)]

Ended(replan, i, status) == [Noted(replan, i) EXCEPT !.status = status]

\* A completed recovery makes up for the failure of the step at position i.
Repaired(steps, i) == [steps EXCEPT ![i].recovered = TRUE]

\* A step of the recovery, which follows the step that failed; whatever keeps it
\* from succeeding, an undecided checkpoint too, ends the execution.
RecoveryStep ==
    /\ run.pc = "recovery"
    /\ LET last == Len(run.replans)
           replan == run.replans[last]
           i == Len(replan.steps) + 1
           at == Len(run.steps) + 1
           e == Perform(run.branch[i], ExpectedAt(ExpectedRecovery(run.next), i), run.next)
           steps == Append(run.steps, e)
       IN  run' = IF ~Successful(e)
                  THEN [run EXCEPT !.pc = "done", !.halt = "recovery_failed", !.steps = steps,
                                   !.replans[last] = Ended(replan, at, "failed")]
                  ELSE IF i < Len(run.branch)
                  THEN [run EXCEPT !.steps = steps, !.replans[last] = Noted(replan, at)]
                  ELSE [run EXCEPT !.pc = "plan", !.next = @ + 1,
                                   !.steps = Repaired(steps, at - i),
                                   !.replans[last] = Ended(replan, at, "success")]
    /\ UNCHANGED <<contract, plan, inline, trace, before, replayed, approved, executions>>

\* Mutant of PlanValid: the steps are checked, the length of the plan is not.
PlanValidSoFar(x) ==
    /\ \A i \in DOMAIN x.steps : x.steps[i].status # "policy_violation"
    /\ \A i \in DOMAIN x.replans : x.replans[i].match

PlanValid(x) ==
    /\ contract.expected # <<>> => ActionsOf(plan.steps) = ActionsOf(contract.expected)
    /\ \A i \in DOMAIN x.steps : x.steps[i].status # "policy_violation"
    /\ \A i \in DOMAIN x.replans : x.replans[i].match

\* What successful demands of the execution x.
Earned(x) ==
    /\ x.steps # <<>>
    /\ PlanValid(x)
    /\ \A i \in DOMAIN x.steps : Successful(x.steps[i]) \/ x.steps[i].recovered
    /\ \E i \in DOMAIN x.steps : x.steps[i].step.action = "respond" /\ Successful(x.steps[i])
    /\ x.halt = "none"

\* The verdict at the end of execute_agent_plan.
Verdict(x) ==
    CASE x.halt = "approval_pending" -> "pending_approval"
      [] x.halt = "approval_denied" -> "approval_denied"
      [] x.halt = "limit_exceeded" -> "refused"
      [] x.halt \notin {"approval_pending", "approval_denied", "limit_exceeded"} ->
            IF Earned(x) THEN "success"
            ELSE IF \E i \in DOMAIN x.steps : Successful(x.steps[i])
            THEN "partial_failure" ELSE "failed"

-----------------------------------------------------------------------------
(* The executions of one plan *)

AgentInit ==
    /\ contract \in PlanContracts
    /\ plan \in Plans
    /\ inline \in Inline
    /\ run = NoRun
    /\ trace = NoTrace /\ before = NoTrace /\ replayed = NoTrace
    /\ approved = {c \in Checkpoints : inline[c] = "approved"}
    /\ executions = 0

Execute(mode, decisions) ==
    /\ run = NoRun
    /\ executions < MaxExecutions
    /\ executions' = executions + 1
    /\ run' = Started(mode, decisions)

\* The benchmark run executes the plan with the decisions of the request.
FirstExecution ==
    /\ trace = NoTrace
    /\ Execute("execute", inline)
    /\ UNCHANGED <<contract, plan, inline, trace, before, replayed, approved>>

\* The decisions of the parent trace and of the checkpoint's record.
PersistedDecisions(c, decision) == [DecisionsIn(trace) EXCEPT ![c] = decision]

\* A pending checkpoint is approved and resumed, or denied: the plan runs
\* again (_apply_persisted_decisions).
ExecuteDecided(c, decision) ==
    /\ c \in Pending(trace)
    /\ Execute("resume", PersistedDecisions(c, decision))
    /\ approved' = IF decision = "approved" THEN approved \cup {c} ELSE approved
    /\ UNCHANGED <<contract, plan, inline, trace, before, replayed>>

\* replay_agent_result: the decisions of the trace, or if it has none those of
\* the request.
ExecuteReplay ==
    /\ trace # NoTrace /\ replayed = NoTrace
    /\ Execute("replay", IF DecisionsIn(trace) = Undecided THEN inline ELSE DecisionsIn(trace))
    /\ UNCHANGED <<contract, plan, inline, trace, before, replayed, approved>>

\* The trace becomes the result, a revision of it or the answer of a replay.
EndExecution ==
    /\ run.pc = "done"
    /\ LET t == [steps |-> run.steps, replans |-> run.replans, halt |-> run.halt,
                 status |-> Verdict(run)] IN
         IF run.mode = "replay"
         THEN replayed' = t /\ UNCHANGED <<trace, before>>
         ELSE /\ trace' = t
              /\ before' = IF run.mode = "resume" THEN trace ELSE NoTrace
              /\ replayed' = NoTrace
    /\ run' = NoRun
    /\ UNCHANGED <<contract, plan, inline, approved, executions>>

AgentNext ==
    \/ FirstExecution
    \/ \E c \in Checkpoints, decision \in {"approved", "denied"} : ExecuteDecided(c, decision)
    \/ ExecuteReplay
    \/ PlanStep \/ EndOfPlan \/ TakeBranch \/ CallLive \/ LiveFails \/ GoOn \/ RecoveryStep
    \/ EndExecution

AgentSpec == AgentInit /\ [][AgentNext]_agentVars

-----------------------------------------------------------------------------
(* Properties *)

\* Every variable keeps its type.
AgentTypeOK ==
    /\ contract \in PlanContracts /\ plan \in Plans /\ inline \in Inline
    /\ run \in Run
    /\ trace \in Trace /\ before \in Trace /\ replayed \in Trace
    /\ approved \in SUBSET Checkpoints
    /\ executions \in 0..MaxExecutions

\* The checkpoints that the step at position i needs: its own and that of the
\* contract for its place in the plan or in the recovery.
NeededAt(i) ==
    LET e == run.steps[i]
        expected == ExpectedAt(IF e.parent = 0 THEN contract.expected
                                               ELSE ExpectedRecovery(e.parent),
                               Place(run.steps, i))
    IN  {e.step.gate, expected.gate} \ {NoCheckpoint}

\* docs/architecture.md: a checkpoint must execute before its guarded action,
\* and pending, denied and violating steps halt before side effects.  In the
\* first execution, after any number of resumes, in a recovery and in a
\* replay: what took effect had passed, in this very execution, every
\* checkpoint it needs, an operator did approve that, and nothing follows a
\* step that halts.
GuardedStepsWereApproved ==
    \A i \in DOMAIN run.steps :
        /\ run.steps[i].status \in {"pending", "denied", "policy_violation"} => i = Len(run.steps)
        /\ /\ run.steps[i].step.action # "approval_checkpoint"
           /\ run.steps[i].status \in {"success", "failed"}
           => \A c \in NeededAt(i) :
                /\ c \in approved
                /\ \E k \in 1..(i - 1) :
                      run.steps[k].step.gate = c /\ run.steps[k].status = "approved"

\* docs/architecture.md: success depends on the absence of unrecovered
\* failures.  A trace that ends in success performed exactly the steps of the
\* contract, in their order, and every step succeeded or was followed by a
\* recovery that succeeded to its last step, which the contract's recovery
\* has as many of, if it has one.
SuccessIsEarned ==
    trace.status = "success" =>
        LET steps == trace.steps
            base == {i \in DOMAIN steps : steps[i].parent = 0}
        IN  /\ contract.expected # <<>> =>
                 /\ Cardinality(base) = Len(contract.expected)
                 /\ \A i \in base :
                       steps[i].step.action = contract.expected[Place(steps, i)].action
            /\ \A i \in base : ~Successful(steps[i]) =>
                 LET recovery == {k \in DOMAIN steps : steps[k].parent = Place(steps, i)}
                     expected == ExpectedRecovery(Place(steps, i))
                 IN  /\ recovery # {}
                     /\ \A k \in recovery : Successful(steps[k])
                     /\ expected # <<>> => Cardinality(recovery) = Len(expected)

\* What the live model had no say in, in a trace: the steps up to the one whose
\* failure it was asked about, and not a checkpoint that halted for a decision.
Settled(t) ==
    LET live == {t.replans[i].trigger : i \in {k \in DOMAIN t.replans : t.replans[k].live}}
    IN  {i \in DOMAIN t.steps :
            /\ t.steps[i].status # "pending"
            /\ \A k \in 1..(i - 1) : t.steps[k].parent = 0 => Place(t.steps, k) \notin live}

SameStep(d, e) == d.step = e.step /\ d.status = e.status /\ d.parent = e.parent

\* The recoveries a recorded trace holds in full.
Replayable(t) ==
    \A i \in DOMAIN t.replans :
        t.replans[i].live =>
            \/ t.replans[i].status \in {"success", "no_recovery"}
            \/ t.replans[i].status = "failed" /\ Len(t.replans[i].steps) = t.replans[i].planned

\* The stored plan is executed again from its start.  Until a live model has
\* its say, a revision repeats the steps that the operator saw who approved
\* it, to the checkpoint where they ended; and a replay repeats the trace,
\* unless a live recovery broke off, or a revision has no decision in it and
\* those of the request take its place.
ReexecutionAgrees ==
    /\ before # NoTrace =>
         \A i \in Settled(before) :
            i \in DOMAIN trace.steps /\ SameStep(trace.steps[i], before.steps[i])
    /\ /\ replayed # NoTrace /\ Replayable(trace)
       /\ before = NoTrace \/ DecisionsIn(trace) # Undecided
       => replayed = trace
=============================================================================
