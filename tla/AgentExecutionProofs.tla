------------------------ MODULE AgentExecutionProofs ------------------------
(* What the bounded executor guarantees for every plan a model may return, *)
(* every contract, every answer of a live model, every decision of an      *)
(* operator and any number of executions.                                  *)
EXTENDS AgentExecution, Integers, FiniteSetTheorems, WellFoundedInduction, TLAPS

(***************************************************************************)
(* An execution performs the plan's steps in order, and at most once the   *)
(* steps of a recovery between the step that failed and the next one.      *)
(***************************************************************************)

\* Position i of the execution x is one of its recovery.
InRecovery(x, i) ==
    /\ x.replans # <<>>
    /\ x.replans[1].trigger < i
    /\ i <= x.replans[1].trigger + Len(x.replans[1].steps)

\* There is at most one recovery, right after the step it is for; the steps
\* before it are the plan's first ones, hence trigger is also a position.
Layout(x) ==
    /\ Len(x.replans) <= 1
    /\ \A i \in DOMAIN x.steps :
          x.steps[i].parent = IF InRecovery(x, i) THEN x.replans[1].trigger ELSE 0
    /\ x.replans # <<>> =>
          LET r == x.replans[1] IN
          /\ r.trigger \in DOMAIN x.steps
          /\ r.trigger + Len(r.steps) <= Len(x.steps)
          /\ \A k \in DOMAIN r.steps : r.steps[k] = r.trigger + k

\* How many steps of x are not the plan's.
Extra(x) == IF x.replans = <<>> THEN 0 ELSE Len(x.replans[1].steps)

\* What the program counter says of the steps so far.
Progress ==
    /\ run.pc = "idle" => run = NoRun
    /\ run.pc \in {"plan", "failed", "recovery"} => run.halt = "none"
    /\ run.pc = "plan" => run.next = Len(run.steps) - Extra(run) + 1
    /\ run.pc = "failed" =>
          /\ run.next = Len(run.steps) - Extra(run)
          /\ run.next \in DOMAIN plan.steps
          /\ run.steps # <<>> /\ run.steps[Len(run.steps)].status = "failed"
          /\ ~InRecovery(run, Len(run.steps))
    /\ run.pc = "recovery" =>
          /\ run.replans # <<>>
          /\ run.replans[1].status = "running"
          /\ run.replans[1].trigger = run.next
          /\ Len(run.steps) = run.next + Extra(run)
          /\ Extra(run) < Len(run.branch)

\* Only a step that names an error fails with one.
FailuresHaveErrors(x) ==
    \A i \in DOMAIN x.steps :
       x.steps[i].status = "failed" => x.steps[i].step.error \in ToolErrors

AgentInv ==
    /\ AgentTypeOK
    /\ Progress
    /\ Layout(run) /\ Layout(trace)
    /\ FailuresHaveErrors(run)

-----------------------------------------------------------------------------
(* Lemmas about the operators *)

LEMMA PerformedStep ==
  ASSUME run \in Run, NEW step \in Step, NEW expected, NEW parent \in Nat
  PROVE  LET e == Perform(step, expected, parent) IN
         /\ e \in Executed
         /\ e.step = step /\ e.parent = parent /\ ~e.recovered
         /\ e.status = StatusOf(run.steps, run.decisions, step, expected)
         /\ e.status = "failed" => step.error \in ToolErrors
<1>1. StatusOf(run.steps, run.decisions, step, expected)
        \in {"success", "failed", "approved", "denied", "pending", "policy_violation"}
  <2>1. CASE Violates(run.steps, step, expected)
    BY <2>1 DEF StatusOf
  <2>2. CASE ~Violates(run.steps, step, expected) /\ step.action = "approval_checkpoint"
    <3>1. step.gate \in Checkpoints
      BY <2>2 DEF Violates, Step
    <3>2. run.decisions[step.gate] \in Decisions
      BY <3>1 DEF Run
    <3> QED BY <2>2, <3>2 DEF StatusOf, Decisions
  <2>3. CASE ~Violates(run.steps, step, expected) /\ step.action # "approval_checkpoint"
    BY <2>3 DEF StatusOf
  <2> QED BY <2>1, <2>2, <2>3
<1>2. StatusOf(run.steps, run.decisions, step, expected) = "failed" => step.error \in ToolErrors
  <2>1. SUFFICES ASSUME ~Violates(run.steps, step, expected), step.action = "approval_checkpoint"
                 PROVE  run.decisions[step.gate] # "failed"
    BY DEF StatusOf, Step
  <2>2. step.gate \in Checkpoints
    BY <2>1 DEF Violates, Step
  <2> QED BY <2>2 DEF Run, Decisions
<1> QED BY <1>1, <1>2 DEF Perform, Executed

LEMMA PerformedFields ==
  ASSUME NEW step, NEW expected, NEW parent
  PROVE  /\ Perform(step, expected, parent).step = step
         /\ Perform(step, expected, parent).parent = parent
         /\ ~Perform(step, expected, parent).recovered
         /\ Perform(step, expected, parent).status
              = StatusOf(run.steps, run.decisions, step, expected)
BY DEF Perform

LEMMA PlanTypes ==
  ASSUME plan \in Plans
  PROVE  /\ plan.steps \in Seq(Step)
         /\ \A b \in plan.branches : b.trigger \in DOMAIN plan.steps /\ b.steps \in Seq(Step) \ {<<>>}
BY AgentAssumption

LEMMA ContractTypes ==
  ASSUME contract \in PlanContracts
  PROVE  /\ contract.expected \in Seq(Expected)
         /\ \A i : ExpectedRecovery(i) \in Seq(Expected)
         /\ \A a \in DOMAIN contract.limit : contract.limit[a] \in Nat
         /\ contract.step_limit \in Nat /\ contract.recovery_limit \in Nat
         /\ contract.replan_limit \in {0, 1} /\ contract.live \in BOOLEAN
<1>1. \A i \in DOMAIN contract.recovery : contract.recovery[i] \in Seq(Expected)
  BY AgentAssumption
<1>2. <<>> \in Seq(Expected)
  OBVIOUS
<1>3. \A i : ExpectedRecovery(i) \in Seq(Expected)
  BY <1>1, <1>2 DEF ExpectedRecovery
<1> QED BY <1>3, AgentAssumption

\* A step of the plan, field by field.
PlanStepDoes ==
    LET e == Perform(plan.steps[run.next], ExpectedAt(contract.expected, run.next), 0) IN
    /\ run.pc = "plan" /\ run.next \in DOMAIN plan.steps
    /\ run' \in Run
    /\ run'.steps = Append(run.steps, e)
    /\ run'.mode = run.mode /\ run'.decisions = run.decisions /\ run'.branch = run.branch
    /\ run'.replans = run.replans
    /\ \/ /\ e.status = "pending" /\ run'.pc = "done" /\ run'.halt = "approval_pending"
          /\ run'.next = run.next
       \/ /\ e.status = "denied" /\ run'.pc = "done" /\ run'.halt = "approval_denied"
          /\ run'.next = run.next
       \/ /\ e.status = "policy_violation" /\ run'.pc = "done" /\ run'.halt = "policy_violation"
          /\ run'.next = run.next
       \/ /\ e.status = "failed" /\ run'.pc = "failed" /\ run'.halt = run.halt
          /\ run'.next = run.next
       \/ /\ e.status \in {"success", "approved"} /\ run'.pc = "plan" /\ run'.halt = run.halt
          /\ run'.next = run.next + 1

LEMMA PlanStepShape == AgentTypeOK /\ PlanStep => PlanStepDoes
<1> SUFFICES ASSUME AgentTypeOK, PlanStep PROVE PlanStepDoes
  OBVIOUS
<1> DEFINE step == plan.steps[run.next]
           expected == ExpectedAt(contract.expected, run.next)
           e == Perform(step, expected, 0)
           did == [run EXCEPT !.steps = Append(@, e)]
<1>1. run \in Run /\ run.pc = "plan" /\ run.next \in DOMAIN plan.steps /\ step \in Step
  BY PlanTypes DEF AgentTypeOK, PlanStep
<1>2. e \in Executed
  BY <1>1, PerformedStep
<1>3. run' = CASE e.status = "pending" -> [did EXCEPT !.pc = "done", !.halt = "approval_pending"]
                    [] e.status = "denied" -> [did EXCEPT !.pc = "done", !.halt = "approval_denied"]
                    [] e.status = "policy_violation" ->
                         [did EXCEPT !.pc = "done", !.halt = "policy_violation"]
                    [] e.status = "failed" -> [did EXCEPT !.pc = "failed"]
                    [] OTHER -> [did EXCEPT !.next = @ + 1]
  BY DEF PlanStep
<1> HIDE DEF step, expected, e
<1>4. Append(run.steps, e) \in Seq(Executed)
  BY <1>1, <1>2 DEF Run
<1>5. CASE e.status = "pending"
  <2>1. run' = [did EXCEPT !.pc = "done", !.halt = "approval_pending"]
    BY <1>3, <1>5
  <2> QED BY <2>1, <1>1, <1>4, <1>5 DEF PlanStepDoes, Run, Halts, step, expected, e
<1>6. CASE e.status = "denied"
  <2>1. run' = [did EXCEPT !.pc = "done", !.halt = "approval_denied"]
    BY <1>3, <1>6
  <2> QED BY <2>1, <1>1, <1>4, <1>6 DEF PlanStepDoes, Run, Halts, step, expected, e
<1>7. CASE e.status = "policy_violation"
  <2>1. run' = [did EXCEPT !.pc = "done", !.halt = "policy_violation"]
    BY <1>3, <1>7
  <2> QED BY <2>1, <1>1, <1>4, <1>7 DEF PlanStepDoes, Run, Halts, step, expected, e
<1>8. CASE e.status = "failed"
  <2>1. run' = [did EXCEPT !.pc = "failed"]
    BY <1>3, <1>8
  <2> QED BY <2>1, <1>1, <1>4, <1>8 DEF PlanStepDoes, Run, Halts, step, expected, e
<1>9. CASE e.status \in {"success", "approved"}
  <2>1. run' = [did EXCEPT !.next = @ + 1]
    BY <1>3, <1>9
  <2>2. run.next + 1 \in Nat \ {0}
    BY <1>1 DEF Run
  <2>3. run' \in Run
    BY <2>1, <2>2, <1>1, <1>4 DEF Run
  <2> QED BY <2>1, <2>3, <1>1, <1>4, <1>9 DEF PlanStepDoes, Run, step, expected, e
<1> QED BY <1>2, <1>5, <1>6, <1>7, <1>8, <1>9 DEF Executed

\* What the executor keeps of an execution while it goes on.
SameRequest == run'.mode = run.mode /\ run'.decisions = run.decisions

EndOfPlanDoes ==
    /\ run.pc = "plan" /\ run.next \notin DOMAIN plan.steps
    /\ run' \in Run /\ SameRequest
    /\ run'.pc = "done" /\ run'.halt = run.halt /\ run'.next = run.next
    /\ run'.steps = run.steps /\ run'.replans = run.replans /\ run'.branch = run.branch

LEMMA EndOfPlanShape == AgentTypeOK /\ EndOfPlan => EndOfPlanDoes
BY DEF AgentTypeOK, EndOfPlan, EndOfPlanDoes, Run, SameRequest

GoOnDoes ==
    /\ run.pc = "failed" /\ ~LiveCallable /\ (Matching = {} \/ ~BudgetLeft)
    /\ run' \in Run /\ SameRequest
    /\ run'.pc = "plan" /\ run'.halt = run.halt /\ run'.next = run.next + 1
    /\ run'.steps = run.steps /\ run'.replans = run.replans /\ run'.branch = run.branch

LEMMA GoOnShape == AgentTypeOK /\ GoOn => GoOnDoes
<1> SUFFICES ASSUME AgentTypeOK, GoOn PROVE GoOnDoes
  OBVIOUS
<1>1. run \in Run /\ run.next + 1 \in Nat \ {0} /\ run' = [run EXCEPT !.pc = "plan", !.next = @ + 1]
  BY DEF AgentTypeOK, GoOn, Run
<1>2. run' \in Run
  BY <1>1 DEF Run
<1> QED BY <1>1, <1>2 DEF GoOn, GoOnDoes, Run, SameRequest

\* The replan event for the recovery steps.
NewReplan(steps, live, status, match) ==
    [trigger |-> run.next, error |-> Failure, live |-> live, status |-> status, match |-> match,
     planned |-> Len(steps), steps |-> <<>>]

HaltedDoes(steps, live, status, halt) ==
    /\ run' \in Run /\ SameRequest
    /\ run'.pc = "done" /\ run'.halt = halt /\ run'.next = run.next
    /\ run'.steps = run.steps /\ run'.branch = run.branch
    /\ run'.replans = Append(run.replans, NewReplan(steps, live, status, FALSE))

RecoveringDoes(steps, live) ==
    /\ run' \in Run /\ SameRequest
    /\ run'.pc = "recovery" /\ run'.halt = run.halt /\ run'.next = run.next
    /\ run'.steps = run.steps /\ run'.branch = steps
    /\ run'.replans = Append(run.replans, NewReplan(steps, live, "running", TRUE))

ReplanStatus == {"success", "failed", "policy_violation", "limit_exceeded",
                 "callback_error", "no_recovery", "running"}

LEMMA NewReplanType ==
  ASSUME run \in Run, Failure \in ToolErrors, NEW steps \in Seq(Step), NEW live \in BOOLEAN,
         NEW status \in ReplanStatus, NEW match \in BOOLEAN
  PROVE  /\ NewReplan(steps, live, status, match) \in Replan
         /\ Append(run.replans, NewReplan(steps, live, status, match)) \in Seq(Replan)
<1>1. run.next \in Nat /\ run.replans \in Seq(Replan) /\ Len(steps) \in Nat /\ <<>> \in Seq(Nat \ {0})
  BY DEF Run
<1>2. NewReplan(steps, live, status, match) \in Replan
  BY <1>1 DEF NewReplan, Replan, ReplanStatus
<1> QED BY <1>1, <1>2

LEMMA HaltedShape ==
  ASSUME run \in Run, Failure \in ToolErrors, NEW steps \in Seq(Step), NEW live \in BOOLEAN,
         NEW status \in ReplanStatus, NEW halt \in Halts, run' = HaltedReplan(steps, live, status, halt)
  PROVE  HaltedDoes(steps, live, status, halt)
<1> DEFINE new == NewReplan(steps, live, status, FALSE)
           replans == Append(run.replans, new)
<1>1. replans \in Seq(Replan)
  BY NewReplanType
<1>2. run' = [[run EXCEPT !.replans = replans] EXCEPT !.pc = "done", !.halt = halt]
  BY DEF HaltedReplan, WithReplan, NewReplan
<1> HIDE DEF replans, new
<1>3. run' \in Run
  BY <1>1, <1>2 DEF Run
<1> QED BY <1>2, <1>3 DEF Run, HaltedDoes, SameRequest, new, replans

LEMMA RecoveringShape ==
  ASSUME run \in Run, Failure \in ToolErrors, NEW steps \in Seq(Step), NEW live \in BOOLEAN,
         run' = Recovering(steps, live)
  PROVE  \/ /\ ExpectedRecovery(run.next) # <<>>
            /\ ActionsOf(steps) # ActionsOf(ExpectedRecovery(run.next))
            /\ HaltedDoes(steps, live, "policy_violation", "recovery_sequence_violation")
         \/ /\ ExpectedRecovery(run.next) = <<>> \/ ActionsOf(steps) = ActionsOf(ExpectedRecovery(run.next))
            /\ RecoveringDoes(steps, live)
<1>1. CASE ExpectedRecovery(run.next) # <<>> /\ ActionsOf(steps) # ActionsOf(ExpectedRecovery(run.next))
  <2>1. run' = HaltedReplan(steps, live, "policy_violation", "recovery_sequence_violation")
    BY <1>1 DEF Recovering
  <2>2. HaltedDoes(steps, live, "policy_violation", "recovery_sequence_violation")
    BY <2>1, HaltedShape DEF ReplanStatus, Halts
  <2> QED BY <1>1, <2>2
<1>2. CASE ~(ExpectedRecovery(run.next) # <<>> /\ ActionsOf(steps) # ActionsOf(ExpectedRecovery(run.next)))
  <2> DEFINE replans == Append(run.replans, NewReplan(steps, live, "running", TRUE))
  <2>1. replans \in Seq(Replan)
    BY NewReplanType DEF ReplanStatus
  <2>2. run' = [[run EXCEPT !.replans = replans] EXCEPT !.pc = "recovery", !.branch = steps]
    BY <1>2 DEF Recovering, WithReplan, NewReplan
  <2> HIDE DEF replans
  <2>3. run' \in Run
    BY <2>1, <2>2 DEF Run
  <2>4. RecoveringDoes(steps, live)
    BY <2>2, <2>3 DEF Run, RecoveringDoes, SameRequest, replans
  <2> QED BY <1>2, <2>4
<1> QED BY <1>1, <1>2

LEMMA FailureType == AgentInv /\ run.pc = "failed" => Failure \in ToolErrors
BY DEF AgentInv, AgentTypeOK, Run, Progress, FailuresHaveErrors, Failure

LEMMA NoSteps == <<>> \in Seq(Step) /\ Len(<<>>) = 0
OBVIOUS

\* What a live replan that trace recorded has executed.
LEMMA RecordedType == AgentInv => Recorded \in Seq(Step)
<1> SUFFICES ASSUME AgentInv PROVE Recorded \in Seq(Step)
  OBVIOUS
<1> DEFINE events == {i \in DOMAIN trace.replans : /\ trace.replans[i].live
                                               /\ trace.replans[i].trigger = run.next
                                               /\ trace.replans[i].error = Failure}
           c == CHOOSE i \in events : TRUE
           indices == trace.replans[c].steps
<1>1. CASE events = {}
  <2>1. Recorded = <<>>
    BY <1>1 DEF Recorded
  <2> QED BY <2>1, NoSteps
<1>2. CASE events # {}
  <2>1. c \in DOMAIN trace.replans
    BY <1>2
  <2>2. trace.replans \in Seq(Replan) /\ trace.steps \in Seq(Executed) /\ Len(trace.replans) <= 1
    BY DEF AgentInv, AgentTypeOK, Trace, Layout
  <2>3. c = 1 /\ trace.replans # <<>>
    BY <2>1, <2>2
  <2> DEFINE r == trace.replans[1]
  <2>4. r \in Replan /\ r.steps \in Seq(Nat \ {0})
    <3>1. 1 \in DOMAIN trace.replans
      BY <2>1, <2>3
    <3>2. r \in Replan
      BY <3>1, <2>2
    <3> HIDE DEF r
    <3> QED BY <3>2 DEF Replan
  <2>5. \A k \in DOMAIN r.steps : r.steps[k] \in DOMAIN trace.steps
    <3>1. r.trigger \in DOMAIN trace.steps /\ r.trigger + Len(r.steps) <= Len(trace.steps)
          /\ \A k \in DOMAIN r.steps : r.steps[k] = r.trigger + k
      BY <2>3 DEF AgentInv, Layout
    <3> HIDE DEF r
    <3> QED BY <3>1, <2>2, <2>4
  <2>6. indices = r.steps
    BY <2>3
  <2>7. Recorded = [k \in DOMAIN indices |-> trace.steps[indices[k]].step]
    BY <1>2 DEF Recorded
  <2> HIDE DEF r, indices
  <2>8. \A k \in DOMAIN r.steps : trace.steps[r.steps[k]].step \in Step
    <3>1. \A i \in DOMAIN trace.steps : trace.steps[i] \in Executed
      BY <2>2
    <3>2. \A i \in DOMAIN trace.steps : trace.steps[i].step \in Step
      BY <3>1 DEF Executed
    <3> QED BY <3>2, <2>5
  <2>9. DOMAIN r.steps = 1..Len(r.steps) /\ Len(r.steps) \in Nat
    BY <2>4
  <2> QED BY <2>6, <2>7, <2>8, <2>9
<1> QED BY <1>1, <1>2

\* How the loop goes on after a failure that is to be recovered: it halts, or
\* the recovery begins.
ReplanDoes(steps, live, answered) ==
    /\ run.pc = "failed" /\ BudgetLeft /\ steps \in Seq(Step)
    /\ \/ HaltedDoes(steps, live, "callback_error", "live_replan_callback_error") /\ ~answered
       \/ /\ HaltedDoes(steps, live, "no_recovery", "live_replan_no_recovery")
          /\ live /\ answered /\ steps = <<>>
       \/ /\ HaltedDoes(steps, live, "limit_exceeded", "recovery_step_limit_exceeded")
          /\ live /\ answered /\ steps # <<>> /\ Len(steps) > contract.recovery_limit
       \/ /\ answered /\ steps # <<>>
          /\ live => Len(steps) <= contract.recovery_limit
          /\ \/ /\ ExpectedRecovery(run.next) # <<>>
                /\ ActionsOf(steps) # ActionsOf(ExpectedRecovery(run.next))
                /\ HaltedDoes(steps, live, "policy_violation", "recovery_sequence_violation")
             \/ /\ \/ ExpectedRecovery(run.next) = <<>>
                   \/ ActionsOf(steps) = ActionsOf(ExpectedRecovery(run.next))
                /\ RecoveringDoes(steps, live)

TakeBranchDoes == \E b \in Matching : ReplanDoes(b.steps, FALSE, TRUE)

LEMMA TakeBranchShape == AgentInv /\ TakeBranch => TakeBranchDoes
<1> SUFFICES ASSUME AgentInv, TakeBranch PROVE TakeBranchDoes
  OBVIOUS
<1>1. PICK b \in Matching : run' = Recovering(b.steps, FALSE)
  BY DEF TakeBranch
<1>2. run \in Run /\ run.pc = "failed" /\ Failure \in ToolErrors
  BY FailureType DEF AgentInv, AgentTypeOK, TakeBranch
<1>3. b.steps \in Seq(Step) /\ b.steps # <<>>
  BY PlanTypes DEF AgentInv, AgentTypeOK, Matching
<1>4. ReplanDoes(b.steps, FALSE, TRUE)
  BY <1>1, <1>2, <1>3, RecoveringShape DEF TakeBranch, ReplanDoes
<1> QED BY <1>4 DEF TakeBranchDoes

CallLiveDoes ==
    /\ LiveCallable
    /\ \E steps \in Answers : ReplanDoes(steps, TRUE, TRUE)

LEMMA CallLiveShape == AgentInv /\ CallLive => CallLiveDoes
<1> SUFFICES ASSUME AgentInv, CallLive PROVE CallLiveDoes
  OBVIOUS
<1>1. PICK steps \in Answers :
        \/ /\ steps = <<>>
           /\ run' = HaltedReplan(<<>>, TRUE, "no_recovery", "live_replan_no_recovery")
        \/ /\ steps # <<>> /\ Len(steps) > contract.recovery_limit
           /\ run' = HaltedReplan(steps, TRUE, "limit_exceeded", "recovery_step_limit_exceeded")
        \/ /\ steps # <<>> /\ Len(steps) <= contract.recovery_limit
           /\ run' = Recovering(steps, TRUE)
  BY DEF CallLive
<1>2. run \in Run /\ run.pc = "failed" /\ Failure \in ToolErrors /\ LiveCallable /\ BudgetLeft
  BY FailureType DEF AgentInv, AgentTypeOK, CallLive, LiveCallable
<1>3. steps \in Seq(Step)
  <2>1. LiveAnswers \cup {<<>>} \subseteq Seq(Step)
    BY AgentAssumption, NoSteps
  <2> QED BY <2>1, RecordedType DEF Answers
<1>5. CASE /\ steps = <<>>
           /\ run' = HaltedReplan(<<>>, TRUE, "no_recovery", "live_replan_no_recovery")
  <2>1. HaltedDoes(<<>>, TRUE, "no_recovery", "live_replan_no_recovery")
    BY <1>2, <1>5, HaltedShape, NoSteps DEF ReplanStatus, Halts
  <2> QED BY <2>1, <1>2, <1>3, <1>5 DEF CallLiveDoes, ReplanDoes
<1>6. CASE /\ steps # <<>> /\ Len(steps) > contract.recovery_limit
           /\ run' = HaltedReplan(steps, TRUE, "limit_exceeded", "recovery_step_limit_exceeded")
  <2>1. HaltedDoes(steps, TRUE, "limit_exceeded", "recovery_step_limit_exceeded")
    BY <1>2, <1>3, <1>6, HaltedShape DEF ReplanStatus, Halts
  <2> QED BY <2>1, <1>2, <1>3, <1>6 DEF CallLiveDoes, ReplanDoes
<1>7. CASE /\ steps # <<>> /\ Len(steps) <= contract.recovery_limit
           /\ run' = Recovering(steps, TRUE)
  BY <1>2, <1>3, <1>7, RecoveringShape DEF CallLiveDoes, ReplanDoes
<1> QED BY <1>1, <1>5, <1>6, <1>7

LiveFailsDoes ==
    /\ LiveCallable /\ ~(run.mode = "replay" /\ \E i \in DOMAIN trace.replans : trace.replans[i].live)
    /\ ReplanDoes(<<>>, TRUE, FALSE)

LEMMA LiveFailsShape == AgentInv /\ LiveFails => LiveFailsDoes
<1> SUFFICES ASSUME AgentInv, LiveFails PROVE LiveFailsDoes
  OBVIOUS
<1>1. run \in Run /\ run.pc = "failed" /\ Failure \in ToolErrors /\ LiveCallable /\ BudgetLeft
  BY FailureType DEF AgentInv, AgentTypeOK, LiveFails, LiveCallable
<1>2. HaltedDoes(<<>>, TRUE, "callback_error", "live_replan_callback_error")
  BY <1>1, HaltedShape, NoSteps DEF LiveFails, ReplanStatus, Halts
<1> QED BY <1>1, <1>2, NoSteps DEF LiveFails, LiveFailsDoes, ReplanDoes

\* What a replan event says of the failure and of the answer to it.
SameReplan(d, r) ==
    /\ d.trigger = r.trigger /\ d.error = r.error /\ d.live = r.live
    /\ d.match = r.match /\ d.planned = r.planned

\* A step of the recovery, field by field.
RecoveryStepDoes ==
    LET r == run.replans[1]
        i == Len(r.steps) + 1
        at == Len(run.steps) + 1
        e == Perform(run.branch[i], ExpectedAt(ExpectedRecovery(run.next), i), run.next)
    IN
    /\ run.pc = "recovery" /\ Len(run.replans) = 1 /\ r.trigger = run.next /\ r.status = "running"
    /\ i \in DOMAIN run.branch /\ at = run.next + i
    /\ run' \in Run /\ SameRequest
    /\ run'.branch = run.branch /\ Len(run'.replans) = 1
    /\ SameReplan(run'.replans[1], r)
    /\ run'.replans[1].steps = Append(r.steps, at)
    /\ \/ /\ ~Successful(e)
          /\ run'.pc = "done" /\ run'.halt = "recovery_failed" /\ run'.next = run.next
          /\ run'.steps = Append(run.steps, e)
          /\ run'.replans[1].status = "failed"
       \/ /\ Successful(e) /\ i < Len(run.branch)
          /\ run'.pc = "recovery" /\ run'.halt = run.halt /\ run'.next = run.next
          /\ run'.steps = Append(run.steps, e)
          /\ run'.replans[1].status = "running"
       \/ /\ Successful(e) /\ i = Len(run.branch)
          /\ run'.pc = "plan" /\ run'.halt = run.halt /\ run'.next = run.next + 1
          /\ run'.steps = Repaired(Append(run.steps, e), run.next)
          /\ run'.replans[1].status = "success"

LEMMA NotedReplan ==
  ASSUME NEW r \in Replan, NEW i \in Nat \ {0}, NEW status \in ReplanStatus
  PROVE  /\ Noted(r, i) \in Replan /\ Ended(r, i, status) \in Replan
         /\ SameReplan(Noted(r, i), r) /\ SameReplan(Ended(r, i, status), r)
         /\ Noted(r, i).steps = Append(r.steps, i) /\ Ended(r, i, status).steps = Append(r.steps, i)
         /\ Noted(r, i).status = r.status /\ Ended(r, i, status).status = status
<1>1. Append(r.steps, i) \in Seq(Nat \ {0})
  BY DEF Replan
<1>2. Noted(r, i) \in Replan
  BY <1>1 DEF Noted, Replan
<1>3. /\ SameReplan(Noted(r, i), r)
      /\ Noted(r, i).steps = Append(r.steps, i) /\ Noted(r, i).status = r.status
  BY DEF Noted, Replan, SameReplan
<1> DEFINE n == Noted(r, i)
<1> HIDE DEF n
<1>4. [n EXCEPT !.status = status] \in Replan
  BY <1>2 DEF n, Replan, ReplanStatus
<1>5. /\ SameReplan([n EXCEPT !.status = status], n)
      /\ [n EXCEPT !.status = status].steps = n.steps
      /\ [n EXCEPT !.status = status].status = status
  BY <1>2 DEF n, Replan, SameReplan
<1> QED BY <1>2, <1>3, <1>4, <1>5 DEF n, Ended, SameReplan

\* What Repaired leaves alone, and what not.
LEMMA RepairedSteps ==
  ASSUME NEW steps \in Seq(Executed), NEW i \in DOMAIN steps
  PROVE  /\ Repaired(steps, i) \in Seq(Executed)
         /\ Len(Repaired(steps, i)) = Len(steps)
         /\ \A k \in DOMAIN steps :
               /\ Repaired(steps, i)[k].step = steps[k].step
               /\ Repaired(steps, i)[k].status = steps[k].status
               /\ Repaired(steps, i)[k].parent = steps[k].parent
               /\ Repaired(steps, i)[k].recovered <=> (k = i \/ steps[k].recovered)
<1>1. \A k \in DOMAIN steps : steps[k] \in Executed
  OBVIOUS
<1>2. [steps[i] EXCEPT !.recovered = TRUE] \in Executed
  BY <1>1 DEF Executed
<1> DEFINE e == [steps[i] EXCEPT !.recovered = TRUE]
<1>3. /\ e.step = steps[i].step /\ e.status = steps[i].status
      /\ e.parent = steps[i].parent /\ e.recovered = TRUE
  BY <1>1 DEF Executed
<1>4. Repaired(steps, i) = [steps EXCEPT ![i] = e]
  BY DEF Repaired
<1> HIDE DEF e
<1>5. \A k \in DOMAIN steps : steps[k].recovered \in BOOLEAN
  BY <1>1 DEF Executed
<1>6. e \in Executed
  BY <1>2 DEF e
<1> DEFINE fixed == [steps EXCEPT ![i] = e]
<1>7. fixed \in Seq(Executed) /\ Len(fixed) = Len(steps)
  BY <1>6
<1>8. \A k \in DOMAIN steps : fixed[k] = IF k = i THEN e ELSE steps[k]
  OBVIOUS
<1> HIDE DEF fixed
<1>9. Repaired(steps, i) = fixed
  BY <1>4 DEF fixed
<1>10. \A k \in DOMAIN steps : fixed[k].recovered <=> (k = i \/ steps[k].recovered)
  <2> SUFFICES ASSUME NEW k \in DOMAIN steps PROVE fixed[k].recovered <=> (k = i \/ steps[k].recovered)
    OBVIOUS
  <2>1. CASE k = i
    BY <2>1, <1>3, <1>8
  <2>2. CASE k # i
    BY <2>2, <1>5, <1>8
  <2> QED BY <2>1, <2>2
<1> QED BY <1>3, <1>7, <1>8, <1>9, <1>10

LEMMA OneReplan ==
  ASSUME NEW s \in Seq(Replan), s # <<>>, Len(s) <= 1
  PROVE  Len(s) = 1 /\ DOMAIN s = {1} /\ s[1] \in Replan
<1>1. Len(s) \in Nat \ {0}
  OBVIOUS
<1>2. \A n \in Nat \ {0} : n <= 1 => n = 1
  OBVIOUS
<1>3. Len(s) = 1
  BY <1>1, <1>2
<1>4. 1..1 = {1}
  OBVIOUS
<1>5. DOMAIN s = 1..Len(s)
  OBVIOUS
<1> QED BY <1>3, <1>4, <1>5

LEMMA RecoveryStepShape == AgentInv /\ RecoveryStep => RecoveryStepDoes
<1> SUFFICES ASSUME AgentInv, RecoveryStep PROVE RecoveryStepDoes
  OBVIOUS
<1> DEFINE r == run.replans[1]
           i == Len(r.steps) + 1
           at == Len(run.steps) + 1
           step == run.branch[i]
           expected == ExpectedAt(ExpectedRecovery(run.next), i)
           e == Perform(step, expected, run.next)
           steps == Append(run.steps, e)
<1>1. run \in Run /\ run.pc = "recovery" /\ Len(run.replans) = 1 /\ run.replans # <<>>
  <2>1. run \in Run /\ run.pc = "recovery" /\ run.replans # <<>> /\ Len(run.replans) <= 1
    BY DEF AgentInv, AgentTypeOK, Progress, Layout, RecoveryStep
  <2>2. run.replans \in Seq(Replan)
    BY <2>1 DEF Run
  <2>3. Len(run.replans) = 1
    BY <2>1, <2>2, OneReplan
  <2> QED BY <2>1, <2>3
<1>2. r \in Replan /\ r.steps \in Seq(Nat \ {0}) /\ Len(r.steps) \in Nat
  <2>1. r \in Replan
    BY <1>1 DEF Run
  <2> QED BY <2>1 DEF Replan
<1>3. /\ r.trigger = run.next /\ r.status = "running" /\ Extra(run) = Len(r.steps)
      /\ Len(run.steps) = run.next + Len(r.steps) /\ Len(r.steps) < Len(run.branch)
  BY <1>1 DEF AgentInv, Progress, Extra
<1>4. /\ run.next \in Nat \ {0} /\ run.steps \in Seq(Executed) /\ run.branch \in Seq(Step)
      /\ Len(run.steps) \in Nat /\ Len(run.branch) \in Nat
  BY <1>1 DEF Run
<1> HIDE DEF r
<1>5. /\ i \in DOMAIN run.branch /\ step \in Step /\ at \in Nat \ {0}
      /\ at = run.next + i /\ at - i = run.next
  <2>1. i \in 1..Len(run.branch) /\ i \in Nat
    BY <1>2, <1>3, <1>4
  <2>2. at \in Nat \ {0}
    BY <1>4
  <2>3. at = run.next + i
    BY <1>2, <1>3, <1>4
  <2> HIDE DEF i, at
  <2>4. at - i = run.next
    BY <2>1, <2>3, <1>4
  <2>5. i \in DOMAIN run.branch /\ step \in Step
    BY <2>1, <1>4
  <2> QED BY <2>1, <2>2, <2>3, <2>4, <2>5
<1>6. /\ \/ /\ ~Successful(e)
            /\ run' = [run EXCEPT !.pc = "done", !.halt = "recovery_failed", !.steps = steps,
                                  !.replans[1] = Ended(r, at, "failed")]
         \/ /\ Successful(e) /\ i < Len(run.branch)
            /\ run' = [run EXCEPT !.steps = steps, !.replans[1] = Noted(r, at)]
         \/ /\ Successful(e) /\ ~(i < Len(run.branch))
            /\ run' = [run EXCEPT !.pc = "plan", !.next = @ + 1,
                                  !.steps = Repaired(steps, at - i),
                                  !.replans[1] = Ended(r, at, "success")]
  BY <1>1 DEF RecoveryStep, r
<1>7. e \in Executed
  BY <1>1, <1>4, <1>5, PerformedStep
<1> HIDE DEF step, expected, e, i, at
<1>8. steps \in Seq(Executed) /\ run.next \in DOMAIN steps
  BY <1>3, <1>4, <1>7, <1>2
<1> HIDE DEF steps
<1>9. Repaired(steps, at - i) \in Seq(Executed) /\ at - i = run.next
  BY <1>5, <1>8, RepairedSteps
<1>10. /\ Noted(r, at) \in Replan /\ Ended(r, at, "failed") \in Replan
       /\ Ended(r, at, "success") \in Replan
  BY <1>2, <1>5, NotedReplan DEF ReplanStatus
<1>11. \A x \in Replan : /\ [run.replans EXCEPT ![1] = x] \in Seq(Replan)
                         /\ Len([run.replans EXCEPT ![1] = x]) = 1
                         /\ [run.replans EXCEPT ![1] = x][1] = x
  BY <1>1 DEF Run
<1>12. run.next + 1 \in Nat \ {0}
  BY <1>4
<1>13. CASE /\ ~Successful(e)
            /\ run' = [run EXCEPT !.pc = "done", !.halt = "recovery_failed", !.steps = steps,
                                  !.replans[1] = Ended(r, at, "failed")]
  <2> DEFINE new == Ended(r, at, "failed")
             replans == [run.replans EXCEPT ![1] = new]
  <2>1. run' = [run EXCEPT !.pc = "done", !.halt = "recovery_failed", !.steps = steps,
                           !.replans = replans]
    BY <1>13
  <2>2. replans \in Seq(Replan) /\ Len(replans) = 1 /\ replans[1] = new
    BY <1>10, <1>11
  <2> HIDE DEF replans
  <2>3. run' \in Run
    BY <1>1, <1>8, <2>1, <2>2 DEF Run, Halts
  <2>4. SameRequest /\ run'.pc = "done" /\ run'.halt = "recovery_failed" /\ run'.next = run.next
        /\ run'.steps = steps /\ run'.branch = run.branch /\ run'.replans = replans
    BY <1>1, <2>1 DEF Run, SameRequest
  <2>5. /\ SameReplan(new, r)
        /\ new.steps = Append(r.steps, at) /\ new.status = "failed"
    <3>1. "failed" \in ReplanStatus
      BY DEF ReplanStatus
    <3> QED BY <3>1, <1>2, <1>5, NotedReplan
  <2> QED BY <1>13, <1>1, <1>3, <1>5, <2>2, <2>3, <2>4, <2>5
          DEF RecoveryStepDoes, r, step, expected, e, i, at, steps
<1>14. CASE /\ Successful(e) /\ i < Len(run.branch)
            /\ run' = [run EXCEPT !.steps = steps, !.replans[1] = Noted(r, at)]
  <2> DEFINE new == Noted(r, at)
             replans == [run.replans EXCEPT ![1] = new]
  <2>1. run' = [run EXCEPT !.steps = steps, !.replans = replans]
    BY <1>14
  <2>2. replans \in Seq(Replan) /\ Len(replans) = 1 /\ replans[1] = new
    BY <1>10, <1>11
  <2> HIDE DEF replans
  <2>3. run' \in Run
    BY <1>1, <1>8, <2>1, <2>2 DEF Run
  <2>4. SameRequest /\ run'.pc = "recovery" /\ run'.halt = run.halt /\ run'.next = run.next
        /\ run'.steps = steps /\ run'.branch = run.branch /\ run'.replans = replans
    BY <1>1, <2>1 DEF Run, SameRequest
  <2>5. /\ SameReplan(new, r)
        /\ new.steps = Append(r.steps, at) /\ new.status = "running"
    <3>1. "running" \in ReplanStatus
      BY DEF ReplanStatus
    <3> QED BY <3>1, <1>2, <1>3, <1>5, NotedReplan
  <2> QED BY <1>14, <1>1, <1>3, <1>5, <2>2, <2>3, <2>4, <2>5
          DEF RecoveryStepDoes, r, step, expected, e, i, at, steps
<1>15. CASE /\ Successful(e) /\ ~(i < Len(run.branch))
            /\ run' = [run EXCEPT !.pc = "plan", !.next = @ + 1,
                                  !.steps = Repaired(steps, at - i),
                                  !.replans[1] = Ended(r, at, "success")]
  <2> DEFINE new == Ended(r, at, "success")
             replans == [run.replans EXCEPT ![1] = new]
             fixed == Repaired(steps, run.next)
  <2>1. run' = [run EXCEPT !.pc = "plan", !.next = @ + 1, !.steps = fixed, !.replans = replans]
    BY <1>15, <1>9
  <2>2. replans \in Seq(Replan) /\ Len(replans) = 1 /\ replans[1] = new /\ fixed \in Seq(Executed)
    BY <1>9, <1>10, <1>11
  <2> HIDE DEF replans, fixed
  <2>3. run' \in Run
    BY <1>1, <1>12, <2>1, <2>2 DEF Run
  <2>4. SameRequest /\ run'.pc = "plan" /\ run'.halt = run.halt /\ run'.next = run.next + 1
        /\ run'.steps = fixed /\ run'.branch = run.branch /\ run'.replans = replans
    BY <1>1, <2>1 DEF Run, SameRequest
  <2>5. /\ SameReplan(new, r)
        /\ new.steps = Append(r.steps, at) /\ new.status = "success"
    <3>1. "success" \in ReplanStatus
      BY DEF ReplanStatus
    <3> QED BY <3>1, <1>2, <1>5, NotedReplan
  <2>6. i = Len(run.branch)
    BY <1>15, <1>3, <1>4, <1>2 DEF i
  <2> QED BY <1>15, <1>1, <1>3, <1>5, <2>2, <2>3, <2>4, <2>5, <2>6
          DEF RecoveryStepDoes, r, step, expected, e, i, at, steps, fixed
<1> QED BY <1>6, <1>13, <1>14, <1>15

\* An execution begins.
StartDoes(mode, decisions) ==
    /\ run = NoRun /\ executions < MaxExecutions /\ executions' = executions + 1
    /\ run' \in Run /\ run'.mode = mode /\ run'.decisions = decisions
    /\ run'.next = 1 /\ run'.branch = <<>> /\ run'.steps = <<>> /\ run'.replans = <<>>
    /\ run'.pc = IF Refused THEN "done" ELSE "plan"
    /\ run'.halt = IF Refused THEN "limit_exceeded" ELSE "none"

LEMMA StartShape ==
  ASSUME NEW mode \in {"execute", "resume", "replay"}, NEW decisions \in [Checkpoints -> Decisions],
         Execute(mode, decisions)
  PROVE  StartDoes(mode, decisions)
<1>1. run' = Started(mode, decisions) /\ run = NoRun /\ executions < MaxExecutions
      /\ executions' = executions + 1
  BY DEF Execute
<1>2. Undecided \in [Checkpoints -> Decisions]
  BY DEF Undecided, Decisions
<1>3. <<>> \in Seq(Step) /\ <<>> \in Seq(Executed) /\ <<>> \in Seq(Replan)
  OBVIOUS
<1>4. NoRun \in Run
  BY <1>2, <1>3 DEF NoRun, Run, Halts
<1>5. run' = [NoRun EXCEPT !.pc = IF Refused THEN "done" ELSE "plan",
                           !.mode = mode, !.decisions = decisions,
                           !.halt = IF Refused THEN "limit_exceeded" ELSE "none"]
  BY <1>1 DEF Started
<1>6. (IF Refused THEN "done" ELSE "plan") \in {"idle", "plan", "failed", "recovery", "done"}
      /\ (IF Refused THEN "limit_exceeded" ELSE "none") \in Halts
  BY DEF Halts
<1>7. run' \in Run
  BY <1>4, <1>5, <1>6 DEF Run
<1>8. run'.mode = mode /\ run'.decisions = decisions
      /\ run'.pc = (IF Refused THEN "done" ELSE "plan")
      /\ run'.halt = (IF Refused THEN "limit_exceeded" ELSE "none")
      /\ run'.next = NoRun.next /\ run'.branch = NoRun.branch
      /\ run'.steps = NoRun.steps /\ run'.replans = NoRun.replans
  BY <1>4, <1>5 DEF Run
<1>9. NoRun.next = 1 /\ NoRun.branch = <<>> /\ NoRun.steps = <<>> /\ NoRun.replans = <<>>
  BY DEF NoRun
<1> QED BY <1>1, <1>7, <1>8, <1>9 DEF StartDoes

\* The trace that an execution ends with.
Outcome == [steps |-> run.steps, replans |-> run.replans, halt |-> run.halt,
            status |-> Verdict(run)]

LEMMA OutcomeType == run \in Run => Outcome \in Trace
<1> SUFFICES ASSUME run \in Run PROVE Outcome \in Trace
  OBVIOUS
<1>1. Verdict(run) \in {"absent", "refused", "pending_approval", "approval_denied", "success",
                        "partial_failure", "failed"}
  <2>1. CASE run.halt = "approval_pending"
    BY <2>1 DEF Verdict
  <2>2. CASE run.halt = "approval_denied"
    BY <2>2 DEF Verdict
  <2>3. CASE run.halt = "limit_exceeded"
    BY <2>3 DEF Verdict
  <2>4. CASE run.halt \notin {"approval_pending", "approval_denied", "limit_exceeded"}
    BY <2>4 DEF Verdict
  <2> QED BY <2>1, <2>2, <2>3, <2>4
<1> HIDE DEF Outcome
<1>2. run.steps \in Seq(Executed) /\ run.replans \in Seq(Replan) /\ run.halt \in Halts
  BY DEF Run
<1> QED BY <1>1, <1>2 DEF Outcome, Trace

LEMMA InitialTypes == NoRun \in Run /\ NoTrace \in Trace /\ Undecided \in [Checkpoints -> Decisions]
<1>1. Undecided \in [Checkpoints -> Decisions]
  BY DEF Undecided, Decisions
<1>2. <<>> \in Seq(Step) /\ <<>> \in Seq(Executed) /\ <<>> \in Seq(Replan)
  OBVIOUS
<1>3. NoRun \in Run
  BY <1>1, <1>2 DEF NoRun, Run, Halts
<1>4. NoTrace \in Trace
  BY <1>2 DEF NoTrace, Trace, Halts
<1> QED BY <1>1, <1>3, <1>4

LEMMA DecisionTypes ==
  ASSUME NEW t
  PROVE  /\ DecisionsIn(t) \in [Checkpoints -> Decisions]
         /\ \A c \in Checkpoints : \A d \in Decisions :
               [DecisionsIn(t) EXCEPT ![c] = d] \in [Checkpoints -> Decisions]
<1>1. DecisionsIn(t) \in [Checkpoints -> Decisions]
  BY DEF DecisionsIn, Decisions
<1> HIDE DEF DecisionsIn
<1> QED BY <1>1

LEMMA Appended ==
  ASSUME NEW S, NEW s \in Seq(S), NEW e \in S
  PROVE  /\ Append(s, e) \in Seq(S) /\ Len(s) \in Nat /\ Len(Append(s, e)) = Len(s) + 1
         /\ DOMAIN s = 1..Len(s) /\ DOMAIN Append(s, e) = 1..(Len(s) + 1)
         /\ DOMAIN Append(s, e) = DOMAIN s \cup {Len(s) + 1}
         /\ \A i \in DOMAIN s : Append(s, e)[i] = s[i]
         /\ Append(s, e)[Len(s) + 1] = e
OBVIOUS

LEMMA LayoutAppended ==
  ASSUME NEW x, NEW y, NEW e \in Executed, x.steps \in Seq(Executed), x.replans \in Seq(Replan),
         Layout(x), y.steps = Append(x.steps, e), y.replans = x.replans, e.parent = 0
  PROVE  Layout(y)
<1>1. /\ Len(x.steps) \in Nat /\ Len(y.steps) = Len(x.steps) + 1
      /\ DOMAIN x.steps = 1..Len(x.steps)
      /\ DOMAIN y.steps = DOMAIN x.steps \cup {Len(x.steps) + 1}
      /\ \A i \in DOMAIN x.steps : y.steps[i] = x.steps[i]
      /\ y.steps[Len(x.steps) + 1] = e
  BY Appended
<1>2. \A i : InRecovery(y, i) = InRecovery(x, i)
  BY DEF InRecovery
<1>3. CASE x.replans = <<>>
  <2>1. \A i : ~InRecovery(x, i)
    BY <1>3 DEF InRecovery
  <2> QED BY <1>1, <1>2, <1>3, <2>1 DEF Layout
<1>4. CASE x.replans # <<>>
  <2> DEFINE r == x.replans[1]
  <2>1. Len(x.replans) <= 1
    BY DEF Layout
  <2>2. r \in Replan
    BY <1>4, <2>1, OneReplan
  <2>3. r.trigger \in Nat /\ Len(r.steps) \in Nat
    BY <2>2 DEF Replan
  <2>4. /\ r.trigger \in DOMAIN x.steps
        /\ r.trigger + Len(r.steps) <= Len(x.steps)
        /\ \A k \in DOMAIN r.steps : r.steps[k] = r.trigger + k
    BY <1>4 DEF Layout
  <2>5. y.replans # <<>> /\ y.replans[1] = r
    BY <1>4
  <2> HIDE DEF r
  <2>6. ~InRecovery(x, Len(x.steps) + 1)
    BY <1>1, <2>3, <2>4 DEF InRecovery, r
  <2>7. \A i \in DOMAIN x.steps : x.steps[i].parent = IF InRecovery(x, i) THEN r.trigger ELSE 0
    BY DEF Layout, r
  <2>8. \A i \in DOMAIN y.steps : y.steps[i].parent = IF InRecovery(y, i) THEN r.trigger ELSE 0
    BY <1>1, <1>2, <2>6, <2>7
  <2>9. r.trigger \in DOMAIN y.steps /\ r.trigger + Len(r.steps) <= Len(y.steps)
    BY <1>1, <2>3, <2>4
  <2> QED BY <2>1, <2>4, <2>5, <2>8, <2>9 DEF Layout
<1> QED BY <1>3, <1>4

LEMMA PlanStepKeeps == AgentInv /\ PlanStep => AgentInv'
<1> SUFFICES ASSUME AgentInv, PlanStep PROVE AgentInv'
  OBVIOUS
<1>1. PlanStepDoes
  BY PlanStepShape DEF AgentInv
<1> DEFINE step == plan.steps[run.next]
           e == Perform(step, ExpectedAt(contract.expected, run.next), 0)
<1>2. run \in Run /\ run.pc = "plan" /\ run.next \in DOMAIN plan.steps /\ step \in Step
  BY <1>1, PlanTypes DEF AgentInv, AgentTypeOK, PlanStepDoes
<1>3. /\ e \in Executed /\ e.parent = 0 /\ e.step = step
      /\ e.status = "failed" => step.error \in ToolErrors
  <2>1. e \in Executed
    BY <1>2, PerformedStep
  <2>2. e.parent = 0 /\ e.step = step
    BY PerformedFields
  <2>3. e.status = "failed" => step.error \in ToolErrors
    BY <1>2, PerformedStep
  <2> HIDE DEF e, step
  <2> QED BY <2>1, <2>2, <2>3
<1>4. UNCHANGED <<contract, plan, inline, trace, before, replayed, approved, executions>>
  BY DEF PlanStep
<1>5. /\ run' \in Run /\ run'.steps = Append(run.steps, e) /\ run'.replans = run.replans
      /\ \/ /\ e.status \in {"pending", "denied", "policy_violation"} /\ run'.pc = "done"
         \/ /\ e.status = "failed" /\ run'.pc = "failed" /\ run'.halt = run.halt
            /\ run'.next = run.next
         \/ /\ e.status \in {"success", "approved"} /\ run'.pc = "plan" /\ run'.halt = run.halt
            /\ run'.next = run.next + 1
  BY <1>1 DEF PlanStepDoes
<1> HIDE DEF e, step
<1>6. AgentTypeOK'
  BY <1>4, <1>5 DEF AgentInv, AgentTypeOK
<1>7. run.steps \in Seq(Executed) /\ run.replans \in Seq(Replan) /\ Layout(run)
  BY <1>2 DEF AgentInv, Run
<1>8. Layout(run)'
  BY <1>3, <1>5, <1>7, LayoutAppended
<1>9. /\ Len(run.steps) \in Nat /\ Len(run'.steps) = Len(run.steps) + 1
      /\ DOMAIN run'.steps = DOMAIN run.steps \cup {Len(run.steps) + 1}
      /\ \A i \in DOMAIN run.steps : run'.steps[i] = run.steps[i]
      /\ run'.steps[Len(run.steps) + 1] = e
  BY <1>3, <1>5, <1>7, Appended
<1>10. FailuresHaveErrors(run)'
  BY <1>3, <1>9 DEF AgentInv, FailuresHaveErrors
<1>11. Extra(run)' = Extra(run) /\ Extra(run) \in Nat
  <2>1. Extra(run)' = Extra(run)
    BY <1>5 DEF Extra
  <2>2. Extra(run) \in Nat
    <3>1. CASE run.replans = <<>>
      BY <3>1 DEF Extra
    <3>2. CASE run.replans # <<>>
      <4>1. run.replans[1] \in Replan
        BY <3>2, <1>7, OneReplan DEF Layout
      <4> QED BY <3>2, <4>1 DEF Extra, Replan
    <3> QED BY <3>1, <3>2
  <2> QED BY <2>1, <2>2
<1>12. run.halt = "none" /\ run.next = Len(run.steps) - Extra(run) + 1
  BY <1>2 DEF AgentInv, Progress
<1>13. Progress'
  <2>1. CASE e.status \in {"pending", "denied", "policy_violation"} /\ run'.pc = "done"
    BY <2>1 DEF Progress
  <2>2. CASE e.status = "failed" /\ run'.pc = "failed" /\ run'.halt = run.halt /\ run'.next = run.next
    <3>1. run'.next = Len(run'.steps) - Extra(run)'
      BY <2>2, <1>9, <1>11, <1>12
    <3>2. run'.next \in DOMAIN plan'.steps
      BY <2>2, <1>2, <1>4
    <3>3. run'.steps # <<>> /\ run'.steps[Len(run'.steps)].status = "failed"
      BY <2>2, <1>9
    <3>4. ~InRecovery(run', Len(run'.steps))
      <4>1. CASE run'.replans = <<>>
        BY <4>1 DEF InRecovery
      <4>2. CASE run'.replans # <<>>
        <5>1. run.replans[1] \in Replan /\ run.replans # <<>>
          BY <4>2, <1>5, <1>7, OneReplan DEF Layout
        <5>2. run.replans[1].trigger + Len(run.replans[1].steps) <= Len(run.steps)
              /\ run.replans[1].trigger + Len(run.replans[1].steps) \in Nat
          BY <5>1, <1>7 DEF Layout, Replan
        <5> QED BY <5>2, <1>5, <1>9 DEF InRecovery
      <4> QED BY <4>1, <4>2
    <3> QED BY <2>2, <1>12, <3>1, <3>2, <3>3, <3>4 DEF Progress
  <2>3. CASE e.status \in {"success", "approved"} /\ run'.pc = "plan" /\ run'.halt = run.halt
             /\ run'.next = run.next + 1
    <3>1. run'.next = Len(run'.steps) - Extra(run)' + 1
      BY <2>3, <1>9, <1>11, <1>12
    <3> QED BY <2>3, <1>12, <3>1 DEF Progress
  <2> QED BY <1>5, <2>1, <2>2, <2>3
<1> QED BY <1>4, <1>6, <1>8, <1>10, <1>13 DEF AgentInv

LEMMA RunFacts ==
  ASSUME AgentInv
  PROVE  /\ run \in Run /\ trace \in Trace /\ Layout(run) /\ FailuresHaveErrors(run)
         /\ run.steps \in Seq(Executed) /\ run.replans \in Seq(Replan) /\ run.branch \in Seq(Step)
         /\ Len(run.steps) \in Nat /\ DOMAIN run.steps = 1..Len(run.steps)
         /\ run.next \in Nat \ {0} /\ Extra(run) \in Nat
         /\ run.replans # <<>> => run.replans[1] \in Replan /\ Len(run.replans) = 1
<1>1. run \in Run /\ trace \in Trace /\ Layout(run) /\ FailuresHaveErrors(run)
  BY DEF AgentInv, AgentTypeOK
<1>2. /\ run.steps \in Seq(Executed) /\ run.replans \in Seq(Replan) /\ run.branch \in Seq(Step)
      /\ run.next \in Nat \ {0}
  BY <1>1 DEF Run
<1>3. Len(run.steps) \in Nat /\ DOMAIN run.steps = 1..Len(run.steps)
  BY <1>2
<1>4. run.replans # <<>> => run.replans[1] \in Replan /\ Len(run.replans) = 1
  BY <1>1, <1>2, OneReplan DEF Layout
<1>5. Extra(run) \in Nat
  BY <1>4 DEF Extra, Replan
<1> QED BY <1>1, <1>2, <1>3, <1>4, <1>5

LEMMA EndOfPlanKeeps == AgentInv /\ EndOfPlan => AgentInv'
<1> SUFFICES ASSUME AgentInv, EndOfPlan PROVE AgentInv'
  OBVIOUS
<1>1. EndOfPlanDoes /\ UNCHANGED <<contract, plan, inline, trace, before, replayed, approved, executions>>
  BY EndOfPlanShape DEF AgentInv, EndOfPlan
<1>2. run' \in Run /\ run'.steps = run.steps /\ run'.replans = run.replans /\ run'.pc = "done"
  BY <1>1 DEF EndOfPlanDoes
<1>3. AgentTypeOK'
  BY <1>1, <1>2 DEF AgentInv, AgentTypeOK
<1>4. Layout(run)' /\ FailuresHaveErrors(run)'
  BY <1>2, RunFacts DEF Layout, InRecovery, FailuresHaveErrors
<1>5. Progress'
  BY <1>2 DEF Progress
<1> QED BY <1>1, <1>3, <1>4, <1>5 DEF AgentInv

LEMMA GoOnKeeps == AgentInv /\ GoOn => AgentInv'
<1> SUFFICES ASSUME AgentInv, GoOn PROVE AgentInv'
  OBVIOUS
<1>1. GoOnDoes /\ UNCHANGED <<contract, plan, inline, trace, before, replayed, approved, executions>>
  BY GoOnShape DEF AgentInv, GoOn
<1>2. run' \in Run /\ run'.steps = run.steps /\ run'.replans = run.replans /\ run'.pc = "plan"
      /\ run'.next = run.next + 1 /\ run'.halt = run.halt /\ run.pc = "failed"
  BY <1>1 DEF GoOnDoes
<1>3. AgentTypeOK'
  BY <1>1, <1>2 DEF AgentInv, AgentTypeOK
<1>4. Layout(run)' /\ FailuresHaveErrors(run)'
  BY <1>2, RunFacts DEF Layout, InRecovery, FailuresHaveErrors
<1>5. Progress'
  <2>1. run.halt = "none" /\ run.next = Len(run.steps) - Extra(run)
    BY <1>2 DEF AgentInv, Progress
  <2>2. Extra(run)' = Extra(run)
    BY <1>2 DEF Extra
  <2>3. run'.next = Len(run'.steps) - Extra(run)' + 1
    BY <1>2, <2>1, <2>2, RunFacts
  <2> QED BY <1>2, <2>1, <2>3 DEF Progress
<1> QED BY <1>1, <1>3, <1>4, <1>5 DEF AgentInv

\* While the one recovery that the budget allows is not begun, there is none.
LEMMA NoReplanYet == AgentInv /\ BudgetLeft => run.replans = <<>> /\ Extra(run) = 0
<1> SUFFICES ASSUME AgentInv, BudgetLeft PROVE run.replans = <<>>
  BY DEF Extra
<1>1. contract.replan_limit \in {0, 1}
  BY ContractTypes DEF AgentInv, AgentTypeOK
<1>2. Len(run.replans) < contract.replan_limit
  BY DEF BudgetLeft
<1>3. ~(1 < 0) /\ ~(1 < 1)
  OBVIOUS
<1> QED BY <1>1, <1>2, <1>3, RunFacts

LEMMA NewLayout ==
  ASSUME NEW x, NEW y, NEW r \in Replan, x.steps \in Seq(Executed), x.replans = <<>>, Layout(x),
         y.steps = x.steps, y.replans = Append(x.replans, r), r.steps = <<>>,
         r.trigger \in DOMAIN x.steps
  PROVE  Layout(y) /\ y.replans # <<>> /\ Len(y.replans) = 1 /\ y.replans[1] = r /\ Extra(y) = 0
<1>1. y.replans = <<r>>
  BY DEF Layout
<1>2. y.replans # <<>> /\ Len(y.replans) = 1 /\ y.replans[1] = r
  BY <1>1
<1>3. r.trigger \in Nat /\ Len(r.steps) = 0 /\ r.trigger + 0 = r.trigger
  BY DEF Replan
<1>4. \A i \in DOMAIN x.steps : ~InRecovery(x, i) /\ ~InRecovery(y, i)
  BY <1>2, <1>3 DEF InRecovery
<1>5. \A i \in DOMAIN y.steps : y.steps[i].parent = IF InRecovery(y, i) THEN r.trigger ELSE 0
  BY <1>4 DEF Layout
<1>6. r.trigger + Len(r.steps) <= Len(y.steps)
  BY <1>3
<1> QED BY <1>2, <1>3, <1>5, <1>6 DEF Layout, Extra

LEMMA ReplanKeeps ==
  ASSUME AgentInv, NEW steps, NEW live \in BOOLEAN, NEW answered, ReplanDoes(steps, live, answered),
         UNCHANGED <<contract, plan, inline, trace, before, replayed, approved, executions>>
  PROVE  AgentInv'
<1>1. /\ run.pc = "failed" /\ BudgetLeft /\ steps \in Seq(Step)
      /\ run' \in Run /\ run'.next = run.next /\ run'.steps = run.steps
      /\ \E status \in ReplanStatus, match \in BOOLEAN :
            /\ run'.replans = Append(run.replans, NewReplan(steps, live, status, match))
            /\ \/ run'.pc = "done"
               \/ /\ run'.pc = "recovery" /\ run'.halt = run.halt /\ run'.branch = steps
                  /\ steps # <<>> /\ status = "running"
  <2>1. run.pc = "failed" /\ BudgetLeft /\ steps \in Seq(Step)
    BY DEF ReplanDoes
  <2>2. \/ \E status \in ReplanStatus, halt \in Halts : HaltedDoes(steps, live, status, halt)
        \/ RecoveringDoes(steps, live) /\ steps # <<>>
    <3>1. /\ "callback_error" \in ReplanStatus /\ "live_replan_callback_error" \in Halts
          /\ "no_recovery" \in ReplanStatus /\ "live_replan_no_recovery" \in Halts
          /\ "limit_exceeded" \in ReplanStatus /\ "recovery_step_limit_exceeded" \in Halts
          /\ "policy_violation" \in ReplanStatus /\ "recovery_sequence_violation" \in Halts
      BY DEF ReplanStatus, Halts
    <3>2. \/ HaltedDoes(steps, live, "callback_error", "live_replan_callback_error")
          \/ HaltedDoes(steps, live, "no_recovery", "live_replan_no_recovery")
          \/ HaltedDoes(steps, live, "limit_exceeded", "recovery_step_limit_exceeded")
          \/ HaltedDoes(steps, live, "policy_violation", "recovery_sequence_violation")
          \/ RecoveringDoes(steps, live) /\ steps # <<>>
      BY DEF ReplanDoes
    <3> QED BY <3>1, <3>2
  <2>3. CASE \E status \in ReplanStatus, halt \in Halts : HaltedDoes(steps, live, status, halt)
    <3>1. PICK status \in ReplanStatus, halt \in Halts : HaltedDoes(steps, live, status, halt)
      BY <2>3
    <3> QED BY <2>1, <3>1 DEF HaltedDoes
  <2>4. CASE RecoveringDoes(steps, live) /\ steps # <<>>
    <3>1. "running" \in ReplanStatus
      BY DEF ReplanStatus
    <3> QED BY <2>1, <2>4, <3>1 DEF RecoveringDoes
  <2> QED BY <2>2, <2>3, <2>4
<1>2. PICK status \in ReplanStatus, match \in BOOLEAN :
            /\ run'.replans = Append(run.replans, NewReplan(steps, live, status, match))
            /\ \/ run'.pc = "done"
               \/ /\ run'.pc = "recovery" /\ run'.halt = run.halt /\ run'.branch = steps
                  /\ steps # <<>> /\ status = "running"
  BY <1>1
<1> DEFINE r == NewReplan(steps, live, status, match)
<1>3. run.replans = <<>> /\ Extra(run) = 0
  BY <1>1, NoReplanYet
<1>4. /\ run.halt = "none" /\ run.next = Len(run.steps) - Extra(run) /\ run.steps # <<>>
  BY <1>1 DEF AgentInv, Progress
<1>5. run.next = Len(run.steps) /\ run.next \in DOMAIN run.steps
  BY <1>3, <1>4, RunFacts
<1>6. r \in Replan
  BY <1>1, NewReplanType, FailureType, RunFacts
<1>7. r.steps = <<>> /\ r.trigger = run.next /\ r.status = status
  BY DEF NewReplan
<1> HIDE DEF r
<1>8. /\ Layout(run') /\ run'.replans # <<>> /\ Len(run'.replans) = 1 /\ run'.replans[1] = r
      /\ Extra(run') = 0
  BY <1>1, <1>2, <1>3, <1>5, <1>6, <1>7, RunFacts, NewLayout DEF r
<1>9. AgentTypeOK'
  BY <1>1 DEF AgentInv, AgentTypeOK
<1>10. FailuresHaveErrors(run)'
  BY <1>1 DEF AgentInv, FailuresHaveErrors
<1>11. Progress'
  <2>1. CASE run'.pc = "done"
    BY <2>1 DEF Progress
  <2>2. CASE /\ run'.pc = "recovery" /\ run'.halt = run.halt /\ run'.branch = steps
             /\ steps # <<>> /\ status = "running"
    <3>1. 0 < Len(run'.branch)
      BY <1>1, <2>2
    <3>2. Len(run'.steps) = run'.next + 0
      BY <1>1, <1>5, RunFacts
    <3> QED BY <2>2, <1>1, <1>4, <1>7, <1>8, <3>1, <3>2 DEF Progress
  <2> QED BY <1>2, <2>1, <2>2
<1>12. Layout(trace)'
  BY DEF AgentInv
<1>13. Layout(run)'
  BY <1>8
<1> QED BY <1>9, <1>10, <1>11, <1>12, <1>13 DEF AgentInv

\* The steps t are the steps s and one more, e; recovered is not looked at.
Grows(s, t, e) ==
    /\ Len(s) \in Nat /\ DOMAIN s = 1..Len(s) /\ Len(t) = Len(s) + 1
    /\ DOMAIN t = 1..(Len(s) + 1) /\ DOMAIN t = DOMAIN s \cup {Len(s) + 1}
    /\ \A i \in DOMAIN s : SameStep(t[i], s[i])
    /\ SameStep(t[Len(s) + 1], e)

LEMMA AppendGrows ==
  ASSUME NEW s \in Seq(Executed), NEW e \in Executed
  PROVE  Append(s, e) \in Seq(Executed) /\ Grows(s, Append(s, e), e)
BY Appended DEF Grows, SameStep

LEMMA RepairGrows ==
  ASSUME NEW s \in Seq(Executed), NEW e \in Executed, NEW k \in DOMAIN s
  PROVE  Grows(s, Repaired(Append(s, e), k), e)
<1> DEFINE t == Append(s, e)
<1>1. t \in Seq(Executed) /\ Grows(s, t, e)
  BY AppendGrows
<1> HIDE DEF t
<1>2. k \in DOMAIN t /\ DOMAIN t = 1..Len(t)
  BY <1>1 DEF Grows
<1>3. /\ Repaired(t, k) \in Seq(Executed) /\ Len(Repaired(t, k)) = Len(t)
      /\ \A i \in DOMAIN t : SameStep(Repaired(t, k)[i], t[i])
  BY <1>1, <1>2, RepairedSteps DEF SameStep
<1>4. DOMAIN Repaired(t, k) = 1..Len(t)
  BY <1>3
<1>5. \A i \in DOMAIN s : SameStep(Repaired(t, k)[i], s[i])
  BY <1>1, <1>3 DEF Grows, SameStep
<1>6. SameStep(Repaired(t, k)[Len(s) + 1], e)
  BY <1>1, <1>3 DEF Grows, SameStep
<1> QED BY <1>1, <1>3, <1>4, <1>5, <1>6 DEF Grows, t

LEMMA Shift ==
  ASSUME NEW a \in Nat, NEW b \in Nat, NEW c \in Nat, b + c = a
  PROVE  b + 1 = (a + 1) - (c + 1) + 1
OBVIOUS

LEMMA RecoveryStepKeeps == AgentInv /\ RecoveryStep => AgentInv'
<1> SUFFICES ASSUME AgentInv, RecoveryStep PROVE AgentInv'
  OBVIOUS
<1>1. RecoveryStepDoes /\ UNCHANGED <<contract, plan, inline, trace, before, replayed, approved, executions>>
  BY RecoveryStepShape DEF RecoveryStep
<1> DEFINE r == run.replans[1]
           i == Len(r.steps) + 1
           at == Len(run.steps) + 1
           step == run.branch[i]
           e == Perform(step, ExpectedAt(ExpectedRecovery(run.next), i), run.next)
           q == run'.replans[1]
<1>2. /\ run.pc = "recovery" /\ Len(run.replans) = 1 /\ r.trigger = run.next
      /\ i \in DOMAIN run.branch /\ at = run.next + i
      /\ run' \in Run /\ run'.branch = run.branch /\ Len(run'.replans) = 1
      /\ SameReplan(q, r) /\ q.steps = Append(r.steps, at)
      /\ \/ /\ run'.pc = "done" /\ run'.steps = Append(run.steps, e)
         \/ /\ run'.pc = "recovery" /\ run'.halt = run.halt /\ run'.next = run.next
            /\ i < Len(run.branch) /\ run'.steps = Append(run.steps, e) /\ q.status = "running"
         \/ /\ run'.pc = "plan" /\ run'.halt = run.halt /\ run'.next = run.next + 1
            /\ run'.steps = Repaired(Append(run.steps, e), run.next)
  BY <1>1 DEF RecoveryStepDoes
<1>3. run.replans # <<>> /\ run'.replans # <<>> /\ r \in Replan /\ q \in Replan
  <2>1. \A s \in Seq(Replan) : Len(s) = 1 => s # <<>> /\ s[1] \in Replan
    OBVIOUS
  <2>2. run.replans \in Seq(Replan) /\ run'.replans \in Seq(Replan)
    BY <1>2, RunFacts DEF Run
  <2> QED BY <1>2, <2>1, <2>2
<1>4. step \in Step
  BY <1>2, RunFacts
<1>5. e \in Executed /\ (e.status = "failed" => step.error \in ToolErrors)
  BY <1>4, RunFacts, PerformedStep
<1>6. e.step = step /\ e.parent = run.next
  BY PerformedFields
<1>7. r.steps \in Seq(Nat \ {0}) /\ Len(r.steps) \in Nat /\ r.trigger \in Nat
  BY <1>3 DEF Replan
<1> HIDE DEF e, step, r, q
<1>8. run.next \in DOMAIN run.steps /\ run.next + Len(r.steps) = Len(run.steps)
  <2>1. r.trigger \in DOMAIN run.steps
    BY <1>3, RunFacts DEF Layout, r
  <2>2. \A a, b, c \in Nat : a + 1 = b + (c + 1) => b + c = a
    OBVIOUS
  <2>3. run.next \in Nat /\ Len(run.steps) \in Nat
    BY RunFacts
  <2>4. run.next + Len(r.steps) = Len(run.steps)
    BY <1>2, <1>7, <2>2, <2>3
  <2> QED BY <1>2, <2>1, <2>4
<1>9. Grows(run.steps, run'.steps, e)
  BY <1>2, <1>5, <1>8, RunFacts, AppendGrows, RepairGrows
<1>10. at \in Nat \ {0} /\ q.trigger = run.next
  <2>1. Len(run.steps) \in Nat
    BY RunFacts
  <2> QED BY <2>1, <1>2 DEF SameReplan
<1>11. /\ Len(q.steps) = i /\ DOMAIN r.steps = 1..Len(r.steps)
       /\ DOMAIN q.steps = DOMAIN r.steps \cup {i}
       /\ \A k \in DOMAIN r.steps : q.steps[k] = r.steps[k]
       /\ q.steps[i] = at
  BY <1>2, <1>7, <1>10, Appended
<1>12. AgentTypeOK'
  BY <1>1, <1>2 DEF AgentInv, AgentTypeOK
<1>13. FailuresHaveErrors(run)'
  BY <1>5, <1>6, <1>9, RunFacts DEF FailuresHaveErrors, Grows, SameStep
<1>14. Layout(run)'
  <2>1. \A k \in DOMAIN run.steps : InRecovery(run, k) <=> run.next < k
    <3>1. \A k : InRecovery(run, k) <=> (run.next < k /\ k <= Len(run.steps))
      BY <1>2, <1>3, <1>8 DEF InRecovery, r
    <3>2. \A k \in DOMAIN run.steps : k <= Len(run.steps)
      BY RunFacts
    <3> QED BY <3>1, <3>2
  <2>2. \A k \in DOMAIN run'.steps : InRecovery(run', k) <=> run.next < k
    <3>1. run.next + i = Len(run.steps) + 1
      BY <1>2
    <3>2. \A k : InRecovery(run', k) <=> (run.next < k /\ k <= Len(run.steps) + 1)
      BY <3>1, <1>3, <1>10, <1>11 DEF InRecovery, q
    <3>3. \A k \in DOMAIN run'.steps : k <= Len(run.steps) + 1
      BY <1>9 DEF Grows
    <3> QED BY <3>2, <3>3
  <2>3. \A k \in DOMAIN run.steps : run.steps[k].parent = IF run.next < k THEN run.next ELSE 0
    BY <2>1, <1>2, RunFacts DEF Layout, r
  <2>4. run.next < Len(run.steps) + 1
    BY <1>8, RunFacts
  <2>5. \A k \in DOMAIN run'.steps : run'.steps[k].parent = IF run.next < k THEN run.next ELSE 0
    BY <2>3, <2>4, <1>6, <1>9 DEF Grows, SameStep
  <2>6. \A k \in DOMAIN run'.steps : run'.steps[k].parent = IF InRecovery(run', k) THEN q.trigger ELSE 0
    BY <2>2, <2>5, <1>10
  <2>7. q.trigger \in DOMAIN run'.steps /\ q.trigger + Len(q.steps) <= Len(run'.steps)
    BY <1>7, <1>8, <1>9, <1>10, <1>11, RunFacts DEF Grows
  <2>8. \A k \in DOMAIN r.steps : r.steps[k] = run.next + k
    BY <1>2, <1>3, RunFacts DEF Layout, r
  <2>9. \A k \in DOMAIN q.steps : q.steps[k] = q.trigger + k
    BY <2>8, <1>2, <1>10, <1>11
  <2> QED BY <1>2, <2>6, <2>7, <2>9 DEF Layout, q
<1>15. Progress'
  <2>1. run.halt = "none"
    BY <1>2 DEF AgentInv, Progress
  <2>2. Extra(run)' = i
    BY <1>3, <1>11 DEF Extra, q
  <2>3. CASE run'.pc = "done"
    BY <2>3 DEF Progress
  <2>4. CASE /\ run'.pc = "recovery" /\ run'.halt = run.halt /\ run'.next = run.next
             /\ i < Len(run.branch) /\ q.status = "running"
    <3>1. Len(run'.steps) = run'.next + Extra(run)' /\ Extra(run)' < Len(run'.branch)
      BY <2>2, <2>4, <1>2, <1>7, <1>8, <1>9 DEF Grows
    <3> QED BY <2>1, <2>4, <3>1, <1>3, <1>10 DEF Progress, q
  <2>5. CASE run'.pc = "plan" /\ run'.halt = run.halt /\ run'.next = run.next + 1
    <3>1. run'.next = Len(run'.steps) - Extra(run)' + 1
      <4>1. run.next + Len(r.steps) = Len(run.steps) /\ Len(r.steps) \in Nat
        BY <1>7, <1>8
      <4>2. run.next \in Nat /\ Len(run.steps) \in Nat
        BY RunFacts
      <4>3. Len(run'.steps) = Len(run.steps) + 1
        BY <1>9 DEF Grows
      <4>4. run.next + 1 = (Len(run.steps) + 1) - (Len(r.steps) + 1) + 1
        BY <4>1, <4>2, Shift
      <4>5. run'.next = Len(run'.steps) - i + 1
        BY <4>3, <4>4, <2>5
      <4> QED BY <4>5, <2>2
    <3> QED BY <2>1, <2>5, <3>1 DEF Progress
  <2> QED BY <1>2, <2>3, <2>4, <2>5
<1> QED BY <1>1, <1>12, <1>13, <1>14, <1>15 DEF AgentInv

LEMMA EmptyLayout ==
  ASSUME NEW x, x.steps = <<>>, x.replans = <<>>
  PROVE  Layout(x) /\ FailuresHaveErrors(x) /\ Extra(x) = 0 /\ Len(x.steps) = 0
<1>1. Len(x.steps) = 0 /\ DOMAIN x.steps = {} /\ Len(x.replans) <= 1
  OBVIOUS
<1> QED BY <1>1 DEF Layout, FailuresHaveErrors, Extra

LEMMA StartKeeps ==
  ASSUME AgentInv, NEW mode \in {"execute", "resume", "replay"},
         NEW decisions \in [Checkpoints -> Decisions], Execute(mode, decisions),
         approved' \in SUBSET Checkpoints,
         UNCHANGED <<contract, plan, inline, trace, before, replayed>>
  PROVE  AgentInv'
<1>1. StartDoes(mode, decisions)
  BY StartShape
<1>2. /\ run' \in Run /\ run'.next = 1 /\ run'.steps = <<>> /\ run'.replans = <<>>
      /\ \/ run'.pc = "done"
         \/ run'.pc = "plan" /\ run'.halt = "none"
  BY <1>1 DEF StartDoes
<1>3. executions' \in 0..MaxExecutions
  BY <1>1, AgentAssumption DEF StartDoes, AgentInv, AgentTypeOK
<1>4. AgentTypeOK'
  BY <1>2, <1>3 DEF AgentInv, AgentTypeOK
<1>5. Layout(run') /\ FailuresHaveErrors(run') /\ Extra(run') = 0 /\ Len(run'.steps) = 0
  BY <1>2, EmptyLayout
<1>6. Progress'
  <2>1. CASE run'.pc = "done"
    BY <2>1 DEF Progress
  <2>2. CASE run'.pc = "plan" /\ run'.halt = "none"
    <3>1. run'.next = Len(run'.steps) - Extra(run') + 1
      BY <1>2, <1>5
    <3> QED BY <2>2, <3>1 DEF Progress
  <2> QED BY <1>2, <2>1, <2>2
<1>7. Layout(trace)'
  BY DEF AgentInv
<1> QED BY <1>4, <1>5, <1>6, <1>7 DEF AgentInv

\* An execution ends: its trace becomes the result, or the answer of a replay.
EndDoes ==
    /\ run.pc = "done" /\ run' = NoRun
    /\ IF run.mode = "replay" THEN replayed' = Outcome /\ UNCHANGED <<trace, before>>
       ELSE /\ trace' = Outcome
            /\ before' = IF run.mode = "resume" THEN trace ELSE NoTrace
            /\ replayed' = NoTrace
    /\ UNCHANGED <<contract, plan, inline, approved, executions>>

LEMMA EndShape == EndExecution => EndDoes
BY DEF EndExecution, EndDoes, Outcome

LEMMA EndKeeps == AgentInv /\ EndExecution => AgentInv'
<1> SUFFICES ASSUME AgentInv, EndExecution PROVE AgentInv'
  OBVIOUS
<1>1. EndDoes
  BY EndShape
<1>2. Outcome \in Trace
  BY OutcomeType, RunFacts
<1>3. Outcome.steps = run.steps /\ Outcome.replans = run.replans
  BY DEF Outcome
<1> HIDE DEF Outcome
<1>4. Layout(Outcome)
  BY <1>3, RunFacts DEF Layout, InRecovery
<1>5. run' \in Run /\ NoRun.steps = <<>> /\ NoRun.replans = <<>> /\ NoRun.pc = "idle"
  BY <1>1, InitialTypes DEF EndDoes, NoRun
<1>6. /\ trace' \in Trace /\ before' \in Trace /\ replayed' \in Trace
      /\ Layout(trace')
  BY <1>1, <1>2, <1>4, InitialTypes DEF EndDoes, AgentInv, AgentTypeOK
<1>7. AgentTypeOK'
  BY <1>1, <1>5, <1>6 DEF EndDoes, AgentInv, AgentTypeOK
<1>8. Layout(run') /\ FailuresHaveErrors(run')
  BY <1>1, <1>5, EmptyLayout DEF EndDoes
<1>9. Progress'
  BY <1>1, <1>5 DEF EndDoes, Progress
<1> QED BY <1>6, <1>7, <1>8, <1>9 DEF AgentInv

LEMMA AgentInvInit == AgentInit => AgentInv
<1> SUFFICES ASSUME AgentInit PROVE AgentInv
  OBVIOUS
<1>1. run = NoRun /\ trace = NoTrace /\ before = NoTrace /\ replayed = NoTrace
  BY DEF AgentInit
<1>2. AgentTypeOK
  BY <1>1, InitialTypes, AgentAssumption DEF AgentInit, AgentTypeOK
<1>3. run.steps = <<>> /\ run.replans = <<>> /\ run.pc = "idle"
      /\ trace.steps = <<>> /\ trace.replans = <<>>
  BY <1>1 DEF NoRun, NoTrace
<1>4. Layout(run) /\ FailuresHaveErrors(run) /\ Layout(trace)
  BY <1>3, EmptyLayout
<1>5. Progress
  BY <1>1, <1>3 DEF Progress
<1> QED BY <1>2, <1>4, <1>5 DEF AgentInv

LEMMA AgentInvNext == AgentInv /\ [AgentNext]_agentVars => AgentInv'
<1> SUFFICES ASSUME AgentInv, [AgentNext]_agentVars PROVE AgentInv'
  OBVIOUS
<1>1. CASE FirstExecution
  <2>1. inline \in [Checkpoints -> Decisions]
    BY AgentAssumption DEF AgentInv, AgentTypeOK
  <2> QED BY <1>1, <2>1, StartKeeps DEF FirstExecution, AgentInv, AgentTypeOK
<1>2. CASE \E c \in Checkpoints, decision \in {"approved", "denied"} : ExecuteDecided(c, decision)
  <2>1. PICK c \in Checkpoints, decision \in {"approved", "denied"} : ExecuteDecided(c, decision)
    BY <1>2
  <2>2. PersistedDecisions(c, decision) \in [Checkpoints -> Decisions]
    BY DecisionTypes DEF PersistedDecisions, Decisions
  <2>3. approved' \in SUBSET Checkpoints
    BY <2>1 DEF ExecuteDecided, AgentInv, AgentTypeOK
  <2> QED BY <2>1, <2>2, <2>3, StartKeeps DEF ExecuteDecided
<1>3. CASE ExecuteReplay
  <2>1. inline \in [Checkpoints -> Decisions]
    BY AgentAssumption DEF AgentInv, AgentTypeOK
  <2>2. (IF DecisionsIn(trace) = Undecided THEN inline ELSE DecisionsIn(trace))
           \in [Checkpoints -> Decisions]
    BY <2>1, DecisionTypes
  <2> QED BY <1>3, <2>2, StartKeeps DEF ExecuteReplay, AgentInv, AgentTypeOK
<1>4. CASE PlanStep
  BY <1>4, PlanStepKeeps
<1>5. CASE EndOfPlan
  BY <1>5, EndOfPlanKeeps
<1>6. CASE TakeBranch
  <2>1. PICK b \in Matching : ReplanDoes(b.steps, FALSE, TRUE)
    BY <1>6, TakeBranchShape DEF TakeBranchDoes
  <2> QED BY <1>6, <2>1, ReplanKeeps DEF TakeBranch
<1>7. CASE CallLive
  <2>1. PICK steps \in Answers : ReplanDoes(steps, TRUE, TRUE)
    BY <1>7, CallLiveShape DEF CallLiveDoes
  <2> QED BY <1>7, <2>1, ReplanKeeps DEF CallLive
<1>8. CASE LiveFails
  <2>1. ReplanDoes(<<>>, TRUE, FALSE)
    BY <1>8, LiveFailsShape DEF LiveFailsDoes
  <2> QED BY <1>8, <2>1, ReplanKeeps DEF LiveFails
<1>9. CASE GoOn
  BY <1>9, GoOnKeeps
<1>10. CASE RecoveryStep
  BY <1>10, RecoveryStepKeeps
<1>11. CASE EndExecution
  BY <1>11, EndKeeps
<1>12. CASE UNCHANGED agentVars
  BY <1>12 DEF agentVars, AgentInv, AgentTypeOK, Progress, Layout, InRecovery, Extra, FailuresHaveErrors
<1> QED BY <1>1, <1>2, <1>3, <1>4, <1>5, <1>6, <1>7, <1>8, <1>9, <1>10, <1>11, <1>12 DEF AgentNext

LEMMA AgentInvariant == AgentSpec => []AgentInv
BY AgentInvInit, AgentInvNext, PTL DEF AgentSpec

\* The plan, the execution that goes on, the traces and the decisions keep
\* their types through execute_agent_plan and every resume and replay: an
\* index of a step, a replan event or a recovery is never out of range,
\* whatever the model answers.
THEOREM AgentTypeCorrect == AgentSpec => []AgentTypeOK
<1>1. AgentInv => AgentTypeOK
  BY DEF AgentInv
<1> QED BY <1>1, AgentInvariant, PTL

-----------------------------------------------------------------------------
(* Guarded steps were approved. *)

LEMMA IntervalSize ==
  ASSUME NEW a \in Nat, NEW b \in Nat, a <= b
  PROVE  IsFiniteSet((a + 1)..b) /\ Cardinality((a + 1)..b) = b - a
<1>1. a + 1 \in Int /\ b \in Int
  OBVIOUS
<1>2. IsFiniteSet((a + 1)..b)
      /\ Cardinality((a + 1)..b) = IF a + 1 > b THEN 0 ELSE b - (a + 1) + 1
  BY <1>1, FS_Interval
<1>3. (IF a + 1 > b THEN 0 ELSE b - (a + 1) + 1) = b - a
  OBVIOUS
<1> QED BY <1>2, <1>3

LEMMA TwoIntervalsSize ==
  ASSUME NEW t \in Nat, NEW n \in Nat, NEW i \in Nat, t + n <= i
  PROVE  Cardinality((1..t) \cup ((t + n + 1)..i)) = i - n
<1> DEFINE A == (0 + 1)..t
           B == ((t + n) + 1)..i
<1>1. IsFiniteSet(A) /\ Cardinality(A) = t
  <2>1. 0 \in Nat /\ 0 <= t /\ t - 0 = t
    OBVIOUS
  <2> QED BY <2>1, IntervalSize
<1>2. IsFiniteSet(B) /\ Cardinality(B) = i - (t + n)
  <2>1. t + n \in Nat /\ t + n <= i
    OBVIOUS
  <2> QED BY <2>1, IntervalSize
<1>3. A \cap B = {}
  OBVIOUS
<1>4. A \cup B = (1..t) \cup ((t + n + 1)..i)
  OBVIOUS
<1> HIDE DEF A, B
<1>5. Cardinality(A \cup B) = Cardinality(A) + Cardinality(B) - Cardinality(A \cap B)
  BY <1>1, <1>2, FS_Union
<1>6. Cardinality(A \cap B) = 0
  BY <1>3, FS_EmptySet
<1>7. t + (i - (t + n)) - 0 = i - n
  OBVIOUS
<1> QED BY <1>1, <1>2, <1>4, <1>5, <1>6, <1>7

\* What Place counts, given the layout of the execution x.
PlaceIn(x, i) ==
    IF x.replans = <<>> \/ i <= x.replans[1].trigger THEN i
    ELSE IF InRecovery(x, i) THEN i - x.replans[1].trigger
    ELSE i - Len(x.replans[1].steps)

LEMMA PlaceIs ==
  ASSUME NEW x, x.steps \in Seq(Executed), x.replans \in Seq(Replan), Layout(x),
         NEW i \in DOMAIN x.steps
  PROVE  Place(x.steps, i) = PlaceIn(x, i)
<1> DEFINE same == {k \in 1..i : x.steps[k].parent = x.steps[i].parent}
<1>1. i \in Nat /\ 1 <= i /\ \A k \in 1..i : k \in DOMAIN x.steps
  OBVIOUS
<1>2. \A k \in 1..i : x.steps[k].parent = IF InRecovery(x, k) THEN x.replans[1].trigger ELSE 0
  BY <1>1 DEF Layout
<1>3. i \in 1..i
  BY <1>1
<1>4. ASSUME same = 1..i PROVE Place(x.steps, i) = i
  <2>1. 0 \in Nat /\ 0 <= i /\ i - 0 = i /\ same = (0 + 1)..i
    BY <1>1, <1>4
  <2>2. Cardinality(same) = i
    BY <1>1, <2>1, IntervalSize
  <2> QED BY <2>2 DEF Place
<1>5. CASE x.replans = <<>>
  <2>1. \A k : ~InRecovery(x, k)
    BY <1>5 DEF InRecovery
  <2>2. same = 1..i
    BY <2>1, <1>2, <1>3
  <2> QED BY <2>2, <1>4, <1>5 DEF PlaceIn
<1>6. CASE x.replans # <<>>
  <2> DEFINE r == x.replans[1]
             t == r.trigger
             n == Len(r.steps)
  <2>1. r \in Replan
    BY <1>6, OneReplan DEF Layout
  <2>2. t \in Nat /\ n \in Nat
    BY <2>1 DEF Replan
  <2>3. t \in DOMAIN x.steps
    BY <1>6 DEF Layout
  <2>4. t >= 1
    BY <2>2, <2>3
  <2>5. \A k : InRecovery(x, k) <=> (t < k /\ k <= t + n)
    BY <1>6 DEF InRecovery
  <2>6. PlaceIn(x, i) = IF i <= t THEN i ELSE IF InRecovery(x, i) THEN i - t ELSE i - n
    BY <1>6 DEF PlaceIn
  <2>7. \A k \in 1..i : x.steps[k].parent = IF InRecovery(x, k) THEN t ELSE 0
    BY <1>2
  <2> HIDE DEF r, t, n
  <2>8. CASE i <= t
    <3>1. \A k \in 1..i : ~InRecovery(x, k)
      BY <2>2, <2>5, <2>8, <1>1
    <3>2. same = 1..i
      BY <3>1, <2>7, <1>3
    <3> QED BY <3>2, <1>4, <2>6, <2>8
  <2>9. CASE t < i /\ InRecovery(x, i)
    <3>1. \A k \in 1..i : InRecovery(x, k) <=> t + 1 <= k
      BY <2>2, <2>5, <2>9, <1>1
    <3>2. \A k \in 1..i : x.steps[k].parent = x.steps[i].parent <=> t + 1 <= k
      <4>1. x.steps[i].parent = t
        BY <2>7, <1>3, <2>9
      <4>2. \A k \in 1..i : x.steps[k].parent = IF t + 1 <= k THEN t ELSE 0
        BY <2>7, <3>1
      <4>3. t # 0
        BY <2>4, <2>2
      <4> QED BY <4>1, <4>2, <4>3
    <3>3. same = (t + 1)..i
      <4>1. same = {k \in 1..i : t + 1 <= k}
        BY <3>2
      <4>2. {k \in 1..i : t + 1 <= k} = (t + 1)..i
        BY <2>2, <1>1
      <4> QED BY <4>1, <4>2
    <3>4. Cardinality(same) = i - t
      <4>1. t <= i
        BY <2>2, <2>9, <1>1
      <4>2. Cardinality((t + 1)..i) = i - t
        BY <4>1, <2>2, <1>1, IntervalSize
      <4> QED BY <4>2, <3>3
    <3>5. ~(i <= t)
      BY <2>2, <1>1, <2>9
    <3> QED BY <3>4, <3>5, <2>6, <2>9 DEF Place
  <2>10. CASE t < i /\ ~InRecovery(x, i)
    <3>1. t + n < i
      BY <2>2, <2>5, <2>10, <1>1
    <3>2. \A k \in 1..i : x.steps[k].parent = x.steps[i].parent <=> ~(t < k /\ k <= t + n)
      <4>1. x.steps[i].parent = 0
        BY <2>7, <1>3, <2>10
      <4>2. \A k \in 1..i : x.steps[k].parent = IF t < k /\ k <= t + n THEN t ELSE 0
        BY <2>5, <2>7
      <4>3. t # 0
        BY <2>4, <2>2
      <4> QED BY <4>1, <4>2, <4>3
    <3>3. same = (1..t) \cup ((t + n + 1)..i)
      BY <3>1, <3>2, <2>2, <1>1
    <3>4. Cardinality(same) = i - n
      <4>1. Cardinality((1..t) \cup ((t + n + 1)..i)) = i - n
        <5>1. t + n <= i
          BY <3>1, <2>2, <1>1
        <5> QED BY <5>1, <2>2, <1>1, TwoIntervalsSize
      <4> QED BY <4>1, <3>3
    <3>5. ~(i <= t)
      BY <2>2, <1>1, <2>10
    <3> QED BY <3>4, <3>5, <2>6, <2>10 DEF Place
  <2> QED BY <2>2, <1>1, <2>8, <2>9, <2>10
<1> QED BY <1>5, <1>6

\* What holds of a step in every execution that goes on or is over.
ApprovedBefore(steps, i, c) ==
    \E k \in 1..(i - 1) : steps[k].step.gate = c /\ steps[k].status = "approved"

StepGuarded(i) ==
    /\ run.steps[i].status \in {"pending", "denied", "policy_violation"} =>
          i = Len(run.steps) /\ run.pc = "done"
    /\ /\ run.steps[i].step.action # "approval_checkpoint"
       /\ run.steps[i].status \in {"success", "failed"}
       => \A c \in NeededAt(i) : ApprovedBefore(run.steps, i, c)

\* Decisions come from the request and from operators; a step is approved by a
\* decision.
DecisionsWereMade ==
    /\ \A c \in Checkpoints : run.decisions[c] = "approved" \/ inline[c] = "approved" => c \in approved
    /\ \A i \in DOMAIN run.steps : run.steps[i].status = "approved" => run.steps[i].step.gate \in approved
    /\ \A i \in DOMAIN trace.steps :
          trace.steps[i].status = "approved" => trace.steps[i].step.gate \in approved

GuardInv == DecisionsWereMade /\ \A i \in DOMAIN run.steps : StepGuarded(i)

LEMMA PlaceGrows ==
  ASSUME NEW s, NEW t, NEW e, Grows(s, t, e)
  PROVE  \A i \in DOMAIN s : Place(t, i) = Place(s, i)
<1> SUFFICES ASSUME NEW i \in DOMAIN s PROVE Place(t, i) = Place(s, i)
  OBVIOUS
<1>1. \A k \in 1..i : k \in DOMAIN s
  BY DEF Grows
<1>2. \A k \in 1..i : t[k].parent = s[k].parent
  BY <1>1 DEF Grows, SameStep
<1>3. t[i].parent = s[i].parent
  BY DEF Grows, SameStep
<1>4. {k \in 1..i : t[k].parent = t[i].parent} = {k \in 1..i : s[k].parent = s[i].parent}
  BY <1>2, <1>3
<1> QED BY <1>4 DEF Place

LEMMA PerformedGuard ==
  ASSUME run \in Run, NEW step \in Step, NEW expected, NEW parent
  PROVE  LET e == Perform(step, expected, parent) IN
         /\ step.action # "approval_checkpoint" /\ e.status \in {"success", "failed"}
            => \A c \in {step.gate, expected.gate} \ {NoCheckpoint} :
                  \E k \in DOMAIN run.steps : run.steps[k].step.gate = c /\ run.steps[k].status = "approved"
         /\ e.status = "approved" =>
               step.gate \in Checkpoints /\ run.decisions[step.gate] = "approved"
<1> DEFINE e == Perform(step, expected, parent)
           v == Violates(run.steps, step, expected)
<1>1. e.status = StatusOf(run.steps, run.decisions, step, expected)
  BY PerformedFields
<1>2. ~v /\ step.action = "approval_checkpoint" => step.gate \in Checkpoints
  BY DEF Violates, Step
<1>3. e.status = "approved" =>
         step.gate \in Checkpoints /\ run.decisions[step.gate] = "approved"
  BY <1>1, <1>2 DEF StatusOf
<1>4. ASSUME step.action # "approval_checkpoint", e.status \in {"success", "failed"},
             NEW c \in {step.gate, expected.gate} \ {NoCheckpoint}
      PROVE  \E k \in DOMAIN run.steps : run.steps[k].step.gate = c /\ run.steps[k].status = "approved"
  <2>1. ~v
    BY <1>1, <1>4 DEF StatusOf
  <2>2. expected.gate # NoCheckpoint => step.gate = expected.gate
    BY <2>1 DEF Violates
  <2>3. c = step.gate /\ c # NoCheckpoint
    BY <2>2, <1>4
  <2>4. step.gate \in ApprovedIn(run.steps)
    BY <2>1, <2>3, <1>4 DEF Violates
  <2> QED BY <2>3, <2>4 DEF ApprovedIn
<1> QED BY <1>3, <1>4

\* A step that is added is guarded, and disturbs none before it.
LEMMA GuardedGrows ==
  ASSUME AgentInv, GuardInv, run.pc # "done",
         NEW step \in Step, NEW expected, NEW parent,
         NEW e, e = Perform(step, expected, parent), Grows(run.steps, run'.steps, e),
         expected = ExpectedAt(IF parent = 0 THEN contract.expected ELSE ExpectedRecovery(parent),
                               Place(run'.steps, Len(run.steps) + 1)),
         e.status \in {"pending", "denied", "policy_violation"} => run'.pc = "done",
         run'.decisions = run.decisions,
         UNCHANGED <<contract, inline, trace, approved>>
  PROVE  GuardInv'
<1>0. PICK n : n = Len(run.steps)
  OBVIOUS
<1>1. /\ n \in Nat /\ DOMAIN run.steps = 1..n /\ Len(run'.steps) = n + 1
      /\ DOMAIN run'.steps = DOMAIN run.steps \cup {n + 1}
      /\ \A i \in DOMAIN run.steps : SameStep(run'.steps[i], run.steps[i])
      /\ SameStep(run'.steps[n + 1], e)
  BY <1>0 DEF Grows
<1>2. e.step = step /\ e.parent = parent
  BY PerformedFields
<1>3. run \in Run
  BY RunFacts
<1>4. /\ step.action # "approval_checkpoint" /\ e.status \in {"success", "failed"}
         => \A c \in {step.gate, expected.gate} \ {NoCheckpoint} :
               \E k \in DOMAIN run.steps : run.steps[k].step.gate = c /\ run.steps[k].status = "approved"
      /\ e.status = "approved" =>
            step.gate \in Checkpoints /\ run.decisions[step.gate] = "approved"
  BY <1>3, PerformedGuard
<1>5. \A i \in DOMAIN run.steps : Place(run'.steps, i) = Place(run.steps, i)
  BY PlaceGrows
<1>6. \A i \in DOMAIN run.steps : \A k \in 1..(i - 1) : k \in DOMAIN run.steps
  BY <1>1
<1>7. DecisionsWereMade'
  BY <1>1, <1>2, <1>4 DEF GuardInv, DecisionsWereMade, SameStep
<1>8. ASSUME NEW i \in DOMAIN run.steps PROVE StepGuarded(i)'
  <2>1. StepGuarded(i)
    BY DEF GuardInv
  <2>2. run.steps[i].status \notin {"pending", "denied", "policy_violation"}
    BY <2>1 DEF StepGuarded
  <2>3. run'.steps[i].step = run.steps[i].step /\ run'.steps[i].status = run.steps[i].status
        /\ run'.steps[i].parent = run.steps[i].parent
    BY <1>1 DEF SameStep
  <2>4. NeededAt(i)' = NeededAt(i)
    BY <2>3, <1>5 DEF NeededAt, ExpectedRecovery
  <2>5. \A c : ApprovedBefore(run.steps, i, c) => ApprovedBefore(run'.steps, i, c)
    BY <1>1, <1>6 DEF ApprovedBefore, SameStep
  <2> QED BY <2>1, <2>2, <2>3, <2>4, <2>5 DEF StepGuarded
<1>9. StepGuarded(n + 1)'
  <2>1. run'.steps[n + 1].step = step /\ run'.steps[n + 1].status = e.status
        /\ run'.steps[n + 1].parent = parent
    BY <1>1, <1>2 DEF SameStep
  <2>2. NeededAt(n + 1)' = {step.gate, expected.gate} \ {NoCheckpoint}
    BY <2>1, <1>0 DEF NeededAt, ExpectedRecovery
  <2>3. 1..((n + 1) - 1) = DOMAIN run.steps
    BY <1>1
  <2>4. \A c : (\E k \in DOMAIN run.steps : run.steps[k].step.gate = c /\ run.steps[k].status = "approved")
               => ApprovedBefore(run'.steps, n + 1, c)
    BY <2>3, <1>1 DEF ApprovedBefore, SameStep
  <2> QED BY <2>1, <2>2, <2>4, <1>1, <1>4 DEF StepGuarded
<1> QED BY <1>1, <1>7, <1>8, <1>9 DEF GuardInv

LEMMA PlaceAfter ==
  ASSUME NEW x, NEW i \in Nat, NEW m \in Nat, x.replans # <<>>, ~(i <= x.replans[1].trigger), ~InRecovery(x, i),
         m = Len(x.replans[1].steps)
  PROVE  PlaceIn(x, i) = i - m
BY DEF PlaceIn

LEMMA Commuted ==
  ASSUME NEW a \in Nat, NEW b \in Nat
  PROVE  a + 1 - b = a - b + 1
OBVIOUS

\* The step that is added has the place that the executor looks up its
\* expected step by.
LEMMA PlanStepPlace ==
  AgentInv /\ PlanStep => Place(run'.steps, Len(run.steps) + 1) = run.next
<1> SUFFICES ASSUME AgentInv, PlanStep
             PROVE  Place(run'.steps, Len(run.steps) + 1) = run.next
  OBVIOUS
<1> DEFINE n == Len(run.steps)
           e == Perform(plan.steps[run.next], ExpectedAt(contract.expected, run.next), 0)
<1>1. /\ run.pc = "plan" /\ run'.steps = Append(run.steps, e) /\ run'.replans = run.replans
      /\ run' \in Run
  BY PlanStepShape DEF AgentInv, PlanStepDoes
<1>2. AgentInv'
  BY PlanStepKeeps
<1>3. run'.steps \in Seq(Executed) /\ run'.replans \in Seq(Replan) /\ Layout(run')
  BY <1>1, <1>2 DEF Run, AgentInv
<1> HIDE DEF e
<1>4. n \in Nat /\ n + 1 \in DOMAIN run'.steps
  <2>1. Len(run'.steps) = Len(run.steps) + 1
    BY <1>1, RunFacts
  <2> QED BY <2>1, <1>3, RunFacts
<1>5. run.next = n - Extra(run) + 1
  BY <1>1 DEF AgentInv, Progress
<1>6. Place(run'.steps, n + 1) = PlaceIn(run', n + 1)
  BY <1>3, <1>4, PlaceIs
<1>7. CASE run.replans = <<>>
  <2>1. run.next = n + 1
    <3>1. Extra(run) = 0
      BY <1>7 DEF Extra
    <3>2. n - 0 + 1 = n + 1
      BY <1>4
    <3> QED BY <3>1, <3>2, <1>5
  <2> QED BY <2>1, <1>1, <1>6, <1>7 DEF PlaceIn
<1>8. CASE run.replans # <<>>
  <2> DEFINE r == run.replans[1]
             t == r.trigger
             m == Len(r.steps)
  <2>1. t \in Nat /\ m \in Nat
    BY <1>8, RunFacts DEF Replan
  <2>2. t + m <= n
    <3>1. Layout(run)
      BY RunFacts
    <3>2. /\ r.trigger \in DOMAIN run.steps
          /\ r.trigger + Len(r.steps) <= Len(run.steps)
          /\ \A k \in DOMAIN r.steps : r.steps[k] = r.trigger + k
      BY <3>1, <1>8 DEF Layout
    <3> QED BY <3>2
  <2>3. run'.replans = run.replans
    BY <1>1
  <2>4. run.next = n - m + 1
    BY <1>5, <1>8 DEF Extra
  <2> HIDE DEF r, t, m
  <2>5. ~(n + 1 <= t) /\ ~(n + 1 <= t + m)
    BY <2>1, <2>2, <1>4
  <2>6. PlaceIn(run', n + 1) = n + 1 - m
    <3>1. ~InRecovery(run', n + 1)
      BY <2>3, <2>5 DEF InRecovery, r, t, m
    <3>2. ~(n + 1 <= run'.replans[1].trigger) /\ run'.replans # <<>>
      BY <2>3, <2>5, <1>8 DEF r, t
    <3>3. m = Len(run'.replans[1].steps)
      BY <2>3 DEF r, m
    <3>4. n + 1 \in Nat
      BY <1>4
    <3>5. PICK i \in Nat : i = n + 1
      BY <3>4
    <3>6. PICK p \in Nat : p = m
      BY <2>1
    <3> HIDE DEF n
    <3>7. PlaceIn(run', i) = i - p
      BY <3>1, <3>2, <3>3, <3>5, <3>6, PlaceAfter
    <3>8. PlaceIn(run', n + 1) = PlaceIn(run', i)
      BY <3>5
    <3> QED BY <3>5, <3>6, <3>7, <3>8, <1>4, <2>1
  <2>7. n + 1 - m = n - m + 1
    BY <2>1, <1>4, Commuted
  <2> QED BY <2>4, <2>6, <2>7, <1>6
<1> QED BY <1>7, <1>8

LEMMA RecoveryStepPlace ==
  AgentInv /\ RecoveryStep =>
    Place(run'.steps, Len(run.steps) + 1) = Len(run.replans[1].steps) + 1
<1> SUFFICES ASSUME AgentInv, RecoveryStep
             PROVE  Place(run'.steps, Len(run.steps) + 1) = Len(run.replans[1].steps) + 1
  OBVIOUS
<1> DEFINE r == run.replans[1]
           q == run'.replans[1]
           i == Len(r.steps) + 1
           at == Len(run.steps) + 1
           e == Perform(run.branch[i], ExpectedAt(ExpectedRecovery(run.next), i), run.next)
<1>1. RecoveryStepDoes /\ AgentInv'
  BY RecoveryStepShape, RecoveryStepKeeps
<1>2. /\ Len(run.replans) = 1 /\ r.trigger = run.next /\ at = run.next + i /\ run' \in Run
      /\ Len(run'.replans) = 1 /\ SameReplan(q, r) /\ q.steps = Append(r.steps, at)
      /\ \/ run'.steps = Append(run.steps, e)
         \/ run'.steps = Repaired(Append(run.steps, e), run.next)
      /\ i \in DOMAIN run.branch
  BY <1>1 DEF RecoveryStepDoes
<1>3. run'.steps \in Seq(Executed) /\ run'.replans \in Seq(Replan) /\ Layout(run')
  BY <1>1, <1>2 DEF Run, AgentInv
<1>4. run'.replans # <<>> /\ run.replans # <<>>
  <2>1. \A s \in Seq(Replan) : Len(s) = 1 => s # <<>>
    OBVIOUS
  <2> QED BY <2>1, <1>2, <1>3, RunFacts
<1>5. r.steps \in Seq(Nat \ {0}) /\ Len(r.steps) \in Nat /\ run.next \in Nat
  BY <1>4, RunFacts DEF Replan
<1>6. at \in Nat \ {0} /\ Len(run.steps) \in Nat
  BY RunFacts
<1>7. q.trigger = run.next /\ Len(q.steps) = i
  <2>1. Len(q.steps) = i
    BY <1>2, <1>5, <1>6, Appended
  <2> QED BY <2>1, <1>2 DEF SameReplan
<1>8. at \in DOMAIN run'.steps
  <2>1. run.next \in DOMAIN run.steps
    BY <1>2, <1>4, RunFacts DEF Layout
  <2>2. e \in Executed
    <3>1. run.branch[i] \in Step
      BY <1>2, RunFacts
    <3> QED BY <3>1, <1>5, RunFacts, PerformedStep
  <2> HIDE DEF e
  <2>3. Grows(run.steps, run'.steps, e)
    BY <1>2, <2>1, <2>2, RunFacts, AppendGrows, RepairGrows
  <2> QED BY <2>3, <1>6 DEF Grows
<1>9. Place(run'.steps, at) = PlaceIn(run', at)
  BY <1>3, <1>8, PlaceIs
<1>10. PlaceIn(run', at) = IF at <= run.next THEN at
                           ELSE IF run.next < at /\ at <= run.next + i THEN at - run.next ELSE at - i
  BY <1>4, <1>7 DEF PlaceIn, InRecovery
<1>11. i \in Nat \ {0} /\ at = run.next + i
  BY <1>2, <1>5
<1> HIDE DEF i, at
<1>12. ~(at <= run.next) /\ run.next < at /\ at <= run.next + i /\ at - run.next = i
  BY <1>5, <1>11
<1>13. Place(run'.steps, at) = i
  BY <1>9, <1>10, <1>12
<1> QED BY <1>13 DEF at, i

\* Steps that add no step and change nothing that was decided.
LEMMA GuardedSame ==
  ASSUME GuardInv, run'.steps = run.steps, run'.decisions = run.decisions,
         run'.pc = "done" \/ run.pc # "done",
         UNCHANGED <<contract, inline, trace, approved>>
  PROVE  GuardInv'
<1>1. \A i \in DOMAIN run.steps : NeededAt(i)' = NeededAt(i)
  BY DEF NeededAt, ExpectedRecovery
<1>2. \A i \in DOMAIN run.steps : StepGuarded(i)'
  BY <1>1 DEF GuardInv, StepGuarded
<1> QED BY <1>2 DEF GuardInv, DecisionsWereMade

\* An execution begins with decisions that were made.
LEMMA GuardedStart ==
  ASSUME GuardInv, NEW mode \in {"execute", "resume", "replay"},
         NEW decisions \in [Checkpoints -> Decisions], Execute(mode, decisions),
         \A c \in Checkpoints : decisions[c] = "approved" => c \in approved',
         approved \subseteq approved',
         UNCHANGED <<contract, plan, inline, trace, before, replayed>>
  PROVE  GuardInv'
<1>1. run'.decisions = decisions /\ run'.steps = <<>>
  BY StartShape DEF StartDoes
<1>2. DOMAIN run'.steps = {}
  BY <1>1
<1> QED BY <1>1, <1>2 DEF GuardInv, DecisionsWereMade

LEMMA ApprovedDecisions ==
  ASSUME GuardInv, NEW c \in Checkpoints, DecisionsIn(trace)[c] = "approved"
  PROVE  c \in approved
BY DEF GuardInv, DecisionsWereMade, DecisionsIn

LEMMA GuardedPlanStep == AgentInv /\ GuardInv /\ PlanStep => GuardInv'
<1> SUFFICES ASSUME AgentInv, GuardInv, PlanStep PROVE GuardInv'
  OBVIOUS
<1> DEFINE step == plan.steps[run.next]
           expected == ExpectedAt(contract.expected, run.next)
           e == Perform(step, expected, 0)
<1>1. /\ run.pc = "plan" /\ run.next \in DOMAIN plan.steps
      /\ run'.steps = Append(run.steps, e) /\ run'.decisions = run.decisions
      /\ e.status \in {"pending", "denied", "policy_violation"} => run'.pc = "done"
  BY PlanStepShape DEF AgentInv, PlanStepDoes
<1>2. step \in Step
  BY <1>1, PlanTypes DEF AgentInv, AgentTypeOK
<1>3. e \in Executed
  <2>1. 0 \in Nat
    OBVIOUS
  <2> HIDE DEF step, expected
  <2> QED BY <1>2, <2>1, RunFacts, PerformedStep
<1>4. Place(run'.steps, Len(run.steps) + 1) = run.next
  BY PlanStepPlace
<1>5. PICK parent : parent = 0
  OBVIOUS
<1>6. e = Perform(step, expected, parent)
  BY <1>5
<1>7. expected = ExpectedAt(IF parent = 0 THEN contract.expected ELSE ExpectedRecovery(parent),
                            Place(run'.steps, Len(run.steps) + 1))
  BY <1>4, <1>5
<1> HIDE DEF step, expected, e
<1>8. Grows(run.steps, run'.steps, e)
  BY <1>1, <1>3, RunFacts, AppendGrows
<1> QED BY <1>1, <1>2, <1>6, <1>7, <1>8, GuardedGrows DEF PlanStep

LEMMA GuardedRecoveryStep == AgentInv /\ GuardInv /\ RecoveryStep => GuardInv'
<1> SUFFICES ASSUME AgentInv, GuardInv, RecoveryStep PROVE GuardInv'
  OBVIOUS
<1> DEFINE i == Len(run.replans[1].steps) + 1
           step == run.branch[i]
           expected == ExpectedAt(ExpectedRecovery(run.next), i)
           e == Perform(step, expected, run.next)
<1>1. /\ run.pc = "recovery" /\ i \in DOMAIN run.branch /\ run'.decisions = run.decisions
      /\ run.replans[1].trigger = run.next /\ Len(run.replans) = 1
      /\ \/ ~Successful(e) /\ run'.pc = "done" /\ run'.steps = Append(run.steps, e)
         \/ Successful(e) /\ run'.steps = Append(run.steps, e)
         \/ Successful(e) /\ run'.steps = Repaired(Append(run.steps, e), run.next)
  BY RecoveryStepShape DEF RecoveryStepDoes, SameRequest
<1>2. step \in Step
  BY <1>1, RunFacts
<1>3. e \in Executed
  BY <1>2, RunFacts, PerformedStep
<1>4. Place(run'.steps, Len(run.steps) + 1) = i
  BY RecoveryStepPlace
<1>5. run.next # 0
  BY RunFacts
<1>6. expected = ExpectedAt(IF run.next = 0 THEN contract.expected ELSE ExpectedRecovery(run.next),
                            Place(run'.steps, Len(run.steps) + 1))
  BY <1>4, <1>5
<1>7. run.next \in DOMAIN run.steps
  <2>1. \A s \in Seq(Replan) : Len(s) = 1 => s # <<>>
    OBVIOUS
  <2>2. run.replans # <<>> /\ Layout(run)
    BY <1>1, <2>1, RunFacts
  <2> QED BY <1>1, <2>2 DEF Layout
<1>8. e.status \in {"pending", "denied", "policy_violation"} => run'.pc = "done"
  BY <1>1 DEF Successful
<1> HIDE DEF step, expected, e, i
<1>9. Grows(run.steps, run'.steps, e)
  BY <1>1, <1>3, <1>7, RunFacts, AppendGrows, RepairGrows
<1>10. e = Perform(step, expected, run.next)
  BY DEF e
<1> QED BY <1>1, <1>2, <1>6, <1>8, <1>9, <1>10, GuardedGrows DEF RecoveryStep

LEMMA GuardedEnd == AgentInv /\ GuardInv /\ EndExecution => GuardInv'
<1> SUFFICES ASSUME AgentInv, GuardInv, EndExecution PROVE GuardInv'
  OBVIOUS
<1>1. run' = NoRun /\ UNCHANGED <<contract, inline, approved>>
      /\ (UNCHANGED trace \/ trace' = Outcome)
  BY EndShape DEF EndDoes
<1>2. DOMAIN NoRun.steps = {} /\ NoRun.decisions = Undecided
  BY DEF NoRun
<1>3. \A c \in Checkpoints : Undecided[c] # "approved"
  BY DEF Undecided
<1>4. Outcome.steps = run.steps
  BY DEF Outcome
<1> QED BY <1>1, <1>2, <1>3, <1>4 DEF GuardInv, DecisionsWereMade

LEMMA GuardedInit == AgentInit => GuardInv
<1> SUFFICES ASSUME AgentInit PROVE GuardInv
  OBVIOUS
<1>1. run = NoRun /\ trace = NoTrace /\ approved = {c \in Checkpoints : inline[c] = "approved"}
  BY DEF AgentInit
<1>2. DOMAIN run.steps = {} /\ DOMAIN trace.steps = {} /\ run.decisions = Undecided
  BY <1>1 DEF NoRun, NoTrace
<1>3. \A c \in Checkpoints : Undecided[c] # "approved"
  BY DEF Undecided
<1> QED BY <1>1, <1>2, <1>3 DEF GuardInv, DecisionsWereMade

LEMMA GuardedNext == AgentInv /\ GuardInv /\ [AgentNext]_agentVars => GuardInv'
<1> SUFFICES ASSUME AgentInv, GuardInv, [AgentNext]_agentVars PROVE GuardInv'
  OBVIOUS
<1>1. CASE FirstExecution
  <2>1. inline \in [Checkpoints -> Decisions]
    BY AgentAssumption DEF AgentInv, AgentTypeOK
  <2>2. \A c \in Checkpoints : inline[c] = "approved" => c \in approved
    BY DEF GuardInv, DecisionsWereMade
  <2> QED BY <1>1, <2>1, <2>2, GuardedStart DEF FirstExecution
<1>2. CASE \E c \in Checkpoints, decision \in {"approved", "denied"} : ExecuteDecided(c, decision)
  <2>1. PICK c \in Checkpoints, decision \in {"approved", "denied"} : ExecuteDecided(c, decision)
    BY <1>2
  <2>2. PersistedDecisions(c, decision) \in [Checkpoints -> Decisions]
    BY DecisionTypes DEF PersistedDecisions, Decisions
  <2>3. approved' = IF decision = "approved" THEN approved \cup {c} ELSE approved
    BY <2>1 DEF ExecuteDecided
  <2>4. \A d \in Checkpoints : PersistedDecisions(c, decision)[d] = "approved" => d \in approved'
    <3>1. \A d \in Checkpoints :
             PersistedDecisions(c, decision)[d] = IF d = c THEN decision ELSE DecisionsIn(trace)[d]
      BY DecisionTypes DEF PersistedDecisions
    <3> QED BY <2>3, <3>1, ApprovedDecisions
  <2> QED BY <2>1, <2>2, <2>3, <2>4, GuardedStart DEF ExecuteDecided
<1>3. CASE ExecuteReplay
  <2> DEFINE decisions == IF DecisionsIn(trace) = Undecided THEN inline ELSE DecisionsIn(trace)
  <2>1. decisions \in [Checkpoints -> Decisions]
    BY AgentAssumption, DecisionTypes DEF AgentInv, AgentTypeOK
  <2>2. \A c \in Checkpoints : decisions[c] = "approved" => c \in approved
    BY ApprovedDecisions DEF GuardInv, DecisionsWereMade
  <2>3. Execute("replay", decisions)
        /\ UNCHANGED <<contract, plan, inline, trace, before, replayed, approved>>
    BY <1>3 DEF ExecuteReplay
  <2> HIDE DEF decisions
  <2> QED BY <2>1, <2>2, <2>3, GuardedStart
<1>4. CASE PlanStep
  BY <1>4, GuardedPlanStep
<1>5. CASE EndOfPlan
  BY <1>5, EndOfPlanShape, GuardedSame DEF EndOfPlan, EndOfPlanDoes, SameRequest, AgentInv
<1>6. CASE TakeBranch \/ CallLive \/ LiveFails
  <2>1. \E steps, live, answered : ReplanDoes(steps, live, answered)
    BY <1>6, TakeBranchShape, CallLiveShape, LiveFailsShape
       DEF TakeBranchDoes, CallLiveDoes, LiveFailsDoes
  <2>2. run.pc = "failed" /\ run'.steps = run.steps /\ run'.decisions = run.decisions
    BY <2>1 DEF ReplanDoes, HaltedDoes, RecoveringDoes, SameRequest
  <2> QED BY <1>6, <2>2, GuardedSame DEF TakeBranch, CallLive, LiveFails
<1>7. CASE GoOn
  BY <1>7, GoOnShape, GuardedSame DEF GoOn, GoOnDoes, SameRequest, AgentInv
<1>8. CASE RecoveryStep
  BY <1>8, GuardedRecoveryStep
<1>9. CASE EndExecution
  BY <1>9, GuardedEnd
<1>10. CASE UNCHANGED agentVars
  BY <1>10, GuardedSame DEF agentVars
<1> QED BY <1>1, <1>2, <1>3, <1>4, <1>5, <1>6, <1>7, <1>8, <1>9, <1>10 DEF AgentNext

LEMMA GuardInvProperty == AgentInv /\ GuardInv => GuardedStepsWereApproved
<1> SUFFICES ASSUME AgentInv, GuardInv, NEW i \in DOMAIN run.steps
             PROVE  /\ run.steps[i].status \in {"pending", "denied", "policy_violation"} => i = Len(run.steps)
                    /\ /\ run.steps[i].step.action # "approval_checkpoint"
                       /\ run.steps[i].status \in {"success", "failed"}
                       => \A c \in NeededAt(i) :
                            /\ c \in approved
                            /\ \E k \in 1..(i - 1) :
                                  run.steps[k].step.gate = c /\ run.steps[k].status = "approved"
  BY DEF GuardedStepsWereApproved
<1>1. StepGuarded(i)
  BY DEF GuardInv
<1>2. \A c : ApprovedBefore(run.steps, i, c) => c \in approved
  <2>1. \A k \in 1..(i - 1) : k \in DOMAIN run.steps
    BY RunFacts
  <2> QED BY <2>1 DEF ApprovedBefore, GuardInv, DecisionsWereMade
<1> QED BY <1>1, <1>2 DEF StepGuarded, ApprovedBefore

\* Whatever the plan is and whatever a live model answers, no tool, memory
\* access or answer that needs a checkpoint takes effect in
\* _execute_agent_step before this execution passed that checkpoint by an
\* approval an operator or the request did give, and nothing runs after a step
\* that halts.
THEOREM GuardedStepsApproved == AgentSpec => []GuardedStepsWereApproved
<1>1. AgentInit => GuardInv
  BY GuardedInit
<1>2. AgentInv /\ GuardInv /\ [AgentNext]_agentVars => GuardInv'
  BY GuardedNext
<1>3. AgentSpec => []GuardInv
  BY <1>1, <1>2, AgentInvariant, PTL DEF AgentSpec
<1>4. AgentInv /\ GuardInv => GuardedStepsWereApproved
  BY GuardInvProperty
<1> QED BY <1>3, <1>4, AgentInvariant, PTL

-----------------------------------------------------------------------------
(* Success is earned. *)

\* The plan's steps are performed in the plan's order, to its end if nothing
\* halts the execution.
PlanFollowed ==
    /\ \A i \in DOMAIN run.steps :
          run.steps[i].parent = 0 =>
             /\ Place(run.steps, i) \in DOMAIN plan.steps
             /\ run.steps[i].step = plan.steps[Place(run.steps, i)]
    /\ run.pc = "plan" => run.next <= Len(plan.steps) + 1
    /\ run.pc = "recovery" => run.next \in DOMAIN plan.steps
    /\ run.pc = "done" /\ run.halt = "none" => Len(run.steps) - Extra(run) = Len(plan.steps)

\* The recovery has as many steps as it was to have, and as the contract wants.
Planned(r, n) ==
    /\ r.planned = n /\ n # 0
    /\ ExpectedRecovery(r.trigger) # <<>> => n = Len(ExpectedRecovery(r.trigger))

RecoverySucceeds(x) == \A k \in DOMAIN x.steps : x.steps[k].parent # 0 => Successful(x.steps[k])

\* What the recovery under way, or a completed one, says of the steps.
RecoveryEarned(x) ==
    /\ \A i \in DOMAIN x.steps :
          x.steps[i].recovered =>
             x.replans # <<>> /\ x.replans[1].status = "success" /\ i = x.replans[1].trigger
    /\ x.replans # <<>> /\ x.replans[1].status = "success" =>
          Planned(x.replans[1], Len(x.replans[1].steps)) /\ RecoverySucceeds(x)

EarnInv ==
    /\ PlanFollowed
    /\ RecoveryEarned(run)
    /\ run.pc = "recovery" => Planned(run.replans[1], Len(run.branch)) /\ RecoverySucceeds(run)

LEMMA ParentIs ==
  ASSUME NEW x, x.steps \in Seq(Executed), x.replans \in Seq(Replan), Layout(x)
  PROVE  \A i \in DOMAIN x.steps :
            /\ x.steps[i].parent # 0 <=> InRecovery(x, i)
            /\ x.steps[i].parent # 0 => x.replans # <<>> /\ x.steps[i].parent = x.replans[1].trigger
<1> SUFFICES ASSUME NEW i \in DOMAIN x.steps
             PROVE  /\ x.steps[i].parent # 0 <=> InRecovery(x, i)
                    /\ x.steps[i].parent # 0 =>
                          x.replans # <<>> /\ x.steps[i].parent = x.replans[1].trigger
  OBVIOUS
<1>1. x.steps[i].parent = IF InRecovery(x, i) THEN x.replans[1].trigger ELSE 0
  BY DEF Layout
<1>2. CASE InRecovery(x, i)
  <2>1. x.replans # <<>>
    BY <1>2 DEF InRecovery
  <2>2. x.replans[1].trigger \in DOMAIN x.steps
    BY <2>1 DEF Layout
  <2>3. x.replans[1].trigger # 0
    BY <2>2
  <2> QED BY <1>1, <1>2, <2>1, <2>3
<1>3. CASE ~InRecovery(x, i)
  BY <1>1, <1>3
<1> QED BY <1>2, <1>3

\* A step is added: its place in the plan, and what was known of the others.
LEMMA FollowedGrows ==
  ASSUME AgentInv, PlanFollowed, NEW e, Grows(run.steps, run'.steps, e), UNCHANGED plan,
         e.parent = 0 => /\ Place(run'.steps, Len(run.steps) + 1) \in DOMAIN plan.steps
                         /\ e.step = plan.steps[Place(run'.steps, Len(run.steps) + 1)]
  PROVE  \A i \in DOMAIN run'.steps :
            run'.steps[i].parent = 0 =>
               /\ Place(run'.steps, i) \in DOMAIN plan'.steps
               /\ run'.steps[i].step = plan'.steps[Place(run'.steps, i)]
<1>1. \A i \in DOMAIN run.steps : Place(run'.steps, i) = Place(run.steps, i)
  BY PlaceGrows
<1>2. ASSUME NEW i \in DOMAIN run.steps
      PROVE  run'.steps[i].parent = 0 =>
               /\ Place(run'.steps, i) \in DOMAIN plan'.steps
               /\ run'.steps[i].step = plan'.steps[Place(run'.steps, i)]
  BY <1>1 DEF PlanFollowed, Grows, SameStep
<1>3. run'.steps[Len(run.steps) + 1].parent = 0 =>
         /\ Place(run'.steps, Len(run.steps) + 1) \in DOMAIN plan'.steps
         /\ run'.steps[Len(run.steps) + 1].step
              = plan'.steps[Place(run'.steps, Len(run.steps) + 1)]
  BY DEF Grows, SameStep
<1> QED BY <1>2, <1>3 DEF Grows

LEMMA EarnedPlanStep == AgentInv /\ EarnInv /\ PlanStep => EarnInv'
<1> SUFFICES ASSUME AgentInv, EarnInv, PlanStep PROVE EarnInv'
  OBVIOUS
<1> DEFINE step == plan.steps[run.next]
           expected == ExpectedAt(contract.expected, run.next)
           e == Perform(step, expected, 0)
<1>1. /\ run.pc = "plan" /\ run.next \in DOMAIN plan.steps
      /\ run'.steps = Append(run.steps, e) /\ run'.replans = run.replans
      /\ \/ run'.pc = "done" /\ run'.halt # "none"
         \/ run'.pc = "failed"
         \/ run'.pc = "plan" /\ run'.next = run.next + 1
  BY PlanStepShape DEF AgentInv, PlanStepDoes
<1>2. step \in Step /\ plan.steps \in Seq(Step)
  BY <1>1, PlanTypes DEF AgentInv, AgentTypeOK
<1>3. e \in Executed /\ e.step = step /\ e.parent = 0 /\ ~e.recovered
  <2>1. 0 \in Nat
    OBVIOUS
  <2> HIDE DEF step, expected
  <2>2. e \in Executed
    BY <1>2, <2>1, RunFacts, PerformedStep
  <2>3. e.step = step /\ e.parent = 0 /\ ~e.recovered
    BY PerformedFields
  <2> QED BY <2>2, <2>3
<1>4. Place(run'.steps, Len(run.steps) + 1) = run.next
  BY PlanStepPlace
<1>5. UNCHANGED <<contract, plan>>
  BY DEF PlanStep
<1> HIDE DEF expected, e
<1>6. Grows(run.steps, run'.steps, e)
  BY <1>1, <1>3, RunFacts, AppendGrows
<1>7. PlanFollowed'
  <2>1. \A i \in DOMAIN run'.steps :
            run'.steps[i].parent = 0 =>
               /\ Place(run'.steps, i) \in DOMAIN plan'.steps
               /\ run'.steps[i].step = plan'.steps[Place(run'.steps, i)]
    BY <1>1, <1>3, <1>4, <1>5, <1>6, FollowedGrows DEF EarnInv
  <2>2. run'.pc = "plan" => run'.next <= Len(plan'.steps) + 1
    <3>1. run.next <= Len(plan.steps) /\ run.next \in Nat /\ Len(plan.steps) \in Nat
      BY <1>1, <1>2
    <3>2. run.next + 1 <= Len(plan.steps) + 1
      BY <3>1
    <3> QED BY <3>2, <1>1, <1>5
  <2>3. run'.pc # "recovery" /\ ~(run'.pc = "done" /\ run'.halt = "none")
    BY <1>1
  <2> QED BY <2>1, <2>2, <2>3 DEF PlanFollowed
<1>8. RecoveryEarned(run)'
  <2>1. \A i \in DOMAIN run.steps : run'.steps[i] = run.steps[i]
    BY <1>1, <1>3, RunFacts, Appended
  <2>2. run'.steps[Len(run.steps) + 1] = e
    BY <1>1, <1>3, RunFacts, Appended
  <2>3. DOMAIN run'.steps = DOMAIN run.steps \cup {Len(run.steps) + 1}
    BY <1>6 DEF Grows
  <2>4. RecoverySucceeds(run) => RecoverySucceeds(run')
    BY <2>1, <2>2, <2>3, <1>3 DEF RecoverySucceeds
  <2>5. Planned(run.replans[1], Len(run.replans[1].steps)) =>
           Planned(run.replans[1], Len(run.replans[1].steps))'
    BY <1>1, <1>5 DEF Planned, ExpectedRecovery
  <2>6. RecoveryEarned(run)
    BY DEF EarnInv
  <2>7. \A i \in DOMAIN run'.steps :
          run'.steps[i].recovered =>
             /\ run'.replans # <<>> /\ run'.replans[1].status = "success"
             /\ i = run'.replans[1].trigger
    BY <2>1, <2>2, <2>3, <2>6, <1>1, <1>3 DEF RecoveryEarned
  <2>8. run'.replans # <<>> /\ run'.replans[1].status = "success" =>
          Planned(run.replans[1], Len(run.replans[1].steps))' /\ RecoverySucceeds(run')
    BY <2>4, <2>5, <2>6, <1>1 DEF RecoveryEarned
  <2> QED BY <2>7, <2>8 DEF RecoveryEarned
<1> QED BY <1>1, <1>7, <1>8 DEF EarnInv

LEMMA EarnedEndOfPlan == AgentInv /\ EarnInv /\ EndOfPlan => EarnInv'
<1> SUFFICES ASSUME AgentInv, EarnInv, EndOfPlan PROVE EarnInv'
  OBVIOUS
<1>1. EndOfPlanDoes /\ UNCHANGED <<contract, plan>>
  BY EndOfPlanShape DEF AgentInv, EndOfPlan
<1>2. /\ run.pc = "plan" /\ run.next \notin DOMAIN plan.steps /\ run'.pc = "done"
      /\ run'.steps = run.steps /\ run'.replans = run.replans
  BY <1>1 DEF EndOfPlanDoes
<1>3. plan.steps \in Seq(Step)
  BY PlanTypes DEF AgentInv, AgentTypeOK
<1>4. run.next = Len(run.steps) - Extra(run) + 1
  BY <1>2 DEF AgentInv, Progress
<1>5. run.next <= Len(plan.steps) + 1
  BY <1>2 DEF EarnInv, PlanFollowed
<1>6. Len(run.steps) - Extra(run) = Len(plan.steps)
  <2>1. PICK n \in Nat, x \in Nat, m \in Nat, p \in Nat \ {0} :
           n = Len(run.steps) /\ x = Extra(run) /\ m = Len(plan.steps) /\ p = run.next
    BY <1>3, RunFacts
  <2>2. p \notin 1..m /\ p <= m + 1 /\ p = n - x + 1
    BY <2>1, <1>2, <1>3, <1>4, <1>5
  <2>3. n - x = m
    BY <2>2
  <2> QED BY <2>1, <2>3
<1>7. PlanFollowed'
  BY <1>1, <1>2, <1>6 DEF EarnInv, PlanFollowed, Extra
<1>8. RecoveryEarned(run)'
  BY <1>1, <1>2 DEF EarnInv, RecoveryEarned, RecoverySucceeds, Planned, ExpectedRecovery
<1> QED BY <1>2, <1>7, <1>8 DEF EarnInv

LEMMA EarnedGoOn == AgentInv /\ EarnInv /\ GoOn => EarnInv'
<1> SUFFICES ASSUME AgentInv, EarnInv, GoOn PROVE EarnInv'
  OBVIOUS
<1>1. GoOnDoes /\ UNCHANGED <<contract, plan>>
  BY GoOnShape DEF AgentInv, GoOn
<1>2. /\ run.pc = "failed" /\ run'.pc = "plan" /\ run'.next = run.next + 1
      /\ run'.steps = run.steps /\ run'.replans = run.replans
  BY <1>1 DEF GoOnDoes
<1>3. plan.steps \in Seq(Step) /\ run.next \in DOMAIN plan.steps
  BY <1>2, PlanTypes DEF AgentInv, AgentTypeOK, Progress
<1>4. run'.next <= Len(plan'.steps) + 1
  <2>1. run.next <= Len(plan.steps) /\ run.next \in Nat /\ Len(plan.steps) \in Nat
    BY <1>3
  <2>2. run.next + 1 <= Len(plan.steps) + 1
    BY <2>1
  <2> QED BY <2>2, <1>1, <1>2
<1>5. PlanFollowed'
  BY <1>1, <1>2, <1>4 DEF EarnInv, PlanFollowed
<1>6. RecoveryEarned(run)'
  BY <1>1, <1>2 DEF EarnInv, RecoveryEarned, RecoverySucceeds, Planned, ExpectedRecovery
<1> QED BY <1>2, <1>5, <1>6 DEF EarnInv

LEMMA SameActions ==
  ASSUME NEW s \in Seq(Step), NEW d \in Seq(Expected), ActionsOf(s) = ActionsOf(d)
  PROVE  /\ Len(s) = Len(d) /\ DOMAIN s = DOMAIN d
         /\ \A i \in DOMAIN s : s[i].action = d[i].action
<1>1. DOMAIN ActionsOf(s) = DOMAIN s /\ DOMAIN ActionsOf(d) = DOMAIN d
  BY DEF ActionsOf
<1>2. DOMAIN s = DOMAIN d
  BY <1>1
<1>3. DOMAIN s = 1..Len(s) /\ DOMAIN d = 1..Len(d) /\ Len(s) \in Nat /\ Len(d) \in Nat
  OBVIOUS
<1>4. Len(s) = Len(d)
  <2>1. ASSUME NEW a \in Nat, NEW b \in Nat, 1..a = 1..b
        PROVE  a = b
    <3>1. a > 0 => a \in 1..b
      BY <2>1
    <3>2. b > 0 => b \in 1..a
      BY <2>1
    <3> QED BY <3>1, <3>2
  <2> QED BY <2>1, <1>2, <1>3
<1>5. \A i \in DOMAIN s : ActionsOf(s)[i] = s[i].action /\ ActionsOf(d)[i] = d[i].action
  BY <1>2 DEF ActionsOf
<1> QED BY <1>2, <1>4, <1>5

LEMMA EarnedReplan ==
  ASSUME AgentInv, EarnInv, NEW steps, NEW live, NEW answered, ReplanDoes(steps, live, answered),
         UNCHANGED <<contract, plan>>
  PROVE  EarnInv'
<1>1. /\ run.pc = "failed" /\ BudgetLeft /\ steps \in Seq(Step)
      /\ run'.next = run.next /\ run'.steps = run.steps
      /\ \/ /\ run'.pc = "done" /\ run'.halt # "none"
            /\ \E status, match : /\ run'.replans = Append(run.replans, NewReplan(steps, live, status, match))
                                  /\ status # "success"
         \/ /\ run'.pc = "recovery" /\ run'.branch = steps
            /\ steps # <<>>
            /\ \/ ExpectedRecovery(run.next) = <<>>
               \/ ActionsOf(steps) = ActionsOf(ExpectedRecovery(run.next))
            /\ run'.replans = Append(run.replans, NewReplan(steps, live, "running", TRUE))
  <2>1. run.pc = "failed" /\ BudgetLeft /\ steps \in Seq(Step)
    BY DEF ReplanDoes
  <2>2. \/ \E status, halt : status # "success" /\ halt # "none" /\ HaltedDoes(steps, live, status, halt)
        \/ /\ RecoveringDoes(steps, live) /\ steps # <<>>
           /\ \/ ExpectedRecovery(run.next) = <<>>
              \/ ActionsOf(steps) = ActionsOf(ExpectedRecovery(run.next))
    <3>1. \/ HaltedDoes(steps, live, "callback_error", "live_replan_callback_error")
          \/ HaltedDoes(steps, live, "no_recovery", "live_replan_no_recovery")
          \/ HaltedDoes(steps, live, "limit_exceeded", "recovery_step_limit_exceeded")
          \/ HaltedDoes(steps, live, "policy_violation", "recovery_sequence_violation")
          \/ /\ RecoveringDoes(steps, live) /\ steps # <<>>
             /\ \/ ExpectedRecovery(run.next) = <<>>
                \/ ActionsOf(steps) = ActionsOf(ExpectedRecovery(run.next))
      BY DEF ReplanDoes
    <3> QED BY <3>1
  <2>3. CASE \E status, halt : status # "success" /\ halt # "none" /\ HaltedDoes(steps, live, status, halt)
    <3>1. PICK status, halt : status # "success" /\ halt # "none" /\ HaltedDoes(steps, live, status, halt)
      BY <2>3
    <3> QED BY <2>1, <3>1 DEF HaltedDoes
  <2>4. CASE /\ RecoveringDoes(steps, live) /\ steps # <<>>
             /\ \/ ExpectedRecovery(run.next) = <<>>
                \/ ActionsOf(steps) = ActionsOf(ExpectedRecovery(run.next))
    BY <2>1, <2>4 DEF RecoveringDoes
  <2> QED BY <2>2, <2>3, <2>4
<1>2. run.replans = <<>> /\ Extra(run) = 0
  BY <1>1, NoReplanYet
<1>3. \A i \in DOMAIN run.steps : ~run.steps[i].recovered /\ run.steps[i].parent = 0
  <2>1. \A i \in DOMAIN run.steps : ~run.steps[i].recovered
    BY <1>2 DEF EarnInv, RecoveryEarned
  <2> QED BY <2>1, <1>2, ParentIs, RunFacts
<1>4. run.next \in DOMAIN plan.steps
  BY <1>1 DEF AgentInv, Progress
<1>5. \A r : Append(<<>>, r)[1] = r
  OBVIOUS
<1>6. PlanFollowed'
  BY <1>1, <1>4 DEF EarnInv, PlanFollowed
<1>7. run'.replans[1].status # "success"
  <2>1. PICK status, match : /\ run'.replans = Append(run.replans, NewReplan(steps, live, status, match))
                             /\ status # "success"
    <3>1. "running" # "success"
      OBVIOUS
    <3>2. PICK true : true = TRUE
      OBVIOUS
    <3>3. \/ \E status, match : /\ run'.replans = Append(run.replans, NewReplan(steps, live, status, match))
                                 /\ status # "success"
          \/ run'.replans = Append(run.replans, NewReplan(steps, live, "running", true))
      BY <1>1, <3>2
    <3> QED BY <3>1, <3>3
  <2>2. run'.replans[1] = NewReplan(steps, live, status, match)
    BY <2>1, <1>2, <1>5
  <2>3. NewReplan(steps, live, status, match).status = status
    BY DEF NewReplan
  <2> QED BY <2>1, <2>2, <2>3
<1>8. RecoveryEarned(run)'
  <2>1. \A i \in DOMAIN run'.steps : ~run'.steps[i].recovered
    BY <1>1, <1>3
  <2>2. ~(run'.replans # <<>> /\ run'.replans[1].status = "success")
    BY <1>7
  <2> QED BY <2>1, <2>2 DEF RecoveryEarned
<1>9. run'.pc = "recovery" => Planned(run.replans[1], Len(run.branch))' /\ RecoverySucceeds(run)'
  <2>1. SUFFICES ASSUME run'.pc = "recovery"
                 PROVE  Planned(run.replans[1], Len(run.branch))' /\ RecoverySucceeds(run)'
    OBVIOUS
  <2>2. /\ run'.branch = steps /\ steps # <<>>
        /\ \/ ExpectedRecovery(run.next) = <<>>
           \/ ActionsOf(steps) = ActionsOf(ExpectedRecovery(run.next))
        /\ run'.replans = Append(run.replans, NewReplan(steps, live, "running", TRUE))
    BY <1>1, <2>1
  <2>3. run'.replans[1] = NewReplan(steps, live, "running", TRUE)
    BY <2>2, <1>2, <1>5
  <2>4. run'.replans[1].planned = Len(steps) /\ run'.replans[1].trigger = run.next
    BY <2>3 DEF NewReplan
  <2>5. Len(steps) # 0
    BY <2>2, <1>1
  <2>6. ExpectedRecovery(run.next) # <<>> => Len(steps) = Len(ExpectedRecovery(run.next))
    <3>1. ExpectedRecovery(run.next) \in Seq(Expected)
      BY ContractTypes DEF AgentInv, AgentTypeOK
    <3>2. ASSUME ActionsOf(steps) = ActionsOf(ExpectedRecovery(run.next))
          PROVE  Len(steps) = Len(ExpectedRecovery(run.next))
      BY <1>1, <3>1, <3>2, SameActions
    <3> QED BY <2>2, <3>2
  <2>7. RecoverySucceeds(run')
    BY <1>1, <1>3 DEF RecoverySucceeds
  <2>8. ExpectedRecovery(run.next)' = ExpectedRecovery(run.next)
    BY <1>1 DEF ExpectedRecovery
  <2> QED BY <2>2, <2>4, <2>5, <2>6, <2>7, <2>8 DEF Planned, ExpectedRecovery
<1> QED BY <1>6, <1>8, <1>9 DEF EarnInv

LEMMA EarnedRecoveryStep == AgentInv /\ EarnInv /\ RecoveryStep => EarnInv'
<1> SUFFICES ASSUME AgentInv, EarnInv, RecoveryStep PROVE EarnInv'
  OBVIOUS
<1> DEFINE r == run.replans[1]
           q == run'.replans[1]
           i == Len(r.steps) + 1
           at == Len(run.steps) + 1
           step == run.branch[i]
           expected == ExpectedAt(ExpectedRecovery(run.next), i)
           e == Perform(step, expected, run.next)
           steps == Append(run.steps, e)
<1>1. /\ run.pc = "recovery" /\ i \in DOMAIN run.branch /\ run'.branch = run.branch
      /\ r.trigger = run.next /\ Len(run.replans) = 1 /\ r.status = "running"
      /\ Len(run'.replans) = 1 /\ run' \in Run /\ SameReplan(q, r) /\ q.steps = Append(r.steps, at)
      /\ \/ ~Successful(e) /\ run'.pc = "done" /\ run'.halt = "recovery_failed"
            /\ run'.steps = steps /\ q.status = "failed"
         \/ Successful(e) /\ run'.pc = "recovery" /\ run'.next = run.next
            /\ run'.steps = steps /\ q.status = "running"
         \/ Successful(e) /\ i = Len(run.branch) /\ run'.pc = "plan" /\ run'.next = run.next + 1
            /\ run'.steps = Repaired(steps, run.next) /\ q.status = "success"
  BY RecoveryStepShape DEF RecoveryStepDoes
<1>2. step \in Step
  BY <1>1, RunFacts
<1>3. e \in Executed
  BY <1>2, RunFacts, PerformedStep
<1>4. run.next # 0 /\ e.parent = run.next /\ ~e.recovered
  BY RunFacts, PerformedFields
<1>5. run.replans # <<>> /\ run'.replans # <<>>
  <2>1. \A s \in Seq(Replan) : Len(s) = 1 => s # <<>>
    OBVIOUS
  <2>2. run.replans \in Seq(Replan) /\ run'.replans \in Seq(Replan)
    BY <1>1, RunFacts DEF Run
  <2> QED BY <1>1, <2>1, <2>2
<1>6. run.next \in DOMAIN run.steps
  BY <1>1, <1>5, RunFacts DEF Layout
<1>7. UNCHANGED <<contract, plan>>
  BY DEF RecoveryStep
<1>8. run.next \in DOMAIN plan.steps /\ plan.steps \in Seq(Step)
  BY <1>1, PlanTypes DEF EarnInv, PlanFollowed, AgentInv, AgentTypeOK
<1>9. Planned(r, Len(run.branch)) /\ RecoverySucceeds(run)
  BY <1>1 DEF EarnInv
<1>10. Len(q.steps) = i
  <2>1. r.steps \in Seq(Nat \ {0})
    BY <1>5, RunFacts DEF Replan
  <2>2. at \in Nat \ {0}
    BY RunFacts
  <2> QED BY <1>1, <2>1, <2>2, Appended
<1> HIDE DEF step, expected, e, i, q
<1>11. /\ steps \in Seq(Executed) /\ \A k \in DOMAIN run.steps : steps[k] = run.steps[k]
       /\ steps[at] = e /\ DOMAIN steps = DOMAIN run.steps \cup {at}
       /\ run.next \in DOMAIN steps
  BY <1>3, <1>6, RunFacts, Appended
<1> HIDE DEF r
<1>12. Grows(run.steps, run'.steps, e)
  BY <1>1, <1>3, <1>6, RunFacts, AppendGrows, RepairGrows
<1> HIDE DEF steps
<1>13. \A k \in DOMAIN run.steps : ~run.steps[k].recovered
  BY <1>1 DEF EarnInv, RecoveryEarned, r
<1>14. \A k \in DOMAIN steps : ~steps[k].recovered
  BY <1>4, <1>11, <1>13
<1>15. Planned(q, Len(run.branch))
  BY <1>1, <1>9 DEF Planned, SameReplan
<1>16. Successful(e) => RecoverySucceeds(run')
  <2>1. SUFFICES ASSUME Successful(e), NEW k \in DOMAIN run'.steps, run'.steps[k].parent # 0
                 PROVE  Successful(run'.steps[k])
    BY DEF RecoverySucceeds
  <2>2. CASE k \in DOMAIN run.steps
    <3>1. SameStep(run'.steps[k], run.steps[k])
      BY <2>2, <1>12 DEF Grows
    <3> QED BY <2>1, <2>2, <3>1, <1>9 DEF SameStep, RecoverySucceeds, Successful
  <2>3. CASE k = at
    <3>1. SameStep(run'.steps[k], e)
      BY <2>3, <1>12 DEF Grows
    <3> QED BY <2>1, <3>1 DEF SameStep, Successful
  <2>4. k \in DOMAIN run.steps \/ k = at
    BY <1>12 DEF Grows
  <2> QED BY <2>2, <2>3, <2>4
<1>17. PlanFollowed'
  <2>1. \A k \in DOMAIN run'.steps :
            run'.steps[k].parent = 0 =>
               /\ Place(run'.steps, k) \in DOMAIN plan'.steps
               /\ run'.steps[k].step = plan'.steps[Place(run'.steps, k)]
    BY <1>4, <1>7, <1>12, FollowedGrows DEF EarnInv
  <2>2. run'.pc = "plan" => run'.next <= Len(plan'.steps) + 1
    <3>1. run.next <= Len(plan.steps) /\ run.next \in Nat /\ Len(plan.steps) \in Nat
      BY <1>8
    <3>2. run.next + 1 <= Len(plan.steps) + 1
      BY <3>1
    <3> QED BY <3>2, <1>1, <1>7
  <2>3. run'.pc = "recovery" => run'.next \in DOMAIN plan'.steps
    BY <1>1, <1>7, <1>8
  <2>4. ~(run'.pc = "done" /\ run'.halt = "none")
    BY <1>1
  <2> QED BY <2>1, <2>2, <2>3, <2>4 DEF PlanFollowed
<1>18. Planned(run.replans[1], Len(run.branch))'
  BY <1>1, <1>7, <1>15 DEF Planned, ExpectedRecovery, q
<1>19. RecoveryEarned(run)'
  <2>1. CASE run'.steps = steps /\ q.status # "success"
    BY <2>1, <1>14 DEF RecoveryEarned, q
  <2>2. CASE /\ Successful(e) /\ i = Len(run.branch) /\ run'.steps = Repaired(steps, run.next)
             /\ q.status = "success"
    <3>1. /\ DOMAIN run'.steps = DOMAIN steps
          /\ \A k \in DOMAIN steps : run'.steps[k].recovered => k = run.next
      <4>1. Len(Repaired(steps, run.next)) = Len(steps) /\ Repaired(steps, run.next) \in Seq(Executed)
        BY <1>11, RepairedSteps
      <4>2. DOMAIN Repaired(steps, run.next) = DOMAIN steps
        BY <4>1, <1>11
      <4>3. \A k \in DOMAIN steps : Repaired(steps, run.next)[k].recovered => k = run.next
        <5>1. \A k \in DOMAIN steps :
                 Repaired(steps, run.next)[k].recovered <=> (k = run.next \/ steps[k].recovered)
          BY <1>11, RepairedSteps
        <5> QED BY <5>1, <1>14, Zenon
      <4> QED BY <4>2, <4>3, <2>2
    <3>2. q.trigger = run.next
      BY <1>1 DEF SameReplan
    <3>3. \A k \in DOMAIN run'.steps :
            run'.steps[k].recovered =>
               run'.replans # <<>> /\ q.status = "success" /\ k = q.trigger
      BY <3>1, <3>2, <2>2, <1>5
    <3>4. Planned(run.replans[1], Len(run.replans[1].steps))'
      <4>1. Len(q.steps) = Len(run'.branch)
        BY <2>2, <1>1, <1>10
      <4> QED BY <4>1, <1>18 DEF q
    <3>5. RecoverySucceeds(run')
      BY <2>2, <1>16
    <3> QED BY <3>3, <3>4, <3>5 DEF RecoveryEarned, q
  <2> QED BY <1>1, <2>1, <2>2
<1> QED BY <1>1, <1>16, <1>17, <1>18, <1>19 DEF EarnInv

LEMMA EarnedEmpty ==
  ASSUME run'.steps = <<>>, run'.replans = <<>>, run'.next = 1, run'.pc # "recovery",
         run'.pc = "done" => run'.halt # "none", plan' = plan, plan \in Plans
  PROVE  EarnInv'
<1>1. DOMAIN run'.steps = {}
  OBVIOUS
<1>2. PlanFollowed'
  <2>1. plan.steps \in Seq(Step)
    BY PlanTypes
  <2>2. 1 <= Len(plan.steps) + 1
    <3>1. Len(plan.steps) \in Nat
      BY <2>1
    <3> QED BY <3>1
  <2> QED BY <1>1, <2>2 DEF PlanFollowed
<1>3. RecoveryEarned(run)'
  BY <1>1 DEF RecoveryEarned
<1> QED BY <1>2, <1>3 DEF EarnInv

LEMMA EarnedInit == AgentInit => EarnInv
<1> SUFFICES ASSUME AgentInit PROVE EarnInv
  OBVIOUS
<1>1. /\ run.steps = <<>> /\ run.replans = <<>> /\ run.pc = "idle"
  BY DEF AgentInit, NoRun
<1>2. DOMAIN run.steps = {}
  BY <1>1
<1>3. PlanFollowed
  BY <1>1, <1>2 DEF PlanFollowed
<1>4. RecoveryEarned(run)
  BY <1>1, <1>2 DEF RecoveryEarned
<1> QED BY <1>1, <1>3, <1>4 DEF EarnInv

LEMMA EarnedNext == AgentInv /\ EarnInv /\ [AgentNext]_agentVars => EarnInv'
<1> SUFFICES ASSUME AgentInv, EarnInv, [AgentNext]_agentVars PROVE EarnInv'
  OBVIOUS
<1>0. plan \in Plans
  BY DEF AgentInv, AgentTypeOK
<1>1. ASSUME NEW mode, NEW decisions, Execute(mode, decisions), UNCHANGED plan
      PROVE  EarnInv'
  <2>1. run' = Started(mode, decisions)
    BY <1>1 DEF Execute
  <2>2. /\ run'.steps = <<>> /\ run'.replans = <<>> /\ run'.next = 1 /\ run'.pc # "recovery"
        /\ run'.pc = "done" => run'.halt # "none"
    BY <2>1 DEF Started, NoRun
  <2> QED BY <1>0, <1>1, <2>2, EarnedEmpty
<1>2. CASE FirstExecution
  BY <1>1, <1>2 DEF FirstExecution
<1>3. CASE \E c \in Checkpoints, decision \in {"approved", "denied"} : ExecuteDecided(c, decision)
  BY <1>1, <1>3 DEF ExecuteDecided
<1>4. CASE ExecuteReplay
  BY <1>1, <1>4 DEF ExecuteReplay
<1>5. CASE PlanStep
  BY <1>5, EarnedPlanStep
<1>6. CASE EndOfPlan
  BY <1>6, EarnedEndOfPlan
<1>7. CASE TakeBranch \/ CallLive \/ LiveFails
  <2>1. \E steps, live, answered : ReplanDoes(steps, live, answered)
    BY <1>7, TakeBranchShape, CallLiveShape, LiveFailsShape
       DEF TakeBranchDoes, CallLiveDoes, LiveFailsDoes
  <2>2. UNCHANGED <<contract, plan>>
    BY <1>7 DEF TakeBranch, CallLive, LiveFails
  <2> QED BY <2>1, <2>2, EarnedReplan
<1>8. CASE GoOn
  BY <1>8, EarnedGoOn
<1>9. CASE RecoveryStep
  BY <1>9, EarnedRecoveryStep
<1>10. CASE EndExecution
  <2>1. run' = NoRun /\ UNCHANGED plan
    BY <1>10 DEF EndExecution
  <2>2. /\ run'.steps = <<>> /\ run'.replans = <<>> /\ run'.next = 1 /\ run'.pc = "idle"
    BY <2>1 DEF NoRun
  <2> QED BY <1>0, <2>1, <2>2, EarnedEmpty
<1>11. CASE UNCHANGED agentVars
  <2>1. UNCHANGED <<contract, plan, run>>
    BY <1>11 DEF agentVars
  <2>2. PlanFollowed'
    BY <2>1 DEF EarnInv, PlanFollowed, Extra
  <2>3. RecoveryEarned(run)'
    BY <2>1 DEF EarnInv, RecoveryEarned, RecoverySucceeds, Planned, ExpectedRecovery
  <2>4. (run.pc = "recovery" => Planned(run.replans[1], Len(run.branch)) /\ RecoverySucceeds(run))'
    BY <2>1 DEF EarnInv, RecoverySucceeds, Planned, ExpectedRecovery
  <2> QED BY <2>2, <2>3, <2>4 DEF EarnInv
<1> QED BY <1>2, <1>3, <1>4, <1>5, <1>6, <1>7, <1>8, <1>9, <1>10, <1>11 DEF AgentNext

\* What an execution that earned its success looks like: SuccessIsEarned, said
\* of the execution x.
EarnedSteps(x) ==
    LET steps == x.steps
        base == {i \in DOMAIN steps : steps[i].parent = 0}
    IN  /\ contract.expected # <<>> =>
             /\ Cardinality(base) = Len(contract.expected)
             /\ \A i \in base :
                   steps[i].step.action = contract.expected[Place(steps, i)].action
        /\ \A i \in base : ~Successful(steps[i]) =>
             LET recovery == {k \in DOMAIN steps : steps[k].parent = Place(steps, i)}
                 expected == ExpectedRecovery(Place(steps, i))
             IN  /\ recovery # {}
                 /\ \A k \in recovery : Successful(steps[k])
                 /\ expected # <<>> => Cardinality(recovery) = Len(expected)

LEMMA BaseSize ==
  ASSUME AgentInv
  PROVE  Cardinality({i \in DOMAIN run.steps : run.steps[i].parent = 0}) = Len(run.steps) - Extra(run)
<1> DEFINE base == {i \in DOMAIN run.steps : run.steps[i].parent = 0}
           r == run.replans[1]
           t == r.trigger
           m == Len(r.steps)
<1>1. \A i \in DOMAIN run.steps : run.steps[i].parent # 0 <=> InRecovery(run, i)
  BY RunFacts, ParentIs
<1>2. PICK n \in Nat : n = Len(run.steps) /\ DOMAIN run.steps = 1..n
  BY RunFacts
<1>3. CASE run.replans = <<>>
  <2>1. base = (0 + 1)..n
    <3>1. \A i : ~InRecovery(run, i)
      BY <1>3 DEF InRecovery
    <3>2. base = DOMAIN run.steps
      BY <3>1, <1>1
    <3> QED BY <3>2, <1>2
  <2>2. Cardinality(base) = n - 0
    <3>1. 0 \in Nat /\ 0 <= n
      BY <1>2
    <3>2. Cardinality((0 + 1)..n) = n - 0
      BY <3>1, <1>2, IntervalSize
    <3> QED BY <3>2, <2>1
  <2> QED BY <2>2, <1>2, <1>3 DEF Extra
<1>4. CASE run.replans # <<>>
  <2>1. r \in Replan /\ t \in DOMAIN run.steps /\ t + m <= Len(run.steps)
    <3>1. Layout(run)
      BY RunFacts
    <3> QED BY <1>4, <3>1, RunFacts DEF Layout
  <2>2. t \in Nat /\ m \in Nat /\ 1 <= t /\ t + m <= n
    BY <2>1, <1>2 DEF Replan
  <2>3. \A i : InRecovery(run, i) <=> (t < i /\ i <= t + m)
    BY <1>4 DEF InRecovery
  <2> HIDE DEF r, t, m
  <2>4. base = (1..t) \cup ((t + m + 1)..n)
    BY <2>2, <2>3, <1>1, <1>2
  <2>5. Cardinality(base) = n - m
    <3>1. Cardinality((1..t) \cup ((t + m + 1)..n)) = n - m
      BY <2>2, <1>2, TwoIntervalsSize
    <3> QED BY <3>1, <2>4
  <2> QED BY <2>5, <1>2, <1>4 DEF Extra, r, m
<1> QED BY <1>3, <1>4

LEMMA RecoverySize ==
  ASSUME AgentInv, run.replans # <<>>
  PROVE  LET r == run.replans[1]
             recovery == {k \in DOMAIN run.steps : run.steps[k].parent = r.trigger}
         IN  /\ Place(run.steps, r.trigger) = r.trigger
             /\ r.trigger # 0 /\ \A k \in recovery : run.steps[k].parent # 0
             /\ Cardinality(recovery) = Len(r.steps)
             /\ Len(r.steps) # 0 => recovery # {}
<1> DEFINE r == run.replans[1]
           t == r.trigger
           m == Len(r.steps)
           recovery == {k \in DOMAIN run.steps : run.steps[k].parent = t}
<1>1. \A i \in DOMAIN run.steps :
         /\ run.steps[i].parent # 0 <=> InRecovery(run, i)
         /\ run.steps[i].parent # 0 => run.steps[i].parent = t
  BY RunFacts, ParentIs
<1>2. PICK n \in Nat : n = Len(run.steps) /\ DOMAIN run.steps = 1..n
  BY RunFacts
<1>3. r \in Replan /\ t \in DOMAIN run.steps /\ t + m <= Len(run.steps)
  <2>1. Layout(run)
    BY RunFacts
  <2> QED BY <2>1, RunFacts DEF Layout
<1>4. t \in Nat /\ m \in Nat /\ 1 <= t /\ t + m <= n
  BY <1>3, <1>2 DEF Replan
<1>5. \A i : InRecovery(run, i) <=> (t < i /\ i <= t + m)
  BY DEF InRecovery
<1>6. Place(run.steps, t) = t
  <2>1. Place(run.steps, t) = PlaceIn(run, t)
    BY <1>3, RunFacts, PlaceIs
  <2>2. t <= run.replans[1].trigger
    BY <1>4
  <2> QED BY <2>1, <2>2 DEF PlaceIn
<1> HIDE DEF r, t, m
<1>7. t # 0 /\ \A k \in recovery : run.steps[k].parent # 0
  BY <1>4
<1>8. recovery = (t + 1)..(t + m)
  <2>1. \A i \in 1..n : i \in recovery <=> (t < i /\ i <= t + m)
    BY <1>1, <1>2, <1>5, <1>7
  <2>2. \A i \in recovery : i \in 1..n
    BY <1>2
  <2>3. \A i \in (t + 1)..(t + m) : i \in 1..n /\ t < i /\ i <= t + m
    BY <1>4
  <2>4. \A i \in 1..n : t < i /\ i <= t + m => i \in (t + 1)..(t + m)
    BY <1>4
  <2> HIDE DEF recovery
  <2> QED BY <2>1, <2>2, <2>3, <2>4
<1> HIDE DEF recovery
<1>9. Cardinality(recovery) = m
  <2>1. t + m \in Nat /\ t <= t + m /\ (t + m) - t = m
    BY <1>4
  <2>2. Cardinality((t + 1)..(t + m)) = (t + m) - t
    BY <2>1, <1>4, IntervalSize
  <2> QED BY <2>1, <2>2, <1>8
<1>10. m # 0 => recovery # {}
  <2>1. m # 0 => t + 1 \in (t + 1)..(t + m)
    BY <1>4
  <2> QED BY <2>1, <1>8
<1> QED BY <1>6, <1>7, <1>9, <1>10 DEF r, t, m, recovery

LEMMA SuccessMeans ==
  ASSUME AgentInv, EarnInv, run.pc = "done", Earned(run)
  PROVE  EarnedSteps(run)
<1> DEFINE base == {i \in DOMAIN run.steps : run.steps[i].parent = 0}
<1>1. plan.steps \in Seq(Step) /\ contract.expected \in Seq(Expected)
  BY PlanTypes, ContractTypes DEF AgentInv, AgentTypeOK
<1>2. \A i \in base : /\ Place(run.steps, i) \in DOMAIN plan.steps
                      /\ run.steps[i].step = plan.steps[Place(run.steps, i)]
  BY DEF EarnInv, PlanFollowed
<1>3. run.halt = "none" /\ PlanValid(run)
      /\ \A i \in DOMAIN run.steps : Successful(run.steps[i]) \/ run.steps[i].recovered
  BY DEF Earned
<1>4. Cardinality(base) = Len(plan.steps)
  BY <1>3, BaseSize DEF EarnInv, PlanFollowed
<1>5. contract.expected # <<>> =>
         /\ Cardinality(base) = Len(contract.expected)
         /\ \A i \in base :
               run.steps[i].step.action = contract.expected[Place(run.steps, i)].action
  <2>1. SUFFICES ASSUME contract.expected # <<>>
                 PROVE  /\ Cardinality(base) = Len(contract.expected)
                        /\ \A i \in base :
                              run.steps[i].step.action = contract.expected[Place(run.steps, i)].action
    OBVIOUS
  <2>2. ActionsOf(plan.steps) = ActionsOf(contract.expected)
    BY <2>1, <1>3 DEF PlanValid
  <2>3. /\ Len(plan.steps) = Len(contract.expected)
        /\ \A p \in DOMAIN plan.steps : plan.steps[p].action = contract.expected[p].action
    BY <1>1, <2>2, SameActions
  <2> QED BY <2>3, <1>2, <1>4
<1>6. ASSUME NEW i \in base, ~Successful(run.steps[i])
      PROVE  LET recovery == {k \in DOMAIN run.steps : run.steps[k].parent = Place(run.steps, i)}
                 expected == ExpectedRecovery(Place(run.steps, i))
             IN  /\ recovery # {}
                 /\ \A k \in recovery : Successful(run.steps[k])
                 /\ expected # <<>> => Cardinality(recovery) = Len(expected)
  <2> DEFINE r == run.replans[1]
             recovery == {k \in DOMAIN run.steps : run.steps[k].parent = r.trigger}
  <2>1. run.steps[i].recovered
    BY <1>3, <1>6
  <2>2. run.replans # <<>> /\ r.status = "success" /\ i = r.trigger
    BY <2>1 DEF EarnInv, RecoveryEarned
  <2>3. Planned(r, Len(r.steps)) /\ RecoverySucceeds(run)
    BY <2>2 DEF EarnInv, RecoveryEarned
  <2>4. /\ Place(run.steps, i) = r.trigger
        /\ \A k \in recovery : run.steps[k].parent # 0
        /\ Cardinality(recovery) = Len(r.steps)
        /\ Len(r.steps) # 0 => recovery # {}
    BY <2>2, RecoverySize
  <2>5. Len(r.steps) # 0
        /\ (ExpectedRecovery(r.trigger) # <<>> => Len(r.steps) = Len(ExpectedRecovery(r.trigger)))
    BY <2>3 DEF Planned
  <2>6. \A k \in recovery : Successful(run.steps[k])
    BY <2>3, <2>4 DEF RecoverySucceeds
  <2> HIDE DEF r
  <2> QED BY <2>4, <2>5, <2>6
<1> QED BY <1>5, <1>6 DEF EarnedSteps

LEMMA SuccessNext ==
  AgentInv /\ EarnInv /\ SuccessIsEarned /\ [AgentNext]_agentVars => SuccessIsEarned'
<1> SUFFICES ASSUME AgentInv, EarnInv, SuccessIsEarned, [AgentNext]_agentVars
             PROVE  SuccessIsEarned'
  OBVIOUS
<1>1. contract' = contract
  BY DEF AgentNext, agentVars, FirstExecution, ExecuteDecided, ExecuteReplay, PlanStep, EndOfPlan,
         TakeBranch, CallLive, LiveFails, GoOn, RecoveryStep, EndExecution
<1>2. CASE trace' = trace
  <2>1. SuccessIsEarned <=> (trace.status = "success" => EarnedSteps(trace))
    BY DEF SuccessIsEarned, EarnedSteps
  <2>2. SuccessIsEarned' <=> (trace'.status = "success" => EarnedSteps(trace)')
    BY DEF SuccessIsEarned, EarnedSteps
  <2>3. EarnedSteps(trace)' <=> EarnedSteps(trace)
    BY <1>1, <1>2 DEF EarnedSteps, ExpectedRecovery, Place
  <2> QED BY <2>1, <2>2, <2>3, <1>2
<1>3. CASE EndExecution /\ trace' # trace
  <2>1. run.pc = "done" /\ trace'.steps = run.steps /\ trace'.status = Verdict(run)
    BY <1>3 DEF EndExecution
  <2>2. SUFFICES ASSUME trace'.status = "success" PROVE SuccessIsEarned'
    BY DEF SuccessIsEarned
  <2>3. Earned(run)
    <3>1. Verdict(run) = "success"
      BY <2>1, <2>2
    <3> QED BY <3>1 DEF Verdict
  <2>4. EarnedSteps(run)
    BY <2>1, <2>3, SuccessMeans
  <2> QED BY <2>1, <2>4, <1>1 DEF EarnedSteps, SuccessIsEarned, ExpectedRecovery
<1>4. trace' = trace \/ EndExecution
  BY DEF AgentNext, agentVars, FirstExecution, ExecuteDecided, ExecuteReplay, PlanStep, EndOfPlan,
         TakeBranch, CallLive, LiveFails, GoOn, RecoveryStep
<1> QED BY <1>2, <1>3, <1>4

\* A trace that execute_agent_plan calls a success performed exactly the steps
\* its contract expects, in their order, and each failure was made up for by a
\* recovery that succeeded to its last step and is as long as the contract's.
THEOREM SuccessEarned == AgentSpec => []SuccessIsEarned
<1>1. AgentInit => EarnInv /\ SuccessIsEarned
  <2>1. AgentInit => SuccessIsEarned
    BY DEF AgentInit, NoTrace, SuccessIsEarned
  <2> QED BY <2>1, EarnedInit
<1>2. AgentInv /\ EarnInv /\ SuccessIsEarned /\ [AgentNext]_agentVars => (EarnInv /\ SuccessIsEarned)'
  BY EarnedNext, SuccessNext
<1> QED BY <1>1, <1>2, AgentInvariant, PTL DEF AgentSpec

-----------------------------------------------------------------------------
(***************************************************************************)
(* Executing a plan again agrees.  What an execution did is determined by  *)
(* the plan, the contract, the decisions and what a live model answered;   *)
(* hence two executions that are over agree step by step as long as these  *)
(* do.  The first step at which they differ leads to a contradiction.      *)
(***************************************************************************)

Event(x) == x.replans[1]

Fits(p, steps) ==
    ExpectedRecovery(p) = <<>> \/ ActionsOf(steps) = ActionsOf(ExpectedRecovery(p))

\* Matching, for a failure of the plan's step p.
MatchingAt(p, error) ==
    {b \in plan.branches : b.trigger = p /\ (b.on = {} \/ error \in b.on)}

\* The ways a replan event ends without a step.
NoRecovery(r, halt) ==
    \/ r.live /\ r.status = "callback_error" /\ halt = "live_replan_callback_error"
    \/ r.live /\ r.status = "no_recovery" /\ halt = "live_replan_no_recovery" /\ r.planned = 0
    \/ r.live /\ r.status = "limit_exceeded" /\ halt = "recovery_step_limit_exceeded"
    \/ r.status = "policy_violation" /\ halt = "recovery_sequence_violation"

\* The event answers the failure of the step at its trigger, by a branch of
\* the plan if one matches, and its steps are those of the recovery branch.
Answered(x, branch) ==
    LET r == Event(x) IN
    /\ contract.replan_limit = 1
    /\ x.steps[r.trigger].status = "failed" /\ r.error = x.steps[r.trigger].step.error
    /\ r.live => MatchingAt(r.trigger, r.error) = {} /\ contract.live
    /\ ~r.live =>
          \E b \in MatchingAt(r.trigger, r.error) :
             /\ r.planned = Len(b.steps)
             /\ r.match <=> Fits(r.trigger, b.steps)
             /\ r.match => branch = b.steps
    /\ r.match =>
          /\ branch \in Seq(Step) /\ branch # <<>>
          /\ r.planned = Len(branch) /\ Fits(r.trigger, branch)
          /\ r.live => Len(branch) <= contract.recovery_limit
          /\ Len(r.steps) <= Len(branch)
          /\ \A j \in 1..Len(r.steps) : x.steps[r.trigger + j].step = branch[j]
          /\ r.status \in {"running", "success", "failed"}
          /\ r.status = "success" => Len(r.steps) = Len(branch)
    /\ ~r.match =>
          Len(r.steps) = 0 /\ Len(x.steps) = r.trigger /\ NoRecovery(r, x.halt)

ReplanOf(x, branch) == x.replans # <<>> => Answered(x, branch)

Completed(x) == x.replans # <<>> => Event(x).match /\ Event(x).status = "success"

\* The plan's failed steps up to position n that no replan event answers: there
\* was no budget, or nothing to answer with.
PassedOver(x, k) ==
    \/ contract.replan_limit = 0
    \/ x.replans # <<>> /\ Event(x).trigger < k
    \/ MatchingAt(Place(x.steps, k), x.steps[k].step.error) = {} /\ ~contract.live

Decided(x, n) ==
    \A k \in 1..n :
       /\ x.steps[k].parent = 0 /\ x.steps[k].status = "failed"
       /\ x.replans # <<>> => Event(x).trigger # k
       => PassedOver(x, k)

\* Up to position n nothing halted the execution.
Halting(e) ==
    e.status \in {"pending", "denied", "policy_violation"} \/ (e.parent # 0 /\ ~Successful(e))

Unhalted(x, n) == \A k \in 1..n : ~Halting(x.steps[k])

\* The step that a completed recovery makes up for.
RecoveredIs(x) ==
    \A k \in DOMAIN x.steps :
       x.steps[k].recovered <=>
          x.replans # <<>> /\ Event(x).status = "success" /\ k = Event(x).trigger

Followed(x) ==
    \A k \in DOMAIN x.steps :
       x.steps[k].parent = 0 =>
          Place(x.steps, k) \in DOMAIN plan.steps /\ x.steps[k].step = plan.steps[Place(x.steps, k)]

\* How an execution ends.
EndRefused(x) ==
    Refused /\ x.steps = <<>> /\ x.replans = <<>> /\ x.halt = "limit_exceeded"

EndHalted(x) ==
    LET e == x.steps[Len(x.steps)] IN
    /\ ~Refused /\ Completed(x) /\ Len(x.steps) # 0 /\ e.parent = 0
    /\ \/ e.status = "pending" /\ x.halt = "approval_pending"
       \/ e.status = "denied" /\ x.halt = "approval_denied"
       \/ e.status = "policy_violation" /\ x.halt = "policy_violation"

EndUnanswered(x) == ~Refused /\ x.replans # <<>> /\ ~Event(x).match

EndUnrecovered(x) ==
    LET e == x.steps[Len(x.steps)] IN
    /\ ~Refused /\ x.replans # <<>> /\ Event(x).match /\ Event(x).status = "failed"
    /\ Len(x.steps) # 0 /\ e.parent # 0 /\ ~Successful(e) /\ x.halt = "recovery_failed"

EndOfSteps(x) ==
    /\ ~Refused /\ Completed(x) /\ x.halt = "none"
    /\ Len(x.steps) - Extra(x) = Len(plan.steps)
    /\ Unhalted(x, Len(x.steps))

IsOver(x) ==
    \/ EndRefused(x) \/ EndHalted(x) \/ EndUnanswered(x) \/ EndUnrecovered(x) \/ EndOfSteps(x)

\* An execution that is over, whose recovery was branch.
Whole(x, branch) ==
    /\ x.steps \in Seq(Executed) /\ x.replans \in Seq(Replan) /\ Layout(x)
    /\ Followed(x) /\ ReplanOf(x, branch) /\ RecoveredIs(x)
    /\ Decided(x, Len(x.steps)) /\ Unhalted(x, Len(x.steps) - 1)
    /\ IsOver(x)

\* Every step has the status that its checks and the decisions give it.
Prior(s, k) == [j \in 1..(k - 1) |-> s[j]]

ExpectedOf(s, k) ==
    ExpectedAt(IF s[k].parent = 0 THEN contract.expected ELSE ExpectedRecovery(s[k].parent),
               Place(s, k))

StatusesFollow(s, decisions) ==
    \A k \in DOMAIN s :
       s[k].status = StatusOf(Prior(s, k), decisions, s[k].step, ExpectedOf(s, k))

-----------------------------------------------------------------------------

LEMMA WholeNumbers ==
  ASSUME NEW x, NEW branch, Whole(x, branch)
  PROVE  /\ Len(x.steps) \in Nat /\ DOMAIN x.steps = 1..Len(x.steps)
         /\ \A k \in DOMAIN x.steps : x.steps[k] \in Executed
         /\ x.replans # <<>> =>
               /\ Event(x) \in Replan /\ Len(x.replans) = 1
               /\ Event(x).trigger \in Nat \ {0} /\ Len(Event(x).steps) \in Nat
               /\ Event(x).trigger + Len(Event(x).steps) <= Len(x.steps)
               /\ x.steps[Event(x).trigger].parent = 0
               /\ Place(x.steps, Event(x).trigger) = Event(x).trigger
         /\ \A k \in DOMAIN x.steps :
               /\ x.steps[k].parent # 0 <=>
                     /\ x.replans # <<>> /\ Event(x).trigger < k
                     /\ k <= Event(x).trigger + Len(Event(x).steps)
               /\ x.steps[k].parent # 0 => x.steps[k].parent = Event(x).trigger
<1>1. x.steps \in Seq(Executed) /\ x.replans \in Seq(Replan) /\ Layout(x)
  BY DEF Whole
<1>2. /\ Len(x.steps) \in Nat /\ DOMAIN x.steps = 1..Len(x.steps)
      /\ \A k \in DOMAIN x.steps : x.steps[k] \in Executed
  BY <1>1
<1>3. \A k \in DOMAIN x.steps :
         /\ x.steps[k].parent # 0 <=>
               /\ x.replans # <<>> /\ Event(x).trigger < k
               /\ k <= Event(x).trigger + Len(Event(x).steps)
         /\ x.steps[k].parent # 0 => x.steps[k].parent = Event(x).trigger
  BY <1>1, ParentIs DEF Event, InRecovery
<1>4. ASSUME x.replans # <<>>
      PROVE  /\ Event(x) \in Replan /\ Len(x.replans) = 1
             /\ Event(x).trigger \in Nat \ {0} /\ Len(Event(x).steps) \in Nat
             /\ Event(x).trigger + Len(Event(x).steps) <= Len(x.steps)
             /\ x.steps[Event(x).trigger].parent = 0
             /\ Place(x.steps, Event(x).trigger) = Event(x).trigger
  <2>1. Event(x) \in Replan /\ Len(x.replans) = 1
    BY <1>1, <1>4, OneReplan DEF Layout, Event
  <2>2. Event(x).trigger \in DOMAIN x.steps
        /\ Event(x).trigger + Len(Event(x).steps) <= Len(x.steps)
    BY <1>1, <1>4 DEF Layout, Event
  <2>3. Event(x).trigger \in Nat \ {0} /\ Len(Event(x).steps) \in Nat
    BY <2>1, <2>2, <1>2 DEF Replan
  <2>4. x.steps[Event(x).trigger].parent = 0
    BY <1>3, <2>2, <2>3
  <2>5. Place(x.steps, Event(x).trigger) = Event(x).trigger
    <3>1. Place(x.steps, Event(x).trigger) = PlaceIn(x, Event(x).trigger)
      BY <1>1, <2>2, PlaceIs
    <3>2. Event(x).trigger <= x.replans[1].trigger
      BY <2>3 DEF Event
    <3> QED BY <3>1, <3>2 DEF PlaceIn
  <2> QED BY <2>1, <2>2, <2>3, <2>4, <2>5
<1> QED BY <1>2, <1>3, <1>4

\* An event that matched has executed a step of its recovery.
LEMMA RecoveryBegan ==
  ASSUME NEW x, NEW branch, Whole(x, branch), x.replans # <<>>, Event(x).match
  PROVE  /\ Len(Event(x).steps) # 0
         /\ Event(x).status # "failed" => Event(x).status = "success"
         /\ Event(x).status = "failed" =>
               Len(x.steps) = Event(x).trigger + Len(Event(x).steps)
<1>1. Answered(x, branch)
  BY DEF Whole, ReplanOf
<1>2. EndHalted(x) \/ EndUnrecovered(x) \/ EndOfSteps(x)
  BY DEF Whole, IsOver, EndRefused, EndUnanswered
<1>3. CASE Completed(x)
  <2>1. Event(x).status = "success"
    BY <1>3 DEF Completed
  <2>2. branch \in Seq(Step) /\ branch # <<>> /\ Len(Event(x).steps) = Len(branch)
    BY <1>1, <2>1 DEF Answered
  <2> QED BY <2>1, <2>2
<1>4. CASE EndUnrecovered(x)
  <2>1. Event(x).status = "failed" /\ Len(x.steps) # 0 /\ x.steps[Len(x.steps)].parent # 0
    BY <1>4 DEF EndUnrecovered
  <2>2. PICK n \in Nat, t \in Nat, m \in Nat :
           n = Len(x.steps) /\ t = Event(x).trigger /\ m = Len(Event(x).steps)
    BY WholeNumbers
  <2>3. n \in DOMAIN x.steps /\ t + m <= n
    BY <2>1, <2>2, WholeNumbers
  <2>4. t < n /\ n <= t + m
    BY <2>1, <2>2, <2>3, WholeNumbers
  <2>5. m # 0 /\ n = t + m
    BY <2>2, <2>3, <2>4
  <2> QED BY <2>1, <2>2, <2>5
<1> QED BY <1>2, <1>3, <1>4 DEF EndHalted, EndOfSteps

\* The executions x and y agree on the steps before position k.
Agree(x, y, k) ==
    \A j \in 1..(k - 1) : j \in DOMAIN x.steps /\ j \in DOMAIN y.steps /\ SameStep(y.steps[j], x.steps[j])

\* Their events have the same recovery, or both none.
SameRecovery(x, bx, y, by) == (Event(x).match <=> Event(y).match) /\ (Event(x).match => bx = by)

\* If a live model answered both before position k, it did so alike.
SameAnswer(x, bx, y, by, k) ==
    /\ x.replans # <<>> /\ y.replans # <<>> /\ Event(x).trigger = Event(y).trigger
    /\ Event(x).trigger < k /\ Event(x).live /\ Event(y).live
    => SameRecovery(x, bx, y, by)

LEMMA Symmetric ==
  ASSUME NEW x, NEW y, NEW bx, NEW by, NEW k
  PROVE  /\ Agree(x, y, k) => Agree(y, x, k)
         /\ SameAnswer(x, bx, y, by, k) => SameAnswer(y, by, x, bx, k)
         /\ SameRecovery(x, bx, y, by) => SameRecovery(y, by, x, bx)
BY DEF Agree, SameAnswer, SameRecovery, SameStep

LEMMA TriggerShared ==
  ASSUME NEW x, NEW y, NEW bx, NEW by, NEW k \in Nat, Whole(x, bx), Whole(y, by), Agree(x, y, k),
         x.replans # <<>>, Event(x).trigger < k
  PROVE  /\ y.replans # <<>> /\ Event(y).trigger = Event(x).trigger
         /\ Event(y).error = Event(x).error /\ (Event(y).live <=> Event(x).live)
<1>1. PICK t \in Nat \ {0} : t = Event(x).trigger /\ t < k /\ t \in 1..(k - 1)
  BY WholeNumbers
<1>2. t \in DOMAIN x.steps /\ t \in DOMAIN y.steps /\ SameStep(y.steps[t], x.steps[t])
  BY <1>1 DEF Agree
<1>3. Answered(x, bx)
  BY DEF Whole, ReplanOf
<1>4. x.steps[t].status = "failed" /\ x.steps[t].parent = 0 /\ Place(x.steps, t) = t
      /\ Event(x).error = x.steps[t].step.error
  BY <1>1, <1>3, WholeNumbers DEF Answered
<1>5. y.steps[t].status = "failed" /\ y.steps[t].parent = 0
      /\ y.steps[t].step.error = Event(x).error
  BY <1>2, <1>4 DEF SameStep
<1>6. Place(y.steps, t) = t
  <2>1. \A j \in 1..t : y.steps[j].parent = x.steps[j].parent
    BY <1>1 DEF Agree, SameStep
  <2>2. t \in 1..t
    BY <1>1
  <2>3. {j \in 1..t : y.steps[j].parent = y.steps[t].parent}
          = {j \in 1..t : x.steps[j].parent = x.steps[t].parent}
    BY <2>1, <2>2
  <2> QED BY <2>3, <1>4 DEF Place
<1>7. y.replans # <<>> /\ Event(y).trigger = t
  <2>1. SUFFICES ASSUME ~(y.replans # <<>> /\ Event(y).trigger = t) PROVE FALSE
    OBVIOUS
  <2>2. PassedOver(y, t)
    <3>1. Decided(y, Len(y.steps)) /\ t \in 1..Len(y.steps)
      BY <1>2, WholeNumbers DEF Whole
    <3> QED BY <3>1, <1>5, <2>1 DEF Decided
  <2>3. contract.replan_limit = 1
    BY <1>3 DEF Answered
  <2>4. ~(MatchingAt(t, Event(x).error) = {} /\ ~contract.live)
    BY <1>1, <1>3 DEF Answered
  <2>5. y.replans # <<>> /\ Event(y).trigger < t
    BY <2>2, <2>3, <2>4, <1>5, <1>6 DEF PassedOver
  <2>6. PICK u \in Nat \ {0}, m \in Nat, n \in Nat :
           u = Event(y).trigger /\ m = Len(Event(y).steps) /\ n = Len(y.steps) /\ u + m <= n
    BY <2>5, WholeNumbers
  <2>7. u < t /\ t <= n
    BY <2>5, <2>6, <1>2, WholeNumbers
  <2>8. Event(y).match
    <3>1. Answered(y, by)
      BY <2>5 DEF Whole, ReplanOf
    <3>2. ~Event(y).match => n = u
      BY <3>1, <2>6 DEF Answered
    <3> QED BY <3>2, <2>7
  <2>9. m # 0
    BY <2>5, <2>6, <2>8, RecoveryBegan
  <2>10. u + 1 \in DOMAIN y.steps /\ u + 1 \in 1..(k - 1) /\ u < u + 1 /\ u + 1 <= u + m
    BY <2>6, <2>7, <2>9, <1>1, WholeNumbers
  <2>11. y.steps[u + 1].parent # 0
    BY <2>5, <2>6, <2>10, WholeNumbers
  <2>12. u + 1 \in DOMAIN x.steps /\ x.steps[u + 1].parent # 0
    BY <2>10, <2>11 DEF Agree, SameStep
  <2>13. t < u + 1
    BY <2>12, <1>1, WholeNumbers
  <2> QED BY <2>13, <2>7, <2>6, <1>1
<1>8. Answered(y, by)
  BY <1>7 DEF Whole, ReplanOf
<1>9. Event(y).error = Event(x).error
  BY <1>5, <1>7, <1>8 DEF Answered
<1>10. Event(y).live <=> Event(x).live
  <2>1. Event(y).live => MatchingAt(t, Event(x).error) = {}
    BY <1>7, <1>8, <1>9 DEF Answered
  <2>2. ~Event(y).live => MatchingAt(t, Event(x).error) # {}
    BY <1>7, <1>8, <1>9 DEF Answered
  <2>3. Event(x).live => MatchingAt(t, Event(x).error) = {}
    BY <1>1, <1>3 DEF Answered
  <2>4. ~Event(x).live => MatchingAt(t, Event(x).error) # {}
    BY <1>1, <1>3 DEF Answered
  <2> QED BY <2>1, <2>2, <2>3, <2>4
<1> QED BY <1>1, <1>7, <1>9, <1>10

\* At most one branch of the plan matches a failure.
LEMMA OneBranch ==
  ASSUME ~Refused, NEW p, NEW error, NEW b \in MatchingAt(p, error), NEW d \in MatchingAt(p, error)
  PROVE  b = d
BY DEF Refused, Overlap, MatchingAt

LEMMA RecoveryShared ==
  ASSUME NEW x, NEW y, NEW bx, NEW by, NEW k \in Nat, Whole(x, bx), Whole(y, by), Agree(x, y, k),
         SameAnswer(x, bx, y, by, k), x.replans # <<>>, Event(x).trigger < k
  PROVE  /\ y.replans # <<>> /\ Event(y).trigger = Event(x).trigger
         /\ SameRecovery(x, bx, y, by)
<1>1. /\ y.replans # <<>> /\ Event(y).trigger = Event(x).trigger
      /\ Event(y).error = Event(x).error /\ (Event(y).live <=> Event(x).live)
  BY TriggerShared
<1>2. CASE Event(x).live
  BY <1>1, <1>2 DEF SameAnswer
<1>3. CASE ~Event(x).live
  <2>1. Answered(x, bx) /\ Answered(y, by)
    BY <1>1 DEF Whole, ReplanOf
  <2>2. ~Refused
    BY DEF Whole, IsOver, EndRefused, EndHalted, EndUnanswered, EndUnrecovered, EndOfSteps
  <2>3. PICK b \in MatchingAt(Event(x).trigger, Event(x).error) :
           (Event(x).match <=> Fits(Event(x).trigger, b.steps)) /\ (Event(x).match => bx = b.steps)
    BY <1>3, <2>1 DEF Answered
  <2>4. PICK d \in MatchingAt(Event(x).trigger, Event(x).error) :
           (Event(y).match <=> Fits(Event(x).trigger, d.steps)) /\ (Event(y).match => by = d.steps)
    BY <1>1, <1>3, <2>1 DEF Answered
  <2>5. b = d
    BY <2>2, OneBranch
  <2> QED BY <1>1, <2>3, <2>4, <2>5 DEF SameRecovery
<1> QED BY <1>1, <1>2, <1>3
\* Which way an execution ended when it was refused, or its recovery did not begin.
LEMMA Endings ==
  ASSUME NEW x, NEW branch, Whole(x, branch)
  PROVE  /\ Refused => EndRefused(x)
         /\ ~Refused => ~EndRefused(x)
         /\ Completed(x) /\ ~Refused => EndHalted(x) \/ EndOfSteps(x)
         /\ x.replans # <<>> => ~Refused /\ Answered(x, branch)
         /\ x.replans # <<>> /\ ~Event(x).match =>
               Len(Event(x).steps) = 0 /\ Len(x.steps) = Event(x).trigger
<1>1. IsOver(x) /\ ReplanOf(x, branch)
  BY DEF Whole
<1>2. Refused => EndRefused(x)
  BY <1>1 DEF IsOver, EndHalted, EndUnanswered, EndUnrecovered, EndOfSteps
<1>3. ~Refused => ~EndRefused(x)
  BY DEF EndRefused
<1>4. x.replans # <<>> => ~Refused /\ Answered(x, branch)
  BY <1>1, <1>2 DEF ReplanOf, EndRefused
<1>5. Completed(x) /\ ~Refused => EndHalted(x) \/ EndOfSteps(x)
  <2> SUFFICES ASSUME Completed(x), ~Refused PROVE EndHalted(x) \/ EndOfSteps(x)
    OBVIOUS
  <2>1. ~EndUnanswered(x)
    BY DEF Completed, EndUnanswered
  <2>2. ~EndUnrecovered(x)
    BY DEF Completed, EndUnrecovered
  <2> QED BY <1>1, <1>3, <2>1, <2>2 DEF IsOver
<1>6. x.replans # <<>> /\ ~Event(x).match =>
         Len(Event(x).steps) = 0 /\ Len(x.steps) = Event(x).trigger
  BY <1>4 DEF Answered
<1> QED BY <1>2, <1>3, <1>4, <1>5, <1>6

\* An execution does not end before the other goes on.
LEMMA NoEarlyEnd ==
  ASSUME NEW x, NEW y, NEW bx, NEW by, NEW k \in Nat \ {0}, Whole(x, bx), Whole(y, by),
         Agree(x, y, k), SameAnswer(x, bx, y, by, k), k \in DOMAIN x.steps, Len(y.steps) = k - 1,
         plan \in Plans
  PROVE  FALSE
<1>1. PICK n \in Nat : n = Len(x.steps) /\ k <= n
  BY WholeNumbers
<1>2. Agree(y, x, k) /\ SameAnswer(y, by, x, bx, k)
  BY Symmetric
<1>3. ~EndRefused(y)
  <2>1. x.steps # <<>>
    BY <1>1
  <2> QED BY <2>1, Endings DEF EndRefused
<1>4. Len(y.steps) # 0 => ~Halting(y.steps[Len(y.steps)])
  <2>1. SUFFICES ASSUME k - 1 # 0, Halting(y.steps[k - 1]) PROVE FALSE
    OBVIOUS
  <2>2. k - 1 \in 1..(k - 1) /\ k - 1 \in 1..(n - 1)
    BY <1>1, <2>1
  <2>3. Halting(x.steps[k - 1])
    BY <2>1, <2>2 DEF Agree, SameStep, Halting, Successful
  <2> QED BY <2>2, <2>3, <1>1 DEF Whole, Unhalted
<1>5. ~EndHalted(y) /\ ~EndUnrecovered(y)
  BY <1>4 DEF EndHalted, EndUnrecovered, Halting
<1>6. ~EndUnanswered(y)
  <2>1. SUFFICES ASSUME y.replans # <<>>, ~Event(y).match PROVE FALSE
    BY DEF EndUnanswered
  <2>2. Event(y).trigger = k - 1
    BY <2>1, Endings
  <2>3. Event(y).trigger < k
    BY <2>2
  <2>4. x.replans # <<>> /\ Event(x).trigger = Event(y).trigger /\ SameRecovery(y, by, x, bx)
    BY <2>1, <2>3, <1>2, RecoveryShared
  <2>5. Len(x.steps) = k - 1
    BY <2>1, <2>2, <2>4, Endings DEF SameRecovery
  <2> QED BY <2>5, <1>1
<1>7. EndOfSteps(y)
  BY <1>3, <1>5, <1>6 DEF Whole, IsOver
<1>8. PICK l \in Nat : l = Len(plan.steps) /\ DOMAIN plan.steps = 1..l
  BY PlanTypes
<1>9. x.steps[k].parent = 0 => PlaceIn(x, k) \in 1..l
  <2>1. PlaceIn(x, k) = Place(x.steps, k)
    BY PlaceIs DEF Whole
  <2> QED BY <2>1, <1>8 DEF Whole, Followed
<1>10. CASE y.replans = <<>>
  <2>1. l = k - 1
    BY <1>7, <1>8, <1>10 DEF EndOfSteps, Extra
  <2>2. x.replans = <<>> \/ ~(Event(x).trigger < k)
    BY <1>10, TriggerShared
  <2>3. x.steps[k].parent = 0
    BY <2>2, WholeNumbers
  <2>4. x.replans = <<>> \/ k <= x.replans[1].trigger
    BY <2>2, WholeNumbers DEF Event
  <2>5. PlaceIn(x, k) = k
    BY <2>4 DEF PlaceIn
  <2> QED BY <2>1, <2>3, <2>5, <1>9
<1>11. CASE y.replans # <<>>
  <2>1. PICK t \in Nat \ {0}, m \in Nat :
           t = Event(y).trigger /\ m = Len(Event(y).steps) /\ t + m <= k - 1
    BY <1>11, WholeNumbers
  <2>2. t < k
    BY <2>1
  <2>3. Event(y).match /\ Event(y).status = "success"
    BY <1>7, <1>11 DEF EndOfSteps, Completed
  <2>4. x.replans # <<>> /\ Event(x).trigger = t /\ Event(x).match /\ bx = by
    BY <2>1, <2>2, <2>3, <1>2, <1>11, RecoveryShared DEF SameRecovery
  <2>5. PICK o \in Nat : o = Len(Event(x).steps)
    BY <2>4, WholeNumbers
  <2>6. o <= m
    <3>1. m = Len(by)
      BY <2>1, <2>3, <1>11, Endings DEF Answered
    <3>2. o <= Len(bx)
      BY <2>4, <2>5, Endings DEF Answered
    <3> QED BY <2>4, <3>1, <3>2
  <2>7. x.steps[k].parent = 0
    BY <2>1, <2>4, <2>5, <2>6, WholeNumbers
  <2>8. PlaceIn(x, k) = k - o
    <3> DEFINE u == x.replans[1].trigger
               v == Len(x.replans[1].steps)
    <3>3. u = t /\ v = o
      BY <2>4, <2>5 DEF Event
    <3>4. ~(k <= u + v)
      <4> HIDE DEF u, v
      <4> QED BY <2>1, <2>6, <3>3
    <3>1. ~InRecovery(x, k)
      BY <3>4 DEF InRecovery
    <3>2. ~(k <= x.replans[1].trigger)
      BY <2>2, <2>4 DEF Event
    <3> QED BY <3>1, <3>2, <2>4, <2>5 DEF PlaceIn, Event
  <2>9. l = (k - 1) - m
    BY <1>7, <1>8, <1>11, <2>1 DEF EndOfSteps, Extra, Event
  <2> QED BY <2>1, <2>6, <2>7, <2>8, <2>9, <1>9
<1> QED BY <1>10, <1>11

LEMMA ParentFollows ==
  ASSUME NEW x, NEW y, NEW bx, NEW by, NEW k \in Nat \ {0}, Whole(x, bx), Whole(y, by),
         Agree(x, y, k), SameAnswer(x, bx, y, by, k), k \in DOMAIN x.steps, k \in DOMAIN y.steps,
         x.steps[k].parent # 0
  PROVE  /\ y.steps[k].parent = x.steps[k].parent
         /\ Event(x).trigger < k /\ x.steps[k].parent = Event(x).trigger
         /\ Event(y).trigger = Event(x).trigger /\ x.replans # <<>> /\ y.replans # <<>>
         /\ Event(x).match /\ Event(y).match /\ bx = by
<1>1. /\ x.replans # <<>> /\ Event(x).trigger < k /\ x.steps[k].parent = Event(x).trigger
      /\ k <= Event(x).trigger + Len(Event(x).steps)
  BY WholeNumbers
<1>2. PICK t \in Nat \ {0}, m \in Nat : t = Event(x).trigger /\ m = Len(Event(x).steps)
  BY <1>1, WholeNumbers
<1>3. Event(x).match
  BY <1>1, <1>2, Endings
<1>4. y.replans # <<>> /\ Event(y).trigger = t /\ Event(y).match /\ bx = by
  BY <1>1, <1>2, <1>3, RecoveryShared DEF SameRecovery
<1>5. y.steps[k].parent # 0
  <2>1. SUFFICES ASSUME y.steps[k].parent = 0 PROVE FALSE
    OBVIOUS
  <2>2. PICK o \in Nat, n \in Nat : o = Len(Event(y).steps) /\ n = Len(y.steps) /\ k <= n
    BY <1>4, WholeNumbers
  <2>3. t + o < k
    BY <2>1, <2>2, <1>1, <1>2, <1>4, WholeNumbers
  <2>4. Event(y).status = "success"
    <3>1. Event(y).status = "failed" => n = t + o
      BY <1>4, <2>2, RecoveryBegan
    <3>2. Event(y).status # "failed" => Event(y).status = "success"
      BY <1>4, RecoveryBegan
    <3> QED BY <3>1, <3>2, <2>2, <2>3
  <2>5. o = Len(by)
    BY <1>4, <2>2, <2>4, Endings DEF Answered
  <2>6. m <= Len(bx)
    BY <1>1, <1>2, <1>3, Endings DEF Answered
  <2> QED BY <1>1, <1>2, <1>4, <2>3, <2>5, <2>6
<1>6. y.steps[k].parent = t
  BY <1>4, <1>5, WholeNumbers
<1> QED BY <1>1, <1>2, <1>3, <1>4, <1>6
\* What the checks say of a step depends on the steps and the statuses before it.
LEMMA SameChecks ==
  ASSUME NEW n \in Nat, NEW p, NEW q, DOMAIN p = 1..n, DOMAIN q = 1..n,
         \A j \in 1..n : q[j].step = p[j].step /\ q[j].status = p[j].status,
         NEW step, NEW expected
  PROVE  Violates(p, step, expected) <=> Violates(q, step, expected)
<1>1. ApprovedIn(p) = ApprovedIn(q)
  BY DEF ApprovedIn
<1>2. {j \in DOMAIN p : p[j].step.action = step.action}
        = {j \in DOMAIN q : q[j].step.action = step.action}
  OBVIOUS
<1> QED BY <1>1, <1>2 DEF Violates

LEMMA ParentShared ==
  ASSUME NEW x, NEW y, NEW bx, NEW by, NEW k \in Nat \ {0}, Whole(x, bx), Whole(y, by),
         Agree(x, y, k), SameAnswer(x, bx, y, by, k), k \in DOMAIN x.steps, k \in DOMAIN y.steps
  PROVE  y.steps[k].parent = x.steps[k].parent /\ Place(y.steps, k) = Place(x.steps, k)
<1>1. Agree(y, x, k) /\ SameAnswer(y, by, x, bx, k)
  BY Symmetric
<1>2. y.steps[k].parent = x.steps[k].parent
  <2>1. x.steps[k].parent # 0 => y.steps[k].parent = x.steps[k].parent
    BY ParentFollows
  <2>2. y.steps[k].parent # 0 => x.steps[k].parent = y.steps[k].parent
    BY <1>1, ParentFollows
  <2> QED BY <2>1, <2>2
<1>3. \A j \in 1..k : y.steps[j].parent = x.steps[j].parent
  <2>1. \A j \in 1..k : j = k \/ j \in 1..(k - 1)
    OBVIOUS
  <2> QED BY <2>1, <1>2 DEF Agree, SameStep
<1>4. {j \in 1..k : y.steps[j].parent = y.steps[k].parent}
        = {j \in 1..k : x.steps[j].parent = x.steps[k].parent}
  BY <1>2, <1>3
<1> QED BY <1>2, <1>4 DEF Place

LEMMA SameNext ==
  ASSUME NEW x, NEW y, NEW bx, NEW by, NEW k \in Nat \ {0}, Whole(x, bx), Whole(y, by),
         Agree(x, y, k), SameAnswer(x, bx, y, by, k), k \in DOMAIN x.steps, k \in DOMAIN y.steps,
         NEW dx \in [Checkpoints -> Decisions], NEW dy,
         StatusesFollow(x.steps, dx), StatusesFollow(y.steps, dy),
         x.steps[k].step.action = "approval_checkpoint" /\ x.steps[k].status # "policy_violation"
            => dy[x.steps[k].step.gate] = x.steps[k].status
  PROVE  SameStep(y.steps[k], x.steps[k])
<1>1. y.steps[k].parent = x.steps[k].parent /\ Place(y.steps, k) = Place(x.steps, k)
  BY ParentShared
<1>2. y.steps[k].step = x.steps[k].step
  <2>1. CASE x.steps[k].parent = 0
    BY <1>1, <2>1 DEF Whole, Followed
  <2>2. CASE x.steps[k].parent # 0
    <3>1. /\ Event(x).trigger < k /\ x.replans # <<>> /\ y.replans # <<>>
          /\ Event(y).trigger = Event(x).trigger
          /\ Event(x).match /\ Event(y).match /\ bx = by
      BY <2>2, ParentFollows
    <3>2. PICK t \in Nat \ {0}, m \in Nat, o \in Nat :
             t = Event(x).trigger /\ m = Len(Event(x).steps) /\ o = Len(Event(y).steps)
      BY <3>1, WholeNumbers
    <3>3. k <= t + m /\ k <= t + o
      BY <3>1, <3>2, <2>2, <1>1, WholeNumbers
    <3>4. k - t \in 1..m /\ k - t \in 1..o /\ t + (k - t) = k
      BY <3>1, <3>2, <3>3
    <3>5. \A j \in 1..m : x.steps[t + j].step = bx[j]
      BY <3>1, <3>2, Endings DEF Answered
    <3>6. \A j \in 1..o : y.steps[t + j].step = by[j]
      BY <3>1, <3>2, Endings DEF Answered
    <3>7. x.steps[t + (k - t)].step = bx[k - t] /\ y.steps[t + (k - t)].step = by[k - t]
      BY <3>4, <3>5, <3>6
    <3> QED BY <3>1, <3>4, <3>7
  <2> QED BY <2>1, <2>2
<1>3. ExpectedOf(y.steps, k) = ExpectedOf(x.steps, k)
  BY <1>1 DEF ExpectedOf
<1> DEFINE step == x.steps[k].step
           expected == ExpectedOf(x.steps, k)
           p == Prior(x.steps, k)
           q == Prior(y.steps, k)
<1>4. Violates(p, step, expected) <=> Violates(q, step, expected)
  <2>1. \A j \in 1..(k - 1) : q[j].step = p[j].step /\ q[j].status = p[j].status
    BY DEF Prior, Agree, SameStep
  <2>2. DOMAIN p = 1..(k - 1) /\ DOMAIN q = 1..(k - 1) /\ k - 1 \in Nat
    BY DEF Prior
  <2> HIDE DEF p, q, step, expected
  <2> QED BY <2>1, <2>2, SameChecks
<1>5. x.steps[k].status = StatusOf(p, dx, step, expected)
  BY DEF StatusesFollow
<1>6. y.steps[k].status = StatusOf(q, dy, step, expected)
  BY <1>2, <1>3 DEF StatusesFollow
<1>7. step \in Step
  BY WholeNumbers DEF Executed
<1>8. y.steps[k].status = x.steps[k].status
  <2>1. CASE Violates(p, step, expected)
    BY <2>1, <1>4, <1>5, <1>6 DEF StatusOf
  <2>2. CASE ~Violates(p, step, expected) /\ step.action # "approval_checkpoint"
    BY <2>2, <1>4, <1>5, <1>6 DEF StatusOf
  <2>3. CASE ~Violates(p, step, expected) /\ step.action = "approval_checkpoint"
    <3>1. step.gate \in Checkpoints
      BY <2>3, <1>7 DEF Violates, Step
    <3>2. x.steps[k].status = dx[step.gate]
      BY <2>3, <1>5 DEF StatusOf
    <3>3. x.steps[k].status # "policy_violation"
      BY <3>1, <3>2 DEF Decisions
    <3>4. y.steps[k].status = dy[step.gate]
      BY <2>3, <1>4, <1>6 DEF StatusOf
    <3> QED BY <3>3, <3>4, <2>3
  <2> QED BY <2>1, <2>2, <2>3
<1> QED BY <1>1, <1>2, <1>8 DEF SameStep

LEMMA LeastNumber ==
  ASSUME NEW T \in SUBSET Nat, T # {}
  PROVE  \E n \in T : \A m \in T : n <= m
<1> DEFINE R == OpToRel(<, Nat)
<1>1. IsWellFoundedOn(R, Nat)
  BY NatLessThanWellFounded
<1>2. \E x \in T : \A y \in T : ~(<<y, x>> \in R)
  <2> HIDE DEF R
  <2> QED BY <1>1, WFMin
<1>3. \A x, y \in Nat : <<y, x>> \in R \/ x <= y
  <2>1. \A x, y \in Nat : y < x \/ x <= y
    OBVIOUS
  <2>2. \A x, y \in Nat : y < x => <<y, x>> \in R
    BY DEF OpToRel
  <2> QED BY <2>1, <2>2
<1> HIDE DEF R
<1>4. PICK x \in T : \A y \in T : ~(<<y, x>> \in R)
  BY <1>2
<1>5. \A y \in T : x <= y
  <2> SUFFICES ASSUME NEW y \in T PROVE x <= y
    OBVIOUS
  <2>1. x \in Nat /\ y \in Nat /\ ~(<<y, x>> \in R)
    BY <1>4
  <2> QED BY <1>3, <2>1, Zenon
<1> QED BY <1>5

\* Two executions agree up to position n, if up to there the decisions of the one
\* are what the other did at its checkpoints and a live model answered alike.
LEMMA Determinism ==
  ASSUME NEW x, NEW y, NEW bx, NEW by, NEW n \in Nat, Whole(x, bx), Whole(y, by),
         n <= Len(x.steps), plan \in Plans,
         NEW dx \in [Checkpoints -> Decisions], NEW dy,
         StatusesFollow(x.steps, dx), StatusesFollow(y.steps, dy),
         \A k \in 1..n :
            /\ SameAnswer(x, bx, y, by, k)
            /\ x.steps[k].step.action = "approval_checkpoint"
               /\ x.steps[k].status # "policy_violation"
               => dy[x.steps[k].step.gate] = x.steps[k].status
  PROVE  Agree(x, y, n + 1)
<1> DEFINE Same(k) == k \in DOMAIN x.steps /\ k \in DOMAIN y.steps /\ SameStep(y.steps[k], x.steps[k])
           T == {k \in 1..n : ~Same(k)}
<1>1. PICK l \in Nat, o \in Nat :
         l = Len(x.steps) /\ n <= l /\ DOMAIN x.steps = 1..l /\ o = Len(y.steps) /\ DOMAIN y.steps = 1..o
  BY WholeNumbers
<1>2. SUFFICES T = {}
  <2>1. \A k \in 1..((n + 1) - 1) : k \in 1..n
    OBVIOUS
  <2> QED BY <2>1 DEF Agree
<1>3. SUFFICES ASSUME T # {} PROVE FALSE
  OBVIOUS
<1>4. PICK k \in T : \A m \in T : k <= m
  <2>1. T \in SUBSET Nat
    OBVIOUS
  <2> HIDE DEF T
  <2> QED BY <1>3, <2>1, LeastNumber
<1>5. k \in Nat \ {0} /\ k <= n /\ k \in DOMAIN x.steps
  BY <1>1
<1>6. \A j \in 1..(k - 1) : Same(j)
  BY <1>4, <1>5
<1>7. Agree(x, y, k)
  BY <1>6 DEF Agree
<1>8. SameAnswer(x, bx, y, by, k)
  BY <1>5
<1>9. k \in DOMAIN y.steps
  <2>1. SUFFICES ASSUME k \notin DOMAIN y.steps PROVE FALSE
    OBVIOUS
  <2>2. k - 1 # 0 => k - 1 \in DOMAIN y.steps
    BY <1>5, <1>7 DEF Agree
  <2>3. o = k - 1
    BY <1>1, <1>5, <2>1, <2>2
  <2> QED BY <1>1, <1>5, <1>7, <1>8, <2>3, NoEarlyEnd
<1>10. Same(k)
  BY <1>5, <1>7, <1>8, <1>9, SameNext
<1> QED BY <1>10
\* If a live model found no recovery for both, both say so.
SameNone(x, y) ==
    /\ x.replans # <<>> /\ y.replans # <<>> /\ Event(x).trigger = Event(y).trigger
    /\ Event(x).live /\ Event(y).live /\ ~Event(x).match
    => Event(x).status = "no_recovery" /\ Event(y).status = "no_recovery"

\* x and y performed the same steps, and answered the same failure alike.
AllAgree(x, bx, y, by) ==
    /\ Len(y.steps) = Len(x.steps) /\ Agree(x, y, Len(x.steps) + 1)
    /\ x.replans # <<>> <=> y.replans # <<>>
    /\ x.replans # <<>> =>
          /\ Event(y).trigger = Event(x).trigger /\ Event(y).error = Event(x).error
          /\ Event(y).live <=> Event(x).live
          /\ SameRecovery(x, bx, y, by)
    /\ SameNone(x, y)

LEMMA AllAgreeSymmetric ==
  ASSUME NEW x, NEW y, NEW bx, NEW by, AllAgree(x, bx, y, by)
  PROVE  AllAgree(y, by, x, bx)
<1>1. Agree(y, x, Len(y.steps) + 1)
  BY Symmetric DEF AllAgree
<1>2. x.replans # <<>> => SameRecovery(y, by, x, bx)
  BY Symmetric DEF AllAgree
<1>3. SameNone(y, x)
  BY DEF AllAgree, SameNone, SameRecovery
<1>4. Len(x.steps) = Len(y.steps) /\ (y.replans # <<>> <=> x.replans # <<>>)
  BY DEF AllAgree
<1>5. y.replans # <<>> =>
          /\ Event(x).trigger = Event(y).trigger /\ Event(x).error = Event(y).error
          /\ Event(x).live <=> Event(y).live
  BY DEF AllAgree
<1> QED BY <1>1, <1>2, <1>3, <1>4, <1>5 DEF AllAgree

LEMMA AllAgreeWhen ==
  ASSUME NEW x, NEW y, NEW bx, NEW by, NEW n \in Nat, Whole(x, bx), Whole(y, by),
         n = Len(x.steps), Agree(x, y, n + 1), SameAnswer(x, bx, y, by, n + 1),
         SameNone(x, y), plan \in Plans
  PROVE  AllAgree(x, bx, y, by)
<1>1. Agree(y, x, n + 1) /\ SameAnswer(y, by, x, bx, n + 1)
  BY Symmetric
<1>2. PICK o \in Nat : o = Len(y.steps) /\ DOMAIN y.steps = 1..o /\ DOMAIN x.steps = 1..n
  BY WholeNumbers
<1>3. n <= o
  <2>1. n # 0 => n \in DOMAIN y.steps
    BY DEF Agree
  <2> QED BY <1>2, <2>1
<1>4. n = o
  <2>1. SUFFICES ASSUME n < o PROVE FALSE
    BY <1>2, <1>3
  <2>2. n + 1 \in DOMAIN y.steps /\ n + 1 \in Nat \ {0} /\ Len(x.steps) = (n + 1) - 1
    BY <1>2, <2>1
  <2> QED BY <1>1, <2>2, NoEarlyEnd
<1>5. x.replans # <<>> => Event(x).trigger < n + 1
  <2>1. SUFFICES ASSUME x.replans # <<>> PROVE Event(x).trigger < n + 1
    OBVIOUS
  <2>2. PICK t \in Nat, m \in Nat : t = Event(x).trigger /\ m = Len(Event(x).steps) /\ t + m <= n
    BY <2>1, WholeNumbers
  <2> QED BY <2>2
<1>6. y.replans # <<>> => Event(y).trigger < n + 1
  <2>1. SUFFICES ASSUME y.replans # <<>> PROVE Event(y).trigger < n + 1
    OBVIOUS
  <2>2. PICK t \in Nat, m \in Nat : t = Event(y).trigger /\ m = Len(Event(y).steps) /\ t + m <= n
    BY <2>1, <1>2, <1>4, WholeNumbers
  <2> QED BY <2>2
<1>7. x.replans # <<>> =>
         /\ y.replans # <<>>
         /\ Event(y).trigger = Event(x).trigger /\ Event(y).error = Event(x).error
         /\ Event(y).live <=> Event(x).live
  BY <1>5, TriggerShared
<1>8. x.replans # <<>> => SameRecovery(x, bx, y, by)
  BY <1>5, RecoveryShared
<1>9. y.replans # <<>> => x.replans # <<>>
  BY <1>1, <1>6, TriggerShared
<1> QED BY <1>2, <1>4, <1>7, <1>8, <1>9 DEF AllAgree

LEMMA SameLast ==
  ASSUME NEW x, NEW y, NEW bx, NEW by, Whole(x, bx), AllAgree(x, bx, y, by), Len(x.steps) # 0
  PROVE  SameStep(y.steps[Len(y.steps)], x.steps[Len(x.steps)])
<1>1. PICK n \in Nat : n = Len(x.steps)
  BY WholeNumbers
<1>2. n \in 1..((n + 1) - 1)
  BY <1>1
<1> QED BY <1>1, <1>2 DEF AllAgree, Agree

\* Each way to end is that of the other too.
LEMMA SameEnd ==
  ASSUME NEW x, NEW y, NEW bx, NEW by, Whole(x, bx), Whole(y, by), AllAgree(x, bx, y, by)
  PROVE  /\ EndRefused(x) => EndRefused(y)
         /\ EndHalted(x) => EndHalted(y) /\ y.halt = x.halt
         /\ EndUnanswered(x) => EndUnanswered(y)
         /\ EndUnrecovered(x) => EndUnrecovered(y)
<1>1. EndRefused(x) => EndRefused(y)
  BY Endings DEF EndRefused
<1>2. EndUnanswered(x) => EndUnanswered(y)
  BY DEF EndUnanswered, AllAgree, SameRecovery
<1>3. Len(x.steps) # 0 =>
         /\ Len(y.steps) # 0
         /\ Halting(x.steps[Len(x.steps)]) => ~EndOfSteps(y)
         /\ y.steps[Len(y.steps)].parent = x.steps[Len(x.steps)].parent
         /\ y.steps[Len(y.steps)].status = x.steps[Len(x.steps)].status
  <2> SUFFICES ASSUME Len(x.steps) # 0
               PROVE  /\ Len(y.steps) # 0
                      /\ Halting(x.steps[Len(x.steps)]) => ~EndOfSteps(y)
                      /\ y.steps[Len(y.steps)].parent = x.steps[Len(x.steps)].parent
                      /\ y.steps[Len(y.steps)].status = x.steps[Len(x.steps)].status
    OBVIOUS
  <2>1. Len(y.steps) # 0
    BY DEF AllAgree
  <2>2. SameStep(y.steps[Len(y.steps)], x.steps[Len(x.steps)])
    BY SameLast
  <2>3. Len(y.steps) \in 1..Len(y.steps)
    BY <2>1, WholeNumbers
  <2>4. Halting(x.steps[Len(x.steps)]) => Halting(y.steps[Len(y.steps)])
    BY <2>2 DEF SameStep, Halting, Successful
  <2>5. Halting(y.steps[Len(y.steps)]) => ~EndOfSteps(y)
    BY <2>3 DEF EndOfSteps, Unhalted
  <2> QED BY <2>1, <2>2, <2>4, <2>5 DEF SameStep
<1>4. EndHalted(x) => EndHalted(y) /\ y.halt = x.halt
  <2> SUFFICES ASSUME EndHalted(x) PROVE EndHalted(y) /\ y.halt = x.halt
    OBVIOUS
  <2>1. ~EndRefused(y)
    BY DEF EndHalted, EndRefused
  <2>2. ~EndUnanswered(y)
    BY DEF EndHalted, EndUnanswered, Completed, AllAgree, SameRecovery
  <2>3. ~EndUnrecovered(y)
    BY <1>3 DEF EndHalted, EndUnrecovered
  <2>4. ~EndOfSteps(y)
    BY <1>3 DEF EndHalted, Halting
  <2>5. EndHalted(y)
    BY <2>1, <2>2, <2>3, <2>4 DEF Whole, IsOver
  <2> QED BY <2>5, <1>3 DEF EndHalted
<1>5. EndUnrecovered(x) => EndUnrecovered(y)
  <2> SUFFICES ASSUME EndUnrecovered(x) PROVE EndUnrecovered(y)
    OBVIOUS
  <2>1. ~EndRefused(y)
    BY DEF EndUnrecovered, EndRefused
  <2>2. ~EndUnanswered(y)
    BY DEF EndUnrecovered, EndUnanswered, AllAgree, SameRecovery
  <2>3. ~EndHalted(y)
    BY <1>3 DEF EndUnrecovered, EndHalted
  <2>4. ~EndOfSteps(y)
    BY <1>3 DEF EndUnrecovered, Halting
  <2> QED BY <2>1, <2>2, <2>3, <2>4 DEF Whole, IsOver
<1> QED BY <1>1, <1>2, <1>4, <1>5
LEMMA SameSteps ==
  ASSUME NEW x, NEW y, NEW bx, NEW by, Whole(x, bx), Whole(y, by), AllAgree(x, bx, y, by)
  PROVE  x.replans # <<>> => Event(y).steps = Event(x).steps
<1> SUFFICES ASSUME x.replans # <<>> PROVE Event(y).steps = Event(x).steps
  OBVIOUS
<1>1. y.replans # <<>> /\ Event(y).trigger = Event(x).trigger
  BY DEF AllAgree
<1>2. PICK n \in Nat, t \in Nat \ {0}, m \in Nat, o \in Nat :
         /\ n = Len(x.steps) /\ n = Len(y.steps) /\ t = Event(x).trigger
         /\ m = Len(Event(x).steps) /\ o = Len(Event(y).steps) /\ t + m <= n /\ t + o <= n
  BY <1>1, WholeNumbers DEF AllAgree
<1>3. \A k \in 1..n : y.steps[k].parent = x.steps[k].parent
  <2>1. \A k \in 1..n : k \in 1..((n + 1) - 1)
    OBVIOUS
  <2> QED BY <2>1, <1>2 DEF AllAgree, Agree, SameStep
<1>4. \A k \in 1..n : (x.steps[k].parent # 0 <=> t < k /\ k <= t + m)
                   /\ (y.steps[k].parent # 0 <=> t < k /\ k <= t + o)
  BY <1>1, <1>2, WholeNumbers
<1>5. m = o
  <2>3. t + m <= n /\ t + o <= n
    BY <1>2
  <2>1. ~(m < o)
    <3>1. SUFFICES ASSUME m < o PROVE FALSE
      OBVIOUS
    <3>2. t + m + 1 \in 1..n /\ t < t + m + 1 /\ ~(t + m + 1 <= t + m) /\ t + m + 1 <= t + o
      BY <2>3, <3>1
    <3> QED BY <3>2, <1>3, <1>4
  <2>2. ~(o < m)
    <3>1. SUFFICES ASSUME o < m PROVE FALSE
      OBVIOUS
    <3>2. t + o + 1 \in 1..n /\ t < t + o + 1 /\ ~(t + o + 1 <= t + o) /\ t + o + 1 <= t + m
      BY <2>3, <3>1
    <3> QED BY <3>2, <1>3, <1>4
  <2> QED BY <2>1, <2>2
<1>6. Event(x).steps \in Seq(Nat \ {0}) /\ Event(y).steps \in Seq(Nat \ {0})
  BY <1>1, WholeNumbers DEF Replan
<1>7. /\ \A k \in DOMAIN Event(x).steps : Event(x).steps[k] = t + k
      /\ \A k \in DOMAIN Event(y).steps : Event(y).steps[k] = t + k
  BY <1>1, <1>2 DEF Whole, Layout, Event
<1> DEFINE p == Event(x).steps
           q == Event(y).steps
<1>8. p \in Seq(Nat \ {0}) /\ q \in Seq(Nat \ {0}) /\ Len(p) = m /\ Len(q) = m
      /\ \A k \in 1..m : p[k] = q[k]
  <2>1. p \in Seq(Nat \ {0}) /\ q \in Seq(Nat \ {0}) /\ Len(p) = m /\ Len(q) = m
    BY <1>2, <1>5, <1>6
  <2>2. (\A k \in DOMAIN p : p[k] = t + k) /\ (\A k \in DOMAIN q : q[k] = t + k)
    BY <1>7
  <2> HIDE DEF p, q
  <2>3. DOMAIN p = 1..m /\ DOMAIN q = 1..m
    BY <2>1
  <2> QED BY <2>1, <2>2, <2>3
<1>9. p = q
  <2> HIDE DEF p, q
  <2> QED BY <1>8
<1> QED BY <1>9

\* How a recovery ended: it failed exactly when that ended the execution.
LEMMA RecoveryEnd ==
  ASSUME NEW x, NEW branch, Whole(x, branch), x.replans # <<>>, Event(x).match
  PROVE  /\ EndUnrecovered(x) => Event(x).status = "failed"
         /\ ~EndUnrecovered(x) => Event(x).status = "success"
         /\ Event(x).planned = Len(branch)
<1>1. ~EndRefused(x) /\ ~EndUnanswered(x)
  BY DEF EndRefused, EndUnanswered
<1>2. ~EndUnrecovered(x) => Completed(x)
  BY <1>1 DEF Whole, IsOver, EndHalted, EndOfSteps
<1> QED BY <1>2, Endings DEF EndUnrecovered, Completed, Answered

\* What is left to say of a recovery that did not begin.
LEMMA SameRefusal ==
  ASSUME NEW x, NEW y, NEW bx, NEW by, Whole(x, bx), Whole(y, by), AllAgree(x, bx, y, by),
         x.replans # <<>>, ~Event(x).match
  PROVE  Event(y).status = Event(x).status /\ Event(y).planned = Event(x).planned /\ y.halt = x.halt
<1>1. /\ y.replans # <<>> /\ Event(y).trigger = Event(x).trigger /\ Event(y).error = Event(x).error
      /\ (Event(y).live <=> Event(x).live) /\ ~Event(y).match
  BY DEF AllAgree, SameRecovery
<1>2. Answered(x, bx) /\ Answered(y, by) /\ ~Refused
  BY <1>1, Endings
<1>3. NoRecovery(Event(x), x.halt) /\ NoRecovery(Event(y), y.halt)
  BY <1>1, <1>2 DEF Answered
<1>4. CASE Event(x).live
  <2>1. Event(x).status = "no_recovery" /\ Event(y).status = "no_recovery"
    BY <1>1, <1>4 DEF AllAgree, SameNone
  <2> QED BY <2>1, <1>3 DEF NoRecovery
<1>5. CASE ~Event(x).live
  <2>1. /\ Event(x).status = "policy_violation" /\ x.halt = "recovery_sequence_violation"
        /\ Event(y).status = "policy_violation" /\ y.halt = "recovery_sequence_violation"
    BY <1>1, <1>3, <1>5 DEF NoRecovery
  <2>2. PICK b \in MatchingAt(Event(x).trigger, Event(x).error) : Event(x).planned = Len(b.steps)
    BY <1>2, <1>5 DEF Answered
  <2>3. PICK d \in MatchingAt(Event(x).trigger, Event(x).error) : Event(y).planned = Len(d.steps)
    BY <1>1, <1>2, <1>5 DEF Answered
  <2>4. b = d
    BY <1>2, OneBranch
  <2> QED BY <2>1, <2>2, <2>3, <2>4
<1> QED BY <1>4, <1>5

LEMMA SameReplans ==
  ASSUME NEW x, NEW y, NEW bx, NEW by, Whole(x, bx), Whole(y, by), AllAgree(x, bx, y, by)
  PROVE  y.replans = x.replans
<1>1. CASE x.replans = <<>>
  BY <1>1 DEF AllAgree
<1>2. CASE x.replans # <<>>
  <2>1. /\ y.replans # <<>> /\ Event(y).trigger = Event(x).trigger /\ Event(y).error = Event(x).error
        /\ (Event(y).live <=> Event(x).live) /\ (Event(y).match <=> Event(x).match)
    BY <1>2 DEF AllAgree, SameRecovery
  <2>2. Event(y).steps = Event(x).steps
    BY <1>2, SameSteps
  <2>3. Event(y).status = Event(x).status /\ Event(y).planned = Event(x).planned
    <3>1. CASE ~Event(x).match
      BY <1>2, <3>1, SameRefusal
    <3>2. CASE Event(x).match
      <4>1. EndUnrecovered(x) <=> EndUnrecovered(y)
        BY SameEnd, AllAgreeSymmetric
      <4>2. bx = by
        BY <1>2, <3>2 DEF AllAgree, SameRecovery
      <4> QED BY <1>2, <2>1, <3>2, <4>1, <4>2, RecoveryEnd
    <3> QED BY <3>1, <3>2
  <2>4. /\ Event(x) \in Replan /\ Event(y) \in Replan /\ Len(x.replans) = 1 /\ Len(y.replans) = 1
        /\ x.replans \in Seq(Replan) /\ y.replans \in Seq(Replan)
    BY <1>2, <2>1, WholeNumbers DEF Whole
  <2>5. Event(y) = Event(x)
    <3> DEFINE d == Event(x)
               e == Event(y)
    <3>1. d \in Replan /\ e \in Replan /\ e.trigger = d.trigger /\ e.error = d.error
          /\ (e.live <=> d.live) /\ (e.match <=> d.match) /\ e.steps = d.steps
          /\ e.status = d.status /\ e.planned = d.planned
      BY <2>1, <2>2, <2>3, <2>4
    <3>2. e = d
      <4> HIDE DEF d, e
      <4> QED BY <3>1 DEF Replan
    <3> QED BY <3>2
  <2> QED BY <2>4, <2>5 DEF Event
<1> QED BY <1>1, <1>2

LEMMA SameHalt ==
  ASSUME NEW x, NEW y, NEW bx, NEW by, Whole(x, bx), Whole(y, by), AllAgree(x, bx, y, by)
  PROVE  y.halt = x.halt
<1>1. /\ EndRefused(x) => EndRefused(y)
      /\ EndHalted(x) => y.halt = x.halt
      /\ EndUnanswered(x) => EndUnanswered(y)
      /\ EndUnrecovered(x) => EndUnrecovered(y)
  BY SameEnd
<1>2. EndUnanswered(x) => y.halt = x.halt
  BY SameRefusal DEF EndUnanswered
<1>3. EndOfSteps(x) => EndHalted(y) \/ EndOfSteps(y)
  <2>1. EndOfSteps(x) => ~Refused /\ Completed(x)
    BY DEF EndOfSteps
  <2>2. Completed(x) => Completed(y)
    BY SameReplans DEF Completed, Event
  <2> QED BY <2>1, <2>2, Endings
<1>4. EndHalted(y) => x.halt = y.halt
  BY AllAgreeSymmetric, SameEnd
<1>5. EndOfSteps(x) /\ EndOfSteps(y) => y.halt = x.halt
  BY DEF EndOfSteps
<1> QED BY <1>1, <1>2, <1>3, <1>4, <1>5 DEF Whole, IsOver, EndRefused, EndUnrecovered

LEMMA SameExecuted ==
  ASSUME NEW x, NEW y, NEW bx, NEW by, Whole(x, bx), Whole(y, by), AllAgree(x, bx, y, by)
  PROVE  y.steps = x.steps
<1>1. PICK n \in Nat : n = Len(x.steps) /\ n = Len(y.steps) /\ DOMAIN x.steps = 1..n /\ DOMAIN y.steps = 1..n
  BY WholeNumbers DEF AllAgree
<1>2. \A k \in 1..n : SameStep(y.steps[k], x.steps[k])
  <2>1. \A k \in 1..n : k \in 1..((n + 1) - 1)
    OBVIOUS
  <2> QED BY <2>1, <1>1 DEF AllAgree, Agree
<1>3. y.replans = x.replans
  BY SameReplans
<1>4. \A k \in 1..n : y.steps[k].recovered <=> x.steps[k].recovered
  <2> TAKE k \in 1..n
  <2>1. x.steps[k].recovered <=>
          x.replans # <<>> /\ Event(x).status = "success" /\ k = Event(x).trigger
    BY <1>1, Zenon DEF Whole, RecoveredIs
  <2>2. y.steps[k].recovered <=>
          y.replans # <<>> /\ Event(y).status = "success" /\ k = Event(y).trigger
    BY <1>1, Zenon DEF Whole, RecoveredIs
  <2>3. Event(y) = Event(x)
    BY <1>3 DEF Event
  <2> QED BY <1>3, <2>1, <2>2, <2>3, Zenon
<1>5. \A k \in 1..n : x.steps[k] \in Executed /\ y.steps[k] \in Executed
  BY <1>1, WholeNumbers
<1>6. \A k \in 1..n : y.steps[k] = x.steps[k]
  <2> TAKE k \in 1..n
  <2> DEFINE d == x.steps[k]
             e == y.steps[k]
  <2>1. d \in Executed /\ e \in Executed /\ e.step = d.step /\ e.status = d.status
        /\ e.parent = d.parent /\ (e.recovered <=> d.recovered)
    BY <1>2, <1>4, <1>5 DEF SameStep
  <2>2. e = d
    <3> HIDE DEF d, e
    <3> QED BY <2>1 DEF Executed
  <2> QED BY <2>2
<1>7. x.steps \in Seq(Executed) /\ y.steps \in Seq(Executed)
  BY DEF Whole
<1> QED BY <1>1, <1>6, <1>7
-----------------------------------------------------------------------------
(* What holds of the execution that goes on, and is whole when it is over *)

History(x) ==
    /\ StatusesFollow(x.steps, x.decisions)
    /\ ReplanOf(x, x.branch)
    /\ Decided(x, IF x.pc = "failed" THEN Len(x.steps) - 1 ELSE Len(x.steps))
    /\ Unhalted(x, IF x.pc = "done" THEN Len(x.steps) - 1 ELSE Len(x.steps))
    /\ RecoveredIs(x)
    /\ x.pc \in {"plan", "failed", "recovery"} => ~Refused
    /\ x.pc \in {"plan", "failed"} => Completed(x)
    /\ x.pc = "done" => IsOver(x)

LEMMA StatusesGrow ==
  ASSUME NEW s, NEW t, NEW e, Grows(s, t, e), NEW d, StatusesFollow(s, d),
         e.status = StatusOf(s, d, e.step,
                       ExpectedAt(IF e.parent = 0 THEN contract.expected ELSE ExpectedRecovery(e.parent),
                                  Place(t, Len(s) + 1)))
  PROVE  StatusesFollow(t, d)
<1>1. PICK n \in Nat : n = Len(s) /\ DOMAIN s = 1..n /\ DOMAIN t = 1..(n + 1)
  BY DEF Grows
<1>2. (\A i \in 1..n : SameStep(t[i], s[i])) /\ SameStep(t[n + 1], e)
  BY <1>1 DEF Grows
<1>3. \A k \in 1..n : \A step, expected :
         Violates(Prior(s, k), step, expected) <=> Violates(Prior(t, k), step, expected)
  <2> TAKE k \in 1..n
  <2> TAKE step, expected
  <2>1. \A j \in 1..(k - 1) : Prior(t, k)[j].step = Prior(s, k)[j].step
                           /\ Prior(t, k)[j].status = Prior(s, k)[j].status
    BY <1>2 DEF Prior, SameStep
  <2>2. DOMAIN Prior(s, k) = 1..(k - 1) /\ DOMAIN Prior(t, k) = 1..(k - 1) /\ k - 1 \in Nat
    BY DEF Prior
  <2> QED BY <2>1, <2>2, SameChecks
<1>4. \A step, expected : Violates(s, step, expected) <=> Violates(Prior(t, n + 1), step, expected)
  <2> TAKE step, expected
  <2>1. \A j \in 1..n : Prior(t, n + 1)[j].step = s[j].step /\ Prior(t, n + 1)[j].status = s[j].status
    BY <1>2 DEF Prior, SameStep
  <2>2. DOMAIN Prior(t, n + 1) = 1..n
    BY DEF Prior
  <2> QED BY <1>1, <2>1, <2>2, SameChecks
<1>5. \A k \in 1..n : Place(t, k) = Place(s, k)
  BY <1>1, PlaceGrows
<1>6. SUFFICES ASSUME NEW k \in 1..(n + 1)
               PROVE  t[k].status = StatusOf(Prior(t, k), d, t[k].step, ExpectedOf(t, k))
  BY <1>1 DEF StatusesFollow
<1>7. CASE k \in 1..n
  <2>1. ExpectedOf(t, k) = ExpectedOf(s, k)
    BY <1>2, <1>5, <1>7 DEF ExpectedOf, SameStep
  <2>2. s[k].status = StatusOf(Prior(s, k), d, s[k].step, ExpectedOf(s, k))
    BY <1>1, <1>7 DEF StatusesFollow
  <2>3. StatusOf(Prior(s, k), d, s[k].step, ExpectedOf(s, k))
          = StatusOf(Prior(t, k), d, s[k].step, ExpectedOf(s, k))
    BY <1>3, <1>7 DEF StatusOf
  <2>4. t[k].status = s[k].status /\ t[k].step = s[k].step
    BY <1>2, <1>7 DEF SameStep
  <2> QED BY <2>1, <2>2, <2>3, <2>4
<1>8. CASE k = n + 1
  <2>1. t[k].status = e.status /\ t[k].step = e.step /\ t[k].parent = e.parent
    BY <1>2, <1>8 DEF SameStep
  <2>2. e.status = StatusOf(s, d, e.step, ExpectedOf(t, k))
    BY <2>1, <1>1, <1>8 DEF ExpectedOf
  <2>3. StatusOf(s, d, e.step, ExpectedOf(t, k)) = StatusOf(Prior(t, k), d, e.step, ExpectedOf(t, k))
    BY <1>4, <1>8 DEF StatusOf
  <2> QED BY <2>1, <2>2, <2>3
<1> QED BY <1>1, <1>7, <1>8

\* The replan event is still for the same failure.
SameTrigger(x, y) ==
    (x.replans # <<>> <=> y.replans # <<>>) /\ (x.replans # <<>> => Event(y).trigger = Event(x).trigger)

LEMMA DecidedGrows ==
  ASSUME NEW x, NEW y, NEW e, Grows(x.steps, y.steps, e), SameTrigger(x, y),
         Decided(x, Len(x.steps))
  PROVE  /\ Decided(y, Len(y.steps) - 1)
         /\ e.parent # 0 \/ e.status # "failed" => Decided(y, Len(y.steps))
<1>1. PICK n \in Nat : n = Len(x.steps) /\ Len(y.steps) = n + 1 /\ DOMAIN x.steps = 1..n
  BY DEF Grows
<1>2. (\A i \in 1..n : SameStep(y.steps[i], x.steps[i])) /\ SameStep(y.steps[n + 1], e)
  BY <1>1 DEF Grows
<1>3. \A k \in 1..n : Place(y.steps, k) = Place(x.steps, k)
  BY <1>1, PlaceGrows
<1>4. \A k \in 1..n : PassedOver(x, k) => PassedOver(y, k)
  BY <1>2, <1>3 DEF PassedOver, SameTrigger, SameStep
<1>5. Decided(y, n)
  BY <1>1, <1>2, <1>4 DEF Decided, SameTrigger, SameStep
<1>6. e.parent # 0 \/ e.status # "failed" => Decided(y, n + 1)
  <2>1. \A k \in 1..(n + 1) : k \in 1..n \/ k = n + 1
    OBVIOUS
  <2> QED BY <2>1, <1>2, <1>5 DEF Decided, SameStep
<1> QED BY <1>1, <1>5, <1>6

LEMMA UnhaltedGrows ==
  ASSUME NEW x, NEW y, NEW e, Grows(x.steps, y.steps, e), Unhalted(x, Len(x.steps))
  PROVE  /\ Unhalted(y, Len(y.steps) - 1)
         /\ ~Halting(e) => Unhalted(y, Len(y.steps))
<1>1. PICK n \in Nat : n = Len(x.steps) /\ Len(y.steps) = n + 1 /\ DOMAIN x.steps = 1..n
  BY DEF Grows
<1>2. (\A i \in 1..n : SameStep(y.steps[i], x.steps[i])) /\ SameStep(y.steps[n + 1], e)
  BY <1>1 DEF Grows
<1>3. Unhalted(y, n)
  BY <1>1, <1>2 DEF Unhalted, SameStep, Halting, Successful
<1>4. ~Halting(e) => Unhalted(y, n + 1)
  <2>1. \A k \in 1..(n + 1) : k \in 1..n \/ k = n + 1
    OBVIOUS
  <2> QED BY <2>1, <1>2, <1>3 DEF Unhalted, SameStep, Halting, Successful
<1> QED BY <1>1, <1>3, <1>4

\* Steps and events that are the same have the same history.
LEMMA SameHistory ==
  ASSUME NEW x, NEW y, y.steps = x.steps, y.replans = x.replans
  PROVE  /\ \A n : Decided(x, n) => Decided(y, n)
         /\ \A n : Unhalted(x, n) => Unhalted(y, n)
         /\ RecoveredIs(x) => RecoveredIs(y)
         /\ Completed(x) => Completed(y)
         /\ \A branch : Completed(x) /\ ReplanOf(x, branch) => ReplanOf(y, branch)
<1>1. \A n : Decided(x, n) => Decided(y, n)
  BY DEF Decided, PassedOver, Event
<1>2. \A n : Unhalted(x, n) => Unhalted(y, n)
  BY DEF Unhalted
<1>3. RecoveredIs(x) => RecoveredIs(y)
  BY Zenon DEF RecoveredIs, Event
<1>4. Completed(x) => Completed(y)
  BY DEF Completed, Event
<1>5. \A branch : Completed(x) /\ ReplanOf(x, branch) => ReplanOf(y, branch)
  BY DEF Completed, ReplanOf, Answered, Event
<1> QED BY <1>1, <1>2, <1>3, <1>4, <1>5

\* The state functions of an execution, in the next state.
LEMMA NextHistory ==
  ASSUME UNCHANGED <<contract, plan>>
  PROVE  History(run)' <=> History(run')
<1>1. StatusesFollow(run.steps, run.decisions)' <=> StatusesFollow(run'.steps, run'.decisions)
  <2>1. \A p, step, expected : Violates(p, step, expected)' <=> Violates(p, step, expected)
    BY DEF Violates, ApprovedIn
  <2>2. \A k : Prior(run.steps, k)' = Prior(run'.steps, k)
    BY DEF Prior
  <2>3. \A k : ExpectedOf(run.steps, k)' = ExpectedOf(run'.steps, k)
    BY DEF ExpectedOf, ExpectedAt, ExpectedRecovery, Place
  <2> QED BY <2>1, <2>2, <2>3 DEF StatusesFollow, StatusOf
<1>2. ReplanOf(run, run.branch)' <=> ReplanOf(run', run'.branch)
  BY DEF ReplanOf, Answered, Event, MatchingAt, Fits, ExpectedRecovery, ActionsOf, NoRecovery
<1>3. \A n : Decided(run, n)' <=> Decided(run', n)
  BY DEF Decided, PassedOver, Event, MatchingAt, Place
<1>4. \A n : Unhalted(run, n)' <=> Unhalted(run', n)
  BY DEF Unhalted, Halting, Successful
<1>5. RecoveredIs(run)' <=> RecoveredIs(run')
  BY Zenon DEF RecoveredIs, Event
<1>6. Refused' <=> Refused
  BY DEF Refused, Overlap
<1>7. Completed(run)' <=> Completed(run')
  BY DEF Completed, Event
<1>8. IsOver(run)' <=> IsOver(run')
  BY <1>4, <1>6, <1>7 DEF IsOver, EndRefused, EndHalted, EndUnanswered, EndUnrecovered, EndOfSteps,
         Event, Extra, Successful, Unhalted, Halting, Completed
<1> QED BY <1>1, <1>2, <1>3, <1>4, <1>5, <1>6, <1>7, <1>8 DEF History
LEMMA AnsweredGrows ==
  ASSUME NEW x, NEW y, NEW e, NEW branch, Grows(x.steps, y.steps, e), y.replans = x.replans,
         Completed(x), Layout(x), ReplanOf(x, branch),
         x.replans # <<>> => Event(x).trigger \in Nat /\ Len(Event(x).steps) \in Nat
  PROVE  ReplanOf(y, branch)
<1> SUFFICES ASSUME x.replans # <<>> PROVE Answered(y, branch)
  BY DEF ReplanOf
<1>1. Answered(x, branch) /\ Event(y) = Event(x) /\ Event(x).match
  BY DEF ReplanOf, Completed, Event
<1>2. PICK t \in Nat, m \in Nat, n \in Nat :
         t = Event(x).trigger /\ m = Len(Event(x).steps) /\ n = Len(x.steps) /\ DOMAIN x.steps = 1..n
  BY DEF Grows
<1>3. t \in 1..n /\ t + m <= n
  BY <1>2 DEF Layout, Event
<1>4. \A i \in 1..n : y.steps[i].step = x.steps[i].step /\ y.steps[i].status = x.steps[i].status
  BY <1>2 DEF Grows, SameStep
<1>5. \A j \in 1..m : t + j \in 1..n
  BY <1>3
<1>6. \A j \in 1..m : y.steps[t + j].step = x.steps[t + j].step
  BY <1>4, <1>5
<1>7. /\ y.steps[t].status = "failed" /\ Event(x).error = y.steps[t].step.error
      /\ \A j \in 1..m : y.steps[t + j].step = branch[j]
  <2>1. /\ x.steps[t].status = "failed" /\ Event(x).error = x.steps[t].step.error
        /\ \A j \in 1..m : x.steps[t + j].step = branch[j]
    BY <1>1, <1>2 DEF Answered
  <2> QED BY <2>1, <1>3, <1>4, <1>6
<1> QED BY <1>1, <1>2, <1>7 DEF Answered

LEMMA HistoryPlanStep == AgentInv /\ History(run) /\ PlanStep => History(run)'
<1> SUFFICES ASSUME AgentInv, History(run), PlanStep PROVE History(run')
  BY NextHistory DEF PlanStep
<1> DEFINE step == plan.steps[run.next]
           expected == ExpectedAt(contract.expected, run.next)
           e == Perform(step, expected, 0)
<1>1. /\ run.pc = "plan" /\ run.next \in DOMAIN plan.steps /\ run' \in Run
      /\ run'.steps = Append(run.steps, e) /\ run'.replans = run.replans
      /\ run'.decisions = run.decisions /\ run'.branch = run.branch
      /\ \/ e.status = "pending" /\ run'.pc = "done" /\ run'.halt = "approval_pending"
         \/ e.status = "denied" /\ run'.pc = "done" /\ run'.halt = "approval_denied"
         \/ e.status = "policy_violation" /\ run'.pc = "done" /\ run'.halt = "policy_violation"
         \/ e.status = "failed" /\ run'.pc = "failed"
         \/ e.status \in {"success", "approved"} /\ run'.pc = "plan"
  BY PlanStepShape DEF AgentInv, PlanStepDoes
<1>2. step \in Step
  BY <1>1, PlanTypes DEF AgentInv, AgentTypeOK
<1>3. /\ e \in Executed /\ e.step = step /\ e.parent = 0 /\ ~e.recovered
      /\ e.status = StatusOf(run.steps, run.decisions, step, expected)
  <2>1. 0 \in Nat
    OBVIOUS
  <2> HIDE DEF step, expected
  <2>2. e \in Executed
    BY <1>2, <2>1, RunFacts, PerformedStep
  <2>3. e.step = step /\ e.parent = 0 /\ ~e.recovered
        /\ e.status = StatusOf(run.steps, run.decisions, step, expected)
    BY PerformedFields
  <2> QED BY <2>2, <2>3
<1>4. Place(run'.steps, Len(run.steps) + 1) = run.next
  BY PlanStepPlace
<1>5. expected = ExpectedAt(IF e.parent = 0 THEN contract.expected ELSE ExpectedRecovery(e.parent),
                            Place(run'.steps, Len(run.steps) + 1))
  BY <1>3, <1>4
<1> HIDE DEF step, expected, e
<1>6. Grows(run.steps, run'.steps, e)
  BY <1>1, <1>3, RunFacts, AppendGrows
<1>7. StatusesFollow(run'.steps, run'.decisions)
  <2>1. StatusesFollow(run.steps, run.decisions)
    BY DEF History
  <2> QED BY <2>1, <1>1, <1>3, <1>5, <1>6, StatusesGrow
<1>8. ~Refused /\ Completed(run)
  BY <1>1 DEF History
<1>9. Completed(run') /\ SameTrigger(run, run')
  BY <1>1, <1>8 DEF Completed, Event, SameTrigger
<1>10. ReplanOf(run', run'.branch)
  <2>1. run.replans # <<>> => Event(run).trigger \in Nat /\ Len(Event(run).steps) \in Nat
    BY RunFacts DEF Event, Replan
  <2>2. Layout(run)
    BY RunFacts
  <2> QED BY <2>1, <2>2, <1>1, <1>6, <1>8, AnsweredGrows DEF History
<1>11. /\ Decided(run', Len(run'.steps) - 1)
       /\ e.status # "failed" => Decided(run', Len(run'.steps))
  <2>1. Decided(run, Len(run.steps))
    BY <1>1 DEF History
  <2> QED BY <2>1, <1>6, <1>9, DecidedGrows
<1>12. Decided(run', IF run'.pc = "failed" THEN Len(run'.steps) - 1 ELSE Len(run'.steps))
  BY <1>1, <1>11
<1>13. /\ Unhalted(run', Len(run'.steps) - 1)
       /\ ~Halting(e) => Unhalted(run', Len(run'.steps))
  <2>1. Unhalted(run, Len(run.steps))
    BY <1>1 DEF History
  <2> QED BY <2>1, <1>6, UnhaltedGrows
<1>14. Unhalted(run', IF run'.pc = "done" THEN Len(run'.steps) - 1 ELSE Len(run'.steps))
  <2>1. run'.pc # "done" => ~Halting(e)
    BY <1>1, <1>3 DEF Halting
  <2> QED BY <2>1, <1>13
<1>15. RecoveredIs(run')
  <2>1. \A k \in DOMAIN run.steps : run'.steps[k] = run.steps[k]
    BY <1>1, <1>3, RunFacts, Appended
  <2>2. run'.steps[Len(run.steps) + 1] = e
    BY <1>1, <1>3, RunFacts, Appended
  <2>3. DOMAIN run'.steps = DOMAIN run.steps \cup {Len(run.steps) + 1}
    BY <1>6 DEF Grows
  <2>4. run.replans # <<>> => Len(run.steps) + 1 # Event(run).trigger
    <3>1. run.replans # <<>> => Event(run).trigger \in DOMAIN run.steps
      BY RunFacts DEF Layout, Event
    <3> QED BY <3>1, RunFacts
  <2>5. \A k \in DOMAIN run.steps :
           run.steps[k].recovered <=>
              run.replans # <<>> /\ Event(run).status = "success" /\ k = Event(run).trigger
    BY Zenon DEF History, RecoveredIs
  <2>6. Event(run') = Event(run)
    BY <1>1 DEF Event
  <2>7. ~run'.steps[Len(run.steps) + 1].recovered
    BY <2>2, <1>3
  <2>8. \A k \in DOMAIN run'.steps :
           run'.steps[k].recovered <=>
              run'.replans # <<>> /\ Event(run').status = "success" /\ k = Event(run').trigger
    <3> SUFFICES ASSUME NEW k \in DOMAIN run'.steps
                 PROVE  run'.steps[k].recovered <=>
                          run'.replans # <<>> /\ Event(run').status = "success" /\ k = Event(run').trigger
      OBVIOUS
    <3>1. CASE k \in DOMAIN run.steps
      BY <3>1, <2>1, <2>5, <2>6, <1>1, Zenon
    <3>2. CASE k = Len(run.steps) + 1
      BY <3>2, <2>4, <2>6, <2>7, <1>1, Zenon
    <3> QED BY <3>1, <3>2, <2>3
  <2> QED BY <2>8, Zenon DEF RecoveredIs
<1>16. run'.pc = "done" => IsOver(run')
  <2> SUFFICES ASSUME run'.pc = "done" PROVE EndHalted(run')
    BY DEF IsOver
  <2>1. Len(run'.steps) = Len(run.steps) + 1 /\ Len(run.steps) \in Nat
    BY <1>6 DEF Grows
  <2>2. run'.steps[Len(run'.steps)].status = e.status /\ run'.steps[Len(run'.steps)].parent = 0
    BY <2>1, <1>3, <1>6 DEF Grows, SameStep
  <2>3. Len(run'.steps) # 0
    BY <2>1
  <2> QED BY <2>2, <2>3, <1>1, <1>8, <1>9 DEF EndHalted
<1> QED BY <1>7, <1>8, <1>9, <1>10, <1>12, <1>14, <1>15, <1>16 DEF History
LEMMA HistoryEndOfPlan == AgentInv /\ EarnInv /\ History(run) /\ EndOfPlan => History(run)'
<1> SUFFICES ASSUME AgentInv, EarnInv, History(run), EndOfPlan PROVE History(run')
  BY NextHistory DEF EndOfPlan
<1>1. /\ run.pc = "plan" /\ run'.pc = "done" /\ run'.halt = run.halt
      /\ run'.steps = run.steps /\ run'.replans = run.replans
      /\ run'.branch = run.branch /\ run'.decisions = run.decisions
  BY EndOfPlanShape DEF AgentInv, EndOfPlanDoes, SameRequest
<1>2. ~Refused /\ Completed(run) /\ run.halt = "none"
  BY <1>1 DEF History, AgentInv, Progress
<1>3. Unhalted(run, Len(run.steps)) /\ Decided(run, Len(run.steps))
  BY <1>1 DEF History
<1>4. Len(run.steps) - Extra(run) = Len(plan.steps)
  <2>1. EarnInv'
    BY EarnedEndOfPlan
  <2>2. UNCHANGED plan
    BY DEF EndOfPlan
  <2>3. run'.halt = "none"
    BY <1>1, <1>2
  <2> QED BY <2>1, <2>2, <2>3, <1>1 DEF EarnInv, PlanFollowed, Extra
<1>5. Unhalted(run', Len(run'.steps)) /\ Decided(run', Len(run'.steps)) /\ RecoveredIs(run')
      /\ Completed(run') /\ ReplanOf(run', run'.branch)
  BY <1>1, <1>2, <1>3, SameHistory DEF History
<1>6. Unhalted(run', Len(run'.steps) - 1)
  <2>1. Len(run'.steps) \in Nat
    BY <1>1, RunFacts
  <2> QED BY <2>1, <1>5 DEF Unhalted
<1>7. EndOfSteps(run')
  BY <1>1, <1>2, <1>4, <1>5 DEF EndOfSteps, Extra
<1>8. StatusesFollow(run'.steps, run'.decisions)
  BY <1>1 DEF History
<1>9. IsOver(run')
  BY <1>7 DEF IsOver
<1> QED BY <1>1, <1>5, <1>6, <1>8, <1>9 DEF History

LEMMA FailedPlace ==
  ASSUME AgentInv, run.pc = "failed", Completed(run), ReplanOf(run, run.branch)
  PROVE  /\ Place(run.steps, Len(run.steps)) = run.next
         /\ Len(run.steps) \in DOMAIN run.steps
         /\ run.replans # <<>> => Event(run).trigger < Len(run.steps)
<1>1. /\ run.next = Len(run.steps) - Extra(run) /\ run.steps # <<>>
      /\ ~InRecovery(run, Len(run.steps))
  BY DEF AgentInv, Progress
<1>2. Len(run.steps) \in DOMAIN run.steps
  BY <1>1, RunFacts
<1>3. Place(run.steps, Len(run.steps)) = PlaceIn(run, Len(run.steps))
  BY <1>2, RunFacts, PlaceIs
<1>4. CASE run.replans = <<>>
  <2>1. Extra(run) = 0
    BY <1>4 DEF Extra
  <2>2. run.next = Len(run.steps)
    BY <1>1, <2>1, RunFacts
  <2> QED BY <1>2, <1>3, <1>4, <2>2 DEF PlaceIn
<1>5. CASE run.replans # <<>>
  <2>1. Answered(run, run.branch) /\ Event(run).match /\ Event(run).status = "success"
    BY <1>5 DEF ReplanOf, Completed
  <2>2. Len(Event(run).steps) = Len(run.branch) /\ run.branch # <<>> /\ run.branch \in Seq(Step)
    BY <2>1 DEF Answered
  <2>3. Len(run.branch) \in Nat \ {0}
    BY <2>2
  <2>4. PICK n \in Nat, t \in Nat, m \in Nat \ {0} :
           n = Len(run.steps) /\ t = Event(run).trigger /\ m = Len(Event(run).steps) /\ m = Extra(run)
    BY <1>5, <2>2, <2>3, RunFacts DEF Event, Replan, Extra
  <2>5. t + m <= n
    BY <1>5, <2>4, RunFacts DEF Layout, Event
  <2>6. t < n
    BY <2>4, <2>5
  <2>7. PlaceIn(run, n) = n - m
    <3>1. ~(n <= run.replans[1].trigger) /\ m = Len(run.replans[1].steps) /\ ~InRecovery(run, n)
      BY <1>1, <2>4, <2>6 DEF Event
    <3> QED BY <3>1, <1>5, <2>4, PlaceAfter
  <2> QED BY <1>1, <1>2, <1>3, <2>4, <2>6, <2>7
<1> QED BY <1>4, <1>5

LEMMA HistoryGoOn == AgentInv /\ History(run) /\ GoOn => History(run)'
<1> SUFFICES ASSUME AgentInv, History(run), GoOn PROVE History(run')
  BY NextHistory DEF GoOn
<1>1. /\ run.pc = "failed" /\ ~LiveCallable /\ (Matching = {} \/ ~BudgetLeft)
      /\ run'.pc = "plan"
      /\ run'.steps = run.steps /\ run'.replans = run.replans
      /\ run'.branch = run.branch /\ run'.decisions = run.decisions
  BY GoOnShape DEF AgentInv, GoOnDoes, SameRequest
<1>2. ~Refused /\ Completed(run) /\ ReplanOf(run, run.branch)
  BY <1>1 DEF History
<1>3. /\ Place(run.steps, Len(run.steps)) = run.next
      /\ run.replans # <<>> => Event(run).trigger < Len(run.steps)
  BY <1>1, <1>2, FailedPlace
<1>4. PassedOver(run, Len(run.steps))
  <2>1. CASE ~BudgetLeft
    <3>1. CASE run.replans # <<>>
      BY <3>1, <1>3 DEF PassedOver
    <3>2. CASE run.replans = <<>>
      <4>1. contract.replan_limit \in {0, 1}
        BY ContractTypes DEF AgentInv, AgentTypeOK
      <4>2. ~(0 < contract.replan_limit)
        BY <3>2, <2>1 DEF BudgetLeft
      <4> QED BY <4>1, <4>2 DEF PassedOver
    <3> QED BY <3>1, <3>2
  <2>2. CASE BudgetLeft
    <3>1. Matching = {} /\ ~contract.live
      BY <2>2, <1>1 DEF LiveCallable
    <3>2. MatchingAt(Place(run.steps, Len(run.steps)), run.steps[Len(run.steps)].step.error) = {}
      BY <3>1, <1>3 DEF Matching, MatchingAt, Failure
    <3> QED BY <3>1, <3>2 DEF PassedOver
  <2> QED BY <2>1, <2>2
<1>5. Decided(run, Len(run.steps))
  <2>1. Decided(run, Len(run.steps) - 1)
    BY <1>1 DEF History
  <2>2. \A k \in 1..Len(run.steps) : k \in 1..(Len(run.steps) - 1) \/ k = Len(run.steps)
    BY RunFacts
  <2> QED BY <2>1, <2>2, <1>4 DEF Decided
<1>6. Unhalted(run, Len(run.steps))
  BY <1>1 DEF History
<1>7. Unhalted(run', Len(run'.steps)) /\ Decided(run', Len(run'.steps)) /\ RecoveredIs(run')
      /\ Completed(run') /\ ReplanOf(run', run'.branch)
  BY <1>1, <1>2, <1>5, <1>6, SameHistory DEF History
<1>8. StatusesFollow(run'.steps, run'.decisions)
  BY <1>1 DEF History
<1> QED BY <1>1, <1>2, <1>7, <1>8 DEF History
\* A new event answers the failure of the last step.
Replanned(steps, live, status, match) ==
    /\ run'.steps = run.steps /\ run'.decisions = run.decisions
    /\ Len(run'.replans) = 1 /\ run'.replans # <<>>
    /\ Event(run') = NewReplan(steps, live, status, match)

LEMMA ReplanCases ==
  ASSUME AgentInv, NEW steps, NEW live, NEW answered, ReplanDoes(steps, live, answered)
  PROVE  \/ /\ run'.pc = "done" /\ ~answered /\ run'.halt = "live_replan_callback_error"
            /\ Replanned(steps, live, "callback_error", FALSE)
         \/ /\ run'.pc = "done" /\ live /\ steps = <<>> /\ run'.halt = "live_replan_no_recovery"
            /\ Replanned(steps, live, "no_recovery", FALSE) /\ answered
         \/ /\ run'.pc = "done" /\ live /\ run'.halt = "recovery_step_limit_exceeded"
            /\ Replanned(steps, live, "limit_exceeded", FALSE)
            /\ answered /\ steps # <<>> /\ Len(steps) > contract.recovery_limit
         \/ /\ run'.pc = "done" /\ ~Fits(run.next, steps) /\ run'.halt = "recovery_sequence_violation"
            /\ Replanned(steps, live, "policy_violation", FALSE)
            /\ answered /\ steps # <<>>
         \/ /\ run'.pc = "recovery" /\ run'.branch = steps /\ Fits(run.next, steps)
            /\ steps # <<>> /\ (live => Len(steps) <= contract.recovery_limit)
            /\ Replanned(steps, live, "running", TRUE) /\ answered
<1>1. run.replans = <<>>
  BY NoReplanYet DEF ReplanDoes
<1>2. \A r : Append(<<>>, r)[1] = r /\ Len(Append(<<>>, r)) = 1 /\ Append(<<>>, r) # <<>>
  OBVIOUS
<1>3. \A status, halt : HaltedDoes(steps, live, status, halt) =>
         run'.pc = "done" /\ run'.halt = halt /\ Replanned(steps, live, status, FALSE)
  BY <1>1, <1>2 DEF HaltedDoes, SameRequest, Replanned, Event
<1>4. RecoveringDoes(steps, live) =>
         run'.pc = "recovery" /\ run'.branch = steps /\ Replanned(steps, live, "running", TRUE)
  BY <1>1, <1>2 DEF RecoveringDoes, SameRequest, Replanned, Event
<1>5. \/ HaltedDoes(steps, live, "callback_error", "live_replan_callback_error") /\ ~answered
      \/ HaltedDoes(steps, live, "no_recovery", "live_replan_no_recovery") /\ live /\ steps = <<>> /\ answered
      \/ HaltedDoes(steps, live, "limit_exceeded", "recovery_step_limit_exceeded") /\ live
         /\ answered /\ steps # <<>> /\ Len(steps) > contract.recovery_limit
      \/ HaltedDoes(steps, live, "policy_violation", "recovery_sequence_violation")
         /\ ~Fits(run.next, steps) /\ answered /\ steps # <<>>
      \/ RecoveringDoes(steps, live) /\ Fits(run.next, steps) /\ steps # <<>>
         /\ (live => Len(steps) <= contract.recovery_limit) /\ answered
  BY DEF ReplanDoes, Fits
<1>6. HaltedDoes(steps, live, "callback_error", "live_replan_callback_error") =>
         run'.pc = "done" /\ run'.halt = "live_replan_callback_error"
         /\ Replanned(steps, live, "callback_error", FALSE)
  BY <1>3
<1>7. HaltedDoes(steps, live, "no_recovery", "live_replan_no_recovery") =>
         run'.pc = "done" /\ run'.halt = "live_replan_no_recovery"
         /\ Replanned(steps, live, "no_recovery", FALSE)
  BY <1>3
<1>8. HaltedDoes(steps, live, "limit_exceeded", "recovery_step_limit_exceeded") =>
         run'.pc = "done" /\ run'.halt = "recovery_step_limit_exceeded"
         /\ Replanned(steps, live, "limit_exceeded", FALSE)
  BY <1>3
<1>9. HaltedDoes(steps, live, "policy_violation", "recovery_sequence_violation") =>
         run'.pc = "done" /\ run'.halt = "recovery_sequence_violation"
         /\ Replanned(steps, live, "policy_violation", FALSE)
  BY <1>3
<1> QED BY <1>4, <1>5, <1>6, <1>7, <1>8, <1>9, Zenon

LEMMA HistoryReplan ==
  ASSUME AgentInv, History(run), NEW steps, NEW live \in BOOLEAN, NEW answered,
         ReplanDoes(steps, live, answered), UNCHANGED <<contract, plan>>,
         live => LiveCallable,
         ~live => answered /\ \E b \in Matching : steps = b.steps
  PROVE  History(run)'
<1> SUFFICES History(run')
  BY NextHistory
<1>1. run.pc = "failed" /\ BudgetLeft /\ steps \in Seq(Step)
  BY DEF ReplanDoes
<1>2. run.replans = <<>> /\ Extra(run) = 0
  BY <1>1, NoReplanYet
<1>3. contract.replan_limit = 1
  <2>1. contract.replan_limit \in {0, 1}
    BY ContractTypes DEF AgentInv, AgentTypeOK
  <2>2. 0 < contract.replan_limit
    BY <1>1, <1>2 DEF BudgetLeft
  <2> QED BY <2>1, <2>2
<1>4. ~Refused
  BY <1>1 DEF History
<1>5. PICK n \in Nat \ {0} : n = Len(run.steps) /\ n = run.next
  BY <1>1, <1>2, RunFacts DEF AgentInv, Progress
<1>6. run.steps[n].status = "failed" /\ Failure = run.steps[n].step.error
  BY <1>1, <1>5 DEF AgentInv, Progress, Failure
<1>7. Matching = MatchingAt(n, Failure)
  BY <1>5 DEF Matching, MatchingAt
<1> DEFINE r == Event(run')
<1>8. \/ /\ run'.pc = "done" /\ live /\ run'.halt = "live_replan_callback_error"
         /\ Replanned(steps, live, "callback_error", FALSE)
      \/ /\ run'.pc = "done" /\ live /\ steps = <<>> /\ run'.halt = "live_replan_no_recovery"
         /\ Replanned(steps, live, "no_recovery", FALSE)
      \/ /\ run'.pc = "done" /\ live /\ run'.halt = "recovery_step_limit_exceeded"
         /\ Replanned(steps, live, "limit_exceeded", FALSE)
      \/ /\ run'.pc = "done" /\ ~Fits(n, steps) /\ run'.halt = "recovery_sequence_violation"
         /\ Replanned(steps, live, "policy_violation", FALSE)
      \/ /\ run'.pc = "recovery" /\ run'.branch = steps /\ Fits(n, steps)
         /\ steps # <<>> /\ (live => Len(steps) <= contract.recovery_limit)
         /\ Replanned(steps, live, "running", TRUE)
  BY <1>5, ReplanCases
<1>9. /\ run'.steps = run.steps /\ run'.decisions = run.decisions
      /\ run'.replans # <<>> /\ run'.pc \in {"done", "recovery"}
      /\ r.trigger = n /\ r.error = Failure /\ (r.live <=> live) /\ r.planned = Len(steps)
      /\ r.steps = <<>> /\ r.status # "success"
  <2>1. \A status, match :
           /\ NewReplan(steps, live, status, match).trigger = n
           /\ NewReplan(steps, live, status, match).error = Failure
           /\ NewReplan(steps, live, status, match).planned = Len(steps)
           /\ NewReplan(steps, live, status, match).steps = <<>>
           /\ NewReplan(steps, live, status, match).status = status
    BY <1>5 DEF NewReplan
  <2>7. \A status, match : NewReplan(steps, live, status, match).live <=> live
    BY DEF NewReplan
  <2>2. PICK status : /\ \/ Replanned(steps, live, status, TRUE)
                         \/ Replanned(steps, live, status, FALSE)
                      /\ status # "success" /\ run'.pc \in {"done", "recovery"}
    BY <1>8
  <2>3. PICK match : r = NewReplan(steps, live, status, match)
    BY <2>2, Zenon DEF Replanned
  <2>4. /\ r.trigger = n /\ r.error = Failure /\ r.planned = Len(steps)
        /\ r.steps = <<>> /\ r.status # "success"
    <3> HIDE DEF r
    <3> QED BY <2>1, <2>2, <2>3
  <2>5. r.live <=> live
    <3> HIDE DEF r
    <3> QED BY <2>3, <2>7, Zenon
  <2>6. run'.steps = run.steps /\ run'.decisions = run.decisions /\ run'.replans # <<>>
    BY <2>2 DEF Replanned
  <2> QED BY <2>2, <2>4, <2>5, <2>6
<1>10. \/ /\ run'.pc = "done" /\ ~r.match /\ NoRecovery(r, run'.halt)
          /\ ~live => ~Fits(n, steps)
       \/ /\ run'.pc = "recovery" /\ r.match /\ r.status = "running" /\ run'.branch = steps
          /\ Fits(n, steps) /\ steps # <<>> /\ (live => Len(steps) <= contract.recovery_limit)
  <2>1. \A status : /\ ~NewReplan(steps, live, status, FALSE).match
                    /\ NewReplan(steps, live, status, TRUE).match
                    /\ NewReplan(steps, live, status, TRUE).status = status
                    /\ NewReplan(steps, live, status, FALSE).status = status
    BY DEF NewReplan
  <2>2. Len(<<>>) = 0
    OBVIOUS
  <2>3. \/ /\ run'.pc = "done" /\ live /\ run'.halt = "live_replan_callback_error"
           /\ r.status = "callback_error" /\ ~r.match
        \/ /\ run'.pc = "done" /\ live /\ steps = <<>> /\ run'.halt = "live_replan_no_recovery"
           /\ r.status = "no_recovery" /\ ~r.match
        \/ /\ run'.pc = "done" /\ live /\ run'.halt = "recovery_step_limit_exceeded"
           /\ r.status = "limit_exceeded" /\ ~r.match
        \/ /\ run'.pc = "done" /\ ~Fits(n, steps) /\ run'.halt = "recovery_sequence_violation"
           /\ r.status = "policy_violation" /\ ~r.match
        \/ /\ run'.pc = "recovery" /\ run'.branch = steps /\ Fits(n, steps)
           /\ steps # <<>> /\ (live => Len(steps) <= contract.recovery_limit)
           /\ r.status = "running" /\ r.match
    BY <1>8, <2>1 DEF Replanned
  <2> HIDE DEF r
  <2> QED BY <2>2, <2>3, <1>9 DEF NoRecovery
<1>11. Answered(run', run'.branch)
  <2>1. run'.steps[n].status = "failed" /\ Failure = run'.steps[n].step.error
    BY <1>6, <1>9
  <2>2. r.live => MatchingAt(n, Failure) = {} /\ contract.live
    BY <1>7, <1>9 DEF LiveCallable
  <2>3. ~r.live => \E b \in MatchingAt(n, Failure) :
                     /\ r.planned = Len(b.steps)
                     /\ r.match <=> Fits(n, b.steps)
                     /\ r.match => run'.branch = b.steps
    <3> SUFFICES ASSUME ~r.live
                 PROVE  \E b \in MatchingAt(n, Failure) :
                          /\ r.planned = Len(b.steps)
                          /\ r.match <=> Fits(n, b.steps)
                          /\ r.match => run'.branch = b.steps
      OBVIOUS
    <3>1. PICK b \in MatchingAt(n, Failure) : steps = b.steps
      BY <1>7, <1>9
    <3>2. r.match <=> Fits(n, b.steps)
      BY <3>1, <1>9, <1>10
    <3>3. r.match => run'.branch = b.steps
      BY <3>1, <1>10
    <3> QED BY <3>1, <3>2, <3>3, <1>9
  <2>4. Len(r.steps) = 0
    BY <1>9
  <2>5. r.match =>
          /\ run'.branch \in Seq(Step) /\ run'.branch # <<>>
          /\ r.planned = Len(run'.branch) /\ Fits(n, run'.branch)
          /\ r.live => Len(run'.branch) <= contract.recovery_limit
          /\ Len(r.steps) <= Len(run'.branch)
          /\ \A j \in 1..Len(r.steps) : run'.steps[r.trigger + j].step = run'.branch[j]
          /\ r.status \in {"running", "success", "failed"}
          /\ r.status = "success" => Len(r.steps) = Len(run'.branch)
    <3> SUFFICES ASSUME r.match
                 PROVE  /\ run'.branch \in Seq(Step) /\ run'.branch # <<>>
                        /\ r.planned = Len(run'.branch) /\ Fits(n, run'.branch)
                        /\ r.live => Len(run'.branch) <= contract.recovery_limit
                        /\ Len(r.steps) <= Len(run'.branch)
                        /\ \A j \in 1..Len(r.steps) : run'.steps[r.trigger + j].step = run'.branch[j]
                        /\ r.status \in {"running", "success", "failed"}
                        /\ r.status = "success" => Len(r.steps) = Len(run'.branch)
      OBVIOUS
    <3>1. /\ r.status = "running" /\ run'.branch = steps /\ Fits(n, steps) /\ steps # <<>>
          /\ live => Len(steps) <= contract.recovery_limit
      BY <1>10
    <3>2. Len(r.steps) <= Len(run'.branch)
      BY <1>1, <2>4, <3>1
    <3>3. \A j \in 1..Len(r.steps) : run'.steps[r.trigger + j].step = run'.branch[j]
      BY <2>4
    <3> QED BY <1>1, <1>9, <3>1, <3>2, <3>3
  <2>6. ~r.match => Len(r.steps) = 0 /\ Len(run'.steps) = n /\ NoRecovery(r, run'.halt)
    BY <1>5, <1>9, <1>10, <2>4
  <2> QED BY <1>3, <1>9, <2>1, <2>2, <2>3, <2>5, <2>6 DEF Answered
<1>12. Decided(run', n)
  <2>1. Decided(run, n - 1)
    BY <1>1, <1>5 DEF History
  <2>2. \A k \in 1..n : k = n \/ k \in 1..(n - 1)
    BY <1>5
  <2>3. \A k \in 1..(n - 1) : PassedOver(run, k) => PassedOver(run', k)
    BY <1>2, <1>9 DEF PassedOver
  <2>4. \A k \in 1..(n - 1) :
           run'.steps[k].parent = 0 /\ run'.steps[k].status = "failed" => PassedOver(run', k)
    BY <1>2, <1>9, <2>1, <2>3 DEF Decided
  <2> QED BY <1>9, <2>2, <2>4 DEF Decided
<1>13. Unhalted(run', n) /\ Unhalted(run', n - 1)
  <2>1. Unhalted(run, n)
    BY <1>1, <1>5 DEF History
  <2>2. \A k \in 1..(n - 1) : k \in 1..n
    BY <1>5
  <2> QED BY <1>9, <2>1, <2>2 DEF Unhalted
<1>14. RecoveredIs(run')
  <2>1. \A k \in DOMAIN run.steps : ~run.steps[k].recovered
    BY <1>2, Zenon DEF History, RecoveredIs
  <2>2. Event(run').status # "success"
    BY <1>9
  <2> QED BY <1>9, <2>1, <2>2, Zenon DEF RecoveredIs
<1>15. run'.pc = "done" => EndUnanswered(run')
  BY <1>4, <1>9, <1>10 DEF EndUnanswered
<1>16. StatusesFollow(run'.steps, run'.decisions)
  BY <1>9 DEF History
<1>17. Len(run'.steps) = n
  BY <1>5, <1>9
<1> HIDE DEF r
<1> QED BY <1>4, <1>9, <1>11, <1>12, <1>13, <1>14, <1>15, <1>16, <1>17 DEF History, ReplanOf, IsOver
LEMMA HistoryRecoveryStep == AgentInv /\ History(run) /\ RecoveryStep => History(run)'
<1> SUFFICES ASSUME AgentInv, History(run), RecoveryStep PROVE History(run')
  BY NextHistory DEF RecoveryStep
<1> DEFINE r == Event(run)
           q == Event(run')
           i == Len(r.steps) + 1
           step == run.branch[i]
           expected == ExpectedAt(ExpectedRecovery(run.next), i)
           e == Perform(step, expected, run.next)
           steps == Append(run.steps, e)
<1>1. /\ run.pc = "recovery" /\ i \in DOMAIN run.branch /\ run'.branch = run.branch
      /\ run'.decisions = run.decisions
      /\ r.trigger = run.next /\ Len(run.replans) = 1 /\ r.status = "running"
      /\ Len(run'.replans) = 1 /\ run' \in Run /\ SameReplan(q, r)
      /\ q.steps = Append(r.steps, Len(run.steps) + 1)
      /\ \/ ~Successful(e) /\ run'.pc = "done" /\ run'.halt = "recovery_failed"
            /\ run'.steps = steps /\ q.status = "failed"
         \/ Successful(e) /\ run'.pc = "recovery" /\ run'.steps = steps /\ q.status = "running"
         \/ Successful(e) /\ i = Len(run.branch) /\ run'.pc = "plan"
            /\ run'.steps = Repaired(steps, run.next) /\ q.status = "success"
  BY RecoveryStepShape DEF RecoveryStepDoes, Event, SameRequest
<1>2. step \in Step
  BY <1>1, RunFacts
<1>3. e \in Executed
  BY <1>2, RunFacts, PerformedStep
<1>4. /\ run.next # 0 /\ e.parent = run.next /\ ~e.recovered /\ e.step = step
      /\ e.status = StatusOf(run.steps, run.decisions, step, expected)
  BY RunFacts, PerformedFields
<1>5. run.replans # <<>> /\ run'.replans # <<>>
  <2>1. \A s \in Seq(Replan) : Len(s) = 1 => s # <<>>
    OBVIOUS
  <2>2. run.replans \in Seq(Replan) /\ run'.replans \in Seq(Replan)
    BY <1>1, RunFacts DEF Run
  <2> QED BY <1>1, <2>1, <2>2
<1>6. PICK n \in Nat, t \in Nat \ {0}, m \in Nat :
         n = Len(run.steps) /\ t = run.next /\ m = Len(r.steps) /\ n = t + m /\ i = m + 1
  <2>1. Len(run.steps) = run.next + Extra(run) /\ Extra(run) = Len(r.steps)
    BY <1>1, <1>5 DEF AgentInv, Progress, Extra, Event
  <2> QED BY <2>1, RunFacts
<1>7. t \in DOMAIN run.steps /\ t \in 1..n /\ DOMAIN run.steps = 1..n
  BY <1>6, RunFacts
<1>8. Len(q.steps) = m + 1
  <2>1. r.steps \in Seq(Nat \ {0})
    BY <1>5, RunFacts DEF Replan, Event
  <2>2. n + 1 \in Nat \ {0}
    BY <1>6
  <2> QED BY <1>1, <1>6, <2>1, <2>2, Appended
<1>9. Place(run'.steps, n + 1) = m + 1
  BY <1>6, RecoveryStepPlace DEF Event
<1>10. expected = ExpectedAt(IF e.parent = 0 THEN contract.expected ELSE ExpectedRecovery(e.parent),
                             Place(run'.steps, n + 1))
  BY <1>4, <1>6, <1>9
<1>11. Answered(run, run.branch) /\ ~Refused
  BY <1>1, <1>5 DEF History, ReplanOf
<1>12. r.match
  BY <1>1, <1>11 DEF Answered, NoRecovery
<1>13. /\ q.trigger = t /\ q.error = r.error /\ (q.live <=> r.live) /\ q.match /\ q.planned = r.planned
  BY <1>1, <1>6, <1>12 DEF SameReplan
<1> HIDE DEF step, expected, e, i, q
<1>14. /\ steps \in Seq(Executed) /\ \A k \in DOMAIN run.steps : steps[k] = run.steps[k]
       /\ steps[n + 1] = e /\ DOMAIN steps = DOMAIN run.steps \cup {n + 1}
       /\ t \in DOMAIN steps
  <2>1. /\ steps \in Seq(Executed) /\ \A k \in DOMAIN run.steps : steps[k] = run.steps[k]
        /\ steps[Len(run.steps) + 1] = e
        /\ DOMAIN steps = DOMAIN run.steps \cup {Len(run.steps) + 1}
    BY <1>3, RunFacts, Appended
  <2>2. Len(run.steps) = n
    BY <1>6
  <2> HIDE DEF steps
  <2> QED BY <2>1, <2>2, <1>7
<1> HIDE DEF r
<1>15. Grows(run.steps, run'.steps, e)
  BY <1>1, <1>3, <1>6, <1>7, RunFacts, AppendGrows, RepairGrows
<1> HIDE DEF steps
<1>16. StatusesFollow(run'.steps, run'.decisions)
  <2>1. StatusesFollow(run.steps, run.decisions)
    BY DEF History
  <2> QED BY <2>1, <1>1, <1>4, <1>6, <1>10, <1>15, StatusesGrow
<1>17. Answered(run', run'.branch)
  <2>1. /\ \A k \in 1..n : run'.steps[k].step = run.steps[k].step
                        /\ run'.steps[k].status = run.steps[k].status
        /\ run'.steps[n + 1].step = step
    BY <1>4, <1>6, <1>7, <1>15 DEF Grows, SameStep
  <2>2. /\ contract.replan_limit = 1
        /\ run.steps[t].status = "failed" /\ r.error = run.steps[t].step.error
        /\ r.live => MatchingAt(t, r.error) = {} /\ contract.live
    BY <1>1, <1>6, <1>11 DEF Answered, r
  <2>3. ~r.live => \E b \in MatchingAt(t, r.error) :
                     /\ r.planned = Len(b.steps)
                     /\ r.match <=> Fits(t, b.steps)
                     /\ r.match => run.branch = b.steps
    BY <1>1, <1>6, <1>11 DEF Answered, r
  <2>4. /\ run.branch \in Seq(Step) /\ run.branch # <<>>
        /\ r.planned = Len(run.branch) /\ Fits(t, run.branch)
        /\ r.live => Len(run.branch) <= contract.recovery_limit
    BY <1>1, <1>6, <1>11, <1>12 DEF Answered, r
  <2>5. \A j \in 1..m : run.steps[t + j].step = run.branch[j]
    BY <1>1, <1>6, <1>11, <1>12 DEF Answered, r
  <2>6. m + 1 <= Len(run.branch) /\ step = run.branch[m + 1]
    BY <1>1, <1>6, <2>4 DEF step
  <2>7. \A j \in 1..(m + 1) : run'.steps[t + j].step = run.branch[j]
    <3> SUFFICES ASSUME NEW j \in 1..(m + 1) PROVE run'.steps[t + j].step = run.branch[j]
      OBVIOUS
    <3>1. CASE j \in 1..m
      <4>1. t + j \in 1..n
        BY <3>1, <1>6
      <4> QED BY <3>1, <4>1, <2>1, <2>5
    <3>2. CASE j = m + 1
      <4>1. t + j = n + 1
        BY <3>2, <1>6
      <4> QED BY <3>2, <4>1, <2>1, <2>6
    <3> QED BY <3>1, <3>2
  <2>8. q.status \in {"running", "success", "failed"}
        /\ (q.status = "success" => m + 1 = Len(run.branch))
    BY <1>1, <1>6
  <2>9. ~q.live => \E b \in MatchingAt(t, q.error) :
                     /\ q.planned = Len(b.steps)
                     /\ q.match <=> Fits(t, b.steps)
                     /\ q.match => run'.branch = b.steps
    BY <2>3, <1>1, <1>12, <1>13
  <2>10. q.live => MatchingAt(t, q.error) = {} /\ contract.live
    BY <2>2, <1>13
  <2>11. run'.steps[t].status = "failed" /\ q.error = run'.steps[t].step.error
    BY <2>1, <2>2, <1>7, <1>13
  <2> QED BY <1>1, <1>8, <1>13, <2>2, <2>4, <2>6, <2>7, <2>8, <2>9, <2>10, <2>11 DEF Answered, q
<1>18. SameTrigger(run, run')
  BY <1>1, <1>5, <1>6, <1>13 DEF SameTrigger, r, q
<1>19. Decided(run', Len(run'.steps)) /\ run'.pc # "failed"
  <2>1. Decided(run, Len(run.steps))
    BY <1>1 DEF History
  <2>2. e.parent # 0
    BY <1>4
  <2> QED BY <2>1, <2>2, <1>1, <1>15, <1>18, DecidedGrows
<1>20. Unhalted(run', IF run'.pc = "done" THEN Len(run'.steps) - 1 ELSE Len(run'.steps))
  <2>1. Unhalted(run, Len(run.steps))
    BY <1>1 DEF History
  <2>2. /\ Unhalted(run', Len(run'.steps) - 1)
        /\ ~Halting(e) => Unhalted(run', Len(run'.steps))
    BY <2>1, <1>15, UnhaltedGrows
  <2>3. Successful(e) => ~Halting(e)
    BY DEF Successful, Halting
  <2> QED BY <2>2, <2>3, <1>1
<1>21. RecoveredIs(run')
  <2>1. \A k \in DOMAIN run.steps : ~run.steps[k].recovered
    <3>1. Event(run).status # "success"
      BY <1>1 DEF r
    <3> QED BY <3>1, Zenon DEF History, RecoveredIs
  <2>2. \A k \in DOMAIN steps : ~steps[k].recovered
    BY <2>1, <1>4, <1>14
  <2>3. CASE run'.steps = steps /\ q.status # "success"
    BY <2>2, <2>3, Zenon DEF RecoveredIs, q
  <2>4. CASE run'.steps = Repaired(steps, run.next) /\ q.status = "success"
    <3>1. /\ Len(Repaired(steps, t)) = Len(steps) /\ Repaired(steps, t) \in Seq(Executed)
          /\ \A k \in DOMAIN steps :
                Repaired(steps, t)[k].recovered <=> (k = t \/ steps[k].recovered)
      BY <1>14, RepairedSteps
    <3>2. DOMAIN run'.steps = DOMAIN steps
      BY <2>4, <3>1, <1>6, <1>14
    <3>3. \A k \in DOMAIN run'.steps : run'.steps[k].recovered <=> k = t
      <4> TAKE k \in DOMAIN run'.steps
      <4>1. Repaired(steps, t)[k].recovered <=> (k = t \/ steps[k].recovered)
        BY <3>1, <3>2, Zenon
      <4>2. ~steps[k].recovered
        BY <2>2, <3>2, Zenon
      <4>3. run'.steps = Repaired(steps, t)
        BY <2>4, <1>6
      <4> QED BY <4>1, <4>2, <4>3, Zenon
    <3> QED BY <3>3, <2>4, <1>5, <1>13, Zenon DEF RecoveredIs, q
  <2> QED BY <1>1, <2>3, <2>4
<1>22. run'.pc \in {"plan", "failed"} => Completed(run')
  BY <1>1, <1>13 DEF Completed, q
<1>23. run'.pc = "done" => EndUnrecovered(run')
  <2> SUFFICES ASSUME run'.pc = "done" PROVE EndUnrecovered(run')
    OBVIOUS
  <2>1. ~Successful(e) /\ run'.halt = "recovery_failed" /\ q.status = "failed"
    BY <1>1
  <2>2. Len(run'.steps) = n + 1 /\ SameStep(run'.steps[n + 1], e)
    BY <1>6, <1>15 DEF Grows
  <2>3. n + 1 # 0
    BY <1>6
  <2>4. run'.steps[Len(run'.steps)].parent # 0 /\ ~Successful(run'.steps[Len(run'.steps)])
    BY <2>1, <2>2, <1>4 DEF SameStep, Successful
  <2> QED BY <2>1, <2>2, <2>3, <2>4, <1>5, <1>11, <1>13 DEF EndUnrecovered, q
<1> QED BY <1>11, <1>16, <1>17, <1>19, <1>20, <1>21, <1>22, <1>23 DEF History, ReplanOf, IsOver
-----------------------------------------------------------------------------
(* What holds of the traces and of the execution that is compared with one *)

LEMMA RunWhole ==
  ASSUME AgentInv, EarnInv, History(run), run.pc = "done"
  PROVE  Whole(run, run.branch)
<1>1. Followed(run)
  BY DEF EarnInv, PlanFollowed, Followed
<1>2. run.steps \in Seq(Executed) /\ run.replans \in Seq(Replan) /\ Layout(run)
  BY RunFacts
<1> QED BY <1>1, <1>2 DEF Whole, History

LEMMA WholeFields ==
  ASSUME NEW x, NEW y, NEW branch, Whole(x, branch),
         y.steps = x.steps, y.replans = x.replans, y.halt = x.halt
  PROVE  Whole(y, branch)
<1>1. Event(y) = Event(x) /\ Extra(y) = Extra(x) /\ (Completed(y) <=> Completed(x))
  BY DEF Event, Extra, Completed
<1>2. Layout(y) /\ Followed(y)
  BY DEF Whole, Layout, Followed, InRecovery
<1>3. ReplanOf(y, branch)
  BY <1>1 DEF Whole, ReplanOf, Answered
<1>4. RecoveredIs(y) /\ Decided(y, Len(y.steps)) /\ Unhalted(y, Len(y.steps) - 1)
  BY SameHistory DEF Whole
<1>5. IsOver(y)
  BY <1>1 DEF Whole, IsOver, EndRefused, EndHalted, EndUnanswered, EndUnrecovered, EndOfSteps, Unhalted
<1> QED BY <1>2, <1>3, <1>4, <1>5 DEF Whole

LEMMA NextWhole ==
  ASSUME UNCHANGED <<contract, plan>>
  PROVE  /\ \A branch : Whole(trace, branch)' <=> Whole(trace', branch)
         /\ \A d : StatusesFollow(trace.steps, d)' <=> StatusesFollow(trace'.steps, d)
         /\ Verdict(trace)' = Verdict(trace')
<1>1. \A d : StatusesFollow(trace.steps, d)' <=> StatusesFollow(trace'.steps, d)
  <2>1. \A p, step, expected : Violates(p, step, expected)' <=> Violates(p, step, expected)
    BY DEF Violates, ApprovedIn
  <2>2. \A k : Prior(trace.steps, k)' = Prior(trace'.steps, k)
    BY DEF Prior
  <2>3. \A k : ExpectedOf(trace.steps, k)' = ExpectedOf(trace'.steps, k)
    BY DEF ExpectedOf, ExpectedAt, ExpectedRecovery, Place
  <2> QED BY <2>1, <2>2, <2>3 DEF StatusesFollow, StatusOf
<1>2. \A branch : ReplanOf(trace, branch)' <=> ReplanOf(trace', branch)
  BY DEF ReplanOf, Answered, Event, MatchingAt, Fits, ExpectedRecovery, ActionsOf, NoRecovery
<1>3. \A n : Decided(trace, n)' <=> Decided(trace', n)
  BY DEF Decided, PassedOver, Event, MatchingAt, Place
<1>4. \A n : Unhalted(trace, n)' <=> Unhalted(trace', n)
  BY DEF Unhalted, Halting, Successful
<1>5. RecoveredIs(trace)' <=> RecoveredIs(trace')
  BY Zenon DEF RecoveredIs, Event
<1>6. Refused' <=> Refused
  BY DEF Refused, Overlap
<1>7. Completed(trace)' <=> Completed(trace')
  BY DEF Completed, Event
<1>8. IsOver(trace)' <=> IsOver(trace')
  BY <1>4, <1>6, <1>7 DEF IsOver, EndRefused, EndHalted, EndUnanswered, EndUnrecovered, EndOfSteps,
         Event, Extra, Successful, Unhalted, Halting, Completed
<1>9. (Layout(trace)' <=> Layout(trace')) /\ (Followed(trace)' <=> Followed(trace'))
  BY DEF Layout, InRecovery, Followed, Place
<1>10. \A branch : Whole(trace, branch)' <=> Whole(trace', branch)
  BY <1>2, <1>3, <1>4, <1>5, <1>8, <1>9 DEF Whole
<1>11. Verdict(trace)' = Verdict(trace')
  <2>1. PlanValid(trace)' <=> PlanValid(trace')
    BY DEF PlanValid, ActionsOf
  <2>2. Earned(trace)' <=> Earned(trace')
    BY <2>1 DEF Earned, Successful
  <2> QED BY <2>2 DEF Verdict, Successful
<1> QED BY <1>1, <1>10, <1>11

\* A trace is that of an execution which is over; the decisions one reads from
\* it, and in a first execution those of the request, explain every step.
TraceInv ==
    trace # NoTrace =>
       /\ \E branch : Whole(trace, branch)
       /\ StatusesFollow(trace.steps, DecisionsIn(trace))
       /\ before = NoTrace => StatusesFollow(trace.steps, inline)
       /\ trace.status = Verdict(trace)

\* The steps that _RecordedLiveReplanCallback returns.
RecordedSteps(t) == [k \in DOMAIN Event(t).steps |-> t.steps[Event(t).steps[k]].step]

\* A replay answered the failure that a live model answered with what is recorded.
ReplayedLive ==
    /\ run.replans # <<>> /\ trace.replans # <<>>
    /\ Event(run).live /\ Event(trace).live
    /\ Event(run).trigger = Event(trace).trigger /\ Event(run).error = Event(trace).error
    => LET steps == RecordedSteps(trace) IN
       /\ steps = <<>> => ~Event(run).match /\ Event(run).status = "no_recovery"
       /\ steps # <<>> /\ Fits(Event(trace).trigger, steps) /\ Len(steps) <= contract.recovery_limit
          => Event(run).match /\ run.branch = steps

DecisionsOfReplay == IF DecisionsIn(trace) = Undecided THEN inline ELSE DecisionsIn(trace)

\* What the execution that goes on started with.
StartedFrom ==
    run.pc # "idle" =>
       /\ run.mode = "execute" => run.decisions = inline
       /\ run.mode = "resume" =>
             /\ trace # NoTrace
             /\ \E c \in Pending(trace), d \in {"approved", "denied"} :
                   run.decisions = PersistedDecisions(c, d)
       /\ run.mode = "replay" =>
             trace # NoTrace /\ run.decisions = DecisionsOfReplay /\ ReplayedLive

AgreeInv == History(run) /\ TraceInv /\ StartedFrom /\ ReexecutionAgrees

LEMMA TraceInvSame ==
  ASSUME TraceInv, UNCHANGED <<contract, plan, inline, trace, before>>
  PROVE  TraceInv'
<1>1. /\ \A branch : Whole(trace, branch)' <=> Whole(trace, branch)
      /\ \A d : StatusesFollow(trace.steps, d)' <=> StatusesFollow(trace.steps, d)
      /\ Verdict(trace)' = Verdict(trace)
  BY NextWhole
<1>2. DecisionsIn(trace)' = DecisionsIn(trace)
  BY DEF DecisionsIn
<1>3. trace' # NoTrace => trace # NoTrace
  OBVIOUS
<1> SUFFICES ASSUME trace # NoTrace
             PROVE  /\ \E branch : Whole(trace, branch)'
                    /\ StatusesFollow(trace.steps, DecisionsIn(trace))'
                    /\ before' = NoTrace => StatusesFollow(trace.steps, inline)'
                    /\ trace'.status = Verdict(trace)'
  BY <1>3 DEF TraceInv
<1>4. /\ \E branch : Whole(trace, branch)
      /\ StatusesFollow(trace.steps, DecisionsIn(trace))
      /\ before = NoTrace => StatusesFollow(trace.steps, inline)
      /\ trace.status = Verdict(trace)
  BY DEF TraceInv
<1>5. StatusesFollow(trace.steps, DecisionsIn(trace))' <=> StatusesFollow(trace.steps, DecisionsIn(trace))
  BY <1>1, <1>2 DEF StatusesFollow
<1>6. StatusesFollow(trace.steps, inline)' <=> StatusesFollow(trace.steps, inline)
  BY <1>1 DEF StatusesFollow
<1> QED BY <1>1, <1>4, <1>5, <1>6
\* What a checkpoint did that was not a violation is what was decided of it.
LEMMA DecidedStatus ==
  ASSUME NEW s \in Seq(Executed), NEW d \in [Checkpoints -> Decisions], StatusesFollow(s, d),
         NEW k \in DOMAIN s, s[k].status # "policy_violation"
  PROVE  /\ s[k].step.action = "approval_checkpoint" =>
               s[k].step.gate \in Checkpoints /\ s[k].status = d[s[k].step.gate]
         /\ s[k].step.action # "approval_checkpoint" => s[k].status \in {"failed", "success"}
<1>1. s[k].status = StatusOf(Prior(s, k), d, s[k].step, ExpectedOf(s, k))
  BY DEF StatusesFollow
<1>2. ~Violates(Prior(s, k), s[k].step, ExpectedOf(s, k))
  BY <1>1 DEF StatusOf
<1>3. s[k].step \in Step
  <2>1. s[k] \in Executed
    OBVIOUS
  <2> QED BY <2>1 DEF Executed
<1>4. s[k].step.action = "approval_checkpoint" => s[k].step.gate \in Checkpoints
  <2> DEFINE step == s[k].step
             prior == Prior(s, k)
             expected == ExpectedOf(s, k)
  <2>1. step \in Step /\ ~Violates(prior, step, expected)
    BY <1>2, <1>3
  <2>2. step.action = "approval_checkpoint" => step.gate # NoCheckpoint
    <3> HIDE DEF step, prior, expected
    <3> QED BY <2>1 DEF Violates
  <2>3. step.gate \in Checkpoints \cup {NoCheckpoint}
    <3> HIDE DEF step
    <3> QED BY <2>1 DEF Step
  <2> QED BY <2>2, <2>3
<1> QED BY <1>1, <1>2, <1>4 DEF StatusOf

\* The decisions that a trace shows explain it as those it was executed with do.
LEMMA DecisionsShown ==
  ASSUME NEW t, t.steps \in Seq(Executed), NEW d \in [Checkpoints -> Decisions],
         StatusesFollow(t.steps, d)
  PROVE  StatusesFollow(t.steps, DecisionsIn(t))
<1>1. SUFFICES ASSUME NEW k \in DOMAIN t.steps
               PROVE  t.steps[k].status
                        = StatusOf(Prior(t.steps, k), DecisionsIn(t), t.steps[k].step, ExpectedOf(t.steps, k))
  BY DEF StatusesFollow
<1> DEFINE step == t.steps[k].step
           expected == ExpectedOf(t.steps, k)
<1>2. t.steps[k].status = StatusOf(Prior(t.steps, k), d, step, expected)
  BY DEF StatusesFollow
<1>3. CASE Violates(Prior(t.steps, k), step, expected) \/ step.action # "approval_checkpoint"
  BY <1>2, <1>3 DEF StatusOf
<1>4. CASE ~Violates(Prior(t.steps, k), step, expected) /\ step.action = "approval_checkpoint"
  <2>1. t.steps[k].status = d[step.gate] /\ step \in Step
    <3>1. t.steps[k] \in Executed
      OBVIOUS
    <3>2. step \in Step
      BY <3>1 DEF Executed
    <3> QED BY <3>2, <1>2, <1>4 DEF StatusOf
  <2>2. step.gate \in Checkpoints
    BY <1>4, <2>1 DEF Violates, Step
  <2>3. t.steps[k].status \in Decisions
    BY <2>1, <2>2
  <2>4. \A j \in DOMAIN t.steps :
           t.steps[j].step.gate = step.gate /\ t.steps[j].status \in {"approved", "denied"}
           => t.steps[j].status = d[step.gate]
    <3> TAKE j \in DOMAIN t.steps
    <3> HAVE t.steps[j].step.gate = step.gate /\ t.steps[j].status \in {"approved", "denied"}
    <3> QED BY DecidedStatus
  <2>5. DecisionsIn(t)[step.gate] = d[step.gate]
    <3>1. DecisionsIn(t)[step.gate] =
            IF \E j \in DOMAIN t.steps : t.steps[j].step.gate = step.gate /\ t.steps[j].status = "approved"
            THEN "approved"
            ELSE IF \E j \in DOMAIN t.steps : t.steps[j].step.gate = step.gate /\ t.steps[j].status = "denied"
            THEN "denied" ELSE "pending"
      BY <2>2 DEF DecisionsIn
    <3>2. CASE d[step.gate] = "approved"
      BY <3>1, <3>2, <2>1
    <3>3. CASE d[step.gate] = "denied"
      BY <3>1, <3>3, <2>1, <2>4
    <3>4. CASE d[step.gate] = "pending"
      BY <3>1, <3>4, <2>4
    <3> QED BY <3>2, <3>3, <3>4, <2>1, <2>3 DEF Decisions
  <2>6. StatusOf(Prior(t.steps, k), DecisionsIn(t), step, expected) = DecisionsIn(t)[step.gate]
    BY <1>4 DEF StatusOf
  <2> QED BY <2>1, <2>5, <2>6
<1> QED BY <1>3, <1>4

\* A revision repeats what the model had no say in.
LEMMA ResumeAgrees ==
  ASSUME NEW x, NEW y, NEW bx, NEW by, Whole(x, bx), Whole(y, by), plan \in Plans,
         StatusesFollow(x.steps, DecisionsIn(x)),
         NEW c \in Pending(x), NEW decision,
         StatusesFollow(y.steps, [DecisionsIn(x) EXCEPT ![c] = decision])
  PROVE  \A i \in Settled(x) : i \in DOMAIN y.steps /\ SameStep(y.steps[i], x.steps[i])
<1> DEFINE dx == DecisionsIn(x)
           dy == [dx EXCEPT ![c] = decision]
<1>1. dx \in [Checkpoints -> Decisions]
  BY DecisionTypes
<1>2. SUFFICES ASSUME NEW i \in Settled(x)
               PROVE  i \in DOMAIN y.steps /\ SameStep(y.steps[i], x.steps[i])
  OBVIOUS
<1>3. PICK n \in Nat : n = Len(x.steps) /\ DOMAIN x.steps = 1..n /\ x.steps \in Seq(Executed)
  BY WholeNumbers DEF Whole
<1>4. i \in Nat \ {0} /\ i <= n /\ x.steps[i].status # "pending"
  BY <1>3 DEF Settled
<1>5. x.replans # <<>> /\ Event(x).live => ~(Event(x).trigger < i)
  <2>1. SUFFICES ASSUME x.replans # <<>>, Event(x).live, Event(x).trigger < i PROVE FALSE
    OBVIOUS
  <2>2. /\ Event(x).trigger \in Nat \ {0} /\ x.steps[Event(x).trigger].parent = 0
        /\ Place(x.steps, Event(x).trigger) = Event(x).trigger /\ Len(x.replans) = 1
    BY <2>1, WholeNumbers
  <2>3. Event(x).trigger \in 1..(i - 1)
    BY <2>1, <2>2, <1>4
  <2>4. 1 \in {k \in DOMAIN x.replans : x.replans[k].live}
    <3>1. 1 \in DOMAIN x.replans
      BY <2>2 DEF Whole
    <3> QED BY <3>1, <2>1 DEF Event
  <2>5. Event(x).trigger
          \in {x.replans[j].trigger : j \in {k \in DOMAIN x.replans : x.replans[k].live}}
    BY <2>4 DEF Event
  <2> QED BY <2>2, <2>3, <2>5 DEF Settled
<1>6. \A k \in 1..i :
         x.steps[k].step.action = "approval_checkpoint" /\ x.steps[k].status # "policy_violation"
         => dy[x.steps[k].step.gate] = x.steps[k].status
  <2> TAKE k \in 1..i
  <2> HAVE x.steps[k].step.action = "approval_checkpoint" /\ x.steps[k].status # "policy_violation"
  <2>1. k \in DOMAIN x.steps
    BY <1>3, <1>4
  <2>2. x.steps[k].step.gate \in Checkpoints /\ x.steps[k].status = dx[x.steps[k].step.gate]
    BY <1>1, <1>3, <2>1, DecidedStatus
  <2>3. x.steps[k].status # "pending"
    <3>1. k = i \/ k \in 1..(n - 1)
      BY <1>3, <1>4
    <3>2. k \in 1..(n - 1) => ~Halting(x.steps[k])
      BY <1>3 DEF Whole, Unhalted
    <3> QED BY <3>1, <3>2, <1>4 DEF Halting
  <2>4. dx[c] = "pending"
    <3>1. PICK j \in DOMAIN x.steps : x.steps[j].status = "pending" /\ c = x.steps[j].step.gate
      BY DEF Pending
    <3> QED BY <3>1, <1>1, <1>3, DecidedStatus
  <2>5. x.steps[k].step.gate # c
    BY <2>2, <2>3, <2>4
  <2>6. DOMAIN dx = Checkpoints
    BY <1>1
  <2> HIDE DEF dx
  <2> QED BY <2>2, <2>5, <2>6
<1>7. \A k \in 1..i : SameAnswer(x, bx, y, by, k)
  <2> SUFFICES ASSUME NEW k \in 1..i, x.replans # <<>>, Event(x).live, Event(x).trigger < k PROVE FALSE
    BY DEF SameAnswer
  <2>1. Event(x).trigger \in Nat
    BY WholeNumbers
  <2> QED BY <2>1, <1>4, <1>5
<1>8. Agree(x, y, i + 1)
  <2> HIDE DEF dx, dy
  <2>1. StatusesFollow(x.steps, dx) /\ StatusesFollow(y.steps, dy)
    BY DEF dx, dy
  <2>2. i \in Nat /\ i <= Len(x.steps)
    BY <1>3, <1>4
  <2> QED BY <2>1, <2>2, <1>1, <1>6, <1>7, Determinism
<1>9. i \in 1..((i + 1) - 1)
  BY <1>4
<1> QED BY <1>8, <1>9 DEF Agree
\* What a replay is told of a recovery that the trace holds in full.
LEMMA RecordedWhole ==
  ASSUME NEW x, NEW branch, Whole(x, branch), Replayable(x), x.replans # <<>>, Event(x).live
  PROVE  /\ Event(x).match =>
               /\ RecordedSteps(x) = branch /\ branch # <<>>
               /\ Fits(Event(x).trigger, branch) /\ Len(branch) <= contract.recovery_limit
         /\ ~Event(x).match => RecordedSteps(x) = <<>> /\ Event(x).status = "no_recovery"
<1>1. \/ Event(x).status \in {"success", "no_recovery"}
      \/ Event(x).status = "failed" /\ Len(Event(x).steps) = Event(x).planned
  <2>1. 1 \in DOMAIN x.replans
    BY WholeNumbers DEF Whole
  <2> QED BY <2>1 DEF Replayable, Event
<1>2. Answered(x, branch)
  BY Endings
<1>3. PICK n \in Nat, t \in Nat \ {0}, m \in Nat :
         n = Len(x.steps) /\ t = Event(x).trigger /\ m = Len(Event(x).steps)
  BY WholeNumbers
<1>4. Event(x).steps \in Seq(Nat \ {0})
  BY WholeNumbers DEF Replan
<1>5. CASE Event(x).match
  <2>1. /\ branch \in Seq(Step) /\ branch # <<>> /\ Event(x).planned = Len(branch)
        /\ Fits(t, branch) /\ Len(branch) <= contract.recovery_limit
        /\ Event(x).status \in {"running", "success", "failed"}
        /\ Event(x).status = "success" => m = Len(branch)
    BY <1>2, <1>3, <1>5 DEF Answered
  <2>2. m = Len(branch)
    BY <2>1, <1>1, <1>3
  <2>3. \A j \in 1..m : x.steps[t + j].step = branch[j]
    BY <1>2, <1>3, <1>5 DEF Answered
  <2>4. \A j \in DOMAIN Event(x).steps : Event(x).steps[j] = t + j
    BY <1>3 DEF Whole, Layout, Event
  <2>5. DOMAIN Event(x).steps = 1..m
    BY <1>3, <1>4
  <2>6. RecordedSteps(x) = [j \in 1..m |-> branch[j]]
    BY <2>3, <2>4, <2>5 DEF RecordedSteps
  <2>7. branch = [j \in 1..m |-> branch[j]]
    BY <2>1, <2>2
  <2> QED BY <2>1, <2>6, <2>7, <1>3, <1>5
<1>6. CASE ~Event(x).match
  <2>1. Event(x).status = "no_recovery"
    BY <1>1, <1>2, <1>6 DEF Answered, NoRecovery
  <2>2. Len(Event(x).steps) = 0
    BY <1>6, Endings
  <2>3. Event(x).steps = <<>>
    BY <2>2, <1>4
  <2>4. RecordedSteps(x) = <<>>
    BY <2>3 DEF RecordedSteps
  <2> QED BY <2>1, <2>4, <1>6
<1> QED BY <1>5, <1>6

LEMMA SameError ==
  ASSUME NEW x, NEW y, NEW bx, NEW by, Whole(x, bx), Whole(y, by), x.replans # <<>>, y.replans # <<>>,
         Event(x).trigger = Event(y).trigger
  PROVE  Event(y).error = Event(x).error
<1>1. \A z, b : Whole(z, b) /\ z.replans # <<>> => Event(z).error = plan.steps[Event(z).trigger].error
  <2> SUFFICES ASSUME NEW z, NEW b, Whole(z, b), z.replans # <<>>
               PROVE  Event(z).error = plan.steps[Event(z).trigger].error
    OBVIOUS
  <2>1. Event(z).error = z.steps[Event(z).trigger].step.error
    BY Endings DEF Answered
  <2>2. Event(z).trigger \in DOMAIN z.steps
    BY DEF Whole, Layout, Event
  <2>3. z.steps[Event(z).trigger].step = plan.steps[Event(z).trigger]
    BY <2>2, WholeNumbers DEF Whole, Followed
  <2> QED BY <2>1, <2>3
<1> QED BY <1>1

\* How the replay y answered what a live model answered in x.
AnsweredAlike(x, y, by) ==
    /\ x.replans # <<>> /\ y.replans # <<>> /\ Event(x).live /\ Event(y).live
    /\ Event(y).trigger = Event(x).trigger /\ Event(y).error = Event(x).error
    => LET steps == RecordedSteps(x) IN
       /\ steps = <<>> => ~Event(y).match /\ Event(y).status = "no_recovery"
       /\ steps # <<>> /\ Fits(Event(x).trigger, steps) /\ Len(steps) <= contract.recovery_limit
          => Event(y).match /\ by = steps

\* A replay with the same decisions repeats a trace that holds its live recovery.
LEMMA ReplayAgrees ==
  ASSUME NEW x, NEW y, NEW bx, NEW by, Whole(x, bx), Whole(y, by), plan \in Plans,
         NEW d \in [Checkpoints -> Decisions],
         StatusesFollow(x.steps, d), StatusesFollow(y.steps, d),
         Replayable(x), AnsweredAlike(x, y, by)
  PROVE  y.steps = x.steps /\ y.replans = x.replans /\ y.halt = x.halt
<1>1. PICK n \in Nat : n = Len(x.steps) /\ DOMAIN x.steps = 1..n /\ x.steps \in Seq(Executed)
  BY WholeNumbers DEF Whole
<1>2. ASSUME x.replans # <<>>, y.replans # <<>>, Event(x).trigger = Event(y).trigger,
             Event(x).live, Event(y).live
      PROVE  /\ SameRecovery(x, bx, y, by)
             /\ ~Event(x).match => Event(x).status = "no_recovery" /\ Event(y).status = "no_recovery"
  <2>1. Event(y).error = Event(x).error
    BY <1>2, SameError
  <2>2. LET steps == RecordedSteps(x) IN
        /\ steps = <<>> => ~Event(y).match /\ Event(y).status = "no_recovery"
        /\ steps # <<>> /\ Fits(Event(x).trigger, steps) /\ Len(steps) <= contract.recovery_limit
           => Event(y).match /\ by = steps
    BY <1>2, <2>1 DEF AnsweredAlike
  <2>3. /\ Event(x).match =>
               /\ RecordedSteps(x) = bx /\ bx # <<>>
               /\ Fits(Event(x).trigger, bx) /\ Len(bx) <= contract.recovery_limit
        /\ ~Event(x).match => RecordedSteps(x) = <<>> /\ Event(x).status = "no_recovery"
    BY <1>2, RecordedWhole
  <2>4. Event(x).match => Event(y).match /\ by = bx
    BY <2>2, <2>3
  <2>5. ~Event(x).match => ~Event(y).match /\ Event(y).status = "no_recovery"
    BY <2>2, <2>3
  <2> QED BY <2>3, <2>4, <2>5 DEF SameRecovery
<1>3. \A k : SameAnswer(x, bx, y, by, k)
  BY <1>2 DEF SameAnswer
<1>4. SameNone(x, y)
  BY <1>2 DEF SameNone
<1>5. \A k \in 1..n :
         x.steps[k].step.action = "approval_checkpoint" /\ x.steps[k].status # "policy_violation"
         => d[x.steps[k].step.gate] = x.steps[k].status
  BY <1>1, DecidedStatus
<1>6. Agree(x, y, n + 1)
  <2>1. n <= Len(x.steps)
    BY <1>1
  <2> QED BY <2>1, <1>3, <1>5, Determinism
<1>7. AllAgree(x, bx, y, by)
  BY <1>1, <1>3, <1>4, <1>6, AllAgreeWhen
<1> QED BY <1>7, SameExecuted, SameReplans, SameHalt
LEMMA AgreesSame ==
  ASSUME ReexecutionAgrees, UNCHANGED <<trace, before, replayed>>
  PROVE  ReexecutionAgrees'
<1>1. Settled(before)' = Settled(before) /\ (Replayable(trace)' <=> Replayable(trace))
      /\ DecisionsIn(trace)' = DecisionsIn(trace)
  BY DEF Settled, Replayable, DecisionsIn, Place
<1> QED BY <1>1 DEF ReexecutionAgrees, SameStep

LEMMA StartedSame ==
  ASSUME StartedFrom, run.pc # "idle", SameRequest, ReplayedLive => ReplayedLive',
         UNCHANGED <<contract, plan, inline, trace, before>>
  PROVE  StartedFrom'
<1>1. DecisionsOfReplay' = DecisionsOfReplay /\ DecisionsIn(trace)' = DecisionsIn(trace)
      /\ Pending(trace)' = Pending(trace)
  BY DEF DecisionsOfReplay, DecisionsIn, Undecided, Pending
<1>2. \A c, d : PersistedDecisions(c, d)' = PersistedDecisions(c, d)
  BY <1>1 DEF PersistedDecisions
<1>3. run'.mode = run.mode /\ run'.decisions = run.decisions
  BY DEF SameRequest
<1>4. /\ run.mode = "execute" => run.decisions = inline
      /\ run.mode = "resume" =>
            /\ trace # NoTrace
            /\ \E c \in Pending(trace), d \in {"approved", "denied"} :
                  run.decisions = PersistedDecisions(c, d)
      /\ run.mode = "replay" =>
            trace # NoTrace /\ run.decisions = DecisionsOfReplay /\ ReplayedLive
  BY DEF StartedFrom
<1>5. run'.mode = "execute" => run'.decisions = inline'
  BY <1>3, <1>4
<1>6. run'.mode = "resume" =>
        /\ trace' # NoTrace
        /\ \E c \in Pending(trace)', d \in {"approved", "denied"} :
              run'.decisions = PersistedDecisions(c, d)'
  BY <1>1, <1>2, <1>3, <1>4
<1>7. run'.mode = "replay" =>
        trace' # NoTrace /\ run'.decisions = DecisionsOfReplay' /\ ReplayedLive'
  BY <1>1, <1>3, <1>4
<1> QED BY <1>5, <1>6, <1>7 DEF StartedFrom

LEMMA NextReplayed ==
  ASSUME UNCHANGED <<contract, trace>>
  PROVE  ReplayedLive' <=>
           (/\ run'.replans # <<>> /\ trace.replans # <<>>
            /\ Event(run').live /\ Event(trace).live
            /\ Event(run').trigger = Event(trace).trigger /\ Event(run').error = Event(trace).error
            => LET steps == RecordedSteps(trace) IN
               /\ steps = <<>> => ~Event(run').match /\ Event(run').status = "no_recovery"
               /\ steps # <<>> /\ Fits(Event(trace).trigger, steps) /\ Len(steps) <= contract.recovery_limit
                  => Event(run').match /\ run'.branch = steps)
<1>1. Event(trace)' = Event(trace) /\ RecordedSteps(trace)' = RecordedSteps(trace)
      /\ Event(run)' = Event(run')
  BY DEF Event, RecordedSteps
<1>2. \A p, steps : Fits(p, steps)' <=> Fits(p, steps)
  BY DEF Fits, ExpectedRecovery, ActionsOf
<1>3. Fits(Event(trace).trigger, RecordedSteps(trace))' <=> Fits(Event(trace).trigger, RecordedSteps(trace))
  BY <1>1, <1>2 DEF Fits, ExpectedRecovery, ActionsOf
<1> QED BY <1>1, <1>3 DEF ReplayedLive

LEMMA ReplayedSame ==
  ASSUME ReplayedLive, UNCHANGED <<contract, trace>>, SameTrigger(run, run'),
         run'.branch = run.branch,
         run.replans # <<>> =>
            /\ Event(run').error = Event(run).error /\ (Event(run').live <=> Event(run).live)
            /\ Event(run').match <=> Event(run).match
            /\ Event(run').status = Event(run).status \/ Event(run).match
  PROVE  ReplayedLive'
<1> SUFFICES ASSUME run'.replans # <<>>, trace.replans # <<>>, Event(run').live, Event(trace).live,
                    Event(run').trigger = Event(trace).trigger, Event(run').error = Event(trace).error
             PROVE  LET steps == RecordedSteps(trace) IN
               /\ steps = <<>> => ~Event(run').match /\ Event(run').status = "no_recovery"
               /\ steps # <<>> /\ Fits(Event(trace).trigger, steps) /\ Len(steps) <= contract.recovery_limit
                  => Event(run').match /\ run'.branch = steps
  BY NextReplayed
<1>1. /\ run.replans # <<>> /\ Event(run).live /\ Event(run).trigger = Event(trace).trigger
      /\ Event(run).error = Event(trace).error
  BY DEF SameTrigger
<1> DEFINE steps == RecordedSteps(trace)
<1>2. /\ steps = <<>> => ~Event(run).match /\ Event(run).status = "no_recovery"
      /\ steps # <<>> /\ Fits(Event(trace).trigger, steps) /\ Len(steps) <= contract.recovery_limit
         => Event(run).match /\ run.branch = steps
  BY <1>1 DEF ReplayedLive
<1> HIDE DEF steps
<1>3. /\ steps = <<>> => ~Event(run').match /\ Event(run').status = "no_recovery"
      /\ steps # <<>> /\ Fits(Event(trace).trigger, steps) /\ Len(steps) <= contract.recovery_limit
         => Event(run').match /\ run'.branch = steps
  BY <1>1, <1>2
<1> QED BY <1>3 DEF steps

\* What _RecordedLiveReplanCallback returns for the failure it recorded.
LEMMA RecordedIs ==
  ASSUME AgentInv, run.pc = "failed", run.mode = "replay", trace.replans # <<>>, Event(trace).live
  PROVE  /\ Answers = {Recorded} /\ \E i \in DOMAIN trace.replans : trace.replans[i].live
         /\ Event(trace).trigger = run.next /\ Event(trace).error = Failure =>
               Recorded = RecordedSteps(trace)
<1>1. DOMAIN trace.replans = {1}
  <2>1. trace.replans \in Seq(Replan) /\ Len(trace.replans) <= 1
    BY DEF AgentInv, AgentTypeOK, Trace, Layout
  <2> QED BY <2>1, OneReplan
<1>2. \E i \in DOMAIN trace.replans : trace.replans[i].live
  BY <1>1 DEF Event
<1>3. Answers = {Recorded}
  BY <1>2 DEF Answers
<1>4. ASSUME Event(trace).trigger = run.next, Event(trace).error = Failure
      PROVE  Recorded = RecordedSteps(trace)
  <2> DEFINE events == {i \in DOMAIN trace.replans : /\ trace.replans[i].live
                                                    /\ trace.replans[i].trigger = run.next
                                                    /\ trace.replans[i].error = Failure}
  <2>1. events = {1}
    BY <1>1, <1>4 DEF Event
  <2>2. (CHOOSE i \in events : TRUE) = 1 /\ events # {}
    <3> HIDE DEF events
    <3> QED BY <2>1
  <2>3. Recorded = [k \in DOMAIN trace.replans[CHOOSE i \in events : TRUE].steps |->
                      trace.steps[trace.replans[CHOOSE i \in events : TRUE].steps[k]].step]
    BY <2>2 DEF Recorded
  <2>4. Recorded = [k \in DOMAIN trace.replans[1].steps |-> trace.steps[trace.replans[1].steps[k]].step]
    <3> HIDE DEF events
    <3> QED BY <2>2, <2>3
  <2> QED BY <2>4 DEF RecordedSteps, Event
<1> QED BY <1>2, <1>3, <1>4
LEMMA StartedReplan ==
  ASSUME AgentInv, StartedFrom, NEW steps, NEW live \in BOOLEAN, NEW answered,
         ReplanDoes(steps, live, answered),
         UNCHANGED <<contract, plan, inline, trace, before>>,
         live /\ run.mode = "replay" /\ trace.replans # <<>> /\ Event(trace).live =>
            answered /\ (Event(trace).trigger = run.next /\ Event(trace).error = Failure =>
                           steps = RecordedSteps(trace))
  PROVE  StartedFrom'
<1>1. run.pc = "failed" /\ run.pc # "idle"
  BY DEF ReplanDoes
<1>2. SameRequest
  BY DEF ReplanDoes, HaltedDoes, RecoveringDoes
<1>3. ASSUME run.mode = "replay" PROVE ReplayedLive'
  <2> SUFFICES ASSUME run'.replans # <<>>, trace.replans # <<>>, Event(run').live, Event(trace).live,
                      Event(run').trigger = Event(trace).trigger, Event(run').error = Event(trace).error
               PROVE  LET S == RecordedSteps(trace) IN
                 /\ S = <<>> => ~Event(run').match /\ Event(run').status = "no_recovery"
                 /\ S # <<>> /\ Fits(Event(trace).trigger, S) /\ Len(S) <= contract.recovery_limit
                    => Event(run').match /\ run'.branch = S
    BY NextReplayed
  <2>1. \A status :
           /\ NewReplan(steps, live, status, TRUE).live <=> live
           /\ NewReplan(steps, live, status, TRUE).trigger = run.next
           /\ NewReplan(steps, live, status, TRUE).error = Failure
           /\ NewReplan(steps, live, status, FALSE).live <=> live
           /\ NewReplan(steps, live, status, FALSE).trigger = run.next
           /\ NewReplan(steps, live, status, FALSE).error = Failure
    BY DEF NewReplan
  <2>2. \A status : /\ NewReplan(steps, live, status, TRUE).match
                    /\ ~NewReplan(steps, live, status, FALSE).match
    BY DEF NewReplan
  <2>3. PICK outcome : Replanned(steps, live, outcome, TRUE) \/ Replanned(steps, live, outcome, FALSE)
    BY ReplanCases
  <2>4. live /\ Event(run').trigger = run.next /\ Event(run').error = Failure
    <3>1. CASE Replanned(steps, live, outcome, TRUE)
      BY <3>1, <2>1 DEF Replanned
    <3>2. CASE Replanned(steps, live, outcome, FALSE)
      BY <3>2, <2>1 DEF Replanned
    <3> QED BY <2>3, <3>1, <3>2
  <2>5. answered /\ steps = RecordedSteps(trace)
    BY <1>3, <2>4
  <2>6. \/ steps = <<>> /\ Replanned(steps, live, "no_recovery", FALSE)
        \/ steps # <<>> /\ Len(steps) > contract.recovery_limit
        \/ steps # <<>> /\ ~Fits(run.next, steps)
        \/ steps # <<>> /\ run'.branch = steps /\ Replanned(steps, live, "running", TRUE)
    BY <2>5, ReplanCases
  <2>7. \/ steps = <<>> /\ Event(run').status = "no_recovery" /\ ~Event(run').match
        \/ steps # <<>> /\ Len(steps) > contract.recovery_limit
        \/ steps # <<>> /\ ~Fits(run.next, steps)
        \/ steps # <<>> /\ run'.branch = steps /\ Event(run').match
    <3>1. \A status : Replanned(steps, live, status, FALSE) =>
             Event(run').status = status /\ ~Event(run').match
      <4>1. \A status : NewReplan(steps, live, status, FALSE).status = status
        BY DEF NewReplan
      <4> QED BY <4>1, <2>2 DEF Replanned
    <3>2. \A status : Replanned(steps, live, status, TRUE) => Event(run').match
      BY <2>2 DEF Replanned
    <3>3. Replanned(steps, live, "no_recovery", FALSE) =>
             Event(run').status = "no_recovery" /\ ~Event(run').match
      BY <3>1
    <3>4. Replanned(steps, live, "running", TRUE) => Event(run').match
      BY <3>2
    <3> QED BY <2>6, <3>3, <3>4
  <2>8. steps \in Seq(Step) /\ contract.recovery_limit \in Nat
    BY ContractTypes DEF ReplanDoes, AgentInv, AgentTypeOK
  <2>9. ~(Len(steps) > contract.recovery_limit /\ Len(steps) <= contract.recovery_limit)
    BY <2>8
  <2>10. Event(trace).trigger = run.next
    BY <2>4
  <2>11. /\ steps = <<>> => ~Event(run').match /\ Event(run').status = "no_recovery"
         /\ steps # <<>> /\ Fits(Event(trace).trigger, steps) /\ Len(steps) <= contract.recovery_limit
             => Event(run').match /\ run'.branch = steps
    BY <2>7, <2>9, <2>10
  <2> QED BY <2>5, <2>11
<1>4. SUFFICES ASSUME run.mode # "replay" PROVE StartedFrom'
  <2>1. CASE run.mode = "replay"
    BY <2>1, <1>1, <1>2, <1>3, StartedSame
  <2> QED BY <2>1
<1>5. DecisionsIn(trace)' = DecisionsIn(trace) /\ Pending(trace)' = Pending(trace)
  BY DEF DecisionsIn, Pending
<1>6. \A c, d : PersistedDecisions(c, d)' = PersistedDecisions(c, d)
  BY <1>5 DEF PersistedDecisions
<1>7. run'.mode = run.mode /\ run'.decisions = run.decisions
  BY <1>2 DEF SameRequest
<1>8. /\ run.mode = "execute" => run.decisions = inline
      /\ run.mode = "resume" =>
            /\ trace # NoTrace
            /\ \E c \in Pending(trace), d \in {"approved", "denied"} :
                  run.decisions = PersistedDecisions(c, d)
  BY <1>1 DEF StartedFrom
<1>9. run'.mode = "execute" => run'.decisions = inline'
  BY <1>7, <1>8
<1>10. run'.mode = "resume" =>
        /\ trace' # NoTrace
        /\ \E c \in Pending(trace)', d \in {"approved", "denied"} :
              run'.decisions = PersistedDecisions(c, d)'
  BY <1>5, <1>6, <1>7, <1>8
<1> QED BY <1>4, <1>7, <1>9, <1>10 DEF StartedFrom

\* An execution that goes on keeps what does not depend on its steps.
Frame == UNCHANGED <<contract, plan, inline, trace, before, replayed, approved, executions>>

LEMMA AgreeFrame ==
  ASSUME AgentInv, AgreeInv, Frame, History(run)', StartedFrom'
  PROVE  AgreeInv'
<1>1. TraceInv'
  BY TraceInvSame DEF AgreeInv, Frame
<1>2. ReexecutionAgrees'
  BY AgreesSame DEF AgreeInv, Frame
<1> QED BY <1>1, <1>2 DEF AgreeInv

LEMMA AgreeSameEvent ==
  ASSUME AgreeInv, Frame, run.pc # "idle", SameRequest, SameTrigger(run, run'),
         run'.branch = run.branch,
         run.replans # <<>> =>
            /\ Event(run').error = Event(run).error /\ (Event(run').live <=> Event(run).live)
            /\ Event(run').match <=> Event(run).match
            /\ Event(run').status = Event(run).status \/ Event(run).match
  PROVE  StartedFrom'
<1>1. UNCHANGED <<contract, plan, inline, trace, before>>
  BY DEF Frame
<1>2. ReplayedLive => ReplayedLive'
  BY <1>1, ReplayedSame
<1> QED BY <1>1, <1>2, StartedSame DEF AgreeInv

LEMMA AgreePlanStep == AgentInv /\ AgreeInv /\ PlanStep => AgreeInv'
<1> SUFFICES ASSUME AgentInv, AgreeInv, PlanStep PROVE AgreeInv'
  OBVIOUS
<1>1. Frame
  BY DEF PlanStep, Frame
<1>2. /\ run.pc = "plan" /\ run'.replans = run.replans /\ run'.branch = run.branch /\ SameRequest
  BY PlanStepShape DEF AgentInv, PlanStepDoes, SameRequest
<1>3. Event(run') = Event(run) /\ SameTrigger(run, run')
  BY <1>2 DEF Event, SameTrigger
<1>4. History(run)'
  BY HistoryPlanStep DEF AgreeInv
<1>5. StartedFrom'
  BY <1>1, <1>2, <1>3, AgreeSameEvent
<1> QED BY <1>1, <1>4, <1>5, AgreeFrame

LEMMA AgreeEndOfPlan == AgentInv /\ EarnInv /\ AgreeInv /\ EndOfPlan => AgreeInv'
<1> SUFFICES ASSUME AgentInv, EarnInv, AgreeInv, EndOfPlan PROVE AgreeInv'
  OBVIOUS
<1>1. Frame
  BY DEF EndOfPlan, Frame
<1>2. /\ run.pc = "plan" /\ run'.replans = run.replans /\ run'.branch = run.branch /\ SameRequest
  BY EndOfPlanShape DEF AgentInv, EndOfPlanDoes
<1>3. Event(run') = Event(run) /\ SameTrigger(run, run')
  BY <1>2 DEF Event, SameTrigger
<1>4. History(run)'
  BY HistoryEndOfPlan DEF AgreeInv
<1>5. StartedFrom'
  BY <1>1, <1>2, <1>3, AgreeSameEvent
<1> QED BY <1>1, <1>4, <1>5, AgreeFrame

LEMMA AgreeGoOn == AgentInv /\ AgreeInv /\ GoOn => AgreeInv'
<1> SUFFICES ASSUME AgentInv, AgreeInv, GoOn PROVE AgreeInv'
  OBVIOUS
<1>1. Frame
  BY DEF GoOn, Frame
<1>2. /\ run.pc = "failed" /\ run'.replans = run.replans /\ run'.branch = run.branch /\ SameRequest
  BY GoOnShape DEF AgentInv, GoOnDoes
<1>3. Event(run') = Event(run) /\ SameTrigger(run, run')
  BY <1>2 DEF Event, SameTrigger
<1>4. History(run)'
  BY HistoryGoOn DEF AgreeInv
<1>5. StartedFrom'
  BY <1>1, <1>2, <1>3, AgreeSameEvent
<1> QED BY <1>1, <1>4, <1>5, AgreeFrame

LEMMA AgreeTakeBranch == AgentInv /\ AgreeInv /\ TakeBranch => AgreeInv'
<1> SUFFICES ASSUME AgentInv, AgreeInv, TakeBranch PROVE AgreeInv'
  OBVIOUS
<1>1. Frame
  BY DEF TakeBranch, Frame
<1>2. PICK b \in Matching : ReplanDoes(b.steps, FALSE, TRUE)
  BY TakeBranchShape DEF TakeBranchDoes
<1>3. UNCHANGED <<contract, plan>>
  BY <1>1 DEF Frame
<1>4. History(run)'
  <2>1. \E d \in Matching : b.steps = d.steps
    BY <1>2
  <2> QED BY <2>1, <1>2, <1>3, HistoryReplan DEF AgreeInv
<1>5. StartedFrom'
  BY <1>1, <1>2, StartedReplan DEF AgreeInv, Frame
<1> QED BY <1>1, <1>4, <1>5, AgreeFrame

LEMMA AgreeCallLive == AgentInv /\ AgreeInv /\ CallLive => AgreeInv'
<1> SUFFICES ASSUME AgentInv, AgreeInv, CallLive PROVE AgreeInv'
  OBVIOUS
<1>1. Frame /\ LiveCallable
  BY DEF CallLive, Frame
<1>2. PICK steps \in Answers : ReplanDoes(steps, TRUE, TRUE)
  BY CallLiveShape DEF CallLiveDoes
<1>3. UNCHANGED <<contract, plan>>
  BY <1>1 DEF Frame
<1>4. History(run)'
  BY <1>1, <1>2, <1>3, HistoryReplan DEF AgreeInv
<1>5. run.mode = "replay" /\ trace.replans # <<>> /\ Event(trace).live =>
         (Event(trace).trigger = run.next /\ Event(trace).error = Failure => steps = RecordedSteps(trace))
  <2>1. run.pc = "failed"
    BY <1>2 DEF ReplanDoes
  <2> QED BY <2>1, <1>2, RecordedIs
<1>6. StartedFrom'
  BY <1>1, <1>2, <1>5, StartedReplan DEF AgreeInv, Frame
<1> QED BY <1>1, <1>4, <1>6, AgreeFrame

LEMMA AgreeLiveFails == AgentInv /\ AgreeInv /\ LiveFails => AgreeInv'
<1> SUFFICES ASSUME AgentInv, AgreeInv, LiveFails PROVE AgreeInv'
  OBVIOUS
<1>1. Frame /\ LiveCallable
  BY DEF LiveFails, Frame
<1>2. /\ ~(run.mode = "replay" /\ \E i \in DOMAIN trace.replans : trace.replans[i].live)
      /\ ReplanDoes(<<>>, TRUE, FALSE)
  BY LiveFailsShape DEF LiveFailsDoes
<1>3. UNCHANGED <<contract, plan>>
  BY <1>1 DEF Frame
<1>4. History(run)'
  BY <1>1, <1>2, <1>3, HistoryReplan DEF AgreeInv
<1>5. ~(run.mode = "replay" /\ trace.replans # <<>> /\ Event(trace).live)
  <2>1. run.pc = "failed"
    BY <1>2 DEF ReplanDoes
  <2> QED BY <2>1, <1>2, RecordedIs
<1>6. StartedFrom'
  BY <1>1, <1>2, <1>5, StartedReplan DEF AgreeInv, Frame
<1> QED BY <1>1, <1>4, <1>6, AgreeFrame

LEMMA AgreeRecoveryStep == AgentInv /\ AgreeInv /\ RecoveryStep => AgreeInv'
<1> SUFFICES ASSUME AgentInv, AgreeInv, RecoveryStep PROVE AgreeInv'
  OBVIOUS
<1>1. Frame
  BY DEF RecoveryStep, Frame
<1>2. /\ run.pc = "recovery" /\ run'.branch = run.branch /\ SameRequest
      /\ Len(run.replans) = 1 /\ Len(run'.replans) = 1 /\ run' \in Run
      /\ SameReplan(Event(run'), Event(run)) /\ Event(run).status = "running"
  BY RecoveryStepShape DEF RecoveryStepDoes, Event
<1>3. run.replans # <<>> /\ run'.replans # <<>>
  <2>1. \A s \in Seq(Replan) : Len(s) = 1 => s # <<>>
    OBVIOUS
  <2>2. run.replans \in Seq(Replan) /\ run'.replans \in Seq(Replan)
    BY <1>2, RunFacts DEF Run
  <2> QED BY <1>2, <2>1, <2>2
<1>4. Event(run).match
  <2>1. Answered(run, run.branch)
    BY <1>3 DEF AgreeInv, History, ReplanOf
  <2> QED BY <2>1, <1>2 DEF Answered, NoRecovery
<1>5. /\ Event(run').error = Event(run).error /\ (Event(run').live <=> Event(run).live)
      /\ Event(run').match /\ SameTrigger(run, run')
  BY <1>2, <1>3, <1>4 DEF SameReplan, SameTrigger
<1>6. History(run)'
  BY HistoryRecoveryStep DEF AgreeInv
<1>7. StartedFrom'
  BY <1>1, <1>2, <1>4, <1>5, AgreeSameEvent
<1> QED BY <1>1, <1>6, <1>7, AgreeFrame
LEMMA AgreeStart ==
  ASSUME AgentInv, AgreeInv, NEW mode \in {"execute", "resume", "replay"},
         NEW decisions \in [Checkpoints -> Decisions], Execute(mode, decisions),
         UNCHANGED <<contract, plan, inline, trace, before, replayed>>,
         mode = "execute" => decisions = inline,
         mode = "resume" =>
            /\ trace # NoTrace
            /\ \E c \in Pending(trace), d \in {"approved", "denied"} :
                  decisions = PersistedDecisions(c, d),
         mode = "replay" => trace # NoTrace /\ decisions = DecisionsOfReplay
  PROVE  AgreeInv'
<1>1. StartDoes(mode, decisions)
  BY StartShape
<1>2. /\ run'.steps = <<>> /\ run'.replans = <<>> /\ run'.mode = mode /\ run'.decisions = decisions
      /\ run'.pc = IF Refused THEN "done" ELSE "plan"
      /\ Refused => run'.halt = "limit_exceeded"
  BY <1>1 DEF StartDoes
<1>3. Len(run'.steps) = 0 /\ DOMAIN run'.steps = {} /\ 1..(0 - 1) = {} /\ 1..0 = {}
  BY <1>2
<1>4. History(run')
  <2>1. StatusesFollow(run'.steps, run'.decisions)
    BY <1>3 DEF StatusesFollow
  <2>2. ReplanOf(run', run'.branch) /\ Completed(run')
    BY <1>2 DEF ReplanOf, Completed
  <2>3. Decided(run', 0)
    BY <1>3 DEF Decided
  <2>4. Unhalted(run', 0) /\ Unhalted(run', 0 - 1)
    BY <1>3 DEF Unhalted
  <2>5. RecoveredIs(run')
    BY <1>3 DEF RecoveredIs
  <2>6. Refused => EndRefused(run')
    BY <1>2 DEF EndRefused
  <2> QED BY <1>2, <1>3, <2>1, <2>2, <2>3, <2>4, <2>5, <2>6 DEF History, IsOver
<1>5. History(run)'
  BY <1>4, NextHistory
<1>6. TraceInv' /\ ReexecutionAgrees'
  BY TraceInvSame, AgreesSame DEF AgreeInv
<1>7. StartedFrom'
  <2>1. DecisionsOfReplay' = DecisionsOfReplay /\ DecisionsIn(trace)' = DecisionsIn(trace)
        /\ Pending(trace)' = Pending(trace)
    BY DEF DecisionsOfReplay, DecisionsIn, Undecided, Pending
  <2>2. \A c, d : PersistedDecisions(c, d)' = PersistedDecisions(c, d)
    BY <2>1 DEF PersistedDecisions
  <2>3. ReplayedLive'
    BY <1>2, NextReplayed
  <2>4. run'.mode = "resume" =>
          /\ trace' # NoTrace
          /\ \E c \in Pending(trace)', d \in {"approved", "denied"} :
                run'.decisions = PersistedDecisions(c, d)'
    BY <1>2, <2>1, <2>2
  <2>5. run'.mode = "execute" => run'.decisions = inline'
    BY <1>2
  <2>6. run'.mode = "replay" => trace' # NoTrace /\ run'.decisions = DecisionsOfReplay' /\ ReplayedLive'
    BY <1>2, <2>1, <2>3
  <2> QED BY <2>4, <2>5, <2>6 DEF StartedFrom
<1> QED BY <1>5, <1>6, <1>7 DEF AgreeInv

LEMMA NextStatuses ==
  ASSUME UNCHANGED <<contract, plan, inline>>
  PROVE  /\ StatusesFollow(trace.steps, DecisionsIn(trace))'
              <=> StatusesFollow(trace'.steps, DecisionsIn(trace'))
         /\ StatusesFollow(trace.steps, inline)' <=> StatusesFollow(trace'.steps, inline)
<1>1. \A p, step, expected : Violates(p, step, expected)' <=> Violates(p, step, expected)
  BY DEF Violates, ApprovedIn
<1>2. \A k : Prior(trace.steps, k)' = Prior(trace'.steps, k)
  BY DEF Prior
<1>3. \A k : ExpectedOf(trace.steps, k)' = ExpectedOf(trace'.steps, k)
  BY DEF ExpectedOf, ExpectedAt, ExpectedRecovery, Place
<1>4. DecisionsIn(trace)' = DecisionsIn(trace')
  BY DEF DecisionsIn
<1>5. StatusesFollow(trace.steps, inline)' <=> StatusesFollow(trace'.steps, inline)
  BY <1>1, <1>2, <1>3 DEF StatusesFollow, StatusOf
<1>6. StatusesFollow(trace.steps, DecisionsIn(trace))'
         <=> StatusesFollow(trace'.steps, DecisionsIn(trace'))
  BY <1>1, <1>2, <1>3, <1>4 DEF StatusesFollow, StatusOf
<1> QED BY <1>5, <1>6

LEMMA AgreeEnd == AgentInv /\ EarnInv /\ AgreeInv /\ EndExecution => AgreeInv'
<1> SUFFICES ASSUME AgentInv, EarnInv, AgreeInv, EndExecution PROVE AgreeInv'
  OBVIOUS
<1>1. EndDoes
  BY EndShape
<1>2. /\ run.pc = "done" /\ run' = NoRun /\ UNCHANGED <<contract, plan, inline, approved, executions>>
      /\ run.mode = "replay" => replayed' = Outcome /\ UNCHANGED <<trace, before>>
      /\ run.mode # "replay" =>
            /\ trace' = Outcome /\ replayed' = NoTrace
            /\ before' = IF run.mode = "resume" THEN trace ELSE NoTrace
  BY <1>1 DEF EndDoes
<1>3. Whole(run, run.branch) /\ plan \in Plans /\ run \in Run
  BY <1>2, RunWhole DEF AgreeInv, AgentInv, AgentTypeOK
<1>4. /\ Outcome.steps = run.steps /\ Outcome.replans = run.replans /\ Outcome.halt = run.halt
      /\ Outcome.status = Verdict(run) /\ Outcome \in Trace
  BY <1>3, OutcomeType DEF Outcome
<1>5. StatusesFollow(run.steps, run.decisions) /\ run.decisions \in [Checkpoints -> Decisions]
      /\ run.mode \in {"execute", "resume", "replay"}
  BY <1>3 DEF AgreeInv, History, Run
<1>6. History(run)'
  <2>1. NoRun.steps = <<>> /\ NoRun.replans = <<>> /\ NoRun.pc = "idle"
    BY DEF NoRun
  <2>2. run'.steps = <<>> /\ run'.replans = <<>> /\ run'.pc = "idle"
    BY <1>2, <2>1
  <2>3. Len(run'.steps) = 0 /\ DOMAIN run'.steps = {} /\ 1..0 = {}
    BY <2>2
  <2>4. StatusesFollow(run'.steps, run'.decisions)
    BY <2>3 DEF StatusesFollow
  <2>5. ReplanOf(run', run'.branch)
    BY <2>2 DEF ReplanOf
  <2>6. Decided(run', Len(run'.steps)) /\ Unhalted(run', Len(run'.steps))
    BY <2>3 DEF Decided, Unhalted
  <2>7. RecoveredIs(run')
    BY <2>3 DEF RecoveredIs
  <2>8. History(run')
    BY <2>2, <2>4, <2>5, <2>6, <2>7 DEF History
  <2> QED BY <2>8, <1>2, NextHistory
<1>7. StartedFrom'
  <2>1. run'.pc = "idle"
    BY <1>2 DEF NoRun
  <2> QED BY <2>1 DEF StartedFrom
<1>8. CASE run.mode # "replay"
  <2>1. /\ trace' = Outcome /\ replayed' = NoTrace
        /\ before' = IF run.mode = "resume" THEN trace ELSE NoTrace
    BY <1>2, <1>8
  <2>2. TraceInv'
    <3>1. Whole(trace', run.branch)
      BY <2>1, <1>3, <1>4, WholeFields
    <3>2. \E branch : Whole(trace, branch)'
      BY <3>1, <1>2, NextWhole
    <3>3. StatusesFollow(trace'.steps, DecisionsIn(trace'))
      <4>1. trace'.steps \in Seq(Executed)
        BY <3>1 DEF Whole
      <4>2. StatusesFollow(trace'.steps, run.decisions)
        BY <2>1, <1>4, <1>5
      <4> QED BY <4>1, <4>2, <1>5, DecisionsShown
    <3>4. StatusesFollow(trace.steps, DecisionsIn(trace))'
      BY <3>3, <1>2, NextStatuses
    <3>5. before' = NoTrace => StatusesFollow(trace.steps, inline)'
      <4> SUFFICES ASSUME before' = NoTrace PROVE StatusesFollow(trace.steps, inline)'
        OBVIOUS
      <4>1. run.pc # "idle" /\ StartedFrom
        BY <1>2 DEF AgreeInv
      <4>2. run.mode = "resume" => trace # NoTrace
        BY <4>1 DEF StartedFrom
      <4>3. run.mode = "execute"
        BY <2>1, <4>2, <1>5, <1>8
      <4>4. run.decisions = inline
        BY <4>1, <4>3 DEF StartedFrom
      <4>5. StatusesFollow(trace'.steps, inline)
        BY <2>1, <4>4, <1>4, <1>5
      <4> QED BY <4>5, <1>2, NextStatuses
    <3>6. trace'.status = Verdict(trace)'
      <4>1. PlanValid(trace') <=> PlanValid(run)
        BY <2>1, <1>4 DEF PlanValid
      <4>2. Earned(trace') <=> Earned(run)
        BY <4>1, <2>1, <1>4 DEF Earned
      <4>3. Verdict(trace') = Verdict(run)
        BY <4>2, <2>1, <1>4 DEF Verdict
      <4>4. Verdict(trace)' = Verdict(trace')
        BY <1>2, NextWhole
      <4> QED BY <4>3, <4>4, <2>1, <1>4
    <3> QED BY <3>2, <3>4, <3>5, <3>6 DEF TraceInv
  <2>3. ReexecutionAgrees'
    <3>1. CASE run.mode # "resume"
      <4>1. before' = NoTrace /\ replayed' = NoTrace
        BY <2>1, <3>1
      <4> QED BY <4>1 DEF ReexecutionAgrees
    <3>2. CASE run.mode = "resume"
      <4>1. PICK c \in Pending(trace), d \in {"approved", "denied"} : run.decisions = PersistedDecisions(c, d)
        BY <3>2, <1>2 DEF AgreeInv, StartedFrom
      <4>2. trace # NoTrace
        BY <3>2, <1>2 DEF AgreeInv, StartedFrom
      <4>3. PICK branch : Whole(trace, branch)
        BY <4>2 DEF AgreeInv, TraceInv
      <4>4. StatusesFollow(trace.steps, DecisionsIn(trace))
        BY <4>2 DEF AgreeInv, TraceInv
      <4>5. StatusesFollow(run.steps, [DecisionsIn(trace) EXCEPT ![c] = d])
        BY <4>1, <1>5 DEF PersistedDecisions
      <4>6. \A i \in Settled(trace) : i \in DOMAIN run.steps /\ SameStep(run.steps[i], trace.steps[i])
        BY <4>3, <4>4, <4>5, <1>3, ResumeAgrees
      <4>7. before' = trace /\ trace'.steps = run.steps /\ replayed' = NoTrace
        BY <2>1, <3>2, <1>4
      <4>8. Settled(before)' = Settled(trace)
        BY <4>7 DEF Settled, Place
      <4> QED BY <4>6, <4>7, <4>8 DEF ReexecutionAgrees, SameStep
    <3> QED BY <3>1, <3>2
  <2> QED BY <1>6, <1>7, <2>2, <2>3 DEF AgreeInv
<1>9. CASE run.mode = "replay"
  <2>1. replayed' = Outcome /\ UNCHANGED <<trace, before>>
    BY <1>2, <1>9
  <2>2. TraceInv'
    BY <2>1, <1>2, TraceInvSame DEF AgreeInv
  <2>3. trace # NoTrace /\ run.decisions = DecisionsOfReplay /\ ReplayedLive
    BY <1>2, <1>9 DEF AgreeInv, StartedFrom
  <2>4. ASSUME Replayable(trace), before = NoTrace \/ DecisionsIn(trace) # Undecided
        PROVE  Outcome = trace
    <3>1. PICK branch : Whole(trace, branch)
      BY <2>3 DEF AgreeInv, TraceInv
    <3>2. StatusesFollow(trace.steps, run.decisions)
      <4>1. CASE DecisionsIn(trace) # Undecided
        BY <4>1, <2>3 DEF DecisionsOfReplay, AgreeInv, TraceInv
      <4>2. CASE DecisionsIn(trace) = Undecided
        <5>1. before = NoTrace
          BY <4>2, <2>4
        <5> QED BY <5>1, <4>2, <2>3 DEF DecisionsOfReplay, AgreeInv, TraceInv
      <4> QED BY <4>1, <4>2
    <3>3. AnsweredAlike(trace, run, run.branch)
      BY <2>3 DEF ReplayedLive, AnsweredAlike
    <3>4. run.steps = trace.steps /\ run.replans = trace.replans /\ run.halt = trace.halt
      BY <3>1, <3>2, <3>3, <2>4, <1>3, <1>5, ReplayAgrees
    <3>5. Verdict(run) = Verdict(trace)
      <4>1. PlanValid(trace) <=> PlanValid(run)
        BY <3>4 DEF PlanValid
      <4>2. Earned(trace) <=> Earned(run)
        BY <4>1, <3>4 DEF Earned
      <4> QED BY <4>2, <3>4 DEF Verdict
    <3>6. trace.status = Verdict(trace) /\ trace \in Trace
      BY <2>3 DEF AgreeInv, TraceInv, AgentInv, AgentTypeOK
    <3> QED BY <3>4, <3>5, <3>6, <1>4 DEF Trace
  <2>5. ReexecutionAgrees'
    <3>1. Settled(before)' = Settled(before) /\ (Replayable(trace)' <=> Replayable(trace))
          /\ DecisionsIn(trace)' = DecisionsIn(trace)
      BY <2>1 DEF Settled, Replayable, DecisionsIn, Place
    <3>2. before # NoTrace =>
             \A i \in Settled(before) : i \in DOMAIN trace.steps /\ SameStep(trace.steps[i], before.steps[i])
      BY DEF AgreeInv, ReexecutionAgrees
    <3> QED BY <2>1, <2>4, <3>1, <3>2 DEF ReexecutionAgrees, SameStep, Undecided
  <2> QED BY <1>6, <1>7, <2>2, <2>5 DEF AgreeInv
<1> QED BY <1>8, <1>9

LEMMA AgreeInit == AgentInit => AgreeInv
<1> SUFFICES ASSUME AgentInit PROVE AgreeInv
  OBVIOUS
<1>1. run = NoRun /\ trace = NoTrace /\ before = NoTrace /\ replayed = NoTrace
  BY DEF AgentInit
<1>2. run.steps = <<>> /\ run.replans = <<>> /\ run.pc = "idle"
  BY <1>1 DEF NoRun
<1>3. Len(run.steps) = 0 /\ DOMAIN run.steps = {} /\ 1..0 = {}
  BY <1>2
<1>4. StatusesFollow(run.steps, run.decisions)
  BY <1>3 DEF StatusesFollow
<1>5. ReplanOf(run, run.branch)
  BY <1>2 DEF ReplanOf
<1>6. Decided(run, Len(run.steps)) /\ Unhalted(run, Len(run.steps))
  BY <1>3 DEF Decided, Unhalted
<1>7. RecoveredIs(run)
  BY <1>3 DEF RecoveredIs
<1>8. History(run)
  BY <1>2, <1>4, <1>5, <1>6, <1>7 DEF History
<1>9. TraceInv /\ StartedFrom /\ ReexecutionAgrees
  BY <1>1, <1>2 DEF TraceInv, StartedFrom, ReexecutionAgrees
<1> QED BY <1>8, <1>9 DEF AgreeInv

LEMMA AgreeNext == AgentInv /\ EarnInv /\ AgreeInv /\ [AgentNext]_agentVars => AgreeInv'
<1> SUFFICES ASSUME AgentInv, EarnInv, AgreeInv, [AgentNext]_agentVars PROVE AgreeInv'
  OBVIOUS
<1>1. CASE FirstExecution
  <2>1. inline \in [Checkpoints -> Decisions]
    BY AgentAssumption DEF AgentInv, AgentTypeOK
  <2> QED BY <1>1, <2>1, AgreeStart DEF FirstExecution
<1>2. ASSUME NEW c \in Checkpoints, NEW decision \in {"approved", "denied"}, ExecuteDecided(c, decision)
      PROVE  AgreeInv'
  <2>1. c \in Pending(trace) /\ Execute("resume", PersistedDecisions(c, decision))
        /\ UNCHANGED <<contract, plan, inline, trace, before, replayed>>
    BY <1>2 DEF ExecuteDecided
  <2>2. PersistedDecisions(c, decision) \in [Checkpoints -> Decisions]
    BY DecisionTypes DEF PersistedDecisions, Decisions
  <2>3. trace # NoTrace
    <3>1. Pending(NoTrace) = {}
      BY DEF Pending, NoTrace
    <3> QED BY <2>1, <3>1
  <2>4. \E b \in Pending(trace), d \in {"approved", "denied"} :
           PersistedDecisions(c, decision) = PersistedDecisions(b, d)
    BY <2>1
  <2> QED BY <2>1, <2>2, <2>3, <2>4, AgreeStart
<1>3. CASE ExecuteReplay
  <2>1. trace # NoTrace /\ Execute("replay", DecisionsOfReplay)
        /\ UNCHANGED <<contract, plan, inline, trace, before, replayed>>
    BY <1>3 DEF ExecuteReplay, DecisionsOfReplay
  <2>2. DecisionsOfReplay \in [Checkpoints -> Decisions]
    BY AgentAssumption, DecisionTypes DEF DecisionsOfReplay, AgentInv, AgentTypeOK
  <2> QED BY <2>1, <2>2, AgreeStart
<1>4. CASE UNCHANGED agentVars
  <2>1. Frame /\ run' = run
    BY <1>4 DEF agentVars, Frame
  <2>2. History(run)'
    BY <2>1, NextHistory DEF AgreeInv, Frame
  <2>3. StartedFrom'
    <3>1. ReplayedLive => ReplayedLive'
      <4>1. SameTrigger(run, run') /\ Event(run') = Event(run)
        BY <2>1 DEF SameTrigger, Event
      <4> QED BY <2>1, <4>1, ReplayedSame DEF Frame
    <3>2. CASE run.pc # "idle"
      BY <2>1, <3>1, <3>2, StartedSame DEF AgreeInv, Frame, SameRequest
    <3>3. CASE run.pc = "idle"
      BY <2>1, <3>3 DEF StartedFrom
    <3> QED BY <3>2, <3>3
  <2> QED BY <2>1, <2>2, <2>3, AgreeFrame
<1> QED BY <1>1, <1>2, <1>3, <1>4, AgreePlanStep, AgreeEndOfPlan, AgreeTakeBranch, AgreeCallLive,
           AgreeLiveFails, AgreeGoOn, AgreeRecoveryStep, AgreeEnd DEF AgentNext

\* Executing the stored plan again repeats, until a live model has its say, what
\* the operator saw who decided its checkpoint, whatever was decided; and a replay
\* that has what the live model answered computes the stored trace.
THEOREM ReexecutionsAgree == AgentSpec => []ReexecutionAgrees
<1>1. AgentInit => AgentInv /\ EarnInv /\ AgreeInv
  BY AgentInvInit, EarnedInit, AgreeInit
<1>2. AgentInv /\ EarnInv /\ AgreeInv /\ [AgentNext]_agentVars => (AgentInv /\ EarnInv /\ AgreeInv)'
  BY AgentInvNext, EarnedNext, AgreeNext
<1>3. AgreeInv => ReexecutionAgrees
  BY DEF AgreeInv
<1> QED BY <1>1, <1>2, <1>3, PTL DEF AgentSpec

=============================================================================
