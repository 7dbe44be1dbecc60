----------------------------- MODULE MCApprovals -----------------------------
(* Small instances of what makes and judges evidence and keeps no state in *)
(* common: ApprovalCheckpoints, AgentExecution, AgentTraffic and           *)
(* GateVerdict.  A behaviour runs one of them, and the others stay as they *)
(* began.                                                                  *)
EXTENDS ApprovalCheckpoints, AgentExecution, AgentTraffic, GateVerdict

CONSTANTS k1, k2, k3, o1, o2, o3, alice, bob, c1, c2, b1, e1, e2, r1, r2, v1, v2

VARIABLE part   \* the component that runs

\* ApprovalCheckpoints: k1 outlives the others.
MCLifetime == [k \in Keys |-> IF k = k1 THEN 2 ELSE 1]

\* AgentExecution: every plan of at most three of six steps, and one too long.
Check(c) == [action |-> "approval_checkpoint", gate |-> c, error |-> NoError]
Tool(c, e) == [action |-> "tool", gate |-> c, error |-> e]
Answer == [action |-> "respond", gate |-> NoCheckpoint, error |-> NoError]

MCSteps == {Check(c1), Check(c2), Tool(c1, NoError), Tool(c1, "broken"),
            Tool(NoCheckpoint, "broken"), Answer}

TooLong == <<Check(c1), Tool(c1, NoError), Answer, Tool(NoCheckpoint, NoError)>>

Recoveries ==
    {<<Tool(c1, NoError)>>, <<Check(c2), Tool(c2, NoError)>>, <<Tool(c1, "broken")>>}

MCPlans ==
    LET steps == UNION {[1..n -> MCSteps] : n \in 1..3} \cup {TooLong}
        branches == {{}} \cup {{[trigger |-> 2, on |-> {}, steps |-> r]} : r \in Recoveries}
    IN  {p \in [steps: steps, branches: branches] : p.branches # {} => 2 \in DOMAIN p.steps}

\* What a live model may answer includes a recovery that breaks off and one
\* that is too long.
MCLiveAnswers ==
    Recoveries \cup {<<Check(c2), Tool(c2, "broken")>>, <<Answer, Answer, Answer>>,
                    <<Check(NoCheckpoint)>>}

\* A contract with a guarded tool and its recovery, one that expects nothing,
\* and one that allows no recovery and only two steps.
Say(a, c) == [action |-> a, gate |-> c]

Guarded ==
    [expected |-> <<Say("approval_checkpoint", c1), Say("tool", c1), Say("respond", NoCheckpoint)>>,
     recovery |-> [i \in {2} |-> <<Say("approval_checkpoint", c2), Say("tool", c2)>>],
     allowed |-> {"approval_checkpoint", "tool", "respond"},
     limit |-> [approval_checkpoint |-> 2, tool |-> 2],
     step_limit |-> 4, replan_limit |-> 1, recovery_limit |-> 2, live |-> TRUE]

MCContracts ==
    {Guarded,
     [Guarded EXCEPT !.expected = <<>>, !.recovery = <<>>, !.step_limit = 3],
     [Guarded EXCEPT !.step_limit = 2, !.replan_limit = 0, !.live = FALSE]}

\* A request decides nothing, approves everything, or denies one checkpoint.
MCInline ==
    {Undecided, [c \in Checkpoints |-> "approved"], [Undecided EXCEPT ![c2] = "denied"]}

\* AgentTraffic: a batch of two events.
MCEvents == [b \in Batches |-> {e1, e2}]

\* GateVerdict: a good result, a slow one, a poor one and one that ran out of
\* memory.
It(outcome, quality, latency) ==
    [outcome |-> outcome, quality |-> quality, latency |-> latency]

SomeContents ==
    {It("valid", 9, 1), It("valid", 9, 2), It("valid", 6, 1), It("oom", NoValue, 2)}

Rule(metric, operator, threshold, minimum, severity, required) ==
    [metric |-> metric, operator |-> operator, threshold |-> threshold,
     minimum |-> minimum, severity |-> severity, required |-> required]

\* A policy that may approve conditionally, and a strict one.
SomePolicies ==
    {[allow_conditional |-> TRUE,
      rules |-> {Rule("mean_quality_score", "gte", 8, 0, "warning", FALSE),
                 Rule("p95_end_to_end_latency_ms", "lte", 1, 2, "warning", FALSE),
                 Rule("oom_rate", "eq", 0, 0, "blocker", TRUE),
                 Rule("quality_regression_vs_baseline", "gte", 0, 0, "blocker", FALSE)}],
     [allow_conditional |-> FALSE,
      rules |-> {Rule("json_validity_rate", "gte", 8, 0, "warning", TRUE),
                 Rule("critical_case_failure_rate", "eq", 0, 0, "blocker", FALSE),
                 Rule("real_case_count", "gte", 1, 1, "blocker", TRUE),
                 Rule("critical_case_count", "gte", 1, 1, "blocker", TRUE),
                 Rule("latency_regression_vs_baseline", "lte", 0, 0, "warning", FALSE)}]}

-----------------------------------------------------------------------------
ApprovalsVars == <<part, vars, agentVars, trafficVars, verdictVars>>

ApprovalsInit ==
    /\ part \in {"checkpoints", "plans", "traffic", "verdict"}
    /\ Init
    /\ AgentInit
    /\ TrafficInit
    /\ VerdictInit
    /\ part # "checkpoints" => rows[1].key = k1
    /\ part # "plans" =>
         /\ contract = Guarded
         /\ plan = [steps |-> TooLong, branches |-> {}]
         /\ inline = Undecided

ApprovalsNext ==
    \/ /\ part = "checkpoints"
       /\ Next
       /\ UNCHANGED <<part, agentVars, trafficVars, verdictVars>>
    \/ /\ part = "plans"
       /\ AgentNext
       /\ UNCHANGED <<part, vars, trafficVars, verdictVars>>
    \/ /\ part = "traffic"
       /\ TrafficNext
       /\ UNCHANGED <<part, vars, agentVars, verdictVars>>
    \/ /\ part = "verdict"
       /\ VerdictNext
       /\ UNCHANGED <<part, vars, agentVars, trafficVars>>

\* The fairness of ApprovalCheckpoints, while it is the one that runs.
ApprovalsFairness ==
    /\ WF_vars(part = "checkpoints" /\ Tick)
    /\ \A o \in Sessions : WF_vars(part = "checkpoints" /\ Finish(o))
    /\ WF_vars(part = "checkpoints" /\ Reconcile)

ApprovalsSpec == ApprovalsInit /\ [][ApprovalsNext]_ApprovalsVars /\ ApprovalsFairness

\* Every variable of every component keeps its type.  The variables of the
\* components that do not run are those of an initial state of one that does.
ApprovalsTypeOK ==
    CASE part = "checkpoints" -> TypeOK
      [] part = "plans" -> AgentTypeOK
      [] part = "traffic" -> TrafficTypeOK
      [] part = "verdict" -> VerdictTypeOK
=============================================================================
