---------------------------- MODULE MCAgentJobs ----------------------------
(* Small instances of AgentJobs. *)
EXTENDS AgentJobs

CONSTANTS j1, j2, w1, w2

MCJobs == {j1, j2}
OneJob == {j1}
MCWorkers == {w1, w2}

MCPriority == [j \in Jobs |-> IF j = j1 THEN 10 ELSE 20]
OneRetry == [j \in Jobs |-> IF j = j1 THEN 2 ELSE 1]
=============================================================================
