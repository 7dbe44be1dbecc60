----------------------------- MODULE MCServices -----------------------------
(* Small instances of components that keep no state in common, checked     *)
(* together: a behaviour runs one of them, and the others stay as they     *)
(* began.  The actors m1 and m2 are workers in one component, operators'   *)
(* requests in another and capturing jobs in a third.                      *)
EXTENDS AgentJobs, TrustRegistry, OperationalAlerts, AssistantReviews, OidcSessions,
        OidcVerifier, RequestContracts, TLC

CONSTANTS m1, m2, n1, n2, j1, k1, k2, a1, o1, na, nb, nc, f1, f2, low, high

VARIABLE part   \* the component that runs

\* AgentJobs, with stalls
OneRetry == [j \in Jobs |-> 2]
OnePriority == [j \in Jobs |-> 10]

\* TrustRegistry: the source may rotate the key; operators know its first one.
SignedByK1 == [a \in Statements |-> k1]
TwoVersions == [k \in KeyIds |-> {1, 2}]
OneVersion == [k \in KeyIds |-> {1}]

\* AssistantReviews: two moves that cross, a move to the trash and a todo.
CrossingMoves ==
    {[tool |-> "move", src |-> na, dst |-> nb], [tool |-> "move", src |-> nb, dst |-> na],
     [tool |-> "trash", src |-> na, dst |-> na], [tool |-> "todo", src |-> na, dst |-> na]}
TwoPlaces == [f \in Files |-> IF f = f1 THEN na ELSE nb]

\* RequestContracts: the request of the task, with either priority, and another.
Ask(text, priority) == [text |-> text, asks |-> priority]
SomeDrafts == {Ask("task", low), Ask("task", high), Ask("other", low)}
SomeTasks == {[text |-> "task", expects |-> e] : e \in {low, Clarify}}

\* OidcVerifier: the provider serves one key, the other, or none; it begins
\* with k1, since either key may play either part.
OneKeyOrNone == {{k1}, {k2}, {}}

Symmetry == Permutations({m1, m2}) \cup Permutations({n1, n2})

ServicesVars == <<part, vars, trustVars, alertVars, assistantVars, oidcVars, verifierVars, requestVars>>

ServicesInit ==
    /\ part \in {"jobs", "trust", "alerts", "assistant", "sessions", "verifier", "requests"}
    /\ Init
    /\ TrustInit
    /\ part # "trust" => published = NoKeys
    /\ AlertsInit
    /\ AssistantInit
    /\ OidcInit
    /\ VerifierInit
    /\ document = {k1}
    /\ RequestsInit
    /\ part # "requests" => attempt.task.expects = low

ServicesNext ==
    \/ /\ part = "jobs"
       /\ Next
       /\ UNCHANGED <<part, trustVars, alertVars, assistantVars, oidcVars, verifierVars, requestVars>>
    \/ /\ part = "trust"
       /\ TrustNext
       /\ UNCHANGED <<part, vars, alertVars, assistantVars, oidcVars, verifierVars, requestVars>>
    \/ /\ part = "alerts"
       /\ AlertsNext
       /\ UNCHANGED <<part, vars, trustVars, assistantVars, oidcVars, verifierVars, requestVars>>
    \/ /\ part = "assistant"
       /\ AssistantNext
       /\ UNCHANGED <<part, vars, trustVars, alertVars, oidcVars, verifierVars, requestVars>>
    \/ /\ part = "sessions"
       /\ OidcNext
       /\ UNCHANGED <<part, vars, trustVars, alertVars, assistantVars, verifierVars, requestVars>>
    \/ /\ part = "verifier"
       /\ VerifierNext
       /\ UNCHANGED <<part, vars, trustVars, alertVars, assistantVars, oidcVars, requestVars>>
    \/ /\ part = "requests"
       /\ RequestsNext
       /\ UNCHANGED <<part, vars, trustVars, alertVars, assistantVars, oidcVars, verifierVars>>

ServicesSpec == ServicesInit /\ [][ServicesNext]_ServicesVars

\* Every variable of every component keeps its type.  The variables of the
\* components that do not run are those of an initial state of one that does.
ServicesTypeOK ==
    CASE part = "jobs" -> TypeOK
      [] part = "trust" -> TrustTypeOK
      [] part = "alerts" -> AlertsTypeOK
      [] part = "assistant" -> AssistantTypeOK
      [] part = "sessions" -> OidcTypeOK
      [] part = "verifier" -> VerifierTypeOK
      [] part = "requests" -> RequestsTypeOK
=============================================================================
