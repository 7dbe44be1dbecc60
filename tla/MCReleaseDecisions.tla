------------------------- MODULE MCReleaseDecisions -------------------------
(* Small instances for TLC of the deployment gate, alone or with releases  *)
(* signed over its evaluations: a behaviour runs one of the two.           *)
EXTENDS ReleaseDecisions

CONSTANTS p1, s1, s2, c1

VARIABLE part   \* "gate" or "releases": what runs

OnePolicy == {p1}
TwoSessions == {s1, s2}
OneClient == {c1}

\* Bounds of the releases: the gate alone has two sessions and as many
\* evaluations as MaxGates, under the releases it has one session and one
\* evaluation less.
Narrow == tx[s2] = Idle /\ gates[MaxGates].status = "absent"

PartInit == part \in {"gate", "releases"} /\ ReleaseInit

PartNext ==
    \/ /\ part = "gate"
       /\ GateNext
       /\ UNCHANGED <<part, releaseVars>>
    \/ /\ part = "releases"
       /\ Next
       /\ Narrow'
       /\ UNCHANGED part

PartSpec == PartInit /\ [][PartNext]_<<part, vars>>
=============================================================================
