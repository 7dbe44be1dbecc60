-------------------------- MODULE MCDeploymentGate --------------------------
(* Instances of DeploymentGate for TLC. *)
EXTENDS DeploymentGate

CONSTANTS p1, p2, s1, s2

OnePolicy == {p1}
OneSession == {s1}
TwoSessions == {s1, s2}
=============================================================================
