------------------------- MODULE MCOperationalAlerts -------------------------
(* An instance of OperationalAlerts for TLC: one key, a capturing job and an *)
(* operator.                                                                *)
EXTENDS OperationalAlerts

CONSTANTS a1, c1, c2, o1
=============================================================================
