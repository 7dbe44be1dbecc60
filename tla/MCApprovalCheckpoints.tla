----------------------- MODULE MCApprovalCheckpoints -----------------------
(* A small instance of ApprovalCheckpoints. *)
EXTENDS ApprovalCheckpoints, TLC

CONSTANTS k1, k2, k3, o1, o2, alice, bob

MCKeys == {k1, k2, k3}
MCSessions == {o1, o2}
MCSubjects == {alice, bob}

\* k1 outlives the others.
MCLifetime == [k \in Keys |-> IF k = k1 THEN 2 ELSE 1]

SessionSymmetry == Permutations(Sessions)
=============================================================================
