------------------------- MODULE MCAssistantReviews --------------------------
(* An instance of AssistantReviews for TLC: one file, proposals that move it *)
(* to and fro, put it into the trash, or add a todo.                         *)
EXTENDS AssistantReviews

CONSTANTS na, nb, nc, f1, r1, r2, s1, s2

ToAndFro ==
    {[tool |-> "move", src |-> na, dst |-> nb], [tool |-> "move", src |-> nb, dst |-> na],
     [tool |-> "trash", src |-> na, dst |-> na], [tool |-> "todo", src |-> na, dst |-> na]}

OnePlace == [f \in {f1} |-> na]
=============================================================================
