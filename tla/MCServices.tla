----------------------------- MODULE MCServices -----------------------------
(* What the suite runner's cases and judge look like in the run. *)
EXTENDS Services

(* Cases with and without a rubric, and three replies of a judge. *)
MCRubrics == {<<>>, <<0, 9>>}
MCReplies == {-1, 6, 12}
=============================================================================
