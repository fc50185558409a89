----------------------------- MODULE MCPartFile -----------------------------
(* PartFile on a small resource. *)
EXTENDS PartFile

CONSTANTS c1, c2, c3
MCTwoChunks == {c1, c2}
MCThreeChunks == {c1, c2, c3}
=============================================================================
