----------------------------- MODULE MCPartLock -----------------------------
(* PartLock with three processes; they are interchangeable. *)
EXTENDS PartLock, TLC

CONSTANTS p1, p2, p3

MCThreeProcesses == {p1, p2, p3}
MCSymmetry == Permutations(MCThreeProcesses)
=============================================================================
