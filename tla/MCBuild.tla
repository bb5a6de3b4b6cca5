------------------------------ MODULE MCBuild -------------------------------
(* Two tests are enough for make or the pool to stop half way. *)
EXTENDS Build, TLC

CONSTANTS t1, t2

MCTests == {t1, t2}
MCSymmetry == Permutations(MCTests)
=============================================================================
