----------------------------- MODULE MCStaticCache -----------------------------
(* One bootstrap and two workers that share one permit.                       *)
EXTENDS StaticCache, TLC
CONSTANTS b1, w1, w2
MCProcesses == {b1, w1, w2}
MCWorkers == {w1, w2}
Symmetry == Permutations(MCWorkers)
===============================================================================
