----------------------------- MODULE MCReplayCache -----------------------------
(* Two processes, so that one reads what the other installed, and two          *)
(* trajectories, so that an append can fall between the reads of the two.      *)
EXTENDS ReplayCache, TLC
CONSTANTS p1, p2
MCProcesses == {p1, p2}
Symmetry == Permutations(MCProcesses)
===============================================================================
