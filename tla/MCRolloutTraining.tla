--------------------------- MODULE MCRolloutTraining --------------------------
(* Two workers: one may fail, finish or still be starting while the other     *)
(* waits in a batch.  Chunks of two decisions cross an episode boundary.      *)
EXTENDS RolloutTraining

MCSlots == 0..(WorkerCount - 1)
MCInputs == 0..Chunk
===============================================================================
