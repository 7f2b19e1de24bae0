-------------------------- MODULE MCInferenceBatcher --------------------------
(* Three workers, two encodings and batches of at most two requests: a batch  *)
(* can fill, end early, leave a request behind, or be cut by the sentinel.    *)
EXTENDS InferenceBatcher

CONSTANTS w1, w2, w3, x1, x2

MCSlots == {w1, w2, w3}
MCInputs == {x1, x2}
===============================================================================
