---------------------------- MODULE MCInputBoundary ----------------------------
(* The key that starts the game and two or three more: enough for one         *)
(* exchange to leave something behind that the next one reads.                *)
EXTENDS InputBoundary
===============================================================================
