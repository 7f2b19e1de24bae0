---------------------------- MODULE MCGameLifecycle ----------------------------
(* Two episodes, so that the second one starts after whatever the first left. *)
EXTENDS GameLifecycle
===============================================================================
