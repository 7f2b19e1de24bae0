--------------------------- MODULE InferenceService ---------------------------
(* What a rollout worker may rely on when it calls infer() of the inference   *)
(* batcher in ppo.py: while the service is open a call is accepted and is     *)
(* later answered from the caller's own encoding, or fails; once the service  *)
(* is shut every new call is refused.  How calls are batched, padded and      *)
(* scheduled is not visible here.                                             *)

CONSTANTS Slots,    \* worker slots, one row of the padded matrix each
          Inputs,   \* encoded states a worker may submit
          Padding   \* the content of a row nobody asked for

VARIABLES future,   \* future[s]: outcome of slot s's latest infer() call
          sent,     \* sent[s]: the encoding of that call
          got,      \* got[s]: the encoding the latest answer was computed from
          open      \* whether new calls are accepted

serviceVars == <<future, sent, got, open>>

\* A worker calls again only after a result: an exception ends its chunk.
MayCall(s) == future[s] \in {"none", "result"}

Init ==
  /\ future = [s \in Slots |-> "none"]
  /\ sent = [s \in Slots |-> Padding]
  /\ got = [s \in Slots |-> Padding]
  /\ open = TRUE

Accept(s, x) ==
  /\ open
  /\ MayCall(s)
  /\ future' = [future EXCEPT ![s] = "pending"]
  /\ sent' = [sent EXCEPT ![s] = x]
  /\ UNCHANGED <<got, open>>

Refuse(s) ==
  /\ ~open
  /\ MayCall(s)
  /\ future' = [future EXCEPT ![s] = "refused"]
  /\ UNCHANGED <<sent, got, open>>

Answer(s) ==
  /\ future[s] = "pending"
  /\ future' = [future EXCEPT ![s] = "result"]
  /\ got' = [got EXCEPT ![s] = sent[s]]
  /\ UNCHANGED <<sent, open>>

Fail(s) ==
  /\ future[s] = "pending"
  /\ future' = [future EXCEPT ![s] = "error"]
  /\ UNCHANGED <<sent, got, open>>

Shut ==
  /\ open
  /\ open' = FALSE
  /\ UNCHANGED <<future, sent, got>>

Next ==
  \/ \E s \in Slots, x \in Inputs : Accept(s, x)
  \/ \E s \in Slots : Refuse(s) \/ Answer(s) \/ Fail(s)
  \/ Shut

Spec == Init /\ [][Next]_serviceVars
===============================================================================
