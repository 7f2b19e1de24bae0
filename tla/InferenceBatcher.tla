--------------------------- MODULE InferenceBatcher ---------------------------
(* _InferenceBatcher of ppo.py: worker threads put requests on an unbounded   *)
(* queue under a lock; one inference thread takes the first request, gathers  *)
(* more until the batch is full or its window ends, runs one padded forward   *)
(* and resolves each request's future.  close() puts a sentinel behind the    *)
(* accepted requests; a sentinel met while gathering makes the current batch  *)
(* the last one, resolved outside the handler that reports a failed forward.  *)
EXTENDS Integers, Sequences

CONSTANTS Slots,           \* worker slots (0 .. slot_count - 1 in the code)
          Inputs,          \* encoded states a worker may submit
          Padding,         \* the content of a matrix row nobody asked for
          Sentinel,        \* the None that close() puts on the queue
          BatchSize,       \* inference_batch_size
          ForwardMayFail   \* whether the model's forward may raise

Request == [slot : Slots, input : Inputs]

\* The sentinel is not a request; padding is not an encoding.
ASSUME BatcherAssumption ==
  /\ Sentinel \notin Request
  /\ Padding \notin Inputs
  /\ BatchSize \in Nat \ {0}
  /\ ForwardMayFail \in BOOLEAN

VARIABLES future,     \* future[s]: the future of slot s's latest infer() call
          sent,       \* sent[s]: the encoding of that call
          got,        \* got[s]: the encoding behind the latest result of s
          requests,   \* the Queue: requests, then at most one sentinel
          closed,     \* the Event close() sets
          thread,     \* where the inference thread is in _run / _resolve
          draining,   \* the thread met the sentinel while gathering
          batch,      \* the local list of requests not resolved yet
          rows        \* the padded matrix of the forward being answered

clientVars == <<future, sent, got>>
threadVars == <<thread, draining, batch, rows>>
batcherVars == <<clientVars, requests, closed, threadVars>>

ThreadStates ==
  {"idle", "gathering", "resolving", "answering", "failing", "stopped", "dead"}
FutureStates == {"none", "pending", "result", "error", "refused"}
Ended == thread \in {"stopped", "dead"}

NoRows == [s \in Slots |-> Padding]

BatcherInit ==
  /\ future = [s \in Slots |-> "none"]
  /\ sent = NoRows
  /\ got = NoRows
  /\ requests = << >>
  /\ closed = FALSE
  /\ thread = "idle"
  /\ draining = FALSE
  /\ batch = << >>
  /\ rows = NoRows
-------------------------------------------------------------------------------
(* infer(), on a worker's thread.  The check of closed and the put are one    *)
(* step: both this and close() hold _state_lock around theirs.                *)

\* Faulty variant: a worker gives up waiting and calls again.
MayCallAgain(s) == future[s] \in {"none", "pending", "result"}

MayCall(s) == future[s] \in {"none", "result"}

\* Faulty variant: closed is checked before the lock is taken.
SubmitUnlocked(s, x) ==
  /\ MayCall(s)
  /\ requests' = Append(requests, [slot |-> s, input |-> x])
  /\ future' = [future EXCEPT ![s] = "pending"]
  /\ sent' = [sent EXCEPT ![s] = x]
  /\ UNCHANGED <<got, closed, threadVars>>

Submit(s, x) ==
  /\ MayCall(s)
  /\ ~closed
  /\ requests' = Append(requests, [slot |-> s, input |-> x])
  /\ future' = [future EXCEPT ![s] = "pending"]
  /\ sent' = [sent EXCEPT ![s] = x]
  /\ UNCHANGED <<got, closed, threadVars>>

Refuse(s) ==
  /\ MayCall(s)
  /\ closed
  /\ future' = [future EXCEPT ![s] = "refused"]
  /\ UNCHANGED <<sent, got, requests, closed, threadVars>>

Close ==
  /\ ~closed
  /\ closed' = TRUE
  /\ requests' = Append(requests, Sentinel)
  /\ UNCHANGED <<clientVars, threadVars>>
-------------------------------------------------------------------------------
(* _run() and _resolve(), on the inference thread.                            *)

TakeFirst ==
  /\ thread = "idle"
  /\ requests # << >>
  /\ requests' = Tail(requests)
  /\ IF Head(requests) = Sentinel
       THEN thread' = "stopped" /\ UNCHANGED batch
       ELSE thread' = "gathering" /\ batch' = <<Head(requests)>>
  /\ UNCHANGED <<clientVars, closed, draining, rows>>

TakeMore ==
  /\ thread = "gathering"
  /\ Len(batch) < BatchSize
  /\ requests # << >>
  /\ Head(requests) # Sentinel
  /\ batch' = Append(batch, Head(requests))
  /\ requests' = Tail(requests)
  /\ UNCHANGED <<clientVars, closed, thread, draining, rows>>

\* Faulty variant: the thread returns without resolving its last batch.
TakeSentinelReturns ==
  /\ thread = "gathering"
  /\ Len(batch) < BatchSize
  /\ requests # << >>
  /\ Head(requests) = Sentinel
  /\ requests' = Tail(requests)
  /\ thread' = "stopped"
  /\ draining' = TRUE
  /\ UNCHANGED <<clientVars, closed, batch, rows>>

TakeSentinel ==
  /\ thread = "gathering"
  /\ Len(batch) < BatchSize
  /\ requests # << >>
  /\ Head(requests) = Sentinel
  /\ requests' = Tail(requests)
  /\ thread' = "resolving"
  /\ draining' = TRUE
  /\ UNCHANGED <<clientVars, closed, batch, rows>>

\* The batch is full, or its window has passed with no request in time.
StopGathering ==
  /\ thread = "gathering"
  /\ thread' = "resolving"
  /\ UNCHANGED <<clientVars, requests, closed, draining, batch, rows>>

UniqueSlots(b) == \A i, j \in DOMAIN b : b[i].slot = b[j].slot => i = j

\* Faulty variant: the first request's features are broadcast to every row.
MatrixBroadcast(b) == [s \in Slots |-> b[1].input]

\* _fixed_inference_inputs: row s holds the request of slot s, or padding.
Matrix(b) ==
  [s \in Slots |->
     IF \E i \in DOMAIN b : b[i].slot = s
       THEN b[CHOOSE i \in DOMAIN b : b[i].slot = s].input
       ELSE Padding]

Forward ==
  /\ thread = "resolving"
  /\ UniqueSlots(batch)
  /\ rows' = Matrix(batch)
  /\ thread' = "answering"
  /\ UNCHANGED <<clientVars, requests, closed, draining, batch>>

\* Faulty variant: a failed forward is swallowed and its batch forgotten.
ForwardFailsQuietly ==
  /\ thread = "resolving"
  /\ ForwardMayFail
  /\ thread' = IF draining THEN "dead" ELSE "idle"
  /\ batch' = << >>
  /\ UNCHANGED <<clientVars, requests, closed, draining, rows>>

\* Only the ordinary path of _run has a handler around _resolve.
ForwardFails ==
  /\ thread = "resolving"
  /\ ForwardMayFail \/ ~UniqueSlots(batch)
  /\ thread' = IF draining THEN "dead" ELSE "failing"
  /\ UNCHANGED <<clientVars, requests, closed, draining, batch, rows>>

\* The loop over the batch: one future at a time, then back to _run.
Resolved(b) ==
  /\ batch' = Tail(b)
  /\ IF Len(b) > 1
       THEN UNCHANGED <<thread, rows>>
       ELSE /\ thread' = IF draining THEN "stopped" ELSE "idle"
            /\ rows' = NoRows

SetResult ==
  /\ thread = "answering"
  /\ LET s == Head(batch).slot IN
       /\ future' = [future EXCEPT ![s] = "result"]
       /\ got' = [got EXCEPT ![s] = rows[s]]
  /\ Resolved(batch)
  /\ UNCHANGED <<sent, requests, closed, draining>>

SetException ==
  /\ thread = "failing"
  /\ future' = [future EXCEPT ![Head(batch).slot] = "error"]
  /\ Resolved(batch)
  /\ UNCHANGED <<sent, got, requests, closed, draining>>

InferenceThread ==
  \/ TakeFirst \/ TakeMore \/ TakeSentinel \/ StopGathering
  \/ Forward \/ ForwardFails \/ SetResult \/ SetException

BatcherNext ==
  \/ \E s \in Slots, x \in Inputs : Submit(s, x)
  \/ \E s \in Slots : Refuse(s)
  \/ Close
  \/ InferenceThread

\* The inference thread is an operating-system thread that keeps running.
BatcherFairness == WF_batcherVars(InferenceThread)

BatcherSpec == BatcherInit /\ [][BatcherNext]_batcherVars /\ BatcherFairness
-------------------------------------------------------------------------------
(* Properties.                                                                *)

BatcherTypeOK ==
  /\ future \in [Slots -> FutureStates]
  /\ sent \in [Slots -> Inputs \union {Padding}]
  /\ got \in [Slots -> Inputs \union {Padding}]
  /\ requests \in Seq(Request \union {Sentinel})
  /\ closed \in BOOLEAN
  /\ thread \in ThreadStates
  /\ draining \in BOOLEAN
  /\ batch \in Seq(Request)
  /\ Len(batch) \in 0..BatchSize
  /\ rows \in [Slots -> Inputs \union {Padding}]

\* Everything accepted and not resolved yet, oldest first.
Held == batch \o requests

\* The sentinel stays behind every accepted request, and once it has been
\* taken nothing follows: a request behind it would never be served.
NothingBehindSentinel ==
  /\ \A i \in DOMAIN requests :
       requests[i] = Sentinel => closed /\ i = Len(requests)
  /\ draining \/ Ended => requests = << >>

\* A future waits exactly as long as the service holds its one request, with
\* the encoding its worker sent: no request is lost, answered twice or stale.
PendingIffHeld ==
  /\ \A i, j \in DOMAIN Held :
       Held[i] # Sentinel /\ Held[j] # Sentinel /\ Held[i].slot = Held[j].slot
         => i = j
  /\ \A i \in DOMAIN Held :
       Held[i] # Sentinel =>
         future[Held[i].slot] = "pending" /\ sent[Held[i].slot] = Held[i].input
  /\ \A s \in Slots : future[s] = "pending" =>
       \E i \in DOMAIN Held : Held[i] # Sentinel /\ Held[i].slot = s

\* An orderly stop leaves no worker waiting; only a forward that fails while
\* the last batch is drained can end the thread with futures unresolved.
StopStrandsNobody == thread = "stopped" => \A s \in Slots : future[s] # "pending"

\* A result was computed from the caller's own encoding, whatever shared the
\* forward with it, and never from a padding row or from an earlier call.
OwnRow == \A s \in Slots : future[s] = "result" => got[s] = sent[s]

\* The ValueError of _fixed_inference_inputs is unreachable from workers that
\* wait for their answer before they call again.
BatchSlotsUnique == UniqueSlots(batch)

\* The service implements the interface its callers see.
Service == INSTANCE InferenceService WITH open <- ~closed
ServiceSpec == Service!Spec

\* An accepted call is resolved, unless the last forward killed the thread.
AnsweredOrDead ==
  \A s \in Slots : future[s] = "pending" ~> future[s] # "pending" \/ thread = "dead"

\* Every accepted call is resolved within the service's bounded wait.
EveryCallResolved == \A s \in Slots : future[s] = "pending" ~> future[s] # "pending"
===============================================================================
