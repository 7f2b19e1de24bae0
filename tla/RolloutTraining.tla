--------------------------- MODULE RolloutTraining ----------------------------
(* train_ppo of ppo.py: for each update the main thread records the collector *)
(* checkpoint, constructs an inference batcher, lets an executor collect one  *)
(* chunk per worker, closes the batcher and optimizes the model in place.     *)
(* Worker threads, the inference thread and the main thread share the model,  *)
(* the batcher and the workers' environments.  Any worker may raise; the main *)
(* thread then skips the update, waits for the executor to drain and closes   *)
(* every environment.                                                         *)
EXTENDS InferenceBatcher, FiniteSets

CONSTANTS WorkerCount,   \* config.workers
          Chunk,         \* config.rollout_length: decisions per worker
          Updates,       \* config.updates
          Minibatches    \* optimizer steps of one update

ASSUME TrainingAssumption ==
  /\ WorkerCount \in Nat \ {0}
  /\ Slots = 0..(WorkerCount - 1)
  /\ Chunk \in Nat \ {0}
  /\ Inputs = 0..Chunk
  /\ Updates \in Nat
  /\ Minibatches \in Nat \ {0}

VARIABLES main,         \* where the main thread is
          next,         \* the worker whose chunk tuple(executor.map(..)) awaits
          update,       \* update_index
          failing,      \* an exception is on its way out of the main thread
          pc,           \* pc[w]: where worker w's collection task is
          decided,      \* decided[w]: decisions taken in this chunk
          env,          \* env[w]: whether worker w holds an open environment
          weights,      \* the model: optimizer steps taken so far
          forwarded,    \* forwarded[w]: the weights behind w's latest answer
          collector,    \* the weights in this update's collector checkpoint
          provenance,   \* provenance[w]: collector the worker would record
          evidence      \* evidence[w]: <<weights, provenance>> of its decisions

mainVars == <<main, next, update, failing>>
workerVars == <<pc, decided, env>>
modelVars == <<weights, forwarded>>
recordVars == <<collector, provenance, evidence>>
trainingVars == <<batcherVars, mainVars, workerVars, modelVars, recordVars>>

MainStates == {"begin", "collect", "close", "join", "optimize", "shutdown",
               "release", "end", "aborted"}
\* "choose", "bootstrap" and "final" are about to call infer(); the "-wait"
\* states are in it.  "revive" is ready() after a death in continuing-reset mode.
CallSites == {"choose", "bootstrap", "final"}
Waits == [choose |-> "choose-wait", bootstrap |-> "bootstrap-wait",
          final |-> "final-wait"]
Parked == {"idle", "finished", "failed"}
WorkerStates == CallSites \union {Waits[c] : c \in CallSites} \union Parked
                  \union {"queued", "revive"}

TrainingInit ==
  /\ BatcherInit
  /\ main = "begin" /\ next = 0 /\ update = 0 /\ failing = FALSE
  /\ pc = [w \in Slots |-> "idle"]
  /\ decided = [w \in Slots |-> 0]
  /\ env = [w \in Slots |-> FALSE]
  /\ weights = 0 /\ forwarded = [w \in Slots |-> 0] /\ collector = 0
  /\ provenance = [w \in Slots |-> 0]
  /\ evidence = [w \in Slots |-> {}]
-------------------------------------------------------------------------------
(* _collect_worker_rollout and _Worker, on worker w's executor thread.        *)

Goto(w, label) == pc' = [pc EXCEPT ![w] = label]

StartChunk(w) ==
  /\ pc[w] = "queued"
  /\ Goto(w, "choose")
  /\ UNCHANGED <<batcherVars, mainVars, decided, env, modelVars, recordVars>>

\* ready(): start a game when the worker has none.
Reset(w) ==
  /\ pc[w] \in {"choose", "revive"}
  /\ ~env[w]
  /\ env' = [env EXCEPT ![w] = TRUE]
  /\ Goto(w, IF pc[w] = "revive" THEN "bootstrap" ELSE "choose")
  /\ UNCHANGED <<batcherVars, mainVars, decided, modelVars, recordVars>>

\* _reset closes what it opened before it raises; that close may raise too.
ResetFails(w) ==
  /\ pc[w] \in {"choose", "revive"}
  /\ ~env[w]
  /\ Goto(w, "failed")
  /\ \E open \in BOOLEAN : env' = [env EXCEPT ![w] = open]
  /\ UNCHANGED <<batcherVars, mainVars, decided, modelVars, recordVars>>

\* A truncated episode's bootstrap call needs no environment.
Call(w) ==
  /\ pc[w] \in CallSites
  /\ pc[w] \in {"choose", "final"} => env[w]
  /\ Submit(w, decided[w])
  /\ Goto(w, Waits[pc[w]])
  /\ UNCHANGED <<mainVars, decided, env, modelVars, recordVars>>

CallRefused(w) ==
  /\ pc[w] \in CallSites
  /\ pc[w] \in {"choose", "final"} => env[w]
  /\ Refuse(w)
  /\ Goto(w, "failed")
  /\ UNCHANGED <<mainVars, decided, env, modelVars, recordVars>>

CallRaises(w) ==
  /\ pc[w] \in {Waits[c] : c \in CallSites}
  /\ future[w] = "error"
  /\ Goto(w, "failed")
  /\ UNCHANGED <<batcherVars, mainVars, decided, env, modelVars, recordVars>>

\* After a decision and its bootstrap: the next decision, or the chunk's end,
\* which values the observation a live episode was left in.
AfterDecision(w, taken, alive) ==
  IF taken < Chunk THEN Goto(w, "choose")
  ELSE IF alive THEN Goto(w, "final") ELSE Goto(w, "finished")

\* The writer records the sampled transition with the worker's provenance.
Record(w) ==
  evidence' = [evidence EXCEPT ![w] = @ \union {<<forwarded[w], provenance[w]>>}]

\* step(): the sampled action is played and recorded.
Play(w) ==
  /\ decided' = [decided EXCEPT ![w] = @ + 1]
  /\ Record(w)
  /\ UNCHANGED <<batcherVars, mainVars, modelVars, collector, provenance>>

Act(w) ==
  /\ pc[w] = "choose-wait"
  /\ future[w] = "result"
  /\ \/ AfterDecision(w, decided[w] + 1, TRUE) /\ UNCHANGED env
     \/ \* truncated by the step limit, died in continuing-reset mode, or ended
        \* without a bootstrap: the worker closes its environment
        /\ env' = [env EXCEPT ![w] = FALSE]
        /\ \/ Goto(w, "bootstrap")
           \/ Goto(w, "revive")
           \/ AfterDecision(w, decided[w] + 1, FALSE)
  /\ Play(w)

\* The transport times out, the game's output is malformed or a close raises:
\* step() leaves an open environment to the main thread's finally.
ActFails(w) ==
  /\ pc[w] = "choose-wait"
  /\ future[w] = "result"
  /\ Goto(w, "failed")
  /\ \/ UNCHANGED <<env, evidence>>
     \/ Record(w) /\ \E open \in BOOLEAN : env' = [env EXCEPT ![w] = open]
  /\ UNCHANGED <<batcherVars, mainVars, decided, modelVars, collector, provenance>>

Bootstrapped(w) ==
  /\ pc[w] = "bootstrap-wait"
  /\ future[w] = "result"
  /\ AfterDecision(w, decided[w], FALSE)
  /\ UNCHANGED <<batcherVars, mainVars, decided, env, modelVars, recordVars>>

FinalValue(w) ==
  /\ pc[w] = "final-wait"
  /\ future[w] = "result"
  /\ Goto(w, "finished")
  /\ UNCHANGED <<batcherVars, mainVars, decided, env, modelVars, recordVars>>

Worker(w) ==
  \/ StartChunk(w) \/ Reset(w) \/ ResetFails(w)
  \/ Call(w) \/ CallRefused(w) \/ CallRaises(w)
  \/ Act(w) \/ ActFails(w) \/ Bootstrapped(w) \/ FinalValue(w)
-------------------------------------------------------------------------------
(* The inference thread reads the shared model when it runs a forward.        *)

InBatch(w) == \E i \in DOMAIN batch : batch[i].slot = w

Infer ==
  /\ InferenceThread
  /\ forwarded' = IF Forward
                    THEN [w \in Slots |-> IF InBatch(w) THEN weights ELSE forwarded[w]]
                    ELSE forwarded
  /\ UNCHANGED <<mainVars, workerVars, weights, recordVars>>
-------------------------------------------------------------------------------
(* train_ppo and _collect_rollout, on the main thread.                        *)

\* The constructor: an empty queue, a fresh thread, and no call made yet.
NewBatcher ==
  /\ future' = [w \in Slots |-> "none"]
  /\ sent' = NoRows /\ got' = NoRows /\ rows' = NoRows
  /\ requests' = << >> /\ batch' = << >>
  /\ closed' = FALSE /\ draining' = FALSE
  /\ thread' = "idle"

\* Faulty variant: the workers keep the provenance of the previous update.
BeginUpdateStale ==
  /\ main = "begin"
  /\ update < Updates
  /\ collector' = weights
  /\ NewBatcher
  /\ pc' = [w \in Slots |-> "queued"]
  /\ decided' = [w \in Slots |-> 0]
  /\ evidence' = [w \in Slots |-> {}]
  /\ next' = 0
  /\ main' = "collect"
  /\ UNCHANGED <<update, failing, env, modelVars, provenance>>

\* The collector checkpoint is saved and named to the workers, a new batcher
\* starts its thread, and executor.map submits one chunk per worker.
BeginUpdate ==
  /\ main = "begin"
  /\ update < Updates
  /\ collector' = weights
  /\ provenance' = [w \in Slots |-> weights]
  /\ NewBatcher
  /\ pc' = [w \in Slots |-> "queued"]
  /\ decided' = [w \in Slots |-> 0]
  /\ evidence' = [w \in Slots |-> {}]
  /\ next' = 0
  /\ main' = "collect"
  /\ UNCHANGED <<update, failing, env, modelVars>>

Collected ==
  /\ main = "collect"
  /\ pc[next] = "finished"
  /\ next' = next + 1
  /\ main' = IF next' = WorkerCount THEN "close" ELSE "collect"
  /\ UNCHANGED <<batcherVars, update, failing, workerVars, modelVars, recordVars>>

\* map re-raises the first failed chunk in worker order and cancels the chunks
\* no executor thread has started.
CollectRaises ==
  /\ main = "collect"
  /\ pc[next] = "failed"
  /\ failing' = TRUE
  /\ pc' = [w \in Slots |-> IF pc[w] = "queued" THEN "idle" ELSE pc[w]]
  /\ main' = "close"
  /\ UNCHANGED <<batcherVars, next, update, decided, env, modelVars, recordVars>>

\* The finally of _collect_rollout.
CloseBatcher ==
  /\ main = "close"
  /\ Close
  /\ main' = "join"
  /\ UNCHANGED <<next, update, failing, workerVars, modelVars, recordVars>>

\* Faulty variant: close() does not join its thread.
JoinWithoutWaiting ==
  /\ main = "join"
  /\ main' = IF failing THEN "shutdown" ELSE "optimize"
  /\ UNCHANGED <<batcherVars, next, update, failing, workerVars, modelVars, recordVars>>

JoinBatcher ==
  /\ main = "join"
  /\ Ended
  /\ main' = IF failing THEN "shutdown" ELSE "optimize"
  /\ UNCHANGED <<batcherVars, next, update, failing, workerVars, modelVars, recordVars>>

\* _ppo_update changes the shared parameters in place, one minibatch at a time.
OptimizerStep ==
  /\ main = "optimize"
  /\ weights < Minibatches * (update + 1)
  /\ weights' = weights + 1
  /\ UNCHANGED <<batcherVars, mainVars, workerVars, forwarded, recordVars>>

\* The update's checkpoints are saved.
FinishUpdate ==
  /\ main = "optimize"
  /\ weights = Minibatches * (update + 1)
  /\ update' = update + 1
  /\ main' = "begin"
  /\ UNCHANGED <<batcherVars, next, failing, workerVars, modelVars, recordVars>>

\* Saving a checkpoint or optimizing raises.
MainRaises ==
  /\ \/ main = "begin" /\ update < Updates
     \/ main = "optimize"
  /\ failing' = TRUE
  /\ main' = "shutdown"
  /\ UNCHANGED <<batcherVars, next, update, workerVars, modelVars, recordVars>>

AllUpdatesDone ==
  /\ main = "begin"
  /\ update = Updates
  /\ main' = "shutdown"
  /\ UNCHANGED <<batcherVars, next, update, failing, workerVars, modelVars, recordVars>>

\* Leaving the with block waits for every executor thread.
ExecutorDrained ==
  /\ main = "shutdown"
  /\ \A w \in Slots : pc[w] \in Parked
  /\ main' = "release"
  /\ next' = 0
  /\ UNCHANGED <<batcherVars, update, failing, workerVars, modelVars, recordVars>>

\* Faulty variant: the last worker is forgotten.
ReleaseAllButLast ==
  /\ main = "release"
  /\ env' = [env EXCEPT ![next] = FALSE]
  /\ next' = next + 1
  /\ main' = IF next' >= WorkerCount - 1 THEN "end" ELSE "release"
  /\ UNCHANGED <<batcherVars, update, failing, pc, decided, modelVars, recordVars>>

\* The finally of train_ppo closes the workers in order.
ReleaseWorker ==
  /\ main = "release"
  /\ env' = [env EXCEPT ![next] = FALSE]
  /\ next' = next + 1
  /\ main' = IF next' = WorkerCount THEN "end" ELSE "release"
  /\ UNCHANGED <<batcherVars, update, failing, pc, decided, modelVars, recordVars>>

\* A close that raises ends the loop: the later workers keep their environments.
ReleaseRaises ==
  /\ main = "release"
  /\ env[next]
  /\ main' = "aborted"
  /\ UNCHANGED <<batcherVars, next, update, failing, workerVars, modelVars, recordVars>>

Main ==
  \/ BeginUpdate \/ Collected \/ CollectRaises \/ CloseBatcher \/ JoinBatcher
  \/ OptimizerStep \/ FinishUpdate \/ MainRaises \/ AllUpdatesDone
  \/ ExecutorDrained \/ ReleaseWorker \/ ReleaseRaises

TrainingNext == Main \/ Infer \/ \E w \in Slots : Worker(w)

\* Each thread keeps running while it can: game exchanges end by the transport's
\* timeout, and the gathering window is bounded.
TrainingFairness ==
  /\ WF_trainingVars(Main)
  /\ WF_trainingVars(Infer)
  /\ \A w \in Slots : WF_trainingVars(Worker(w))

TrainingSpec == TrainingInit /\ [][TrainingNext]_trainingVars /\ TrainingFairness
-------------------------------------------------------------------------------
(* Properties.                                                                *)

\* "The model is immutable during each rollout": every decision of every worker
\* in a rollout was sampled from exactly the weights of the collector checkpoint
\* its recorded transition names; and while the parameters change in place no chunk
\* is running, no request waits and the inference thread of the rollout is gone.
ModelFixedInRollout ==
  /\ \A w \in Slots : \A e \in evidence[w] : e = <<collector, collector>>
  /\ main = "optimize" =>
       /\ thread = "stopped"
       /\ requests = << >>
       /\ \A w \in Slots : pc[w] = "finished" /\ future[w] # "pending"

\* No worker's game survives training, however training ended, when every close
\* succeeds.
NoGameOutlivesTraining == main = "end" => \A w \in Slots : ~env[w]

\* Training ends, and its finally runs, whatever the workers do, unless a
\* forward fails while the last batch is drained.
TrainingEndsOrDrainDies == <>(main \in {"end", "aborted"} \/ thread = "dead")
===============================================================================
