# A TLA+ model of dcss-rl

dcss-rl trains agents that play Dungeon Crawl Stone Soup (DCSS) through its
WebTiles socket.  This directory holds TLA+ modules translated from the Python
source under `src/dcss_rl/`, TLC configurations that check them on small
instances, and TLAPS proofs of the properties that matter for every instance.
`PROJECT.json` maps every definition to the source lines it stands for.

## Inventory

| Component | State | Operations | Hard behaviour | What makes it correct |
|---|---|---|---|---|
| Inference batcher (`ppo.py`, `_InferenceBatcher`) | queue, closed flag, the thread's batch, a future per call | `infer`, `close`, the thread's `_run`, `_resolve` | threads racing a close; a sentinel that cuts a batch short; a failing forward | every accepted call is answered once, from its own row |
| Training loop (`train_ppo`, `_collect_rollout`) | the shared model, the collector checkpoint, the executor | checkpoint, collect, optimize, save, release | three kinds of threads sharing the model; partial failure; clean-up | one model per rollout; optimization alone; no game left |
| Worker (`_Worker`, `_collect_worker_rollout`) | game, episode, history, budget, cycle window, a kept feature, the rows | `_reset`, `step`, decisions, bootstraps | episodes that span chunks, end in them, or are reset in the middle of a row | inputs and returns are those of one game |
| WebTiles transport (`webtiles/transport.py`) | socket, remembered readiness, the exchange's evidence | `request_full_state`, `receive_until_flush` | when a batch of output is complete; silence; late answers | the agent decides when the game waits |
| Managed game (`webtiles/process.py`) | process, log, socket path | `start`, `send_key`, `close` | failure at each step of a start; a process that does not exit | every process can be reached |
| Typed environment (`env.py`), actions (`actions.py`) | reduced state, step count, maxima | `reset_typed`, `step_typed`, `legal_actions` | terminal messages; rewards of a walk that goes back | no action after the end; each milestone is paid once |
| Observation reducer (`observation.py`) | cells, player, inventory, menu, mode, caches, cursor | a handler per message, the snapshot | sparse updates, cells without coordinates, cleared maps | the snapshot is what the game shows |
| Trajectories (`trajectory.py`, readers in `replay.py`, `training.py`) | a JSONL file per episode; a state that is patched in place | start, transition, close; reconstruct | patches on patches | readers see what the policy saw |
| Replay cache (`replay_cache.py`) | entries keyed by their inputs | load or build | inputs that grow between the key and the read | an entry is the replay of its key |
| Static data cache (`webtiles/cache.py`, `prepare_game_cache.py`) | snapshot and manifest | capture, load, populate | rebuilds, damage, two bootstraps | a game starts on one whole tree |
| Identity validator (`webtiles/identity_validation.py`) | a semaphore, a helper process per request | `validate` | one deadline over queue and helper | permits return; every request ends |
| Evaluation (`evaluation.py`, `diagnostic_promotion.py`, `cli.py` `_evaluate`) | a pool of threads with a game per case; output directories; the manifest of each track | load a suite, run its cases, judge, promote, activate | results out of order; one case failing among others; read-compare-write; a kill between two file operations | results in the suite's order; no game left; tracks are monotonic; activation is atomic |
| Scripted policy, curriculum policy, confidence gate (`policy.py`, `curriculum.py`, `learned.py`), the way to the stairs in the features (`features.py`, `terrain.py`) | none: each decision is a function of one screen | decide, select, search | a decision the game refuses is repeated; legality and decision read different fields; two searches | no repetition without progress but the known ones; every decision is offered; ways are shortest |
| Seed schedule, returns, budgets (`schedule.py`, `returns.py`, `costs.py`, `history.py`) | counters and arrays | pure functions, two trackers | wrap-around, chunk and episode ends | agreement with their definitions |
| Policy models and their checkpoints (`learned.py`, the warmup of `ppo.py`, `ability_probe.py`, `ability_residual_probe.py`, `feature_migration.py`, `checkpoint_audit.py`) | tensors with a configuration, in memory and in files | load and migrate, selective optimizer steps, save, audit | chains of migrations that move columns; an optimizer that moves what has no gradient | a parameter stays with what it is about; nothing moves but what is owned |
| Rollout comparison (`training_rollout_compare.py`) | a recording of a worker, read back | read the first update, compare two | where an update ends in a recording that goes on | the steps and resets read are the first update's |
| The other features, coverage counts, other offline audits, the rest of the command line | none that is shared | pure or sequential | none of the kinds above | |

How they interact: `train_ppo` owns one `_Worker` per slot.  An executor thread
runs one worker's chunk per update; the worker calls `infer` (a future answered
by the inference thread), plays the sampled action through
`DcssEnv.step_typed`, which sends one key through `ManagedGame.send_key` and
waits in `WebtilesTransport.receive_until_flush` for the batch of messages the
reducer turns into a snapshot, and records the transition.  The main thread
optimizes the model the inference thread reads.  A game starts from the static
data snapshot that a bootstrap process has exported; its identity is checked
through the validator.  Recorded trajectories come back through the readers,
the replay cache in front of them; evaluations play the same environment and
promote their result to a track.  Checkpoints pass from tool to tool: imitation,
PPO, the probes and the migration each load one, extend its model, train some of
it and write others.

## Modules

| Module | Models | How |
|---|---|---|
| `InferenceService` | what a caller of `infer` is promised | abstract specification |
| `InferenceBatcher` | `_InferenceBatcher` | implements `InferenceService` |
| `RolloutTraining` | `train_ppo` and its threads | extends `InferenceBatcher` |
| `WorkerRollout` | the data of one worker's chunks | extends `Returns`, `InteractionCosts`, `SeedSchedule`, `RolloutTrace` |
| `RolloutTrace` | the reader of a worker's first update | operators |
| `Returns` | `generalized_advantage_estimate` | with its reference definition, the lambda-return |
| `InteractionCosts` | `UiInteractionBudget`, `SemanticCycleTracker` | operators |
| `SeedSchedule` | `TrainingSeedSchedule` | operators |
| `InputBoundary` | the exchange of one key with the game | client, and the game as its environment |
| `GameLifecycle` | start, retry and close of a game | every call may raise |
| `ObservationReducer` | the reducer and the legal actions | operators |
| `Trajectory` | patches and their two readers | extends `ObservationReducer` |
| `Episode` | one recorded episode | extends `Trajectory`; the game sends the messages |
| `ReplayCache` | `prepare_imitation_replay` by several processes | file contents only grow |
| `IdentityValidator`, `StaticCache` | the validator pool; the snapshot's life | `StaticCache` extends the validator |
| `ChampionTrack` | promotion and activation | one action per file operation |
| `Evaluation` | an evaluation's pool, its summary, floors, and both ways to a promotion | extends `ChampionTrack` |
| `ScriptedPolicy` | the scripted policy, legality, and the two searches | operators |
| `EvaluationCase` | one case: a policy plays a game key by key | extends `GameLifecycle` and `ScriptedPolicy`; the game answers |
| `LabelledPolicy` | what migrations and tools promise of a model | abstract specification |
| `PolicyModel` | the parameters, migrations, selective steps and the audit | operators |
| `PolicyTraining` | the tools that turn checkpoints into checkpoints | implements `LabelledPolicy` |
| `*Proofs` | | theorems |
| `MC*` | | constants for TLC |

Every module keeps, beside the definitions of the code, a few marked `Faulty
variant`: a definition as a plausible bug would leave it.  Nothing uses them;
put in place of the definition below them, TLC finds the property they belong
to violated.

### InferenceBatcher and RolloutTraining

`requests` is the `Queue`, `future[s]` the future of slot `s`'s latest call,
`sent[s]` the encoding it carried and `got[s]` the encoding its answer was
computed from.  `Submit` and `Refuse` are the two outcomes of `infer` under the
lock; `Close` sets the flag and puts the sentinel in one step, as the lock
makes it.  The thread's program counter `thread` follows `_run`: `idle` in the
outer `get`, `gathering` in the inner loop, `resolving` before the forward,
`answering` and `failing` in the loops over the futures, `stopped` after a
normal return, `dead` after an exception that leaves the thread.  The window of
`inference_batch_wait` is abstracted to `StopGathering`, which may happen at any
moment of gathering: the properties hold for every length of the window.  A
forward is a function of the padded matrix, so an answer is represented by the
row it was read from.  `draining` marks the batch the sentinel cut short; it is
resolved outside the handler, and only there does a failed forward kill the
thread.  `InferenceService` states the contract: an accepted call is answered
from its own input or fails, and nothing is accepted once closed.

`RolloutTraining` adds the main thread (`main`, its position in `train_ppo`)
and the workers (`pc[w]`).  A chunk consists of `Chunk` decisions, each a
`Call`, then `Act` with what the step did to the episode: continue, be
truncated (a bootstrap call on the final observation), die in continuing-reset
mode (a new game, then a bootstrap call on it), or end.  `executor.map` returns
chunks in worker order (`Collected`) and re-raises the first failure,
cancelling chunks no thread has started (`CollectRaises`).  `weights` counts
optimizer steps, so it names the parameters exactly; `forwarded[w]` are the
weights an answer was computed from, and `evidence[w]` the pairs of weights and
collector checkpoint that the recorded transitions of the chunk claim.  A
reset, a step, a forward, a checkpoint, an optimizer step and an environment's
close may each raise.

### WorkerRollout

One worker, seen from its data: what the model is asked, what the rows hold and
what the returns are.  The model does not change during a chunk
(`ModelFixedInRollout`), so `Value` is a function of feature and history.
`Acts` draws any action and lets the environment answer with any place, with or
without a turn, and any end; `Records`, `BootstrapsLimit` and `WantsReset` with
`BootstrapsReset` are the ways a row is finished, `Finishes` the final value and
the returns.  `game`, `trace` and `paid` are history: what the games themselves
did, which is what the properties compare with.  `recorded` is what the trajectory
writer has written, as `RolloutTrace` will read it: an episode file per game, its
records with the update they were collected for, and the number of starts it took,
each of which leaves a directory: `_episodes` refuses a recording with a retried
start (`Retried`).  `TraceIsFirstUpdate` puts the
two halves together from the end of the first update until the second has its
first row; later records change nothing for the reader, and `recorded` is
dropped.  Masks are represented by the
observation they were computed from; sampling, teacher actions and the rounding
of float32 are abstracted.  `Returns` computes with integers that are multiples
of a unit every division met in a chunk divides, so that it is exact; its
reference is the lambda-weighted average of the n-step returns of the rest of
the episode, a definition by sums with no recursion over the chunk.

### PolicyModel, PolicyTraining and LabelledPolicy

A parameter is a position of a tensor (`<<"encoder", column>>`, `<<"weight",
row>>`); a hidden layer is one parameter.  What it holds is a token: what the
value was learned for, and how many optimizer steps have moved it.  This is
enough to see a value in a wrong place or moved by a step that should have left
it.  The migrations follow the code position by position: features first, then
the history slot by slot, each as wide as the catalog.  `Moved` moves every
parameter of a tensor that has a gradient, because AdamW decays what a zero
gradient does not move; `WarmupStep` is the sequence of restrict, step and
restore.  `Labels` and `UnitOf` say what the model reads where
(`LearnedPolicy.propose`, `SemanticActorCritic.forward`), and `Meaning` is the
model as a function of them.  `LabelledPolicy` knows only this function: a tool
opens a checkpoint and may add labels that contribute nothing, learns, and saves.

`PolicyTraining` runs one tool at a time: `train_ppo` with any warmup,
companion rows, value head and history, `run_probe` in both modes,
`run_residual_probe` and `migrate_features`, each on any checkpoint there is,
and a kill between any two steps.  A probe's early stop on its margins ends
where a kill does.  What the numbers of a step are is abstracted, also whether a
moment is zero: `moments` is what the optimizer has seen a gradient of, since a
moment moves a parameter later, after the gradient is gone.  A probe saves at
declared steps only, the model after every step.  A checkpoint with a residual
is refused by `ModelConfig` once the catalog has grown, before
`align_action_count` could extend it; the model has the refusal, and one release
has one catalog.

### InputBoundary

The client half is the code: `SendKey` and the probe of
`ManagedGame.send_key`, `receive_until_flush` with its four boundaries and
`_LevelBoundaryEvidence`.  `Apply` is the evidence's handler; `lastMode` is the
remembered readiness, and `lastMode` and `menu` (the reducer's one menu slot)
are what `legal_actions` looks at.  The game half is not in the repository and
is marked external: it reads keys and probes in order, runs, may generate a
floor in silence or under a progress layer, opens and closes layers and text
prompts, exits, and announces mode changes only, each with a flush.  It is taken
from `docs/architecture.md` (flushes, readiness, probe, level transitions) and
from the fixtures of the transport's tests.

Time appears twice, and `Prompt` says how: with `Prompt = TRUE`, which the run
uses, a quiet period or a timeout elapses only when the game has nothing left to
do, or (for the quiet period) is generating a floor; with `Prompt = FALSE` it
may elapse whenever the socket is empty.  The assumption matters: with
`Prompt = FALSE` the answer of a probe can arrive after the exchange that asked
for it has returned, is read by the next exchange, and refutes
`EvidenceIsItsOwn`.  And the guarantees are those of the boundaries that ask
for evidence: an ordinary key that makes the game generate a floor (a shaft)
returns on quiescence, while the game is still busy.

### GameLifecycle

`_Worker._reset` (with and without a trajectory) and `_start_episode` start a
game up to three times through `DcssEnv.reset_typed` and `ManagedGame.start`.
Each call is an action, and each that may raise has a raising alternative, with
the type of the error, since only a `TimeoutError` is retried: `GameCloses` and
`GameStaysAfterKill` are the two ends of `ManagedGame.close`, and the wait after
the kill raises `TimeoutExpired`, which is not a `TimeoutError`.  `env`, `game`,
`proc` and `writer` are the references the owner holds; `alive`, `logs`,
`transports` and `writers` what the operating system holds.

### ScriptedPolicy and EvaluationCase

`ScriptedPolicy` has `ScriptedMibePolicy.decide` rule by rule in its order,
`select` with its fallback, `legal_actions`, and the breadth-first search, which
`policy.py` and `features.py` each have a copy of with their own idea of what is
open: `Open` and `ShownOpen`.  The search is a recursive function on the number
of points taken from the queue (`Searched`, with `Fresh` for the neighbours that
enter it and `From` for the predecessors), and so is the way back (`Back`).
`CaseAssumption` says that a level is a finite map of the five kinds of points,
`NilAssumption` that `Nil`, Python's `None`, is neither a number nor a
coordinate, `MenuAssumption` that it is no menu and no string a key could be.  Coordinates, glyphs, map features and monster
names are those the code compares; a message, a status or the text of a choice
is what the code looks for in it.

`EvaluationCase` puts a policy and a game inside the state `"playing"` of an
evaluation's life cycle: `Plays` is one turn of the loop of `_run_episode`,
`policy.select` and then `env.step`, whose check of legality is its guard.
`Options` are the choices of the three policies: the scripted one's, the
curriculum's, and for the confidence gate any legal action (a confident model)
or the fallback's.  The game is not in the repository and is external: a level
of a few cells, one monster that may come, hit or leave sight, Berserk with its
cooldown, poison, a piety that rejects Berserk, Zot that makes resting ask, a
question of each kind once, autoexplore that stops for a monster, refuses a
raging player and says when it is done.  Each comes from what the policy reads
and from the loops `docs/experiments.md` reports; they are what a game may do,
not all it does.  A refused key takes no time and leaves the screen as it was,
but for its message.

`idle` remembers the screens the teacher decided on since game time last passed;
a deterministic policy that meets one of them again is in a loop that only the
step limit ends.  `OnlyKnownStalls` says that the loops the log reports as fixed
are gone, and which are left: Berserk rejected for a reason no status shows;
a rest that asks and is answered no (`docs/experiments.md:136`, there of a
learned policy that answers yes); and a level that is explored with no way to
stairs, which the teacher does not notice: `_exploration_complete`
(`policy.py:303`) is called by nobody.  The last includes standing on the stairs
after their message has gone, since the player's glyph hides them, and stairs
behind a door or an item, which `_walkable` takes for closed.

### ObservationReducer, Trajectory and Episode

A sparse message is a function on the fields it carries, merged with `Updated`.
`ReadsCell` and `ReadsMap` follow `_apply_map`: the cursor, the merged cell, the normalised
cell and the dropped ordering.  A snapshot's cells are a function of the
coordinate; their order by row, and texts but for the two that matter (the
staircase that makes the stairs actions legal, a question), are abstracted.
`MergedCell` is `_merge` on a cell: what is sent of a monster is merged into the
one known there, null forgets it; a name and a threat stand for a monster's
fields.  `Episode` gives the reducer a game: it sends a cell only with the fields
that changed, of a monster that stays only those of its own that changed
(`Changes`), and without coordinates when the cell follows the one before, and a
change of level is one message pair in one batch.  `Get` is `dict.get`:
`observation_delta` takes a field that is not there for one that is null.  After
every step the record `ObservationDelta` is folded into both readers
(`detached`, the snapshots of `apply_observation_delta`; `transient`, the state
`_TransientObservation` patches in place) and into the evaluation's discovery
tracker.

### ReplayCache, StaticCache and IdentityValidator, ChampionTrack and Evaluation

`ReplayCache` gives each trajectory a content that only grows, a process that
appends, and processes that compute a key file by file, look it up, build file
by file, compute the key again and install the entry.  A process digests its
sources from disk and runs what it imported; sources edited between its import
and its digest are keyed as if they had been run, and no property claims
otherwise.

`StaticCache` numbers the versions of the two parts of the tree: a rebuild of
the tree never brings an earlier identity back (modification times are part of
it).  A bootstrap's game reads the tree while it builds, between two
computations of the identity that read the two parts one after the other.  One
member stands for each folder.  `IdentityValidator` has the request's deadline
as a flag that is set at any moment.

`ChampionTrack` has one action per file operation, a torn state for a file that
is truncated in place, and a kill between any two.  Ranks, lexicographic tuples
in the code, are numbers.  With `Overlap = FALSE` commands run one after the
other, which the run uses; with `Overlap = TRUE` two promotions that both compare
with the old manifest may write the worse one last, and TLC finds `TrackMonotonic`
violated: the code takes no lock.  `promote_champion` lets the same policy replace
its own manifest at an equal rank, and after a change of the rank's definition at
any.

`Evaluation` says where the summaries come from.  `Submits` resolves a
configuration (`Resolved` follows redirects and refuses a cycle), makes the
output directory, which must be new, and queues every case; `CaseStarts` and
`CaseEnds` are a thread of the pool, and stand for all of `EvaluationCase`;
`Yields` takes any finished future, as `as_completed` does, and leaves the loop
at the first that raised; `Leaves` is the end of the `with` statement, which
waits for running and queued cases.  Two cases of one ID share a directory, so
the second one raises: the run has such a suite.  `Judges` is `_evaluate` with
or without a floor and a track, `PromotesDiagnostic` promotes from the summary on
disk, also one that an earlier command, or a killed one, left.  A rank is the sum
of what the cases came to.

## Runs

| Run | Bounds | Shows |
|---|---|---|
| `batcher` | 3 slots, 2 encodings, batches of 2, failing forwards | more callers than a batch holds, so that requests wait behind a batch, are drained with the sentinel, or meet it in the outer loop: nothing is behind the sentinel, futures and requests correspond, answers are from their own row, the service is implemented, calls are answered |
| `training` | 2 workers, 2 decisions per chunk, 2 updates of 2 optimizer steps | every way a rollout can fail while the other worker is in any state; the weights change between the rollouts, so that a stale answer or provenance is visible |
| `training_wait` | 2 workers, 1 decision, 1 update | finding 1 |
| `boundary` | the starting key and 3 more, 1 extra flush between inputs, 2 layers | an exchange may leave layers, a prompt or a mode behind for the next; two layers are needed to close the top one and find another; one extra flush tells a rendering flush from the last one |
| `evaluation_case` | 2 episodes of 3 attempts, each kind of owner; the first game of an evaluation played for up to 9 decisions on one of 3 levels of 6 to 9 cells, 2 hit points, 2 depths | a second start after whatever the first left; levels with a way round a wall, a door before the stairs, and lava before them with a way past it that a monster may stand on; 9 decisions are enough to explore, fight, go berserk, cool down, and repeat a screen, and to reach the curriculum's second menu |
| `lifecycle_orphan` | evaluations only | finding 2 |
| `replay_cache` | 2 processes, 2 trajectories, 1 append to each, 1 edit of the sources | an append between the reads of two files; one process hits what the other has installed |
| `evaluation` | 3 commands one after the other, suites of 2, 1 and twice the same case, 2 threads, 2 results and a failure, 2 policies, 2 output directories | every order in which two cases end and are taken, a failure of either; a track that is promoted, activated and promoted again, with kills |
| `static_cache` | a bootstrap and 2 workers, 1 permit, 1 rebuild of each part | each part rebuilt before, between or after the reads of every validation; one worker queues behind the other |
| `episode` | 3 levels in 2 branches, 3 coordinates of which a map message changes up to 2 (`MaxDrawn`), 2 slots, 3 messages in 3 steps | a monster of which one field is sent and the other kept, two cells of which the second has no coordinates; a level revisited, two branches at one depth, a cell that is seen again, a slot used up |
| `worker_rollout` | 2 chunks of 2 steps, step limits 1 and 3, a window of 2, tokens in halves, both return modes, up to 2 starts of a game (`StartAttempts`), games that begin at one of the places (`Entrances`) | games that end in a chunk, at its end, or span two; a bootstrap of each kind at each position; a recording that stops at, before or after a reset, with and without a retried start |
| `policy` | 2 tools, 2 updates of 1 minibatch, 3 actions of which old checkpoints have 2, 3 specifications of 2 widths, histories of 0 or 2 slots, every valid starting configuration | each migration alone and after each other one, in one tool and over a file; a warmup that ends; the sizes are the smallest at which a slot, a row and a column can be taken for one another |

Deadlock is not checked where the system may stop; each configuration says
why.  `batcher` stops once it is closed.

Fairness: in the batcher, weak fairness of the inference thread only (a
runnable thread runs; callers are free).  In the composition, weak fairness of
each thread: a worker's exchange with its game ends because the transport has a
timeout, which is the property `ExchangeEnds` of `InputBoundary`; that run
assumes fairness of the game and of the client, and a silent game is covered by
the timeout.  In `StaticCache`, of the waiting threads and of time; the helper owes nothing
and may hang.  The other specifications are checked for safety only.

## Findings

1. **A failed forward while draining leaves a worker waiting for ever**
   (`ppo.py:616`, run `training_wait`).  The batch cut short by the sentinel is
   resolved outside the `try` that hands a failed forward to its requests.  If
   the forward fails for one worker, its exception leads the main thread to
   close the batcher; another worker's request is drained with the sentinel, the
   forward fails again, the thread dies, `future.result()` has no timeout, the
   executor's shutdown waits for the worker, and the `finally` of `train_ppo`
   never closes a game.
2. **An evaluation can lose a game that has started** (`evaluation.py:529`, run
   `lifecycle_orphan`).  `_start_episode` closes its environment for a
   `TimeoutError` only, and its caller's `finally` begins after it has returned.

## Proofs

`RolloutTrainingProofs` begins with the batcher alone, for every set of slots,
every set of encodings and every batch size, from `BatcherAssumption`:
`TypeCorrect`, `SentinelLast`, `FuturesAccountedFor`, `OrderlyStop`, `ResultsFromOwnRow`, `NoDuplicateSlot`,
`ImplementsService`.  The properties are not inductive one by one.  `IInv` is
the conjunction of the types, `NothingBehindSentinel`, `PendingIffHeld`,
`ThreadShape` and `OwnRow`.  `PendingIffHeld` speaks of the concatenation
`batch \o requests`, since a request keeps its future when it moves from the
queue to the batch; `ThreadShape` says what the batch and the matrix hold at
each position of the thread: without it nothing says that the row a slot's
answer is read from is the one its request filled, or that a thread that stops
leaves no request behind.  The lemmas on `Held` (a take moves the boundary, an
append extends, a resolve removes the head) carry the sequence reasoning; there
is one lemma per action after them.  The refinement uses `IInv` to map each
resolve to the service's `Answer` or `Fail` and every other step to a stutter.

Its second half, for any number of workers, decisions, updates and
optimizer steps: `ModelIsFixed`, `GamesAreClosed`.  Whatever training does to the
batcher is one of its steps or a new batcher, so `IInv` carries over, and with it
all of the above (`BatcherSoundInTraining`, `ServiceInTraining`).  On top of it:
`Phases` (outside a rollout the thread has ended, or was never asked), `Chunks`
(only a worker that waits has a request, so that what is pending when the main
thread joins belongs to a worker that keeps the join waiting), `Collecting` (the
chunks before `next` are finished), `Fixed` (weights equal to the collector during
a rollout, in every answer that is out and in every recorded pair) and `Releasing`.
A drain that dies leaves a future pending, so the join never passes: without
`FuturesAccountedFor` the optimizer could start beside a stranded worker.

`TrainingToolsProofs`, first part, for any widths, catalogs, histories, warmups and
numbers of steps: `PolicyKept`, `AuditSound`, `ProbesExact`, `TrainingIsLabelled`.  The
arithmetic is `SlotUnique`: positions of a history whose slots are a catalog apart
belong to one slot and one action.  From it each migration is shown, position by
position, to extend what the model means (`AlignActionCountExtends`,
`AlignFeatureSpecExtends`, `AddActionHistoryExtends`, `EnableResidualExtends`): a
label the old model knew reads the same value, a new one reads an untouched
parameter.  `ToolInv` carries this through a run of a tool: `Started` (the baseline
extends the checkpoint that was opened, and is it when the configurations agree),
`Kept` (while the tool is held to what it owns, anything else is as in the baseline
and the optimizer has no moment of it: AdamW moves later what it has a moment of)
and `Trained` (the hidden layer never goes back, and has moved when an unrestricted
update is saved).  The last is what makes the audit a test in both directions: it
fails after unrestricted training because something that is not owned has moved.
`ModelAssumption` and `ToolsAssumption` say that widths and counts are natural
numbers, that feature specifications only widen, that the checkpoints the tools start
from are models of their own configuration, and that `None` is not a model.

Second part, for any number of processes and trajectories, from
`CacheAssumption`: `TypeCorrect`, `CacheSound`, `HitSound`.  The argument is a
squeeze: contents only grow, so what is read between two computations of the
key lies between them, and when the two keys agree it is what they digest.  The
invariant therefore orders, file by file, the first key, what the build has
read, what the second key has read and the content on disk, for the files each
loop has passed.

`EpisodeProofs`: `PatchReconstructs` says when applying a patch undoes taking it,
for every two snapshots, whatever their fields, cells and menus: exactly when no
field of the player is new with the value null (`NewNull`).  The comparison with
`.get` (`trajectory.py:107`) does not record such a field, and the reader of the
patch lacks it; otherwise the snapshot is the exact one, as the docstring of
`apply_observation_delta` (`trajectory.py:142`) says.  The theorem needs
`IsSnapshot`, that a snapshot is a record of mappings with nothing outside
their domains, which `SnapshotShape` proves of everything the reducer emits.
From it `ReadersReconstruct`, `NoActionAfterEnd` and `SamplesAreDecisions` hold
for any levels, coordinates, slots and bounds: the first player message of a game
has every field, so every snapshot of an episode has the same ones
(`PlayerFields`, from `ScreenInv`) and none is ever new.  `EpisodeInv` also says which
terminal outcome is pending in a game that is over, and that the action being
played is legal in the current snapshot.  `NoneAssumption` keeps `None` apart
from the outcomes and from coordinates, `MonsterAssumption` from what is sent of a
monster.

`ViewSound`, `ProgressSound` and `DiscoverySound` prove the other three
invariants of an episode.  The heart of `ViewSound` is `MapDecoded`: whatever
the reducer knows, what it makes of a message that `Encoded` builds from a known
and a new map is the new map over the known one.  It follows the message cell by
cell (the reader as a recursive function, induction from the library's theorem on
well-founded sets, applied to a set instead of a predicate): after `i` cells the
reducer holds the new map on the first `i` coordinates in row order and the known
one elsewhere, and its cursor is the `i`-th coordinate, so that a cell without
coordinates is the one the game left them out of.  A clear does not move the
cursor, and it need not, since the game's own notion of the last cell survives a
clear too.  `RowOrderLists` shows that a finite set of coordinates can be listed
by row, and that the list leaves out none.  `ScreenInv` then says that from the first
messages on the reducer's raw map, its normalised cells, its ordered cells when it
has them, its cursor and its player are the game's; only the health of a game
that died without a player message may be stale, and then the episode ends before
anything is decided.  `ProgressInv` relates the maxima to the levels the tracker
knows and the total to the maxima.  `DiscoveryInv` counts: a boundary adds the
new cells of one level, and the set of credits, one for each unit of depth of each
cell shown, grows by a product that is disjoint from it (`CreditAdded`).

`EpisodeAssumption` says what these proofs take from the game: depths are natural
numbers, a branch of one floor has depth 0 and no branch has floors 0 and 1 both
(the tracker's `max(depth, 1)` would take them for one level), the game starts on
a floor that is counted, and maps are finite.

`WorkerRolloutProofs`, for any places, model, costs, limits, history and chunk
lengths: `InputSound`, `RowsSound`, `ReportsSound`, `BurstsSound`, `CyclesSound`,
`TraceSound`, `TrainingSound`, `CasesDisjoint`.  `RolloutInv` says what each call of
the loop leaves for the next:
`WorkerIsLive` (the worker's fields are those of its game, or empty), `ReadyIsLive`
(the kept feature is the worker's observation where it is read), `StepIsLive`,
`RowsMatch` (a row per step of the trace but for the one in hand), `Accounts`
(reports run behind payments by the step in hand) and `Remembers` (the tracker
holds the last places of this game).  `Budgeted` bounds the tokens from both sides:
above by what every stretch of free interactions leaves, below by what the stretch
since the bucket was last full has used; the first gives that free interactions
stay within the allowance, the second that a charge had a cause.
`RolloutAssumption` keeps costs integers, turns natural and `None` apart from the
observations.  `CasesDisjoint`: before the suite wraps two episodes, of any
workers at any paces, never share a case; worker and episode are quotient and
remainder of the position.

`TraceSound` is about two programs that share only files: the worker, whose writer
adds a record per step to a file per game, and the reader, which finds the end of
the first update from what the records say.  `RecordInv` describes the recording
without the reader: the files are the games in order; the records of the first
update are the steps played so far, cut into consecutive blocks, one per file
(`Recording` says that offsets exist at which they are cut, which the reset
between two rows extends by one); the second update's records come after the
first's, and a game that starts once the first update is complete has none of its
records.  The reader is a recursive function of the number of files and of
records read.  `ReadsBlock`, `ReadsAfter` and `ReadsOn` follow it through a file that ends inside
the update, the file at its end, and one after; induction over the files
(`SetInduction`, the library's well-founded induction for sets) then gives
`ReadsAll`: what it returns is the trace, with the reset that followed it.  The
theorem also says exactly when the reader refuses: when a start was retried, or
when the update ended a game and the recording has no later one.

`TrainingSound` is `TrainedOnItsGames` with its returns: what a complete chunk trains
on are the lambda-returns of the steps its games took.  One half is about the rows.
`ValueInv` says where the value that follows each row is: in the row's bootstrap if its
game ended, in the next row's value otherwise (`FollowedBy`), and while it is still to
come, that the game goes on and the model's next answer will be it (`GoesOn`), with the
step in hand in between (`InHand`).  Every way a row is added is shown to be `Added`,
once, with the bootstrap that the model was asked for at that moment.  The other half
is about arithmetic, for rows of any length: the code's recursion from the last row to
the first gives the weighted sums of the reference definition (`ReturnsAgree`).  An
amount is in `level[k]` of a `Chain` when it can still be divided k times; a factor's
power uses one level up (`PowerLevel`), the n-step returns of a step are those of the next
one shifted (`NStepShift`), so are their weighted averages (`AveragedShift`), and induction
from the last row does the rest.  The theorem has the hypothesis `UnitsAreExact`: values and
rewards are multiples of the 2 x `RolloutLength`-th power of a common denominator of the two
factors, which is to say that amounts are counted in a unit in which nothing is rounded
(a chunk divides an amount at most that often).  Every choice of rational factors,
values and costs has such a unit; float32 rounding is outside the model.  TLC cannot
evaluate the hypothesis, which speaks of the values of all turns; the run satisfies
it with 2 as the denominator (its amounts are multiples of 64, and 16 is enough).

`EvaluationCaseProofs`, for any owners, levels and games: `WorkerSound`,
`RecordingSound`.  `LifecycleInv` follows an attempt from its construction to its
close, with what each call may raise: `WorkerOwns` (what is open belongs to the
handle the worker holds, and there is none before its call), `WriterOwned` (an
evaluation opens its trajectory before the game, a worker after it) and `OfAttempt`
(environment, game and process carry the attempt's name).  The policy and the
screen take no part in it, so every step of a case is a step of the life cycle or
leaves it.
  The second half is about the policies: `WaysSound`, `DecisionSound` and `StallsSound`.
`ShortestIs` is the lemma about the search itself, for every finite set of open
points and any goals that do not lie under the start: the step it returns begins a
shortest way, and it returns none only when there is no way.  Its invariant `Wave`
follows the search as it runs, with a distance for every point it has reached:
each was entered from a neighbour one nearer (`Traced`), the queue is in the order
of the distances and spans at most one step of them (`Sorted`), whatever has left
the queue has its open neighbours reached (`Left`) and is no goal, and after `n`
turns as many points are reached as `n` and the queue's length together, so that
the search ends within one turn for every open point and the start (`SearchEnds`).
`NoneNearer` turns this into the
statement about `Within`, the balls around the goals that the property is stated
with, and `WayBack` follows the predecessors.  What a search, a way back or a ball
computes is a recursive function on the naturals; the library's theorem that such
functions exist takes an operator, so `Recursion` proves it once for a step that
is itself a function, by `SetInduction` on the lengths up to which it is defined.
`WorldInv` says what a game is (a place on the level, a menu the game asks with,
commands that are offered): the goals never lie under the player, whose glyph
hides them (`NotOnStairs`), and what a menu shows is what it takes.  A learner
whose terrain rule opens more is shown a way whenever the teacher has one
(`WiderWay`).
  `StallsSound` is about what the teacher does to the game and the game to the
teacher.  `TeacherInv` says that the screen is either `Renewed` (game time has
passed, nothing is remembered, and no ability menu or rest prompt is open) or
`Stalled`, one of six: a plain screen, an ability menu that Berserk was worth, a
rest prompt under Zot, "lethal" with no monster seen, "nearby" with none near, and
"done exploring" with no way to stairs.  `TeacherGoes` has a step for every rule
of `decide`: each decision renews the screen or leaves one of the six.
`Remembered` says what each of the six may leave in `idle`: the teacher comes back
to a plain screen or to an ability menu only when the game is refusing, and to
"lethal" or "nearby" never.  The rule that is easiest to break is why a raging or
hurt player never autoexplores into a refusal: `AtLair`, such a player still
stands next to the lair, so the monster is in sight or the rest is granted.
Steps that are found can be walked (`StepsAreFree`, from `ShortestIs`), so a way
to the stairs is never refused.

`EvaluationProofs`, for any suites, threads, processes, policies and results, with
kills between any two file operations: `TypeSound`, `FullSound`, `CasesEndFirst`,
and for commands that do not overlap `MonotonicSound` and `ActivationSound`.
`Threads` says that queue, running cases and futures partition a suite;
`Gathered` that what was yielded is what its future holds; `Played` that a case
with a result has written its own directory, which is where a suite with two
cases of one name would go wrong.  `AllBacked` carries this to the tracks: every
manifest of this program is that of a full summary.  The two theorems about tracks
have the hypothesis `~Overlap`, because without it they are false: the code takes
no lock between the comparison and the write.  A rank is a recursive sum; that it
is a natural number, and nothing else about it, is proved by induction over a
*set* of naturals (`SetInduction`), which needs no operator parameter.

`StaticCacheProofs`, for any number of bootstraps, workers, permits and rebuilds:
`SnapshotSound`, `StartSound`, `PermitsAreConserved`.  Parts of the tree only move
forward, and an identity is read part by part, so the identity before the build and
the one after it squeeze what the build read; `BuiltFrom`, `Captured` and `Staged`
say where in between each member lies, `Loaded` and `Populated` carry it to the
worker's copy.  The permits are a counting argument of its own: permits in the
semaphore and requests that hold one add up.

`InputBoundaryProofs`, for any number of keys, flushes and nested layers:
`BoundarySound`, `EvidenceSound`.  Neither property speaks of what is still on the
socket, and both depend on it.  `Replayed` says that reading it all, from what the
client holds, ends in what the game is: its mode, and in a guarded exchange its
layers (`Leads` is that reading, one packet at a time, and its lemmas say what a
packet read or added does to it).  On the way every flush finds the evidence of a
game that runs (mode 0, busy, no layer or a progress layer), which `AfterFlush`
never takes for a boundary, but for the last flush of a game that rests: this is
why a batch ends with nothing of the game unread.  `Asked` and `Counted` (keys sent
are keys taken and keys on their way) tie every packet to the exchange's own key.
Both theorems have the hypothesis `Prompt`: without it TLC refutes
`EvidenceIsItsOwn` (see above), and a game that answers after the timeout is
outside what the code promises.

Only model-checked: liveness (`AnsweredOrDead`, `TrainingEndsOrDrainDies`,
`ExchangeEnds`, `RequestEnds`), which is out of the prover's reach.  Every other property
of a passing run is stated by a theorem.

## Not modelled

`KeyboardInterrupt` in a thread and interpreter shutdown.  The optimizer's
numbers and float32 rounding.  Message fragments and JSON (the transport reads
whole messages).  Trajectories of schema 1, which hold whole snapshots; shaping
rewards.  What is left out of a component marked `partly` is in its note in
`PROJECT.json`.
Of an evaluation: wall-clock rates and progress lines.  Of a case: the game
beyond what is said above, shops and the other menus that the teacher cancels, and
`_run_episode`'s totals (`Episode` has the discovery score).  The comparison of two recordings field by field
(`replay_compare.py`, `_compare`), `residual_gate.py`, `audit.py`, the
calibration and the benchmark: reports over files that are complete, with no
state of their own.

The teacher's loops are checked as an invariant on repeated screens and not as
liveness: with the stalls the code has, "every case makes progress" is false,
and what remains, that a case ends, is the step limit.

## Plan

Done: the modules above and the proofs above; no property that the prover can state
is left unproved.  What would come next is more of the code: the parts listed under
"Not modelled" that keep state.
