----------------------------- MODULE GameLifecycle -----------------------------
(* The life of a game process: _Worker._reset and _start_episode try to start *)
(* a game three times, through DcssEnv.reset_typed and ManagedGame.start, and *)
(* whoever owns the environment closes it.  Every call that may raise does.   *)
(* An attempt is named by its directory: the episode and the attempt.         *)
EXTENDS Integers

CONSTANTS Owners,      \* who starts games: workers, with a trajectory writer or
                       \* without, and evaluation cases
          MaxEpisodes  \* bound: episodes begun

ASSUME LifecycleAssumption ==
  /\ Owners \subseteq {"worker", "recording_worker", "evaluation"}
  /\ MaxEpisodes \in Nat \ {0}

_GAME_START_ATTEMPTS == 3
Roots == (1..MaxEpisodes) \X (0.._GAME_START_ATTEMPTS - 1)
None == <<0, 0>>

VARIABLES owner,       \* who runs
          pc,          \* where it is
          episode,     \* the episode begun last
          attempt,     \* the attempt at starting it
          error,       \* what was raised: a TimeoutError or anything else
          env,         \* the DcssEnv the owner holds
          game,        \* the ManagedGame of that environment
          proc,        \* the process handle of that game
          writer,      \* the TrajectoryWriter the owner holds
          alive,       \* the processes that run
          killed,      \* the processes that were sent SIGKILL
          logs, transports, writers   \* what is open

held == <<env, game, proc, writer>>
resources == <<alive, killed, logs, transports, writers>>
vars == <<owner, pc, episode, attempt, error, held, resources>>

Records == owner # "worker"
IsWorker == owner # "evaluation"

Init ==
  /\ owner \in Owners
  /\ pc = "idle" /\ episode = 0 /\ attempt = 0 /\ error = "none"
  /\ env = None /\ game = None /\ proc = None /\ writer = None
  /\ alive = {} /\ killed = {} /\ logs = {} /\ transports = {} /\ writers = {}
-------------------------------------------------------------------------------
(* Closing.                                                                   *)

\* Faulty variant: the handle is forgotten before the process is waited for.
KillForgetting ==
  /\ proc \in alive
  /\ killed' = killed
  /\ transports' = transports \ {game}
  /\ proc' = None
  /\ UNCHANGED <<game, alive, logs>>

\* ManagedGame.close: the process ends within the timeouts ...
GameCloses ==
  /\ alive' = alive \ {proc}
  /\ transports' = transports \ {game}
  /\ logs' = logs \ {game}
  /\ proc' = None
  /\ UNCHANGED killed

\* ... or not even after the kill, and TimeoutExpired leaves the handle and the
\* log as they are, for another close.
GameStaysAfterKill ==
  /\ proc \in alive
  /\ killed' = killed \union {proc}
  /\ transports' = transports \ {game}
  /\ UNCHANGED <<proc, game, alive, logs>>

\* _Worker.close and RecordingEnv.close: the writer, then the environment.
WriterCloses == writers' = writers \ {writer} /\ writer' = None

EnvCloses ==
  /\ WriterCloses
  /\ GameCloses
  /\ env' = None /\ game' = None

EnvStays ==
  /\ WriterCloses
  /\ GameStaysAfterKill
  /\ UNCHANGED env

\* An evaluation's environment is a local variable: when the function raises it
\* is gone, and with it everything open, but not a process.
Drop ==
  /\ env' = None /\ game' = None /\ proc' = None /\ writer' = None
  /\ logs' = logs \ {game} /\ transports' = transports \ {game}
  /\ writers' = writers \ {writer}

\* The same when the close itself raised.
KilledAndDropped ==
  /\ proc \in alive
  /\ killed' = killed \union {proc}
  /\ Drop
  /\ UNCHANGED alive
-------------------------------------------------------------------------------
(* Starting an episode.                                                       *)

\* A worker's failed start ends training; the other evaluation cases go on.
BeginEpisode ==
  /\ pc = "idle" \/ (pc = "failed" /\ ~IsWorker)
  /\ episode < MaxEpisodes
  /\ episode' = episode + 1 /\ attempt' = 0 /\ error' = "none"
  /\ pc' = "constructing"
  /\ UNCHANGED <<owner, held, resources>>

\* Faulty variant: the writer is opened for the first attempt only.
ConstructWriterOnce ==
  /\ pc = "constructing"
  /\ LET root == <<episode, attempt>> IN
       /\ env' = root
       /\ IF IsWorker \/ attempt > 0
            THEN UNCHANGED <<writer, writers>>
            ELSE writer' = root /\ writers' = writers \union {root}
  /\ pc' = "preparing"
  /\ UNCHANGED <<owner, episode, attempt, error, game, proc, alive, killed, logs, transports>>

\* An evaluation opens the trajectory before the game starts.
Construct ==
  /\ pc = "constructing"
  /\ LET root == <<episode, attempt>> IN
       /\ env' = root
       /\ IF IsWorker THEN UNCHANGED <<writer, writers>>
                      ELSE writer' = root /\ writers' = writers \union {root}
  /\ pc' = "preparing"
  /\ UNCHANGED <<owner, episode, attempt, error, game, proc, alive, killed, logs, transports>>

Goes(next) == pc' = next /\ UNCHANGED error
Raises(kind) == pc' = "raised" /\ error' = kind

\* _prepare, which may wait for the identity of the static data, and the log.
Prepare ==
  /\ pc = "preparing"
  /\ game' = env
  /\ \/ Goes("spawning") /\ logs' = logs \union {env}
     \/ \E kind \in {"timeout", "other"} : Raises(kind) /\ UNCHANGED logs
  /\ UNCHANGED <<owner, episode, attempt, env, proc, writer, alive, killed, transports,
                 writers>>

Spawn ==
  /\ pc = "spawning"
  /\ \/ Goes("connecting") /\ proc' = game /\ alive' = alive \union {game}
     \/ Raises("other") /\ UNCHANGED <<proc, alive>>
  /\ UNCHANGED <<owner, episode, attempt, env, game, writer, killed, logs, transports,
                 writers>>

\* WebtilesTransport makes a directory; it is outside start's try.
MakeTransport ==
  /\ pc = "connecting"
  /\ \/ Goes("attaching") /\ transports' = transports \union {game}
     \/ Raises("other") /\ UNCHANGED transports
  /\ UNCHANGED <<owner, episode, attempt, held, alive, killed, logs, writers>>

\* connect, the first key and its batch; start closes the game if one raises, and
\* what the close raises replaces it.
Attach ==
  /\ pc = "attaching"
  /\ \/ Goes("observing") /\ UNCHANGED <<held, resources>>
     \/ /\ \E kind \in {"timeout", "other"} : Raises(kind)
        /\ GameCloses
        /\ UNCHANGED <<env, game, writer, writers>>
     \/ /\ Raises("other")
        /\ GameStaysAfterKill
        /\ UNCHANGED <<env, writer, writers>>
  /\ UNCHANGED <<owner, episode, attempt>>

\* The reducer and the action mask.
Observe ==
  /\ pc = "observing"
  /\ \/ Goes(IF Records THEN "recording" ELSE "playing")
     \/ Raises("other")
  /\ UNCHANGED <<owner, episode, attempt, held, resources>>

\* A worker opens its trajectory now; both write the episode's header, which asks
\* git for a revision and reads the game's rc file.
Record ==
  /\ pc = "recording"
  /\ \/ /\ Goes("playing") \/ \E kind \in {"timeout", "other"} : Raises(kind)
        /\ IF IsWorker THEN writer' = env /\ writers' = writers \union {env}
                       ELSE UNCHANGED <<writer, writers>>
     \/ IsWorker /\ Raises("other") /\ UNCHANGED <<writer, writers>>
  /\ UNCHANGED <<owner, episode, attempt, env, game, proc, alive, killed, logs, transports>>

Retry ==
  IF attempt + 1 < _GAME_START_ATTEMPTS
    THEN pc' = "constructing" /\ attempt' = attempt + 1
    ELSE pc' = "failed" /\ UNCHANGED attempt

\* Faulty variant: the next attempt replaces the environment without closing it.
TimeoutNotClosed ==
  /\ pc = "raised" /\ error = "timeout"
  /\ Retry
  /\ Drop /\ UNCHANGED <<alive, killed>>
  /\ UNCHANGED <<owner, episode, error>>

\* except TimeoutError, and the loop's end.
HandleTimeout ==
  /\ pc = "raised" /\ error = "timeout"
  /\ EnvCloses
  /\ Retry
  /\ UNCHANGED <<owner, episode, error>>

\* What a close raises in a handler leaves the function.
HandlerRaises ==
  /\ pc = "raised" /\ (IsWorker \/ error = "timeout")
  /\ IF IsWorker THEN pc' = "broken" /\ EnvStays
                 ELSE pc' = "failed" /\ KilledAndDropped
  /\ UNCHANGED <<owner, episode, attempt, error>>

\* A worker closes whatever is raised; _start_episode only a TimeoutError.
HandleOther ==
  /\ pc = "raised" /\ error = "other"
  /\ pc' = "failed"
  /\ IF IsWorker THEN EnvCloses ELSE Drop /\ UNCHANGED <<alive, killed>>
  /\ UNCHANGED <<owner, episode, attempt, error>>

Start == Construct \/ Prepare \/ Spawn \/ MakeTransport \/ Attach \/ Observe \/ Record
           \/ HandleTimeout \/ HandlerRaises \/ HandleOther
-------------------------------------------------------------------------------
(* Playing and releasing.                                                     *)

\* The last step of an episode, and any step that raises in an evaluation: its
\* finally closes too.
EpisodeEnds ==
  /\ pc = "playing"
  /\ \/ EnvCloses /\ pc' \in (IF IsWorker THEN {"idle"} ELSE {"idle", "failed"})
     \/ IsWorker /\ EnvStays /\ pc' = "broken"
     \/ ~IsWorker /\ KilledAndDropped /\ pc' = "failed"
  /\ UNCHANGED <<owner, episode, attempt, error>>

StepRaises ==
  /\ pc = "playing" /\ IsWorker
  /\ pc' = "broken"
  /\ UNCHANGED <<owner, episode, attempt, error, held, resources>>

\* train_ppo's finally.
Release ==
  /\ IsWorker
  /\ pc \in {"idle", "playing", "failed", "broken"}
  /\ \/ EnvCloses /\ pc' = "released"
     \/ EnvStays /\ pc' = "unreleased"
  /\ UNCHANGED <<owner, episode, attempt, error>>

\* A game dies, crashes, or ends after the kill.
Dies ==
  /\ \E r \in alive : alive' = alive \ {r}
  /\ UNCHANGED <<owner, pc, episode, attempt, error, held, killed, logs, transports, writers>>

Next == BeginEpisode \/ Start \/ EpisodeEnds \/ StepRaises \/ Release \/ Dies

Spec == Init /\ [][Next]_vars
-------------------------------------------------------------------------------
(* Properties.                                                                *)

\* A worker can always reach every game that runs: whatever raised in between, a
\* later close finds the handle of the process.  Between two games, after a start
\* that failed and after the release, it holds nothing: no process, log, socket or
\* trajectory is left open.
WorkerHoldsItsGame ==
  IsWorker =>
    /\ alive \subseteq {proc}
    /\ pc \in {"idle", "failed", "released"}
         => alive = {} /\ logs = {} /\ transports = {} /\ writers = {}

\* "Each transient startup attempt its own trajectory and game directory": what is
\* recorded while an episode is played is that of the attempt that started.
RecordsItsOwnGame ==
  pc = "playing" =>
    /\ game = env /\ proc = env /\ env = <<episode, attempt>>
    /\ Records => writer = env /\ writers = {env}

\* A failed start "closes writer and environment", in an evaluation too: every
\* game that runs, and was not killed, is held by somebody.
NoGameIsOrphaned == alive \ killed \subseteq {proc}
===============================================================================
