----------------------------- MODULE WorkerRollout -----------------------------
(* The rollout chunks of one worker: _collect_worker_rollout with _Worker, over *)
(* episodes that end inside a chunk or span several.  The model is the same for *)
(* a whole chunk, so the value of an input is a function; the batcher behind it,*)
(* what is done with a start that failed and the recorder are RolloutTraining's *)
(* and GameLifecycle's.                                                        *)
EXTENDS Returns, InteractionCosts, SeedSchedule, RolloutTrace

CONSTANTS None,
          Places,          \* what is stable in an observation, as the cycle digest sees it
          Entrances,       \* those a game begins with
          Passing,         \* how many turns a step may take
          Value(_, _),     \* the model's value of a feature and a history
          WorkerIndex,
          HistoryLength,   \* action_history_length
          StepLimits,      \* what the suite's step_limit may be
          StartAttempts,   \* _GAME_START_ATTEMPTS
          RolloutLength,   \* rollout_length
          Chunks,          \* bound: chunks collected
          Discount, Lambda,
          DecisionCost, ShortCycleCost, OverflowCost,
          Reached          \* the reward of a step that changes the place

ASSUME RolloutAssumption ==
  /\ WorkerIndex \in 0..(WorkerCount - 1)
  /\ HistoryLength \in Nat /\ StepLimits \subseteq Nat \ {0} /\ RolloutLength \in Nat \ {0}
  /\ Entrances \subseteq Places /\ Passing \subseteq Nat /\ StartAttempts \in Nat \ {0}
  /\ {DecisionCost, ShortCycleCost, OverflowCost, Reached} \subseteq Int
  /\ None \notin [place : Places, turn : Nat]

VARIABLES continuing, \* return_boundary is CONTINUING_RESET
          step_limit, \* of the suite
          worker,  \* the fields of _Worker
          ready,   \* ready_feature
          query,   \* the model's latest input, until the game moves on
          step,    \* the _WorkerStep
          rows,    \* the lists of the chunk
          returns, \* what the chunk's returns are, once it is complete
          completed, \* completed returns, over all chunks
          pc, chunk,
          game,    \* the game being played or just ended: what it shows and what it was sent
          trace,   \* what the games of this chunk did, step by step
          recorded, \* the worker's recorded episodes, until the second chunk has a row
          first,   \* what the games of the first chunk did, as long
          paid     \* the rewards of the games that have ended

setting == <<continuing, step_limit>>
vars == <<setting, worker, ready, query, step, rows, returns, completed, pc, chunk, game, trace,
          recorded, first, paid>>

Init ==
  /\ continuing \in BOOLEAN /\ step_limit \in StepLimits
  /\ worker = [episode_index |-> 0, observation |-> None, mask |-> None, episode_return |-> 0,
               history |-> <<>>, recent |-> <<>>, budget |-> [tokens |-> 0, turn |-> 0]]
  /\ ready = None /\ query = None /\ step = None
  /\ rows = <<>> /\ returns = <<>> /\ completed = <<>>
  /\ pc = "ready" /\ chunk = 1
  /\ game = None /\ trace = <<>> /\ recorded = <<>> /\ first = <<>> /\ paid = <<>>
-------------------------------------------------------------------------------

\* encode_action_history: the newest first.
EncodeHistory(actions) ==
  [i \in 1..HistoryLength |-> IF i <= Len(actions) THEN actions[Len(actions) + 1 - i] ELSE None]

\* What the writer adds, as long as it is kept.
Recorder(new) == IF chunk > 1 /\ recorded = <<>> THEN recorded ELSE new

\* _Worker._reset: every attempt leaves a directory, the last one a file.
Resets ==
  /\ pc \in {"ready", "resetting"} /\ worker.observation = None
  /\ \E place \in Entrances, attempts \in 1..StartAttempts : LET view == [place |-> place, turn |-> 0] IN
       /\ game' = [case |-> CaseIndex(WorkerIndex, worker.episode_index), view |-> view,
                   played |-> <<>>, rewards |-> 0,
                   log |-> <<[place |-> place, turn |-> 0, ui |-> FALSE, charged |-> FALSE]>>]
       /\ worker' = [worker EXCEPT !.episode_index = @ + 1,
                                   !.observation = view, !.mask = view,
                                   !.recent = Tracked(view), !.budget = FullBudget(view)]
       /\ recorded' = Recorder(Append(recorded, [attempts |-> attempts, initial |-> view, records |-> <<>>]))
  /\ query' = None
  /\ UNCHANGED <<setting, ready, step, rows, returns, completed, pc, chunk, trace, paid, first>>

\* The input of a decision: the feature that is left of the last step, or a new one.
Samples ==
  /\ pc = "ready" /\ worker.observation # None
  /\ query' = [feature |-> IF ready = None THEN worker.observation ELSE ready,
               history |-> EncodeHistory(worker.history), mask |-> worker.mask]
  /\ pc' = "sampled"
  /\ UNCHANGED <<setting, worker, ready, step, rows, returns, completed, chunk, game, trace,
                 recorded, first, paid>>

Done(s) == s.terminated \/ s.truncated

\* _Worker.step, once the environment has answered.
After(w, s) ==
  LET played == [w EXCEPT !.episode_return = @ + s.reward,
                          !.recent = Remembered(@, s.observation),
                          !.budget = Spent(@, s.action, s.observation),
                          !.history = s.history,
                          !.observation = s.observation, !.mask = s.observation] IN
  IF Done(s) THEN [played EXCEPT !.observation = None, !.mask = None, !.episode_return = 0,
                                 !.history = <<>>]
             ELSE played

\* The _WorkerStep of an action and what the environment makes of it.
Taken(action, place, turns, outcome) ==
  LET view == [place |-> place, turn |-> game.view.turn + turns]
      gain == IF place # game.view.place THEN Reached ELSE 0 IN
  [feature |-> query.feature, value |-> Value(query.feature, query.history),
   action |-> action, observation |-> view, reward |-> gain,
   terminated |-> outcome # None, outcome |-> outcome,
   truncated |-> Len(game.played) + 1 >= step_limit,
   completed_return |-> worker.episode_return + gain,
   history |-> Append(worker.history, action),
   short_cycle |-> Repeats(worker.recent, view),
   overflow |-> Overflows(worker.budget, action, view)]

\* The game, the recording and the trace after a step.
Played(s) ==
  [game EXCEPT !.view = s.observation, !.played = Append(@, s.action), !.rewards = @ + s.reward,
               !.log = Append(@, [place |-> s.observation.place, turn |-> s.observation.turn,
                                  ui |-> IsUi(s.action), charged |-> s.overflow])]
Record(s) ==
  [update |-> chunk, step |-> Len(game.played), action |-> s.action,
   observation |-> s.observation, terminated |-> s.terminated, truncated |-> s.truncated,
   outcome |-> s.outcome, reward |-> s.reward]
Traced(s) ==
  [episode |-> worker.episode_index, before |-> game.view, action |-> s.action,
   after |-> s.observation, played |-> Append(game.played, s.action), reward |-> s.reward,
   outcome |-> s.outcome, limit |-> s.truncated, next |-> None]

\* The action that is drawn, what the environment makes of it, and the worker's
\* bookkeeping.
Acts ==
  /\ pc = "sampled"
  /\ \E action \in {"ui", "move"}, place \in Places, turns \in Passing,
        outcome \in {None, "dead", "won"} :
       LET s == Taken(action, place, turns, outcome) IN
         /\ step' = s
         /\ worker' = After(worker, s)
         /\ game' = Played(s)
         /\ paid' = IF Done(s) THEN Append(paid, game.rewards + s.reward) ELSE paid
         /\ recorded' = Recorder([recorded EXCEPT ![Len(recorded)].records = Append(@, Record(s))])
         /\ trace' = Append(trace, Traced(s))
  /\ pc' = "acted"
  /\ query' = None
  /\ UNCHANGED <<setting, ready, rows, returns, completed, chunk, first>>
-------------------------------------------------------------------------------
(* What follows a step.                                                       *)

\* The lists of the chunk grow by a row.
Row(bootstrap, next) ==
  [feature |-> step.feature, action |-> step.action, value |-> step.value,
   reward |-> step.reward - DecisionCost - (IF step.short_cycle THEN ShortCycleCost ELSE 0)
                - (IF step.overflow THEN OverflowCost ELSE 0),
   done |-> Done(step), bootstrap |-> bootstrap, next |-> next]

\* Where the loop goes after a row: a feature is left for the next step, or none.
Continues(row, feature) ==
  /\ rows' = Append(rows, row)
  /\ IF chunk > 1 THEN recorded' = <<>> /\ first' = <<>> ELSE UNCHANGED <<recorded, first>>
  /\ ready' = feature
  /\ completed' = IF Done(step) THEN Append(completed, step.completed_return) ELSE completed
  /\ step' = None
  /\ pc' = IF Len(rows) + 1 < RolloutLength THEN "ready" ELSE "ending"

\* _uses_reset_bootstrap.
UsesReset == step.terminated /\ step.outcome # "won" /\ continuing

\* Faulty variant: the feature of the last observation is left although it ended.
FollowingStale == step.observation
Following == IF Done(step) THEN None ELSE step.observation

Records ==
  /\ pc = "acted" /\ ~ (step.truncated /\ ~ step.terminated) /\ ~ UsesReset
  /\ Continues(Row(0, step.observation), Following)
  /\ UNCHANGED <<setting, worker, query, returns, chunk, game, trace, paid>>

\* A time limit: the value of the last observation, with the whole history.
BootstrapsLimit ==
  /\ pc = "acted" /\ step.truncated /\ ~ step.terminated
  /\ query' = [feature |-> step.observation, history |-> EncodeHistory(step.history),
               mask |-> step.observation]
  /\ Continues(Row(Value(query'.feature, query'.history), step.observation), Following)
  /\ UNCHANGED <<setting, worker, returns, chunk, game, trace, paid>>

\* A death in a continuing task: the worker is reset first.
WantsReset ==
  /\ pc = "acted" /\ UsesReset
  /\ pc' = "resetting"
  /\ UNCHANGED <<setting, worker, ready, query, step, rows, returns, completed, chunk, game,
                 trace, recorded, first, paid>>

BootstrapsReset ==
  /\ pc = "resetting" /\ worker.observation # None
  /\ query' = [feature |-> worker.observation, history |-> EncodeHistory(worker.history),
               mask |-> worker.mask]
  /\ Continues(Row(Value(query'.feature, query'.history), step.observation), worker.observation)
  /\ trace' = [trace EXCEPT ![Len(trace)].next = game.view]
  /\ UNCHANGED <<setting, worker, returns, chunk, game, paid>>

\* The final value, and the returns of the chunk.
Finishes ==
  /\ pc = "ending"
  /\ query' = IF rows[Len(rows)].done THEN query
              ELSE [feature |-> ready, history |-> EncodeHistory(worker.history),
                    mask |-> worker.mask]
  /\ LET final == IF rows[Len(rows)].done THEN 0 ELSE Value(query'.feature, query'.history)
         advantages == GeneralizedAdvantage(rows, final, Discount, Lambda) IN
     returns' = [t \in 1..Len(rows) |-> advantages[t] + rows[t].value]
  /\ pc' = "collected"
  /\ UNCHANGED <<setting, worker, ready, step, rows, completed, chunk, game, trace,
                 recorded, first, paid>>

\* The next update collects the next chunk from the worker as it is.
NextChunk ==
  /\ pc = "collected" /\ chunk < Chunks
  /\ chunk' = chunk + 1
  /\ ready' = None /\ rows' = <<>> /\ returns' = <<>> /\ trace' = <<>>
  /\ first' = trace
  /\ pc' = "ready"
  /\ UNCHANGED <<setting, worker, query, step, completed, game, recorded, paid>>

Next == Resets \/ Samples \/ Acts \/ Records \/ BootstrapsLimit \/ WantsReset \/ BootstrapsReset
          \/ Finishes \/ NextChunk

Spec == Init /\ [][Next]_vars
-------------------------------------------------------------------------------
(* Properties.                                                                *)

\* "It is reset per game": whatever is left over from the step before, the model is
\* asked about what the game shows, with the actions this very game was sent, for
\* decisions and for every kind of bootstrap.
InputIsLive ==
  query # None =>
    /\ query.feature = game.view /\ query.mask = game.view
    /\ \A i \in 1..HistoryLength :
         query.history[i] = IF i > Len(game.played) THEN None
                            ELSE game.played[Len(game.played) - i + 1]

\* The row of a step that a game took.
RowsAreTransitions ==
  \A t \in DOMAIN rows :
    /\ rows[t].feature = trace[t].before /\ rows[t].action = trace[t].action
    /\ rows[t].next = trace[t].after
    /\ rows[t].done <=> trace[t].outcome # None \/ trace[t].limit

\* What the model would say of what follows a step, were it asked: nothing follows a
\* win or, in episodes, a death; a new game follows a death in a continuing task; the
\* game itself goes on after a time limit.
Follows(s) ==
  IF s.outcome = None THEN Value(s.after, EncodeHistory(s.played))
  ELSE IF s.outcome = "won" \/ ~ continuing THEN 0
  ELSE Value(s.next, EncodeHistory(<<>>))

\* The lambda-return of every step.
ReturnsAreLambdaReturns ==
  \A t \in DOMAIN rows :
    returns[t] = LambdaReturn(t, [i \in DOMAIN rows |-> rows[i].reward],
                              [i \in DOMAIN rows |-> Follows(trace[i])],
                              [i \in DOMAIN rows |-> rows[i].done], Discount, Lambda)

\* What is reported of an episode is
\* what its game paid, over the chunks it spans and without training's costs.
ReportedIsPaid ==
  /\ pc \notin {"acted", "resetting"} => completed = paid
  /\ worker.observation # None => worker.episode_return = game.rewards

\* "Bootstraps time limit without crossing episode boundary" and "without changing
\* reported environment returns": what the model is trained on are the steps the games
\* took, their ends included, although other games are started in between, and the
\* lambda-returns of the games' own steps; what is reported is what the games paid.
TrainedOnItsGames ==
  /\ RowsAreTransitions
  /\ ReportedIsPaid
  /\ pc = "collected" => ReturnsAreLambdaReturns

\* Within any stretch of a game's steps, the interactions that took no turn and were
\* free are at most the capacity and what the turns since its first step refill; an
\* interaction is charged only if it took no turn and ends a stretch with more
\* interactions than that.
OnlyBurstsCharged ==
  game # None =>
    LET log == game.log
        NoTurn(k) == log[k].turn = log[k - 1].turn
        Allowed(i, j) == Capacity + Refill * (log[j].turn - log[i].turn)
        Parts(S) == PerToken * Cardinality(S) IN
    \A j \in 2..Len(log) :
      /\ \A i \in 2..j :
           Parts({k \in i..j : log[k].ui /\ ~ log[k].charged /\ NoTurn(k)}) <= Allowed(i, j)
      /\ log[j].charged =>
           NoTurn(j) /\ \E i \in 2..j : Parts({k \in i..j : log[k].ui}) > Allowed(i, j)

\* A step is charged for a cycle exactly when its game has shown the place within the
\* window, and never for what another game showed.
CyclesAreRecurrences ==
  pc = "acted" =>
    LET n == Len(game.log) IN
      step.short_cycle <=> \E k \in Larger(1, n - Window)..(n - 1) :
                             game.log[k].place = game.log[n].place

\* From the moment the first update is complete until the next has written its first
\* record, after which nothing is read: the comparison reads exactly the first update's
\* steps and the games they are of, and the reset that follows when a continuing task
\* ended with them.  It refuses only a recording of a game whose start was retried, and
\* a continuing one that ended with the update and has no later reset, as when it stops
\* at a time limit or a win.
TraceIsFirstUpdate ==
  recorded # <<>> /\ (chunk > 1 \/ pc \in {"ending", "collected"}) =>
    LET read == Trace(recorded, RolloutLength, continuing)
        done == IF chunk > 1 THEN first ELSE trace
        last == done[RolloutLength]
        ends == continuing /\ (last.outcome # None \/ last.limit) IN
    /\ read.refused <=> Retried(recorded) \/ (ends /\ Len(recorded) = last.episode)
    /\ ~read.refused =>
         /\ Len(read.samples) = RolloutLength
         /\ \A i \in 1..RolloutLength :
              LET s == read.samples[i]
                  t == done[i] IN
              /\ s.episode = t.episode /\ s.step = Len(t.played) - 1
              /\ s.before = t.before /\ s.after = t.after /\ s.action = t.action
              /\ s.reward = t.reward /\ s.outcome = t.outcome /\ s.truncated = t.limit
         /\ {read.resets[i].episode : i \in DOMAIN read.resets}
              = {done[i].episode : i \in 1..RolloutLength}
         /\ read.trailing.episode = IF ends THEN last.episode + 1 ELSE 0
===============================================================================
