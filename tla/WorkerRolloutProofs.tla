-------------------------- MODULE WorkerRolloutProofs --------------------------
(* For any places, model, paces, limits, costs, chunk lengths and numbers of   *)
(* chunks: what the model is asked about, what it is trained on, what is       *)
(* reported, what is charged, and what a reader makes of the recordings.  Games*)
(* end inside chunks and chunks inside games, so each theorem relates fields   *)
(* that different calls of the loop leave for one another.                     *)
EXTENDS WorkerRollout, FiniteSetTheorems, WellFoundedInduction, NaturalsInduction, TLAPS

Actions == {"ui", "move"}
Outcomes == {None, "dead", "won"}
Views == [place : Places, turn : Nat]
Histories == [1..HistoryLength -> Actions \union {None}]
Values == {Value(f, h) : f \in Views, h \in Histories}

Workers == [episode_index : Nat, observation : Views \union {None}, mask : Views \union {None},
            episode_return : Int, history : Seq(Actions), recent : Seq(Places),
            budget : [tokens : Int, turn : Nat]]
Entries == [place : Places, turn : Nat, ui : BOOLEAN, charged : BOOLEAN]
Games == [case : Int, view : Views, played : Seq(Actions), rewards : Int, log : Seq(Entries)]
Queries == [feature : Views, history : Histories, mask : Views]
Steps == [feature : Views, value : Values, action : Actions, observation : Views, reward : Int,
          terminated : BOOLEAN, outcome : Outcomes, truncated : BOOLEAN, completed_return : Int,
          history : Seq(Actions), short_cycle : BOOLEAN, overflow : BOOLEAN]
Rows == [feature : Views, action : Actions, value : Values, reward : Int, done : BOOLEAN,
         bootstrap : Values \union {0}, next : Views]
Traces == [episode : Nat, before : Views, action : Actions, after : Views, played : Seq(Actions),
           reward : Int, outcome : Outcomes, limit : BOOLEAN, next : Views \union {None}]

\* A game has been started.
Begun == worker.episode_index > 0

Types ==
  /\ pc \in {"ready", "sampled", "acted", "resetting", "ending", "collected"}
  /\ step_limit \in Nat
  /\ worker \in Workers
  /\ ready \in Views \union {None}
  /\ rows \in Seq(Rows) /\ trace \in Seq(Traces)
  /\ IF Begun THEN game \in Games ELSE game = None
  /\ pc = "sampled" => query \in Queries
  /\ pc \in {"acted", "resetting"} => step \in Steps

\* What the worker holds between two calls is its game's: the observation, the mask,
\* the actions and the return so far; a game that has ended leaves nothing behind.
WorkerIsLive ==
  /\ worker.observation # None =>
       /\ Begun
       /\ worker.observation = game.view /\ worker.mask = game.view
       /\ worker.history = game.played /\ worker.episode_return = game.rewards
  /\ worker.observation = None => worker.history = <<>> /\ worker.episode_return = 0

\* The feature left for the next step is the worker's observation, where a step or
\* the final value reads it, and there is one when the chunk ends within a game.
ReadyIsLive ==
  /\ pc \in {"ready", "sampled", "ending"} /\ ready # None => ready = worker.observation
  /\ pc = "sampled" => worker.observation # None /\ query.feature = game.view
  /\ pc = "ending" => rows # <<>> /\ (rows[Len(rows)].done \/ ready # None)

\* The step in hand is the latest of the game.
StepIsLive ==
  /\ pc = "acted" =>
       /\ Begun
       /\ step.observation = game.view /\ step.history = game.played
       /\ worker.observation = IF Done(step) THEN None ELSE game.view
  /\ pc = "resetting" => Done(step)

\* A row per step of the trace, but for the step in hand.
RowsMatch ==
  /\ Len(trace) = IF pc \in {"acted", "resetting"} THEN Len(rows) + 1 ELSE Len(rows)
  /\ RowsAreTransitions
  /\ pc \in {"acted", "resetting"} =>
       LET last == trace[Len(trace)] IN
         /\ step.feature = last.before /\ step.action = last.action
         /\ step.observation = last.after
         /\ Done(step) <=> last.outcome # None \/ last.limit

\* What is reported runs behind what was paid by the step in hand.
Accounts ==
  paid = IF pc \in {"acted", "resetting"} /\ Done(step)
         THEN Append(completed, step.completed_return) ELSE completed

\* The tracker remembers the latest places of the game that is played.
RecentOf(recent, log) ==
  LET n == Len(log)
      m == Len(recent) IN
  m = Smaller(Window, n) /\ \A i \in 1..m : recent[i] = log[n - m + i].place

Remembers ==
  Begun =>
    /\ Len(game.log) >= 1 /\ game.view.turn = game.log[Len(game.log)].turn
    /\ RecentOf(worker.recent, game.log)

\* The interactions of a game's steps i to j that count towards the budget, all of them
\* or those that took no turn and were free.
Interactions(log, i, j) == {k \in i..j : log[k].ui}
FreeOnes(log, i, j) == {k \in i..j : log[k].ui /\ ~ log[k].charged /\ log[k].turn = log[k - 1].turn}

\* What a stretch of steps is allowed.
Allowance(log, i, j) == Capacity + Refill * (log[j].turn - log[i].turn)

\* The tokens that are left are at most what any stretch leaves, and at least what the
\* stretch since the budget was last full does.
BucketOf(budget, log, n) ==
  /\ budget.turn = log[n].turn /\ 0 <= budget.tokens /\ budget.tokens <= Capacity
  /\ \A i \in 2..n :
       PerToken * Cardinality(FreeOnes(log, i, n)) + budget.tokens <= Allowance(log, i, n)
  /\ IF n = 1 THEN budget.tokens = Capacity
     ELSE \E i \in 2..n :
            Allowance(log, i, n) - PerToken * Cardinality(Interactions(log, i, n)) <= budget.tokens

Budgeted == Begun => BucketOf(worker.budget, game.log, Len(game.log))

\* OnlyBurstsCharged, of one step of a game.
BurstsAt(log, j) ==
  /\ \A i \in 2..j : PerToken * Cardinality(FreeOnes(log, i, j)) <= Allowance(log, i, j)
  /\ log[j].charged =>
       /\ log[j].turn = log[j - 1].turn
       /\ \E i \in 2..j : PerToken * Cardinality(Interactions(log, i, j)) > Allowance(log, i, j)

Charged == Begun => \A j \in 2..Len(game.log) : BurstsAt(game.log, j)

RolloutInv ==
  /\ Types /\ WorkerIsLive /\ ReadyIsLive /\ StepIsLive /\ InputIsLive
  /\ RowsMatch /\ Accounts /\ Remembers /\ CyclesAreRecurrences /\ Budgeted /\ Charged
-------------------------------------------------------------------------------
(* The operators.                                                             *)

LEMMA EncodedIsNewestFirst ==
  ASSUME NEW played \in Seq(Actions)
  PROVE  /\ EncodeHistory(played) \in Histories
         /\ \A i \in 1..HistoryLength :
              EncodeHistory(played)[i] = IF i > Len(played) THEN None ELSE played[Len(played) - i + 1]
<1>1. Len(played) \in Nat /\ HistoryLength \in Nat
  BY RolloutAssumption
<1>2. ASSUME NEW i \in 1..HistoryLength
      PROVE  (IF i <= Len(played) THEN played[Len(played) + 1 - i] ELSE None)
               = (IF i > Len(played) THEN None ELSE played[Len(played) - i + 1])
  <2>1. i \in Nat /\ Len(played) + 1 - i = Len(played) - i + 1
    BY <1>1
  <2> QED BY <1>1, <2>1
<1>3. ASSUME NEW i \in 1..HistoryLength
      PROVE  (IF i <= Len(played) THEN played[Len(played) + 1 - i] ELSE None) \in Actions \union {None}
  <2>1. CASE i <= Len(played)
    <3>1. Len(played) + 1 - i \in 1..Len(played)
      BY <1>1, <2>1
    <3> QED BY <2>1, <3>1
  <2>2. CASE ~ (i <= Len(played))
    BY <2>2
  <2> QED BY <2>1, <2>2
<1> QED BY <1>2, <1>3 DEF EncodeHistory, Histories

LEMMA BudgetTypes ==
  ASSUME NEW budget \in [tokens : Int, turn : Nat], NEW action \in Actions, NEW view \in Views
  PROVE  /\ Spent(budget, action, view) \in [tokens : Int, turn : Nat]
         /\ Overflows(budget, action, view) \in BOOLEAN
         /\ FullBudget(view) \in [tokens : Int, turn : Nat]
<1>1. view.turn \in Nat /\ budget.tokens \in Int /\ budget.turn \in Nat
  BY DEF Views
<1>2. PerToken \in Int /\ Capacity \in Int /\ Refill \in Int
  BY CostAssumption
<1>3. Refilled(budget, view) \in [tokens : Int, turn : Nat]
  <2>1. Larger(0, view.turn - budget.turn) * Refill \in Int
    BY <1>1, <1>2 DEF Larger
  <2> QED BY <1>1, <1>2, <2>1 DEF Refilled, Smaller
<1>4. Spent(budget, action, view) \in [tokens : Int, turn : Nat]
  BY <1>2, <1>3 DEF Spent
<1>5. Overflows(budget, action, view) \in BOOLEAN
  BY DEF Overflows
<1>6. FullBudget(view) \in [tokens : Int, turn : Nat]
  BY <1>1, <1>2 DEF FullBudget
<1> QED BY <1>4, <1>5, <1>6

\* A window of a sequence of places is one.
LEMMA RememberedType ==
  ASSUME NEW recent \in Seq(Places), NEW view \in Views
  PROVE  Remembered(recent, view) \in Seq(Places)
<1> DEFINE all == Append(recent, SemanticDigest(view))
           from == Larger(1, Len(all) - Window + 1)
<1>1. all \in Seq(Places) /\ Len(all) \in Nat
  BY DEF Views, SemanticDigest
<1>2. from \in Nat /\ from >= 1
  BY <1>1, CostAssumption DEF Larger
<1>3. Remembered(recent, view) = SubSeq(all, from, Len(all))
  BY DEF Remembered
<1> HIDE DEF all, from
<1>4. \A i \in from..Len(all) : all[i] \in Places
  BY <1>1, <1>2
<1> QED BY <1>1, <1>2, <1>3, <1>4
-------------------------------------------------------------------------------
(* The two actions that move the game, field by field.                        *)

\* A view is not None.
LEMMA ViewsAreSome == None \notin Views
<1> QED BY RolloutAssumption DEF Views

\* What a new game is.
ResetFacts ==
  /\ worker.observation = None /\ pc \in {"ready", "resetting"}
  /\ game' \in Games /\ game'.played = <<>> /\ game'.rewards = 0
  /\ Len(game'.log) = 1 /\ game'.log[1].turn = game'.view.turn /\ game'.log[1].place = game'.view.place
  /\ worker' \in Workers /\ worker'.episode_index > 0
  /\ worker'.observation = game'.view /\ worker'.mask = game'.view
  /\ worker'.recent = Tracked(game'.view) /\ worker'.budget = FullBudget(game'.view)
  /\ worker'.history = worker.history /\ worker'.episode_return = worker.episode_return
  /\ query' = None
  /\ UNCHANGED <<setting, ready, step, rows, completed, pc, chunk, trace, paid>>

LEMMA ResetsDoes == ASSUME Types, Resets PROVE ResetFacts
<1>1. PICK place \in Places :
        LET view == [place |-> place, turn |-> 0] IN
        /\ game' = [case |-> CaseIndex(WorkerIndex, worker.episode_index), view |-> view,
                    played |-> <<>>, rewards |-> 0,
                    log |-> <<[place |-> place, turn |-> 0, ui |-> FALSE, charged |-> FALSE]>>]
        /\ worker' = [worker EXCEPT !.episode_index = @ + 1,
                                    !.observation = view, !.mask = view,
                                    !.recent = Tracked(view), !.budget = FullBudget(view)]
  BY RolloutAssumption DEF Resets
<1> DEFINE view == [place |-> place, turn |-> 0]
<1>2. view \in Views /\ view.place = place /\ view.turn = 0
  BY DEF Views
<1>3. CaseIndex(WorkerIndex, worker.episode_index) \in Int
  <2>1. WorkerIndex \in Int /\ WorkerCount \in Nat /\ CaseCount \in Nat \ {0}
    BY RolloutAssumption, ScheduleAssumption
  <2>2. worker.episode_index \in Nat
    BY DEF Types, Workers
  <2>3. Position(WorkerIndex, worker.episode_index) \in Int
    BY <2>1, <2>2 DEF Position
  <2> QED BY <2>1, <2>3 DEF CaseIndex
<1>4. Tracked(view) \in Seq(Places)
  BY <1>2 DEF Tracked, SemanticDigest
<1>6. worker \in Workers
  BY DEF Types
<1>5. FullBudget(view) \in [tokens : Int, turn : Nat]
  <2>1. worker.budget \in [tokens : Int, turn : Nat] /\ "ui" \in Actions
    BY <1>6 DEF Workers, Actions
  <2> QED BY <1>2, <2>1, BudgetTypes
<1> HIDE DEF view
<1>7. game' \in Games /\ game'.played = <<>> /\ game'.rewards = 0 /\ game'.view = view
      /\ game'.log = <<[place |-> place, turn |-> 0, ui |-> FALSE, charged |-> FALSE]>>
  <2>1. [place |-> place, turn |-> 0, ui |-> FALSE, charged |-> FALSE] \in Entries
    BY DEF Entries
  <2>2. <<[place |-> place, turn |-> 0, ui |-> FALSE, charged |-> FALSE]>> \in Seq(Entries)
    BY <2>1
  <2>3. game' = [case |-> CaseIndex(WorkerIndex, worker.episode_index), view |-> view,
                 played |-> <<>>, rewards |-> 0,
                 log |-> <<[place |-> place, turn |-> 0, ui |-> FALSE, charged |-> FALSE]>>]
    BY <1>1 DEF view
  <2>4. <<>> \in Seq(Actions)
    OBVIOUS
  <2> DEFINE log == <<[place |-> place, turn |-> 0, ui |-> FALSE, charged |-> FALSE]>>
             case == CaseIndex(WorkerIndex, worker.episode_index)
  <2> HIDE DEF log, case
  <2>5. game' = [case |-> case, view |-> view, played |-> <<>>, rewards |-> 0, log |-> log]
    BY <2>3 DEF log, case
  <2>6. log \in Seq(Entries) /\ case \in Int
    BY <1>3, <2>2 DEF log, case
  <2>7. game' \in Games
    BY <1>2, <2>4, <2>5, <2>6 DEF Games
  <2> QED BY <2>5, <2>7 DEF log
<1>8. Len(game'.log) = 1 /\ game'.log[1].turn = 0 /\ game'.log[1].place = place
  BY <1>7
<1>9. /\ worker' \in Workers /\ worker'.episode_index > 0
      /\ worker'.observation = view /\ worker'.mask = view
      /\ worker'.recent = Tracked(view) /\ worker'.budget = FullBudget(view)
      /\ worker'.history = worker.history /\ worker'.episode_return = worker.episode_return
  <2>1. worker' = [worker EXCEPT !.episode_index = @ + 1,
                                    !.observation = view, !.mask = view,
                                    !.recent = Tracked(view), !.budget = FullBudget(view)]
    BY <1>1 DEF view
  <2>2. worker.episode_index + 1 \in Nat
    BY <1>6 DEF Workers
  <2>3. /\ worker'.episode_index > 0
        /\ worker'.observation = view /\ worker'.mask = view
        /\ worker'.recent = Tracked(view) /\ worker'.budget = FullBudget(view)
        /\ worker'.history = worker.history /\ worker'.episode_return = worker.episode_return
    BY <1>6, <2>1 DEF Workers
  <2>4. worker' \in Workers
    BY <1>2, <1>4, <1>5, <1>6, <2>1, <2>2 DEF Workers
  <2> QED BY <2>3, <2>4
<1> QED BY <1>2, <1>7, <1>8, <1>9 DEF ResetFacts, Resets

\* What a step adds to the game, and to what the worker holds of it.
ActFacts ==
  LET view == game'.view
      entry == game'.log[Len(game.log) + 1]
      last == trace'[Len(trace) + 1] IN
  /\ pc = "sampled" /\ pc' = "acted"
  /\ step' \in Steps /\ step'.feature = query.feature /\ step'.observation = view
  /\ step'.history = Append(worker.history, step'.action)
  /\ step'.completed_return = worker.episode_return + step'.reward
  /\ step'.short_cycle = Repeats(worker.recent, view)
  /\ step'.overflow = Overflows(worker.budget, step'.action, view)
  /\ game' \in Games /\ view.turn >= game.view.turn
  /\ game'.played = Append(game.played, step'.action)
  /\ game'.rewards = game.rewards + step'.reward
  /\ game'.log = Append(game.log, entry)
  /\ entry = [place |-> view.place, turn |-> view.turn, ui |-> IsUi(step'.action),
              charged |-> step'.overflow]
  /\ worker' \in Workers /\ worker'.episode_index = worker.episode_index
  /\ worker'.recent = Remembered(worker.recent, view)
  /\ worker'.budget = Spent(worker.budget, step'.action, view)
  /\ IF Done(step') THEN /\ worker'.observation = None /\ worker'.history = <<>>
                         /\ worker'.episode_return = 0
     ELSE /\ worker'.observation = view /\ worker'.mask = view
          /\ worker'.history = step'.history
          /\ worker'.episode_return = step'.completed_return
  /\ trace' = Append(trace, last) /\ last \in Traces
  /\ last.before = game.view /\ last.action = step'.action /\ last.after = view
  /\ last.outcome = step'.outcome /\ last.limit = step'.truncated
  /\ step'.terminated = (step'.outcome # None)
  /\ paid' = IF Done(step') THEN Append(paid, game.rewards + step'.reward) ELSE paid
  /\ query' = None
  /\ UNCHANGED <<setting, ready, rows, completed, chunk>>

LEMMA ActsDoes ==
  ASSUME Types, Begun, Acts
  PROVE  ActFacts
<1>1. worker \in Workers /\ game \in Games /\ query \in Queries /\ pc = "sampled"
  BY DEF Types, Acts
<1>2. PICK action \in Actions, place \in Places, turns \in Passing, outcome \in Outcomes :
         /\ step' = Taken(action, place, turns, outcome)
         /\ worker' = After(worker, step')
         /\ game' = Played(step')
         /\ paid' = (IF Done(step') THEN Append(paid, game.rewards + step'.reward) ELSE paid)
         /\ trace' = Append(trace, Traced(step'))
  BY DEF Acts, Actions, Outcomes
<1> DEFINE view == [place |-> place, turn |-> game.view.turn + turns]
           gain == IF place # game.view.place THEN Reached ELSE 0
           s == step'
           entry == [place |-> s.observation.place, turn |-> s.observation.turn,
                     ui |-> IsUi(s.action), charged |-> s.overflow]
           last == Traced(s)
<1>3. s = [feature |-> query.feature, value |-> Value(query.feature, query.history),
           action |-> action, observation |-> view,
           reward |-> gain,
           terminated |-> outcome # None, outcome |-> outcome,
           truncated |-> Len(game.played) + 1 >= step_limit,
           completed_return |-> worker.episode_return + gain,
           history |-> Append(worker.history, action),
           short_cycle |-> Repeats(worker.recent, view),
           overflow |-> Overflows(worker.budget, action, view)]
  BY <1>2 DEF Taken
<1>4. worker' = After(worker, s)
  BY <1>2
<1>5. game' = [game EXCEPT !.view = s.observation, !.played = Append(@, s.action),
                                 !.rewards = @ + s.reward, !.log = Append(@, entry)]
  BY <1>2 DEF Played
<1>6. paid' = IF Done(s) THEN Append(paid, game.rewards + s.reward) ELSE paid
  BY <1>2
<1>7. trace' = Append(trace, last)
  BY <1>2
<1>8. /\ game.view \in Views /\ game.view.turn \in Nat /\ turns \in Nat /\ view \in Views
      /\ view.place = place /\ view.turn = game.view.turn + turns /\ view.turn >= game.view.turn
  BY <1>1, RolloutAssumption DEF Games, Views
<1>9. gain \in Int
  BY RolloutAssumption
<1> HIDE DEF view, gain
<1>10. /\ game.played \in Seq(Actions) /\ game.rewards \in Int /\ game.log \in Seq(Entries)
       /\ worker.episode_return \in Int /\ worker.history \in Seq(Actions)
       /\ worker.recent \in Seq(Places) /\ worker.budget \in [tokens : Int, turn : Nat]
       /\ query.feature \in Views /\ query.history \in Histories
       /\ worker.episode_index \in Nat
  BY <1>1 DEF Games, Workers, Queries
<1>11. Value(query.feature, query.history) \in Values
  BY <1>10 DEF Values
<1>12. /\ Repeats(worker.recent, view) \in BOOLEAN /\ Overflows(worker.budget, action, view) \in BOOLEAN
       /\ (Len(game.played) + 1 >= step_limit) \in BOOLEAN /\ (outcome # None) \in BOOLEAN
       /\ Append(worker.history, action) \in Seq(Actions)
       /\ Append(game.played, action) \in Seq(Actions)
  <2>1. Repeats(worker.recent, view) \in BOOLEAN /\ Overflows(worker.budget, action, view) \in BOOLEAN
    BY DEF Repeats, Overflows
  <2>2. (Len(game.played) + 1 >= step_limit) \in BOOLEAN
    <3>1. Len(game.played) \in Nat /\ step_limit \in Nat
      BY <1>10 DEF Types
    <3> QED BY <3>1
  <2>3. (outcome # None) \in BOOLEAN
    OBVIOUS
  <2> QED BY <1>10, <2>1, <2>2, <2>3
<1>13. worker.episode_return + gain \in Int /\ game.rewards + gain \in Int
  BY <1>9, <1>10
<1>14. /\ s \in Steps /\ s.feature = query.feature /\ s.observation = view /\ s.action = action
       /\ s.reward = gain /\ s.outcome = outcome /\ s.terminated = (outcome # None)
       /\ s.history = Append(worker.history, action)
       /\ s.completed_return = worker.episode_return + gain
       /\ s.short_cycle = Repeats(worker.recent, view)
       /\ s.overflow = Overflows(worker.budget, action, view)
  BY <1>3, <1>8, <1>9, <1>10, <1>11, <1>12, <1>13 DEF Steps
<1> HIDE DEF s
<1>15. s.overflow \in BOOLEAN /\ s.truncated \in BOOLEAN /\ s.history \in Seq(Actions)
  BY <1>14 DEF Steps
<1>16. entry \in Entries
  BY <1>8, <1>14, <1>15 DEF Entries, IsUi
<1>17. last \in Traces
  BY <1>8, <1>9, <1>10, <1>12, <1>14, <1>15 DEF Traces, Traced, Steps
<1> HIDE DEF entry, last
<1>18. /\ game' \in Games /\ game'.view = view /\ game'.played = Append(game.played, action)
       /\ game'.rewards = game.rewards + gain /\ game'.log = Append(game.log, entry)
  <2>1. Append(game.log, entry) \in Seq(Entries)
    BY <1>10, <1>16
  <2> QED BY <1>1, <1>5, <1>8, <1>12, <1>13, <1>14, <2>1 DEF Games
<1>19. game'.log[Len(game.log) + 1] = entry
  BY <1>10, <1>16, <1>18
<1>20. trace'[Len(trace) + 1] = last
  BY <1>7, <1>17 DEF Types
<1>21. /\ worker' \in Workers /\ worker'.episode_index = worker.episode_index
       /\ worker'.recent = Remembered(worker.recent, view)
       /\ worker'.budget = Spent(worker.budget, s.action, view)
       /\ IF Done(s) THEN /\ worker'.observation = None /\ worker'.history = <<>>
                              /\ worker'.episode_return = 0
          ELSE /\ worker'.observation = view /\ worker'.mask = view
               /\ worker'.history = s.history
               /\ worker'.episode_return = s.completed_return
  <2>1. Remembered(worker.recent, s.observation) \in Seq(Places)
    BY <1>8, <1>10, <1>14, RememberedType
  <2>2. Spent(worker.budget, s.action, s.observation) \in [tokens : Int, turn : Nat]
    BY <1>8, <1>10, <1>14, BudgetTypes
  <2>3. worker.episode_return + s.reward \in Int /\ s.completed_return = worker.episode_return + s.reward
    BY <1>13, <1>14
  <2> DEFINE recent == Remembered(worker.recent, s.observation)
             budget == Spent(worker.budget, s.action, s.observation)
             played == [worker EXCEPT !.episode_return = @ + s.reward, !.recent = recent,
                                      !.budget = budget, !.history = s.history,
                                      !.observation = s.observation, !.mask = s.observation]
  <2>4. worker' = IF Done(s) THEN [played EXCEPT !.observation = None, !.mask = None,
                                                 !.episode_return = 0, !.history = <<>>]
                  ELSE played
    BY <1>4 DEF After
  <2> HIDE DEF recent, budget
  <2>5. /\ played \in Workers /\ played.episode_index = worker.episode_index
        /\ played.recent = recent /\ played.budget = budget
        /\ played.observation = view /\ played.mask = view /\ played.history = s.history
        /\ played.episode_return = s.completed_return
    BY <1>1, <1>8, <1>14, <1>15, <2>1, <2>2, <2>3 DEF Workers, recent, budget
  <2> HIDE DEF played
  <2>6. CASE Done(s)
    <3>1. <<>> \in Seq(Actions)
      OBVIOUS
    <3>2. worker' = [played EXCEPT !.observation = None, !.mask = None,
                                   !.episode_return = 0, !.history = <<>>]
      BY <2>4, <2>6
    <3>3. /\ worker'.recent = recent /\ worker'.budget = budget
          /\ worker'.episode_index = worker.episode_index
      BY <2>5, <3>2 DEF Workers
    <3>5. worker' \in Workers
      <4> DEFINE half == [played EXCEPT !.observation = None, !.mask = None]
      <4>1. worker' = [half EXCEPT !.episode_return = 0, !.history = <<>>]
        BY <2>5, <3>2 DEF Workers
      <4>2. half \in Workers
        BY <2>5 DEF Workers
      <4> DEFINE empty == <<>>
                 zero == 0
      <4>3. empty \in Seq(Actions) /\ zero \in Int
        BY <3>1
      <4>4. worker' = [half EXCEPT !.episode_return = zero, !.history = empty]
        BY <4>1
      <4> HIDE DEF empty, zero
      <4> QED BY <4>2, <4>3, <4>4 DEF Workers
    <3>4. worker'.observation = None /\ worker'.history = <<>> /\ worker'.episode_return = 0
      BY <2>5, <3>2 DEF Workers
    <3> QED BY <1>14, <2>6, <3>3, <3>4, <3>5 DEF recent, budget
  <2>7. CASE ~ Done(s)
    BY <1>14, <2>4, <2>5, <2>7 DEF recent, budget
  <2> QED BY <2>6, <2>7
<1>22. /\ last.before = game.view /\ last.action = s.action /\ last.after = view
       /\ last.outcome = s.outcome /\ last.limit = s.truncated
  BY <1>14 DEF last, Traced
<1>23. entry = [place |-> view.place, turn |-> view.turn, ui |-> IsUi(s.action), charged |-> s.overflow]
  BY <1>8, <1>14 DEF entry
<1>24. pc' = "acted" /\ query' = None /\ UNCHANGED <<setting, ready, rows, completed, chunk>>
  BY DEF Acts
<1> QED BY <1>1, <1>6, <1>7, <1>8, <1>14, <1>17, <1>18, <1>19, <1>20, <1>21, <1>22, <1>23, <1>24
        DEF ActFacts, s
-------------------------------------------------------------------------------
(* The three ways a row is added.                                             *)

RowFacts ==
  LET row == rows'[Len(rows) + 1] IN
  /\ pc \in {"acted", "resetting"} /\ pc' \in {"ready", "ending"}
  /\ rows' = Append(rows, row) /\ row \in Rows
  /\ row.feature = step.feature /\ row.action = step.action /\ row.next = step.observation
  /\ row.done = Done(step)
  /\ completed' = IF Done(step) THEN Append(completed, step.completed_return) ELSE completed
  /\ ready' \in Views \union {None} /\ (ready' # None => ready' = worker.observation)
  /\ ~ Done(step) => ready' # None
  /\ trace' \in Seq(Traces) /\ Len(trace') = Len(trace)
  /\ \A t \in 1..Len(trace) :
       /\ trace'[t].episode = trace[t].episode /\ trace'[t].played = trace[t].played
       /\ trace'[t].reward = trace[t].reward
       /\ trace'[t].before = trace[t].before /\ trace'[t].action = trace[t].action
       /\ trace'[t].after = trace[t].after /\ trace'[t].outcome = trace[t].outcome
       /\ trace'[t].limit = trace[t].limit
  /\ InputIsLive'
  /\ UNCHANGED <<setting, worker, game, paid>>

LEMMA RowTypes ==
  ASSUME NEW bootstrap \in Values \union {0}, step \in Steps
  PROVE  /\ Row(bootstrap, step.observation) \in Rows
         /\ Row(bootstrap, step.observation).feature = step.feature
         /\ Row(bootstrap, step.observation).action = step.action
         /\ Row(bootstrap, step.observation).next = step.observation
         /\ Row(bootstrap, step.observation).done = Done(step)
<1>1. /\ step.feature \in Views /\ step.action \in Actions /\ step.value \in Values
      /\ step.observation \in Views /\ step.reward \in Int
      /\ step.terminated \in BOOLEAN /\ step.truncated \in BOOLEAN
  BY DEF Steps
<1>2. Done(step) \in BOOLEAN
  BY DEF Done
<1> DEFINE amount == step.reward - DecisionCost - (IF step.short_cycle THEN ShortCycleCost ELSE 0)
                       - (IF step.overflow THEN OverflowCost ELSE 0)
<1>3. amount \in Int
  BY <1>1, RolloutAssumption
<1> HIDE DEF amount
<1>4. Row(bootstrap, step.observation)
        = [feature |-> step.feature, action |-> step.action, value |-> step.value,
           reward |-> amount, done |-> Done(step), bootstrap |-> bootstrap,
           next |-> step.observation]
  BY DEF Row, amount
<1> QED BY <1>1, <1>2, <1>3, <1>4 DEF Rows

\* What Continues does, whatever the row's bootstrap.
LEMMA ContinuesDoes ==
  ASSUME RolloutInv, pc \in {"acted", "resetting"},
         NEW bootstrap \in Values \union {0}, NEW feature,
         Continues(Row(bootstrap, step.observation), feature)
  PROVE  LET row == rows'[Len(rows) + 1] IN
         /\ pc' \in {"ready", "ending"} /\ ready' = feature
         /\ rows' = Append(rows, row) /\ row \in Rows
         /\ row.feature = step.feature /\ row.action = step.action /\ row.next = step.observation
         /\ row.done = Done(step)
         /\ completed' = IF Done(step) THEN Append(completed, step.completed_return) ELSE completed
<1>1. step \in Steps /\ rows \in Seq(Rows)
  BY DEF RolloutInv, Types
<1>2. rows' = Append(rows, Row(bootstrap, step.observation))
  BY DEF Continues
<1>3. rows'[Len(rows) + 1] = Row(bootstrap, step.observation)
  BY <1>1, <1>2, RowTypes
<1>4. /\ pc' \in {"ready", "ending"} /\ ready' = feature
      /\ completed' = IF Done(step) THEN Append(completed, step.completed_return) ELSE completed
  BY DEF Continues
<1> QED BY <1>1, <1>2, <1>3, <1>4, RowTypes

LEMMA SameTrace ==
  ASSUME Types, trace' = trace
  PROVE  /\ trace' \in Seq(Traces) /\ Len(trace') = Len(trace)
         /\ \A t \in 1..Len(trace) :
              /\ trace'[t].episode = trace[t].episode /\ trace'[t].played = trace[t].played
              /\ trace'[t].reward = trace[t].reward
              /\ trace'[t].before = trace[t].before /\ trace'[t].action = trace[t].action
              /\ trace'[t].after = trace[t].after /\ trace'[t].outcome = trace[t].outcome
              /\ trace'[t].limit = trace[t].limit
<1> QED BY DEF Types

\* The feature left by a step of the game that goes on.
LEMMA FollowingIsLive ==
  ASSUME RolloutInv, pc = "acted"
  PROVE  /\ Following \in Views \union {None}
         /\ Following # None => Following = worker.observation
         /\ ~ Done(step) => Following # None
<1>1. step \in Steps
  BY DEF RolloutInv, Types
<1>2. step.observation \in Views
  BY <1>1 DEF Steps
<1> QED BY <1>2, ViewsAreSome DEF Following, RolloutInv, StepIsLive

\* Asking about what the game shows, with the actions it was sent.
LEMMA AskingIsLive ==
  ASSUME Types, Begun,
         query'.feature = game.view, query'.mask = game.view,
         query'.history = EncodeHistory(game.played), game' = game
  PROVE  InputIsLive'
<1>1. game.played \in Seq(Actions)
  BY DEF Types, Games
<1> QED BY <1>1, EncodedIsNewestFirst DEF InputIsLive

LEMMA RecordsAddsRow == ASSUME RolloutInv, Records PROVE RowFacts
<1>1. pc = "acted" /\ Continues(Row(0, step.observation), Following)
  BY DEF Records
<1>2. UNCHANGED <<setting, worker, query, game, trace, paid>>
  BY DEF Records
<1>3. InputIsLive'
  BY <1>2 DEF RolloutInv, InputIsLive
<1> QED BY <1>1, <1>2, <1>3, ContinuesDoes, FollowingIsLive, SameTrace DEF RowFacts, RolloutInv

LEMMA LimitAddsRow == ASSUME RolloutInv, BootstrapsLimit PROVE RowFacts
<1>1. /\ pc = "acted"
      /\ query' = [feature |-> step.observation, history |-> EncodeHistory(step.history),
                   mask |-> step.observation]
      /\ Continues(Row(Value(query'.feature, query'.history), step.observation), Following)
      /\ UNCHANGED <<setting, worker, game, trace, paid>>
  BY DEF BootstrapsLimit
<1>2. Begun /\ step.observation = game.view /\ step.history = game.played
  BY <1>1 DEF RolloutInv, StepIsLive
<1>3. game \in Games /\ step \in Steps
  BY <1>1, <1>2 DEF RolloutInv, Types
<1>4. game.view \in Views /\ EncodeHistory(game.played) \in Histories
  BY <1>3, EncodedIsNewestFirst DEF Games
<1>5. query'.feature = game.view /\ query'.mask = game.view /\ query'.history = EncodeHistory(game.played)
  BY <1>1, <1>2
<1>6. Value(query'.feature, query'.history) \in Values
  BY <1>4, <1>5 DEF Values
<1>7. InputIsLive'
  BY <1>1, <1>2, <1>5, AskingIsLive DEF RolloutInv
<1> QED BY <1>1, <1>6, <1>7, ContinuesDoes, FollowingIsLive, SameTrace DEF RowFacts, RolloutInv

LEMMA ResetAddsRow == ASSUME RolloutInv, BootstrapsReset PROVE RowFacts
<1>1. /\ pc = "resetting" /\ worker.observation # None
      /\ query' = [feature |-> worker.observation, history |-> EncodeHistory(worker.history),
                   mask |-> worker.mask]
      /\ Continues(Row(Value(query'.feature, query'.history), step.observation), worker.observation)
      /\ trace' = [trace EXCEPT ![Len(trace)].next = game.view]
      /\ UNCHANGED <<setting, worker, game, paid>>
  BY DEF BootstrapsReset
<1>2. /\ Begun /\ worker.observation = game.view /\ worker.mask = game.view
      /\ worker.history = game.played
  BY <1>1 DEF RolloutInv, WorkerIsLive
<1>3. game \in Games /\ trace \in Seq(Traces)
  BY <1>2 DEF RolloutInv, Types
<1>4. game.view \in Views /\ EncodeHistory(game.played) \in Histories
  BY <1>3, EncodedIsNewestFirst DEF Games
<1>5. query'.feature = game.view /\ query'.mask = game.view /\ query'.history = EncodeHistory(game.played)
  BY <1>1, <1>2
<1>6. Value(query'.feature, query'.history) \in Values
  BY <1>4, <1>5 DEF Values
<1>7. InputIsLive'
  BY <1>1, <1>2, <1>5, AskingIsLive DEF RolloutInv
<1>8. /\ trace' \in Seq(Traces) /\ Len(trace') = Len(trace)
      /\ \A t \in 1..Len(trace) :
              /\ trace'[t].episode = trace[t].episode /\ trace'[t].played = trace[t].played
              /\ trace'[t].reward = trace[t].reward
              /\ trace'[t].before = trace[t].before /\ trace'[t].action = trace[t].action
              /\ trace'[t].after = trace[t].after /\ trace'[t].outcome = trace[t].outcome
              /\ trace'[t].limit = trace[t].limit
  <2>1. Len(trace) \in 1..Len(trace)
    <3>1. Len(trace) = Len(rows) + 1
      BY <1>1 DEF RolloutInv, RowsMatch
    <3>2. Len(rows) \in Nat /\ Len(trace) \in Nat
      BY <1>3 DEF RolloutInv, Types
    <3> QED BY <3>1, <3>2
  <2> DEFINE last == [trace[Len(trace)] EXCEPT !.next = game.view]
  <2>2. trace[Len(trace)] \in Traces
    BY <1>3, <2>1
  <2>3. /\ last \in Traces /\ last.before = trace[Len(trace)].before
        /\ last.episode = trace[Len(trace)].episode /\ last.played = trace[Len(trace)].played
        /\ last.reward = trace[Len(trace)].reward
        /\ last.action = trace[Len(trace)].action /\ last.after = trace[Len(trace)].after
        /\ last.outcome = trace[Len(trace)].outcome /\ last.limit = trace[Len(trace)].limit
    BY <1>4, <2>2 DEF Traces
  <2>4. trace' = [trace EXCEPT ![Len(trace)] = last]
    BY <1>1
  <2> HIDE DEF last
  <2>5. trace' \in Seq(Traces) /\ Len(trace') = Len(trace)
    BY <1>3, <2>1, <2>3, <2>4
  <2>6. ASSUME NEW t \in 1..Len(trace)
        PROVE  trace'[t] = IF t = Len(trace) THEN last ELSE trace[t]
    BY <1>3, <2>1, <2>4
  <2> QED BY <2>3, <2>5, <2>6
<1>9. Done(step) /\ worker.observation \in Views \union {None}
  BY <1>1, <1>2, <1>4 DEF RolloutInv, StepIsLive
<1>10. LET row == rows'[Len(rows) + 1] IN
       /\ pc' \in {"ready", "ending"} /\ ready' = worker.observation
       /\ rows' = Append(rows, row) /\ row \in Rows
       /\ row.feature = step.feature /\ row.action = step.action /\ row.next = step.observation
       /\ row.done = Done(step)
       /\ completed' = IF Done(step) THEN Append(completed, step.completed_return) ELSE completed
  <2>1. pc \in {"acted", "resetting"}
    BY <1>1
  <2> QED BY <1>1, <1>6, <2>1, ContinuesDoes
<1>11. pc \in {"acted", "resetting"} /\ UNCHANGED <<setting, worker, game, paid>>
  BY <1>1
<1> QED BY <1>7, <1>8, <1>9, <1>10, <1>11 DEF RowFacts
-------------------------------------------------------------------------------
(* Every step preserves the invariant, part by part.                          *)

LEMMA SamplesAsk ==
  ASSUME RolloutInv, Samples
  PROVE  /\ query' \in Queries /\ query'.feature = game.view /\ game' = game
         /\ InputIsLive'
<1>1. /\ pc = "ready" /\ worker.observation # None
      /\ query' = [feature |-> IF ready = None THEN worker.observation ELSE ready,
                   history |-> EncodeHistory(worker.history), mask |-> worker.mask]
      /\ game' = game
  BY DEF Samples
<1>2. /\ Begun /\ worker.observation = game.view /\ worker.mask = game.view
      /\ worker.history = game.played
  BY <1>1 DEF RolloutInv, WorkerIsLive
<1>3. query' = [feature |-> game.view, history |-> EncodeHistory(game.played), mask |-> game.view]
  BY <1>1, <1>2 DEF RolloutInv, ReadyIsLive
<1>4. game \in Games
  BY <1>2 DEF RolloutInv, Types
<1>5. game.view \in Views /\ EncodeHistory(game.played) \in Histories
  BY <1>4, EncodedIsNewestFirst DEF Games
<1>6. query' \in Queries
  BY <1>3, <1>5 DEF Queries
<1> QED BY <1>1, <1>2, <1>3, <1>6, AskingIsLive DEF RolloutInv

LEMMA FinishesAsk ==
  ASSUME RolloutInv, Finishes
  PROVE  InputIsLive'
<1>1. /\ pc = "ending" /\ UNCHANGED <<worker, game, ready>>
      /\ query' = IF rows[Len(rows)].done THEN query
              ELSE [feature |-> ready, history |-> EncodeHistory(worker.history),
                    mask |-> worker.mask]
  BY DEF Finishes
<1>2. CASE rows[Len(rows)].done
  BY <1>1, <1>2 DEF RolloutInv, InputIsLive
<1>3. CASE ~ rows[Len(rows)].done
  <2>1. ready # None /\ ready = worker.observation
    BY <1>1, <1>3 DEF RolloutInv, ReadyIsLive
  <2>2. /\ Begun /\ worker.observation = game.view /\ worker.mask = game.view
        /\ worker.history = game.played
    BY <2>1 DEF RolloutInv, WorkerIsLive
  <2> QED BY <1>1, <1>3, <2>1, <2>2, AskingIsLive DEF RolloutInv
<1> QED BY <1>2, <1>3

LEMMA StepCases ==
  ASSUME RolloutInv, [Next]_vars
  PROVE  ResetFacts \/ Samples \/ ActFacts \/ RowFacts \/ WantsReset \/ Finishes \/ NextChunk
           \/ UNCHANGED vars
<1>1. Acts => Begun
  BY DEF Acts, RolloutInv, ReadyIsLive, WorkerIsLive
<1> QED BY <1>1, ResetsDoes, ActsDoes, RecordsAddsRow, LimitAddsRow, ResetAddsRow DEF Next, RolloutInv

LEMMA TypesNext ==
  ASSUME RolloutInv, [Next]_vars
  PROVE  Types'
<1> USE DEF RolloutInv, Types, Begun
<1>1. CASE ResetFacts
  BY <1>1, ViewsAreSome DEF ResetFacts, setting
<1>2. CASE Samples
  BY <1>2, SamplesAsk DEF Samples, setting
<1>3. CASE ActFacts
  <2>1. trace' \in Seq(Traces)
    <3>1. trace' = Append(trace, trace'[Len(trace) + 1]) /\ trace'[Len(trace) + 1] \in Traces
      BY <1>3 DEF ActFacts
    <3> QED BY <3>1
  <2>2. /\ pc' = "acted" /\ step' \in Steps /\ worker' \in Workers /\ game' \in Games
        /\ worker'.episode_index = worker.episode_index
        /\ UNCHANGED <<setting, ready, rows>>
    BY <1>3 DEF ActFacts
  <2>3. Begun
    BY <1>3 DEF ActFacts, ReadyIsLive, WorkerIsLive
  <2> QED BY <2>1, <2>2, <2>3 DEF setting
<1>4. CASE RowFacts
  <2>1. rows' \in Seq(Rows)
    <3>1. rows' = Append(rows, rows'[Len(rows) + 1]) /\ rows'[Len(rows) + 1] \in Rows
      BY <1>4 DEF RowFacts
    <3> QED BY <3>1
  <2> QED BY <1>4, <2>1 DEF RowFacts, setting
<1>5. CASE WantsReset
  BY <1>5 DEF WantsReset, setting
<1>6. CASE Finishes
  BY <1>6 DEF Finishes, setting
<1>7. CASE NextChunk
  BY <1>7 DEF NextChunk, setting
<1>8. CASE UNCHANGED vars
  BY <1>8 DEF vars, setting
<1> QED BY <1>1, <1>2, <1>3, <1>4, <1>5, <1>6, <1>7, <1>8, StepCases

LEMMA LiveNext ==
  ASSUME RolloutInv, [Next]_vars
  PROVE  WorkerIsLive' /\ StepIsLive'
<1> USE DEF RolloutInv, WorkerIsLive, StepIsLive, Begun
<1>1. CASE ResetFacts
  <2>1. game'.view \in Views
    BY <1>1 DEF ResetFacts, Games
  <2> QED BY <1>1, <2>1, ViewsAreSome DEF ResetFacts, Done
<1>2. CASE Samples
  BY <1>2 DEF Samples, Done
<1>3. CASE ActFacts
  <2>1. /\ pc = "sampled" /\ pc' = "acted"
        /\ step'.observation = game'.view /\ step'.history = Append(worker.history, step'.action)
        /\ step'.completed_return = worker.episode_return + step'.reward
        /\ game'.played = Append(game.played, step'.action)
        /\ game'.rewards = game.rewards + step'.reward
        /\ worker'.episode_index = worker.episode_index
        /\ IF Done(step') THEN /\ worker'.observation = None /\ worker'.history = <<>>
                               /\ worker'.episode_return = 0
           ELSE /\ worker'.observation = game'.view /\ worker'.mask = game'.view
                /\ worker'.history = step'.history
                /\ worker'.episode_return = step'.completed_return
    BY <1>3 DEF ActFacts
  <2>2. /\ Begun /\ worker.history = game.played /\ worker.episode_return = game.rewards
    BY <2>1 DEF ReadyIsLive
  <2>3. worker'.episode_index > 0
    BY <2>1, <2>2
  <2>4. game'.view \in Views
    BY <1>3 DEF ActFacts, Games
  <2>5. Done(step)' = Done(step')
    BY DEF Done
  <2>6. step'.history = game'.played /\ step'.completed_return = game'.rewards
    BY <2>1, <2>2
  <2>7. CASE Done(step')
    BY <2>1, <2>3, <2>5, <2>6, <2>7
  <2>8. CASE ~ Done(step')
    BY <2>1, <2>3, <2>4, <2>5, <2>6, <2>8, ViewsAreSome
  <2> QED BY <2>7, <2>8
<1>4. CASE RowFacts
  BY <1>4 DEF RowFacts
<1>5. CASE WantsReset
  BY <1>5 DEF WantsReset, UsesReset, Done
<1>6. CASE Finishes
  BY <1>6 DEF Finishes
<1>7. CASE NextChunk
  BY <1>7 DEF NextChunk
<1>8. CASE UNCHANGED vars
  BY <1>8 DEF vars, setting, Done
<1> QED BY <1>1, <1>2, <1>3, <1>4, <1>5, <1>6, <1>7, <1>8, StepCases

LEMMA ReadyNext ==
  ASSUME RolloutInv, [Next]_vars
  PROVE  ReadyIsLive'
<1> USE DEF RolloutInv, ReadyIsLive
<1>1. CASE ResetFacts
  <2>1. pc = "ready" => ready = None
    BY <1>1 DEF ResetFacts
  <2> QED BY <1>1, <2>1 DEF ResetFacts
<1>2. CASE Samples
  BY <1>2, SamplesAsk DEF Samples
<1>3. CASE ActFacts
  BY <1>3 DEF ActFacts
<1>4. CASE RowFacts
  <2>1. /\ rows' = Append(rows, rows'[Len(rows) + 1]) /\ rows'[Len(rows) + 1] \in Rows
        /\ rows'[Len(rows) + 1].done = Done(step)
        /\ ~ Done(step) => ready' # None
        /\ pc' \in {"ready", "ending"} /\ worker' = worker
        /\ ready' # None => ready' = worker.observation
    BY <1>4 DEF RowFacts
  <2>2. rows' # <<>> /\ Len(rows') = Len(rows) + 1
    BY <2>1 DEF Types
  <2>3. rows'[Len(rows')].done \/ ready' # None
    <3>1. CASE Done(step)
      BY <2>1, <2>2, <3>1
    <3>2. CASE ~ Done(step)
      BY <2>1, <3>2
    <3> QED BY <3>1, <3>2
  <2> QED BY <2>1, <2>2, <2>3
<1>5. CASE WantsReset
  BY <1>5 DEF WantsReset
<1>6. CASE Finishes
  BY <1>6 DEF Finishes
<1>7. CASE NextChunk
  BY <1>7 DEF NextChunk
<1>8. CASE UNCHANGED vars
  BY <1>8 DEF vars, setting
<1> QED BY <1>1, <1>2, <1>3, <1>4, <1>5, <1>6, <1>7, <1>8, StepCases

LEMMA InputNext ==
  ASSUME RolloutInv, [Next]_vars
  PROVE  InputIsLive'
<1>1. CASE ResetFacts
  BY <1>1 DEF ResetFacts, InputIsLive
<1>2. CASE Samples
  BY <1>2, SamplesAsk
<1>3. CASE ActFacts
  BY <1>3 DEF ActFacts, InputIsLive
<1>4. CASE RowFacts
  BY <1>4 DEF RowFacts
<1>5. CASE WantsReset
  BY <1>5 DEF WantsReset, InputIsLive, RolloutInv
<1>6. CASE Finishes
  BY <1>6, FinishesAsk
<1>7. CASE NextChunk
  BY <1>7 DEF NextChunk, InputIsLive, RolloutInv
<1>8. CASE UNCHANGED vars
  BY <1>8 DEF vars, InputIsLive, RolloutInv
<1> QED BY <1>1, <1>2, <1>3, <1>4, <1>5, <1>6, <1>7, <1>8, StepCases

\* What RowsMatch says of one row.
RowMatches(row, t) ==
  /\ row.feature = t.before /\ row.action = t.action /\ row.next = t.after
  /\ row.done <=> t.outcome # None \/ t.limit

LEMMA RowsNext ==
  ASSUME RolloutInv, [Next]_vars
  PROVE  RowsMatch'
<1>0. /\ rows \in Seq(Rows) /\ trace \in Seq(Traces) /\ Len(rows) \in Nat /\ Len(trace) \in Nat
      /\ Len(trace) = IF pc \in {"acted", "resetting"} THEN Len(rows) + 1 ELSE Len(rows)
      /\ \A t \in 1..Len(rows) : RowMatches(rows[t], trace[t])
      /\ pc \in {"acted", "resetting"} =>
           LET last == trace[Len(trace)] IN
             /\ step.feature = last.before /\ step.action = last.action
             /\ step.observation = last.after
             /\ Done(step) <=> last.outcome # None \/ last.limit
  BY DEF RolloutInv, Types, RowsMatch, RowsAreTransitions, RowMatches
<1>1. CASE ResetFacts
  BY <1>1 DEF RolloutInv, ResetFacts, RowsMatch, RowsAreTransitions, Done
<1>2. CASE Samples
  BY <1>2 DEF RolloutInv, Samples, RowsMatch, RowsAreTransitions, Done
<1>3. CASE ActFacts
  <2> DEFINE last == trace'[Len(trace) + 1]
  <2>1. /\ pc = "sampled" /\ pc' = "acted" /\ rows' = rows
        /\ step'.feature = query.feature /\ step'.observation = game'.view
        /\ trace' = Append(trace, last) /\ last \in Traces
        /\ last.before = game.view /\ last.action = step'.action /\ last.after = game'.view
        /\ last.outcome = step'.outcome /\ last.limit = step'.truncated
        /\ step'.terminated = (step'.outcome # None)
    BY <1>3 DEF ActFacts
  <2>2. query.feature = game.view
    BY <2>1 DEF RolloutInv, ReadyIsLive
  <2>3. Done(step') <=> last.outcome # None \/ last.limit
    BY <2>1 DEF Done
  <2> HIDE DEF last
  <2>4. Len(trace') = Len(trace) + 1 /\ trace'[Len(trace')] = last
    BY <1>0, <2>1
  <2>5. Len(trace) = Len(rows) /\ \A t \in 1..Len(rows) : trace'[t] = trace[t]
    BY <1>0, <2>1
  <2>6. \A t \in 1..Len(rows) : RowMatches(rows'[t], trace'[t])
    BY <1>0, <2>1, <2>5
  <2>7. RowsAreTransitions'
    BY <1>0, <2>1, <2>6 DEF RowsAreTransitions, RowMatches
  <2>8. Done(step)' = Done(step')
    BY DEF Done
  <2> QED BY <2>1, <2>2, <2>3, <2>4, <2>5, <2>7, <2>8 DEF RowsMatch
<1>4. CASE RowFacts
  <2> DEFINE row == rows'[Len(rows) + 1]
  <2>1. /\ pc \in {"acted", "resetting"} /\ pc' \in {"ready", "ending"}
        /\ rows' = Append(rows, row) /\ row \in Rows
        /\ row.feature = step.feature /\ row.action = step.action /\ row.next = step.observation
        /\ row.done = Done(step)
        /\ trace' \in Seq(Traces) /\ Len(trace') = Len(trace)
        /\ \A t \in 1..Len(trace) :
             /\ trace'[t].episode = trace[t].episode /\ trace'[t].played = trace[t].played
             /\ trace'[t].reward = trace[t].reward
             /\ trace'[t].before = trace[t].before /\ trace'[t].action = trace[t].action
             /\ trace'[t].after = trace[t].after /\ trace'[t].outcome = trace[t].outcome
             /\ trace'[t].limit = trace[t].limit
    BY <1>4 DEF RowFacts
  <2> HIDE DEF row
  <2>2. /\ Len(trace) = Len(rows) + 1 /\ Len(rows') = Len(rows) + 1
        /\ \A t \in 1..Len(rows) : rows'[t] = rows[t]
        /\ rows'[Len(rows) + 1] = row
    BY <1>0, <2>1
  <2>3. ASSUME NEW t \in 1..Len(rows') PROVE RowMatches(rows'[t], trace'[t])
    <3>1. t \in 1..Len(trace)
      BY <2>2
    <3>2. RowMatches(rows'[t], trace[t])
      <4>1. CASE t = Len(rows) + 1
        BY <1>0, <2>1, <2>2, <4>1 DEF RowMatches
      <4>2. CASE t # Len(rows) + 1
        <5>1. t \in 1..Len(rows)
          BY <1>0, <2>2, <4>2
        <5> QED BY <1>0, <2>2, <5>1
      <4> QED BY <4>1, <4>2
    <3> QED BY <2>1, <3>1, <3>2 DEF RowMatches
  <2>4. RowsAreTransitions'
    <3>1. DOMAIN rows' = 1..Len(rows')
      BY <1>0, <2>1
    <3> QED BY <2>3, <3>1 DEF RowsAreTransitions, RowMatches
  <2> QED BY <2>1, <2>2, <2>4 DEF RowsMatch
<1>5. CASE WantsReset
  BY <1>5 DEF RolloutInv, WantsReset, RowsMatch, RowsAreTransitions, Done
<1>6. CASE Finishes
  BY <1>6 DEF RolloutInv, Finishes, RowsMatch, RowsAreTransitions, Done
<1>7. CASE NextChunk
  BY <1>7 DEF NextChunk, RowsMatch, RowsAreTransitions
<1>8. CASE UNCHANGED vars
  BY <1>8 DEF RolloutInv, vars, setting, RowsMatch, RowsAreTransitions, Done
<1> QED BY <1>1, <1>2, <1>3, <1>4, <1>5, <1>6, <1>7, <1>8, StepCases

LEMMA AccountsNext ==
  ASSUME RolloutInv, [Next]_vars
  PROVE  Accounts'
<1> USE DEF RolloutInv, Accounts
<1>1. CASE ResetFacts
  BY <1>1 DEF ResetFacts, Done
<1>2. CASE Samples
  BY <1>2 DEF Samples, Done
<1>3. CASE ActFacts
  <2>1. /\ pc = "sampled" /\ pc' = "acted" /\ completed' = completed
        /\ step'.completed_return = worker.episode_return + step'.reward
        /\ paid' = IF Done(step') THEN Append(paid, game.rewards + step'.reward) ELSE paid
    BY <1>3 DEF ActFacts
  <2>2. worker.episode_return = game.rewards /\ paid = completed
    BY <2>1 DEF ReadyIsLive, WorkerIsLive
  <2>3. Done(step)' = Done(step')
    BY DEF Done
  <2> QED BY <2>1, <2>2, <2>3
<1>4. CASE RowFacts
  BY <1>4 DEF RowFacts
<1>5. CASE WantsReset
  BY <1>5 DEF WantsReset, Done
<1>6. CASE Finishes
  BY <1>6 DEF Finishes
<1>7. CASE NextChunk
  BY <1>7 DEF NextChunk
<1>8. CASE UNCHANGED vars
  BY <1>8 DEF vars, Done
<1> QED BY <1>1, <1>2, <1>3, <1>4, <1>5, <1>6, <1>7, <1>8, StepCases
-------------------------------------------------------------------------------
(* Cycles.                                                                    *)

\* Step n of a game shows a place the game has shown within the window.
Recurs(log, n) == \E k \in Larger(1, n - Window)..(n - 1) : log[k].place = log[n].place

\* What the window keeps after a step, and what it recognised before it.
LEMMA RecentGrows ==
  ASSUME NEW log \in Seq(Entries), NEW recent \in Seq(Places), NEW view \in Views,
         NEW entry \in Entries, entry.place = view.place, Len(log) >= 1, RecentOf(recent, log)
  PROVE  LET grown == Append(log, entry) IN
         /\ RecentOf(Remembered(recent, view), grown)
         /\ Repeats(recent, view) <=> Recurs(grown, Len(grown))
<1> DEFINE n == Len(log)
           m == Len(recent)
           l == Len(recent) + 1
           place == view.place
           grown == Append(log, entry)
           kept == Remembered(recent, view)
           all == Append(recent, place)
           from == Larger(1, l - Window + 1)
           window == SubSeq(all, from, l)
           s == Smaller(Window, n + 1)
<1>0. /\ Window \in Nat /\ Window >= 1 /\ n \in Nat /\ m \in Nat /\ n >= 1
      /\ l \in Nat /\ l = m + 1
  BY CostAssumption
<1>1. m = Smaller(Window, n) /\ \A i \in 1..m : recent[i] = log[n - m + i].place
  BY DEF RecentOf
<1>2. Len(grown) = n + 1 /\ grown[n + 1].place = place /\ \A k \in 1..n : grown[k] = log[k]
  OBVIOUS
<1>3. all \in Seq(Places) /\ Len(all) = l /\ all[l] = place /\ \A i \in 1..m : all[i] = recent[i]
  BY DEF Views
<1>4. kept = SubSeq(all, Larger(1, Len(all) - Window + 1), Len(all))
  BY DEF Remembered, SemanticDigest
<1>5. DOMAIN recent = 1..m
  OBVIOUS
<1> HIDE DEF n, m, l, grown, kept, all, window
<1>6. \A i \in 1..m : n - m + i \in 1..n
  BY <1>0, <1>1 DEF Smaller
<1>7. \A i \in 1..m : recent[i] = grown[n - m + i].place
  BY <1>1, <1>2, <1>6
<1>8. s \in Nat /\ s <= l /\ from = l - s + 1 /\ from \in 1..l
  BY <1>0, <1>1 DEF Smaller, Larger
<1>20. window = SubSeq(all, from, l)
  BY DEF window
<1> HIDE DEF s, from
<1>21. Len(window) = s /\ \A i \in 1..s : window[i] = all[l - s + i]
  <2>1. \A i \in from..l : all[i] \in Places
    BY <1>3, <1>8
  <2>2. Len(window) = l - from + 1
    BY <1>0, <1>3, <1>8, <1>20, <2>1
  <2>3. l - from + 1 = s
    BY <1>0, <1>8
  <2>4. \A i \in 1..(l - from + 1) : window[i] = all[from + i - 1]
    BY <1>0, <1>3, <1>8, <1>20, <2>1
  <2>5. \A i \in 1..s : from + i - 1 = l - s + i
    BY <1>0, <1>8
  <2> QED BY <2>2, <2>3, <2>4, <2>5
<1>22. kept = window
  BY <1>3, <1>4 DEF window, from
<1>9. ASSUME NEW i \in 1..l PROVE all[i] = grown[n - m + i].place
  <2>1. CASE i = l
    <3>1. n - m + i = n + 1
      BY <1>0, <2>1
    <3> QED BY <1>2, <1>3, <2>1, <3>1
  <2>2. CASE i # l
    <3>1. i \in 1..m
      BY <1>0, <2>2
    <3> QED BY <1>3, <1>7, <3>1
  <2> QED BY <2>1, <2>2
<1>10. ASSUME NEW i \in 1..s PROVE kept[i] = grown[n + 1 - s + i].place
  <2>1. l - s + i \in 1..l
    BY <1>0, <1>8
  <2>2. n - m + (l - s + i) = n + 1 - s + i
    BY <1>0, <1>8
  <2>3. kept[i] = all[l - s + i]
    BY <1>21, <1>22
  <2> QED BY <1>9, <2>1, <2>2, <2>3
<1>11. RecentOf(kept, grown)
  <2>1. Len(kept) = s /\ Len(grown) = n + 1 /\ s = Smaller(Window, n + 1)
    BY <1>2, <1>21, <1>22 DEF s
  <2>2. ASSUME NEW i \in 1..Len(kept) PROVE kept[i] = grown[Len(grown) - Len(kept) + i].place
    <3>1. i \in 1..s
      BY <2>1
    <3>2. kept[i] = grown[n + 1 - s + i].place
      BY <1>10, <3>1
    <3>3. n + 1 - s + i = Len(grown) - Len(kept) + i
      BY <1>0, <1>8, <2>1
    <3> QED BY <3>2, <3>3
  <2> QED BY <2>1, <2>2 DEF RecentOf
<1>12. Repeats(recent, view) <=> \E i \in 1..m : recent[i] = place
  BY <1>5 DEF Repeats, SemanticDigest
<1>13. ASSUME NEW i \in 1..m
       PROVE  n - m + i \in Larger(1, n + 1 - Window)..n
  BY <1>0, <1>1 DEF Smaller, Larger
<1>14. ASSUME NEW k \in Larger(1, n + 1 - Window)..n
       PROVE  k - n + m \in 1..m /\ n - m + (k - n + m) = k
  BY <1>0, <1>1 DEF Smaller, Larger
<1>15. (\E i \in 1..m : recent[i] = place)
         <=> \E k \in Larger(1, n + 1 - Window)..n : grown[k].place = place
  BY <1>7, <1>13, <1>14
<1> DEFINE c == n + 1
<1>16. c - 1 = n /\ c - Window = n + 1 - Window /\ grown[c].place = place
  BY <1>0, <1>2
<1> HIDE DEF c
<1>17. Repeats(recent, view)
         <=> \E k \in Larger(1, c - Window)..(c - 1) : grown[k].place = grown[c].place
  BY <1>12, <1>15, <1>16
<1>18. Repeats(recent, view) <=> Recurs(grown, c)
  BY <1>17, Zenon DEF Recurs
<1>19. Repeats(recent, view) <=> Recurs(grown, Len(grown))
  BY <1>2, <1>18 DEF c
<1> QED BY <1>11, <1>19 DEF grown, kept

LEMMA RecentNext ==
  ASSUME RolloutInv, [Next]_vars
  PROVE  Remembers' /\ CyclesAreRecurrences'
<1> USE DEF RolloutInv
<1>1. CASE ResetFacts
  <2>1. /\ Len(game'.log) = 1 /\ game'.log[1].turn = game'.view.turn
        /\ game'.log[1].place = game'.view.place /\ worker'.recent = Tracked(game'.view)
        /\ pc' # "acted"
    BY <1>1 DEF ResetFacts
  <2>2. worker'.recent = <<game'.view.place>>
    BY <2>1 DEF Tracked, SemanticDigest
  <2>3. Smaller(Window, 1) = 1
    BY CostAssumption DEF Smaller
  <2>4. Len(worker'.recent) = 1 /\ worker'.recent[1] = game'.view.place
    BY <2>2
  <2>5. RecentOf(worker'.recent, game'.log)
    BY <2>1, <2>3, <2>4 DEF RecentOf
  <2> QED BY <2>1, <2>5 DEF Remembers, CyclesAreRecurrences
<1>3. CASE ActFacts
  <2> DEFINE n == Len(game.log)
             entry == game'.log[n + 1]
  <2>1. /\ pc = "sampled" /\ game'.log = Append(game.log, entry)
        /\ entry.place = game'.view.place /\ entry.turn = game'.view.turn
        /\ worker'.recent = Remembered(worker.recent, game'.view)
        /\ step'.short_cycle = Repeats(worker.recent, game'.view)
        /\ game' \in Games /\ step' \in Steps
    BY <1>3 DEF ActFacts
  <2>2. Begun
    BY <2>1 DEF ReadyIsLive, WorkerIsLive
  <2>3. game.log \in Seq(Entries) /\ worker.recent \in Seq(Places)
    BY <2>2 DEF Types, Games, Workers
  <2>4. game'.view \in Views /\ game'.log \in Seq(Entries)
    BY <2>1 DEF Games
  <2>5. n \in Nat /\ Len(game.log) >= 1 /\ RecentOf(worker.recent, game.log)
    BY <2>2, <2>3 DEF Remembers
  <2>6. Len(game'.log) = n + 1
    <3>1. Len(Append(game.log, entry)) = n + 1
      BY <2>3
    <3> QED BY <2>1, <3>1
  <2>7. entry \in Entries
    BY <2>4, <2>5, <2>6
  <2> HIDE DEF n, entry
  <2>8. /\ RecentOf(worker'.recent, game'.log)
        /\ Repeats(worker.recent, game'.view) <=> Recurs(game'.log, Len(game'.log))
    <3>1. LET grown == Append(game.log, entry) IN
          /\ RecentOf(Remembered(worker.recent, game'.view), grown)
          /\ Repeats(worker.recent, game'.view) <=> Recurs(grown, Len(grown))
      BY <2>1, <2>3, <2>4, <2>5, <2>7, RecentGrows
    <3> QED BY <2>1, <3>1
  <2>9. Remembers'
    <3>1. game'.view.turn = game'.log[Len(game'.log)].turn
      BY <2>1, <2>6 DEF entry, n
    <3>2. Len(game'.log) >= 1
      BY <2>5, <2>6
    <3> QED BY <2>8, <3>1, <3>2 DEF Remembers
  <2>10. step'.short_cycle \in BOOLEAN
    BY <2>1 DEF Steps
  <2> QED BY <2>1, <2>8, <2>9, <2>10 DEF CyclesAreRecurrences, Recurs
<1>4. CASE RowFacts
  BY <1>4 DEF RowFacts, Remembers, CyclesAreRecurrences, Begun
<1> USE DEF Remembers, CyclesAreRecurrences, Begun
<1>2. CASE Samples
  BY <1>2 DEF Samples
<1>5. CASE WantsReset
  BY <1>5 DEF WantsReset
<1>6. CASE Finishes
  BY <1>6 DEF Finishes
<1>7. CASE NextChunk
  BY <1>7 DEF NextChunk
<1>8. CASE UNCHANGED vars
  BY <1>8 DEF vars
<1> QED BY <1>1, <1>2, <1>3, <1>4, <1>5, <1>6, <1>7, <1>8, StepCases
-------------------------------------------------------------------------------
(* Bursts.                                                                    *)

LEMMA OneMore ==
  \A i, n, l \in Nat : l > n =>
    \A S : S \subseteq i..n =>
      Cardinality(S) \in Nat /\ Cardinality(S \union {l}) = Cardinality(S) + 1
<1> SUFFICES ASSUME NEW i \in Nat, NEW n \in Nat, NEW l \in Nat, l > n, NEW S, S \subseteq i..n
             PROVE  Cardinality(S) \in Nat /\ Cardinality(S \union {l}) = Cardinality(S) + 1
  OBVIOUS
<1>1. IsFiniteSet(i..n)
  BY FS_Interval
<1>2. IsFiniteSet(S)
  BY <1>1, FS_Subset
<1>3. l \notin S
  OBVIOUS
<1> QED BY <1>2, <1>3, FS_CardinalityType, FS_AddElement

LEMMA Products ==
  ASSUME NEW a \in Int, NEW b \in Int, NEW c \in Int
  PROVE  a * (b + c) = a * b + a * c /\ a * b \in Int /\ a * (b + 1) = a * b + a
<1> QED OBVIOUS

\* A game's earlier steps count for what they did.
LEMMA EarlierStay ==
  ASSUME NEW log \in Seq(Entries), NEW entry \in Entries, NEW j \in 2..Len(log), BurstsAt(log, j)
  PROVE  BurstsAt(Append(log, entry), j)
<1> DEFINE grown == Append(log, entry)
<1>1. \A k \in 1..Len(log) : grown[k] = log[k]
  OBVIOUS
<1> HIDE DEF grown
<1>2. j \in Nat /\ j \in 1..Len(log) /\ j - 1 \in 1..Len(log)
  OBVIOUS
<1>3. grown[j] = log[j] /\ grown[j - 1] = log[j - 1]
  BY <1>1, <1>2
<1>4. ASSUME NEW i \in 2..j
      PROVE  /\ FreeOnes(grown, i, j) = FreeOnes(log, i, j)
             /\ Interactions(grown, i, j) = Interactions(log, i, j)
             /\ Allowance(grown, i, j) = Allowance(log, i, j)
  <2>1. \A k \in i..j : k \in 1..Len(log) /\ k - 1 \in 1..Len(log)
    OBVIOUS
  <2>2. \A k \in i..j : grown[k] = log[k] /\ grown[k - 1] = log[k - 1]
    BY <1>1, <2>1
  <2>3. grown[i] = log[i]
    BY <1>1
  <2> QED BY <1>3, <2>2, <2>3 DEF FreeOnes, Interactions, Allowance
<1>5. \A i \in 2..j : PerToken * Cardinality(FreeOnes(grown, i, j)) <= Allowance(grown, i, j)
  BY <1>4 DEF BurstsAt
<1>6. ASSUME grown[j].charged
      PROVE  /\ grown[j].turn = grown[j - 1].turn
             /\ \E i \in 2..j :
                  PerToken * Cardinality(Interactions(grown, i, j)) > Allowance(grown, i, j)
  BY <1>3, <1>4, <1>6 DEF BurstsAt
<1> QED BY <1>5, <1>6 DEF BurstsAt, grown

\* The bucket after a step, and what was charged for it.
LEMMA BucketGrows ==
  ASSUME NEW log \in Seq(Entries), NEW budget \in [tokens : Int, turn : Nat],
         NEW action \in Actions, NEW view \in Views, NEW entry \in Entries,
         entry.turn = view.turn, entry.ui = IsUi(action),
         entry.charged = Overflows(budget, action, view),
         Len(log) >= 1, view.turn >= log[Len(log)].turn, BucketOf(budget, log, Len(log))
  PROVE  /\ BucketOf(Spent(budget, action, view), Append(log, entry), Len(log) + 1)
         /\ BurstsAt(Append(log, entry), Len(log) + 1)
<1> DEFINE n == Len(log)
           l == n + 1
           grown == Append(log, entry)
           left == Spent(budget, action, view)
           full == Refilled(budget, view).tokens
           passed == view.turn - log[n].turn
           used == IF IsUi(action) THEN 1 ELSE 0
           free == IsUi(action) /\ ~ entry.charged /\ passed = 0
           extra == IF free THEN 1 ELSE 0
<1>0. n \in Nat /\ n >= 1 /\ l \in Nat /\ l > n /\ l = n + 1
  OBVIOUS
<1>1. /\ PerToken \in Nat /\ PerToken >= 1 /\ Capacity \in Nat /\ Refill \in Nat
  BY CostAssumption
<1>2. \A k \in 1..n : grown[k] = log[k] /\ log[k] \in Entries /\ log[k].turn \in Nat
  <2>1. \A k \in 1..n : grown[k] = log[k]
    OBVIOUS
  <2>2. \A k \in 1..n : log[k] \in Entries
    OBVIOUS
  <2>3. \A e \in Entries : e.turn \in Nat
    BY DEF Entries
  <2> QED BY <2>1, <2>2, <2>3
<1>3. /\ grown[l] = entry /\ view.turn >= log[n].turn /\ view.turn \in Nat /\ log[n].turn \in Nat /\ passed \in Nat
  BY <1>2 DEF Views
<1>30. BucketOf(budget, log, n)
  OBVIOUS
<1>4. budget.turn = log[n].turn /\ 0 <= budget.tokens /\ budget.tokens <= Capacity /\ budget.tokens \in Int
  BY <1>30 DEF BucketOf
<1> HIDE DEF grown, n, l
\* The refill, in the cases the code distinguishes.
<1>5. /\ full = IF budget.tokens + Refill * passed > Capacity THEN Capacity
                ELSE budget.tokens + Refill * passed
      /\ Refill * passed \in Nat
      /\ Refilled(budget, view).turn = view.turn
  <2>1. Larger(0, view.turn - budget.turn) = passed
    BY <1>0, <1>3, <1>4 DEF Larger
  <2>2. passed * Refill = Refill * passed /\ Refill * passed \in Nat
    BY <1>0, <1>1, <1>3
  <2>3. full = Smaller(Capacity, budget.tokens + Refill * passed)
    BY <1>0, <2>1, <2>2 DEF Refilled
  <2>4. Refilled(budget, view).turn = view.turn
    BY DEF Refilled
  <2> HIDE DEF full, passed
  <2> QED BY <1>0, <1>1, <1>4, <2>2, <2>3, <2>4 DEF Smaller
<1>6. /\ left.tokens = IF IsUi(action) /\ full >= PerToken THEN full - PerToken ELSE full
      /\ left.turn = view.turn
  <2>1. Refilled(budget, view) = [tokens |-> full, turn |-> view.turn]
    BY DEF Refilled
  <2> HIDE DEF full
  <2> QED BY <1>0, <2>1 DEF Spent
<1>7. entry.charged <=> IsUi(action) /\ full < PerToken /\ passed = 0
  <2>1. view.turn <= budget.turn <=> passed = 0
    BY <1>0, <1>3, <1>4
  <2> QED BY <1>0, <2>1 DEF Overflows
<1>8. entry.turn = view.turn /\ entry.ui = IsUi(action)
  BY <1>0
<1> HIDE DEF left, full, passed, used, free, extra
<1>9. full \in Int /\ 0 <= full /\ full <= Capacity /\ full <= budget.tokens + Refill * passed
  BY <1>0, <1>1, <1>4, <1>5
<1>10. left.tokens \in Int /\ 0 <= left.tokens /\ left.tokens <= full /\ full - PerToken * used <= left.tokens
       /\ left.tokens + PerToken * extra <= full
  <2>1. CASE IsUi(action)
    <3>1. PerToken * used = PerToken
      BY <1>0, <1>1, <2>1 DEF used
    <3>2. free => full >= PerToken
      BY <1>0, <1>1, <1>7, <1>9, <2>1 DEF free
    <3>3. PerToken * extra = IF free THEN PerToken ELSE 0
      BY <1>0, <1>1 DEF extra
    <3> QED BY <1>0, <1>1, <1>6, <1>9, <2>1, <3>1, <3>2, <3>3
  <2>2. CASE ~ IsUi(action)
    <3>1. PerToken * used = 0 /\ PerToken * extra = 0
      BY <1>0, <1>1, <2>2 DEF used, extra, free
    <3> QED BY <1>0, <1>1, <1>6, <1>9, <2>2, <3>1
  <2> QED BY <1>0, <2>1, <2>2
<1>11. ASSUME NEW i \in 2..n
       PROVE  /\ Allowance(log, i, n) \in Int
              /\ Allowance(grown, i, l) = Allowance(log, i, n) + Refill * passed
              /\ Cardinality(FreeOnes(log, i, n)) \in Nat
              /\ Cardinality(Interactions(log, i, n)) \in Nat
              /\ Cardinality(FreeOnes(grown, i, l)) = Cardinality(FreeOnes(log, i, n)) + extra
              /\ Cardinality(Interactions(grown, i, l)) = Cardinality(Interactions(log, i, n)) + used
  <2>1. i \in Nat /\ i \in 1..n /\ log[i].turn \in Nat /\ grown[i] = log[i]
    BY <1>0, <1>2
  <2>2. Allowance(grown, i, l) = Allowance(log, i, n) + Refill * passed /\ Allowance(log, i, n) \in Int
    <3>1. view.turn - log[i].turn = (log[n].turn - log[i].turn) + passed
      BY <1>3, <2>1 DEF passed
    <3>2. log[n].turn - log[i].turn \in Int
      BY <1>0, <1>3, <2>1
    <3>3. /\ Refill * ((log[n].turn - log[i].turn) + passed)
                = Refill * (log[n].turn - log[i].turn) + Refill * passed
          /\ Refill * (log[n].turn - log[i].turn) \in Int
      BY <1>0, <1>1, <1>3, <3>2, Products
    <3> DEFINE before == Refill * (log[n].turn - log[i].turn)
               after == Refill * (view.turn - log[i].turn)
    <3>4. after = before + Refill * passed /\ before \in Int
      BY <1>0, <3>1, <3>3
    <3> HIDE DEF before, after
    <3>5. Allowance(log, i, n) = Capacity + before
      BY DEF Allowance, before
    <3>6. Allowance(grown, i, l) = Capacity + after
      BY <1>0, <1>3, <1>8, <2>1 DEF Allowance, after
    <3> QED BY <1>0, <1>1, <1>5, <3>4, <3>5, <3>6
  <2>3. \A k \in i..l : k = l \/ (k \in i..n /\ k \in 1..n /\ k - 1 \in 1..n)
    BY <1>0, <2>1
  <2>4. \A k \in i..n : k \in i..l /\ k # l /\ k \in 1..n /\ k - 1 \in 1..n
    BY <1>0, <2>1
  <2>5. l \in i..l /\ l - 1 = n
    BY <1>0, <2>1
  <2>6. Interactions(grown, i, l) = IF IsUi(action) THEN Interactions(log, i, n) \union {l}
                                    ELSE Interactions(log, i, n)
    <3>1. ASSUME NEW k \in i..n PROVE grown[k].ui = log[k].ui
      BY <1>0, <1>2, <2>4
    <3> QED BY <1>0, <1>3, <1>8, <2>3, <2>4, <2>5, <3>1 DEF Interactions
  <2>7. FreeOnes(grown, i, l) = IF free THEN FreeOnes(log, i, n) \union {l} ELSE FreeOnes(log, i, n)
    <3>1. \A k \in i..n : grown[k] = log[k] /\ grown[k - 1] = log[k - 1]
      BY <1>0, <1>2, <2>4
    <3>2. grown[l].turn = grown[l - 1].turn <=> passed = 0
      <4>1. grown[l - 1] = log[n] /\ grown[l].turn = view.turn
        BY <1>0, <1>2, <1>3, <1>8, <2>5
      <4> QED BY <1>0, <1>3, <4>1 DEF passed
    <3>3. (grown[l].ui /\ ~ grown[l].charged /\ grown[l].turn = grown[l - 1].turn) <=> free
      BY <1>0, <1>3, <1>8, <3>2 DEF free
    <3> QED BY <1>0, <2>3, <2>4, <2>5, <3>1, <3>3 DEF FreeOnes
  <2>8. Interactions(log, i, n) \subseteq i..n /\ FreeOnes(log, i, n) \subseteq i..n
    BY DEF Interactions, FreeOnes
  <2>10. /\ Cardinality(Interactions(log, i, n)) \in Nat
         /\ Cardinality(Interactions(log, i, n) \union {l}) = Cardinality(Interactions(log, i, n)) + 1
    <3>1. i \in Nat /\ n \in Nat /\ l \in Nat /\ l > n
      BY <1>0, <2>1
    <3> QED BY <2>8, <3>1, OneMore
  <2>11. /\ Cardinality(FreeOnes(log, i, n)) \in Nat
         /\ Cardinality(FreeOnes(log, i, n) \union {l}) = Cardinality(FreeOnes(log, i, n)) + 1
    <3>1. i \in Nat /\ n \in Nat /\ l \in Nat /\ l > n
      BY <1>0, <2>1
    <3> QED BY <2>8, <3>1, OneMore
  <2>12. Cardinality(Interactions(grown, i, l)) = Cardinality(Interactions(log, i, n)) + used
    BY <1>0, <2>6, <2>10 DEF used
  <2>13. Cardinality(FreeOnes(grown, i, l)) = Cardinality(FreeOnes(log, i, n)) + extra
    BY <1>0, <2>7, <2>11 DEF extra
  <2> QED BY <1>0, <2>2, <2>10, <2>11, <2>12, <2>13
\* The stretch of the new step alone.
<1>12. /\ Allowance(grown, l, l) = Capacity
       /\ Cardinality(FreeOnes(grown, l, l)) = extra
       /\ Cardinality(Interactions(grown, l, l)) = used
  <2>1. Allowance(grown, l, l) = Capacity
    <3>1. grown[l].turn - grown[l].turn = 0
      BY <1>0, <1>3, <1>8
    <3> QED BY <1>0, <1>1, <3>1 DEF Allowance
  <2>2. l..l = {l} /\ l - 1 = n
    BY <1>0
  <2>3. Cardinality({l}) = 1 /\ Cardinality({}) = 0
    BY <1>0, FS_Singleton, FS_EmptySet
  <2>4. Interactions(grown, l, l) = IF IsUi(action) THEN {l} ELSE {}
    BY <1>0, <1>3, <1>8, <2>2 DEF Interactions
  <2>5. FreeOnes(grown, l, l) = IF free THEN {l} ELSE {}
    <3>1. grown[l].turn = grown[l - 1].turn <=> passed = 0
      <4>1. grown[l - 1] = log[n] /\ grown[l].turn = view.turn
        BY <1>0, <1>2, <1>3, <1>8, <2>2
      <4> QED BY <1>0, <1>3, <4>1 DEF passed
    <3>2. (grown[l].ui /\ ~ grown[l].charged /\ grown[l].turn = grown[l - 1].turn) <=> free
      BY <1>0, <1>3, <1>8, <3>1 DEF free
    <3> QED BY <1>0, <2>2, <3>2 DEF FreeOnes
  <2> QED BY <1>0, <2>1, <2>3, <2>4, <2>5 DEF used, extra
<1>13. ASSUME NEW i \in 2..l
       PROVE  /\ PerToken * Cardinality(FreeOnes(grown, i, l)) + left.tokens <= Allowance(grown, i, l)
              /\ PerToken * Cardinality(FreeOnes(grown, i, l)) <= Allowance(grown, i, l)
  <2>0. extra \in Int /\ PerToken * extra \in Int
    BY <1>0, <1>1 DEF extra
  <2>1. CASE i = l
    BY <1>0, <1>1, <1>9, <1>10, <1>12, <2>0, <2>1
  <2>2. CASE i # l
    <3>1. i \in 2..n
      BY <1>0, <2>2
    <3> DEFINE c == Cardinality(FreeOnes(log, i, n))
    <3>2. PerToken * c + budget.tokens <= Allowance(log, i, n)
      BY <1>0, <1>30, <3>1 DEF BucketOf
    <3>3. c \in Nat /\ Cardinality(FreeOnes(grown, i, l)) = c + extra /\ Allowance(log, i, n) \in Int
          /\ Allowance(grown, i, l) = Allowance(log, i, n) + Refill * passed
      BY <1>0, <1>11, <3>1
    <3> HIDE DEF c
    <3>4. PerToken * (c + extra) = PerToken * c + PerToken * extra /\ PerToken * c \in Int
      BY <1>0, <1>1, <2>0, <3>3, Products
    <3> DEFINE pc0 == PerToken * c
               pe == PerToken * extra
               rp == Refill * passed
    <3>5. /\ pc0 \in Int /\ pe \in Int /\ rp \in Int
          /\ pc0 + budget.tokens <= Allowance(log, i, n)
          /\ PerToken * Cardinality(FreeOnes(grown, i, l)) = pc0 + pe
          /\ left.tokens + pe <= budget.tokens + rp
          /\ Allowance(grown, i, l) = Allowance(log, i, n) + rp
      BY <1>4, <1>5, <1>9, <1>10, <2>0, <3>2, <3>3, <3>4
    <3> HIDE DEF pc0, pe, rp
    <3> QED BY <1>4, <1>10, <3>3, <3>5
  <2> QED BY <1>0, <2>1, <2>2
\* The stretch since the budget was last full, before the step is paid for.
<1>14. \E i \in 2..l :
         /\ Allowance(grown, i, l) \in Int /\ Cardinality(Interactions(grown, i, l)) \in Nat
         /\ Allowance(grown, i, l) - PerToken * Cardinality(Interactions(grown, i, l))
              <= full - PerToken * used
  <2>0. used \in Nat /\ PerToken * used \in Int
    BY <1>0, <1>1 DEF used
  <2>1. CASE full = Capacity
    <3>1. l \in 2..l
      BY <1>0
    <3>2. /\ Allowance(grown, l, l) \in Int /\ Cardinality(Interactions(grown, l, l)) \in Nat
          /\ Allowance(grown, l, l) - PerToken * Cardinality(Interactions(grown, l, l))
               <= full - PerToken * used
      BY <1>0, <1>1, <1>12, <2>0, <2>1
    <3> QED BY <1>0, <3>1, <3>2
  <2>2. CASE full # Capacity
    <3>1. full = budget.tokens + Refill * passed /\ n # 1
      <4>1. full = budget.tokens + Refill * passed /\ full < Capacity
        BY <1>0, <1>1, <1>4, <1>5, <2>2
      <4>2. budget.tokens # Capacity
        BY <1>0, <1>1, <1>4, <1>5, <4>1
      <4> QED BY <1>0, <1>30, <4>1, <4>2 DEF BucketOf
    <3>2. PICK i \in 2..n :
            Allowance(log, i, n) - PerToken * Cardinality(Interactions(log, i, n)) <= budget.tokens
      BY <1>0, <1>30, <3>1 DEF BucketOf
    <3> DEFINE c == Cardinality(Interactions(log, i, n))
    <3>3. c \in Nat /\ Cardinality(Interactions(grown, i, l)) = c + used /\ Allowance(log, i, n) \in Int
          /\ Allowance(grown, i, l) = Allowance(log, i, n) + Refill * passed
      BY <1>0, <1>11
    <3>4. Allowance(log, i, n) - PerToken * c <= budget.tokens
      BY <1>0, <3>2
    <3> HIDE DEF c
    <3>5. PerToken * (c + used) = PerToken * c + PerToken * used /\ PerToken * c \in Int
      BY <1>0, <1>1, <2>0, <3>3, Products
    <3> DEFINE pc0 == PerToken * c
               pu == PerToken * used
               rp == Refill * passed
    <3>6. /\ pc0 \in Int /\ pu \in Int /\ rp \in Int /\ full = budget.tokens + rp
          /\ Allowance(log, i, n) - pc0 <= budget.tokens
          /\ PerToken * Cardinality(Interactions(grown, i, l)) = pc0 + pu
          /\ Allowance(grown, i, l) = Allowance(log, i, n) + rp
      BY <1>0, <1>5, <2>0, <3>1, <3>3, <3>4, <3>5
    <3> HIDE DEF pc0, pu, rp
    <3>7. /\ Allowance(grown, i, l) \in Int /\ Cardinality(Interactions(grown, i, l)) \in Nat
          /\ Allowance(grown, i, l) - PerToken * Cardinality(Interactions(grown, i, l)) <= full - pu
      <4>1. Cardinality(Interactions(grown, i, l)) \in Nat
        BY <2>0, <3>3
      <4>2. Allowance(grown, i, l) \in Int
        BY <3>3, <3>6
      <4>3. Allowance(log, i, n) + rp - (pc0 + pu) <= budget.tokens + rp - pu
        BY <1>4, <3>3, <3>6
      <4> DEFINE paid0 == PerToken * Cardinality(Interactions(grown, i, l))
      <4>4. paid0 = pc0 + pu
        BY <3>6
      <4> HIDE DEF paid0
      <4>5. Allowance(grown, i, l) - paid0 <= full - pu
        <5>1. Allowance(log, i, n) \in Int /\ pc0 \in Int /\ pu \in Int /\ rp \in Int
          BY <3>3, <3>6
        <5>2. Allowance(grown, i, l) = Allowance(log, i, n) + rp /\ full = budget.tokens + rp
          BY <3>6
        <5> QED BY <1>4, <4>3, <4>4, <5>1, <5>2
      <4> QED BY <4>1, <4>2, <4>5 DEF paid0
    <3>8. i \in 2..l
      BY <1>0
    <3> QED BY <3>7, <3>8 DEF pu
  <2> QED BY <1>0, <2>1, <2>2
<1>15. PICK i \in 2..l :
         /\ Allowance(grown, i, l) \in Int /\ Cardinality(Interactions(grown, i, l)) \in Nat
         /\ Allowance(grown, i, l) - PerToken * Cardinality(Interactions(grown, i, l))
              <= full - PerToken * used
  BY <1>0, <1>14
<1> DEFINE spent == PerToken * Cardinality(Interactions(grown, i, l))
<1>16. spent \in Int /\ PerToken * used \in Int
  BY <1>0, <1>1, <1>15 DEF used
<1>17. BucketOf(left, grown, l)
  <2>1. left.turn = grown[l].turn /\ left.tokens <= Capacity /\ l # 1
    BY <1>0, <1>1, <1>3, <1>6, <1>8, <1>9, <1>10
  <2>2. Allowance(grown, i, l) - spent <= left.tokens
    <3> HIDE DEF spent
    <3>1. Allowance(grown, i, l) - spent <= full - PerToken * used
      BY <1>0, <1>15 DEF spent
    <3> QED BY <1>0, <1>9, <1>10, <1>15, <1>16, <3>1
  <2> QED BY <1>0, <1>10, <1>13, <2>1, <2>2 DEF BucketOf
<1>18. BurstsAt(grown, l)
  <2>1. ASSUME grown[l].charged
        PROVE  /\ grown[l].turn = grown[l - 1].turn
               /\ spent > Allowance(grown, i, l)
    <3>1. IsUi(action) /\ full < PerToken /\ passed = 0
      BY <1>0, <1>3, <1>7, <2>1
    <3>2. l - 1 = n /\ grown[n] = log[n]
      BY <1>0, <1>2
    <3>3. grown[l].turn = grown[l - 1].turn
      BY <1>0, <1>3, <1>8, <3>1, <3>2 DEF passed
    <3>4. PerToken * used = PerToken
      BY <1>0, <1>1, <3>1 DEF used
    <3>5. spent > Allowance(grown, i, l)
      <4>1. Allowance(grown, i, l) - spent <= full - PerToken
        BY <1>0, <1>15, <3>4
      <4> HIDE DEF spent
      <4> QED BY <1>0, <1>1, <1>9, <1>15, <1>16, <3>1, <4>1
    <3> QED BY <1>0, <3>3, <3>5
  <2> QED BY <1>0, <1>13, <2>1 DEF BurstsAt
<1> QED BY <1>0, <1>17, <1>18 DEF grown, left, n, l

LEMMA BurstsNext ==
  ASSUME RolloutInv, [Next]_vars
  PROVE  Budgeted' /\ Charged'
<1>1. ASSUME UNCHANGED <<worker, game>> PROVE Budgeted' /\ Charged'
  BY <1>1 DEF RolloutInv, Budgeted, Charged, Begun
<1>2. CASE ResetFacts
  <2>1. /\ Len(game'.log) = 1 /\ game'.log[1].turn = game'.view.turn
        /\ worker'.budget = FullBudget(game'.view)
    BY <1>2 DEF ResetFacts
  <2>2. Capacity \in Nat
    BY CostAssumption
  <2>3. worker'.budget.tokens = Capacity /\ worker'.budget.turn = game'.log[1].turn
    BY <2>1 DEF FullBudget
  <2>4. 2..1 = {}
    OBVIOUS
  <2>5. BucketOf(worker'.budget, game'.log, 1)
    BY <2>2, <2>3, <2>4 DEF BucketOf
  <2>6. \A j \in 2..Len(game'.log) : BurstsAt(game'.log, j)
    BY <2>1
  <2>7. Budgeted'
    BY <2>1, <2>5 DEF Budgeted
  <2>8. Charged'
    BY <2>6 DEF Charged
  <2> QED BY <2>7, <2>8
<1>3. CASE ActFacts
  <2> DEFINE n == Len(game.log)
             entry == game'.log[n + 1]
  <2>1. /\ pc = "sampled" /\ game'.log = Append(game.log, entry)
        /\ entry = [place |-> game'.view.place, turn |-> game'.view.turn, ui |-> IsUi(step'.action),
                    charged |-> step'.overflow]
        /\ worker'.budget = Spent(worker.budget, step'.action, game'.view)
        /\ step'.overflow = Overflows(worker.budget, step'.action, game'.view)
        /\ game' \in Games /\ step' \in Steps /\ game'.view.turn >= game.view.turn
    BY <1>3 DEF ActFacts
  <2>2. Begun
    BY <2>1 DEF RolloutInv, ReadyIsLive, WorkerIsLive
  <2>3. game.log \in Seq(Entries) /\ worker.budget \in [tokens : Int, turn : Nat]
    BY <2>2 DEF RolloutInv, Types, Games, Workers
  <2>4. game'.view \in Views /\ step'.action \in Actions /\ game'.log \in Seq(Entries)
    BY <2>1 DEF Games, Steps
  <2>5. n \in Nat /\ Len(game.log) >= 1 /\ BucketOf(worker.budget, game.log, Len(game.log))
        /\ game'.view.turn >= game.log[Len(game.log)].turn
    BY <2>1, <2>2, <2>3 DEF RolloutInv, Remembers, Budgeted
  <2>6. Len(game'.log) = n + 1
    <3>1. Len(Append(game.log, entry)) = n + 1
      BY <2>3
    <3> QED BY <2>1, <3>1
  <2>7. entry \in Entries
    BY <2>4, <2>5, <2>6
  <2>8. /\ entry.turn = game'.view.turn /\ entry.ui = IsUi(step'.action)
        /\ entry.charged = Overflows(worker.budget, step'.action, game'.view)
    BY <2>1
  <2> HIDE DEF entry
  <2>9. /\ BucketOf(Spent(worker.budget, step'.action, game'.view), Append(game.log, entry), n + 1)
        /\ BurstsAt(Append(game.log, entry), n + 1)
    BY <2>3, <2>4, <2>5, <2>7, <2>8, BucketGrows
  <2>10. \A j \in 2..n : BurstsAt(Append(game.log, entry), j)
    <3>1. \A j \in 2..n : BurstsAt(game.log, j)
      BY <2>2 DEF RolloutInv, Charged
    <3> QED BY <2>3, <2>7, <3>1, EarlierStay
  <2> HIDE DEF n
  <2>11. \A j \in 2..Len(game'.log) : BurstsAt(game'.log, j)
    <3>1. \A j \in 2..(n + 1) : j \in 2..n \/ j = n + 1
      BY <2>5
    <3> QED BY <2>1, <2>6, <2>9, <2>10, <3>1
  <2>12. Budgeted'
    BY <2>1, <2>6, <2>9 DEF Budgeted
  <2>13. Charged'
    BY <2>11 DEF Charged
  <2> QED BY <2>12, <2>13
<1>4. CASE RowFacts
  BY <1>1, <1>4 DEF RowFacts
<1>5. CASE Samples
  BY <1>1, <1>5 DEF Samples
<1>6. CASE WantsReset
  BY <1>1, <1>6 DEF WantsReset
<1>7. CASE Finishes
  BY <1>1, <1>7 DEF Finishes
<1>8. CASE NextChunk
  BY <1>1, <1>8 DEF NextChunk
<1>9. CASE UNCHANGED vars
  BY <1>1, <1>9 DEF vars
<1> QED BY <1>2, <1>3, <1>4, <1>5, <1>6, <1>7, <1>8, <1>9, StepCases
-------------------------------------------------------------------------------
(* The theorems.                                                              *)

LEMMA InitRolloutInv == Init => RolloutInv
<1> SUFFICES ASSUME Init PROVE RolloutInv
  OBVIOUS
<1>1. Types
  <2>1. worker \in Workers
    <3>1. Capacity \in Nat /\ 0 \in Int /\ 0 \in Nat
      BY CostAssumption
    <3> DEFINE none == <<>>
               zero == 0
               budget == [tokens |-> zero, turn |-> zero]
    <3>2. none \in Seq(Actions) /\ none \in Seq(Places) /\ zero \in Int /\ zero \in Nat
      OBVIOUS
    <3>3. worker = [episode_index |-> zero, observation |-> None, mask |-> None,
                    episode_return |-> zero, history |-> none, recent |-> none, budget |-> budget]
      BY DEF Init
    <3> HIDE DEF none, zero
    <3>4. budget \in [tokens : Int, turn : Nat]
      BY <3>2
    <3> HIDE DEF budget
    <3> QED BY <3>2, <3>3, <3>4 DEF Workers
  <2>2. step_limit \in Nat
    BY RolloutAssumption DEF Init
  <2>3. ~ Begun
    BY DEF Init, Begun
  <2>4. rows \in Seq(Rows) /\ trace \in Seq(Traces)
    BY DEF Init
  <2> QED BY <2>1, <2>2, <2>3, <2>4 DEF Types, Init
<1>2. ~ Begun
  BY DEF Init, Begun
<1>3. WorkerIsLive /\ ReadyIsLive /\ StepIsLive /\ InputIsLive
  BY DEF Init, WorkerIsLive, ReadyIsLive, StepIsLive, InputIsLive
<1>4. RowsMatch /\ Accounts
  <2>1. DOMAIN <<>> = {} /\ Len(<<>>) = 0
    OBVIOUS
  <2> QED BY <2>1 DEF Init, RowsMatch, RowsAreTransitions, Accounts
<1>5. Remembers /\ CyclesAreRecurrences /\ Budgeted /\ Charged
  BY <1>2 DEF Init, Remembers, CyclesAreRecurrences, Budgeted, Charged
<1> QED BY <1>1, <1>3, <1>4, <1>5 DEF RolloutInv

LEMMA RolloutNext == RolloutInv /\ [Next]_vars => RolloutInv'
<1> QED BY TypesNext, LiveNext, ReadyNext, InputNext, RowsNext, AccountsNext, RecentNext, BurstsNext
        DEF RolloutInv

LEMMA RolloutInvariant == Spec => []RolloutInv
<1> QED BY InitRolloutInv, RolloutNext, PTL DEF Spec

\* "It is reset per game": over any chunks, episodes and resets, the model is asked
\* about what the game shows, with the latest actions this very game was sent.
THEOREM InputSound == Spec => []InputIsLive
<1>1. RolloutInv => InputIsLive
  BY DEF RolloutInv
<1> QED BY RolloutInvariant, <1>1, PTL

\* What a chunk's rows say of a step is what the game did in it, a death or a limit
\* that a reset follows included.
THEOREM RowsSound == Spec => []RowsAreTransitions
<1>1. RolloutInv => RowsAreTransitions
  BY DEF RolloutInv, RowsMatch
<1> QED BY RolloutInvariant, <1>1, PTL

\* What is reported of an episode is what its game paid, over the chunks it spans and
\* without training's costs.
THEOREM ReportsSound == Spec => []ReportedIsPaid
<1>1. RolloutInv => ReportedIsPaid
  BY DEF RolloutInv, ReportedIsPaid, Accounts, WorkerIsLive
<1> QED BY RolloutInvariant, <1>1, PTL

\* For any bucket and any pace of the turns: free interactions are within what any
\* stretch allows, and a charged one exceeds what some stretch does.
THEOREM BurstsSound == Spec => []OnlyBurstsCharged
<1>1. RolloutInv => OnlyBurstsCharged
  <2>1. RolloutInv /\ game # None => \A j \in 2..Len(game.log) : BurstsAt(game.log, j)
    BY DEF RolloutInv, Types, Charged
  <2> QED BY <2>1 DEF OnlyBurstsCharged, BurstsAt, FreeOnes, Interactions, Allowance
<1> QED BY RolloutInvariant, <1>1, PTL

\* For any window: a step is charged for a cycle exactly when its own game has shown
\* the place within the window.
THEOREM CyclesSound == Spec => []CyclesAreRecurrences
<1>1. RolloutInv => CyclesAreRecurrences
  BY DEF RolloutInv
<1> QED BY RolloutInvariant, <1>1, PTL
-------------------------------------------------------------------------------
(* The recording of a worker, and what the comparison reads of it.            *)

Transitions == [update : Nat, step : Nat, action : Actions, observation : Views,
                terminated : BOOLEAN, truncated : BOOLEAN, outcome : Outcomes, reward : Int]
Files == [attempts : Nat, initial : Views, records : Seq(Transitions)]

\* The steps of the first update, so far, and the file of the second update's record.
FirstSteps == IF chunk > 1 THEN first ELSE trace
Kept == chunk = 1 \/ recorded # <<>>
SecondIn == IF chunk > 1 /\ pc \in {"acted", "resetting"} THEN trace[Len(trace)].episode ELSE 0

RecordTypes == recorded \in Seq(Files) /\ first \in Seq(Traces)

\* How far the chunk is, and that the recording stops being kept with the second
\* chunk's first row.
Phases ==
  /\ chunk \in Nat \ {0}
  /\ pc \in {"ready", "sampled", "acted", "resetting"} => Len(rows) < RolloutLength
  /\ pc \in {"ending", "collected"} => Len(rows) = RolloutLength
  /\ chunk > 1 /\ recorded # <<>> =>
       /\ chunk = 2 /\ rows = <<>> /\ Len(first) = RolloutLength
       /\ pc \in {"ready", "sampled", "acted", "resetting"}

\* What a file's i-th record was taken from.
ShownBefore(file, i) == IF i = 1 THEN file.initial ELSE file.records[i - 1].observation

\* A record of the first update is the trace's step t.
IsStep(file, number, i, t) ==
  LET r == file.records[i] IN
  /\ r.update = 1 /\ r.step = i - 1
  /\ t.episode = number /\ Len(t.played) = i
  /\ t.before = ShownBefore(file, i) /\ t.after = r.observation /\ t.action = r.action
  /\ t.reward = r.reward /\ t.outcome = r.outcome /\ t.limit = r.truncated
  /\ r.terminated = (r.outcome # None)

Complete(file) == file.records # <<>> /\ Ended(file.records[Len(file.records)])

\* A file's records are the steps from one point of the first update to another, and
\* possibly one of the second update; none follows an end.
BlockOf(file, n, from, to, done, second) ==
  LET k == to - from IN
  /\ Len(file.records) = k + (IF n = second THEN 1 ELSE 0)
  /\ \A i \in 1..k : IsStep(file, n, i, done[from + i])
  /\ n = second => file.records[k + 1].update = 2
  /\ \A i \in 1..Len(file.records) - 1 : ~ Ended(file.records[i])

\* The files' records are the steps of the first update one after another: file n's end
\* at ofs[n].
Blocks(files, done, second, ofs) ==
  /\ ofs \in [0..Len(files) -> Nat] /\ second \in 0..Len(files)
  /\ ofs[0] = 0 /\ ofs[Len(files)] = Len(done)
  /\ \A a, b \in 0..Len(files) : a <= b => ofs[a] <= ofs[b]
  /\ second # 0 => ofs[second] = Len(done)
  /\ \A n \in 1..Len(files) :
       /\ BlockOf(files[n], n, ofs[n - 1], ofs[n], done, second)
       /\ n < Len(files) => Complete(files[n])
  /\ \A k \in 1..Len(done) :
       LET n == done[k].episode IN
       n \in 1..Len(files) /\ ofs[n - 1] < k /\ k <= ofs[n]

\* The last file is the game that is played.
LastFile ==
  LET file == recorded[Len(recorded)]
      n == Len(file.records) IN
  /\ worker.observation = None => recorded = <<>> \/ Complete(file)
  /\ worker.observation # None =>
       /\ n = Len(game.played)
       /\ n = 0 \/ ~ Ended(file.records[n])
       /\ ShownBefore(file, n + 1) = game.view

Recording ==
  Kept =>
    /\ Len(recorded) = worker.episode_index
    /\ \E ofs : Blocks(recorded, FirstSteps, SecondIn, ofs)
    /\ LastFile

RecordInv == RecordTypes /\ Phases /\ Recording
-------------------------------------------------------------------------------
Grown(files, r) == [files EXCEPT ![Len(files)].records = Append(@, r)]

LEMMA GrownIs ==
  ASSUME NEW files \in Seq(Files), files # <<>>, NEW r \in Transitions
  PROVE  LET N == Len(files) IN
         /\ N \in Nat \ {0}
         /\ Grown(files, r) \in Seq(Files) /\ Len(Grown(files, r)) = N
         /\ \A n \in 1..N : n # N => Grown(files, r)[n] = files[n]
         /\ Grown(files, r)[N].records = Append(files[N].records, r)
         /\ Grown(files, r)[N].initial = files[N].initial
<1> DEFINE N == Len(files)
           file == [files[N] EXCEPT !.records = Append(@, r)]
<1>1. N \in Nat \ {0} /\ files[N] \in Files
  OBVIOUS
<1>2. Grown(files, r) = [files EXCEPT ![N] = file]
  BY <1>1 DEF Grown
<1>3. /\ file \in Files /\ file.records = Append(files[N].records, r)
      /\ file.initial = files[N].initial
  <2> DEFINE more == Append(files[N].records, r)
  <2>1. files[N].records \in Seq(Transitions) /\ more \in Seq(Transitions)
    BY <1>1 DEF Files
  <2>2. file = [files[N] EXCEPT !.records = more]
    OBVIOUS
  <2> HIDE DEF more, file
  <2>3. file \in Files /\ file.records = more /\ file.initial = files[N].initial
    BY <1>1, <2>1, <2>2 DEF Files
  <2> QED BY <2>3 DEF more
<1> HIDE DEF file
<1> QED BY <1>1, <1>2, <1>3

\* A new file.
LEMMA BlocksStart ==
  ASSUME NEW files \in Seq(Files), NEW done \in Seq(Traces), NEW second, NEW ofs,
         Blocks(files, done, second, ofs),
         files = <<>> \/ Complete(files[Len(files)]),
         NEW file \in Files, file.records = <<>>
  PROVE  \E o : Blocks(Append(files, file), done, second, o)
<1> DEFINE N == Len(files)
           more == Append(files, file)
           o == [n \in 0..(N + 1) |-> IF n = N + 1 THEN Len(done) ELSE ofs[n]]
<1>1. N \in Nat /\ Len(done) \in Nat /\ Len(more) = N + 1 /\ more[N + 1] = file
      /\ \A n \in 1..N : more[n] = files[n]
  OBVIOUS
<1>2. /\ ofs \in [0..N -> Nat] /\ second \in 0..N
      /\ ofs[0] = 0 /\ ofs[N] = Len(done)
      /\ \A a, b \in 0..N : a <= b => ofs[a] <= ofs[b]
      /\ second # 0 => ofs[second] = Len(done)
      /\ \A n \in 1..N :
           /\ BlockOf(files[n], n, ofs[n - 1], ofs[n], done, second)
           /\ n < N => Complete(files[n])
      /\ \A k \in 1..Len(done) :
           LET n == done[k].episode IN
           n \in 1..N /\ ofs[n - 1] < k /\ k <= ofs[n]
  BY DEF Blocks
<1>3. o \in [0..(N + 1) -> Nat] /\ o[N + 1] = Len(done) /\ \A n \in 0..N : o[n] = ofs[n]
  BY <1>1, <1>2
<1> HIDE DEF more, o
<1>4. ASSUME NEW a \in 0..(N + 1), NEW b \in 0..(N + 1), a <= b PROVE o[a] <= o[b]
  <2>1. CASE b = N + 1
    <3>1. CASE a = N + 1
      BY <1>1, <1>3, <2>1, <3>1
    <3>2. CASE a # N + 1
      <4>1. a \in 0..N /\ N \in 0..N /\ a <= N
        BY <1>1, <3>2
      <4>2. ofs[a] <= ofs[N]
        BY <1>2, <4>1
      <4> QED BY <1>2, <1>3, <2>1, <4>1, <4>2
    <3> QED BY <3>1, <3>2
  <2>2. CASE b # N + 1
    <3>1. a \in 0..N /\ b \in 0..N
      BY <1>1, <1>4, <2>2
    <3> QED BY <1>2, <1>3, <1>4, <3>1
  <2> QED BY <2>1, <2>2
<1>5. ASSUME NEW n \in 1..(N + 1)
      PROVE  /\ BlockOf(more[n], n, o[n - 1], o[n], done, second)
             /\ n < N + 1 => Complete(more[n])
  <2>1. CASE n = N + 1
    <3>1. o[n - 1] = Len(done) /\ o[n] = Len(done) /\ more[n] = file /\ n # second
      BY <1>1, <1>2, <1>3, <2>1
    <3>2. BlockOf(file, n, Len(done), Len(done), done, second)
      BY <1>1, <3>1 DEF BlockOf
    <3> QED BY <2>1, <3>1, <3>2
  <2>2. CASE n # N + 1
    <3>1. n \in 1..N /\ n - 1 \in 0..N /\ n \in 0..N
      BY <1>1, <2>2
    <3>2. o[n - 1] = ofs[n - 1] /\ o[n] = ofs[n] /\ more[n] = files[n]
      BY <1>1, <1>3, <3>1
    <3>3. Complete(files[n])
      BY <1>1, <1>2, <3>1
    <3> QED BY <1>2, <3>1, <3>2, <3>3
  <2> QED BY <2>1, <2>2
<1>6. ASSUME NEW k \in 1..Len(done)
      PROVE  LET n == done[k].episode IN
             n \in 1..(N + 1) /\ o[n - 1] < k /\ k <= o[n]
  <2> DEFINE n == done[k].episode
  <2>1. n \in 1..N /\ ofs[n - 1] < k /\ k <= ofs[n]
    BY <1>2
  <2> HIDE DEF n
  <2>2. n - 1 \in 0..N /\ n \in 0..N /\ n \in 1..(N + 1)
    BY <1>1, <2>1
  <2>3. o[n - 1] = ofs[n - 1] /\ o[n] = ofs[n]
    BY <1>3, <2>2
  <2>4. n \in 1..(N + 1) /\ o[n - 1] < k /\ k <= o[n]
    BY <2>1, <2>2, <2>3
  <2> QED BY <2>4 DEF n
<1>7. second # 0 => o[second] = Len(done)
  BY <1>2, <1>3
<1>8. second \in 0..(N + 1) /\ o[0] = 0
  BY <1>1, <1>2, <1>3
<1> HIDE DEF N
<1>9. Blocks(more, done, second, o)
  BY <1>1, <1>3, <1>4, <1>5, <1>6, <1>7, <1>8 DEF Blocks
<1> QED BY <1>9 DEF more

\* Another step of the game that is played, in the first update.
LEMMA BlocksStep ==
  ASSUME NEW files \in Seq(Files), NEW done \in Seq(Traces), NEW ofs, files # <<>>,
         Blocks(files, done, 0, ofs),
         LET file == files[Len(files)] IN
           file.records = <<>> \/ ~ Ended(file.records[Len(file.records)]),
         NEW r \in Transitions, NEW t \in Traces,
         LET file == Grown(files, r)[Len(files)] IN IsStep(file, Len(files), Len(file.records), t)
  PROVE  \E o : Blocks(Grown(files, r), Append(done, t), 0, o)
<1> DEFINE N == Len(files)
           L == Len(done)
           file == files[N]
           grown == Grown(files, r)
           last == grown[N]
           more == Append(done, t)
           o == [n \in 0..N |-> IF n = N THEN L + 1 ELSE ofs[n]]
<1>1. /\ N \in Nat \ {0} /\ grown \in Seq(Files) /\ Len(grown) = N
      /\ \A n \in 1..N : n # N => grown[n] = files[n]
      /\ last.records = Append(file.records, r) /\ last.initial = file.initial
      /\ file \in Files
  BY GrownIs
<1>2. L \in Nat /\ Len(more) = L + 1 /\ more[L + 1] = t /\ \A k \in 1..L : more[k] = done[k]
  OBVIOUS
<1>3. /\ ofs \in [0..N -> Nat]
      /\ ofs[0] = 0 /\ ofs[N] = L
      /\ \A a, b \in 0..N : a <= b => ofs[a] <= ofs[b]
      /\ \A n \in 1..N :
           /\ BlockOf(files[n], n, ofs[n - 1], ofs[n], done, 0)
           /\ n < N => Complete(files[n])
      /\ \A k \in 1..L :
           LET n == done[k].episode IN
           n \in 1..N /\ ofs[n - 1] < k /\ k <= ofs[n]
  BY DEF Blocks
<1>4. o \in [0..N -> Nat] /\ o[N] = L + 1 /\ \A n \in 0..N : n # N => o[n] = ofs[n]
  BY <1>1, <1>2, <1>3
<1>5. IsStep(last, N, Len(last.records), t)
  OBVIOUS
<1>6. file.records = <<>> \/ ~ Ended(file.records[Len(file.records)])
  OBVIOUS
<1>7. file.records \in Seq(Transitions) /\ Len(file.records) \in Nat
  BY <1>1 DEF Files
<1>17. t.episode = N
  BY <1>5 DEF IsStep
<1> HIDE DEF file, grown, last, more, o, L, N
<1>8. Len(last.records) = Len(file.records) + 1 /\ last.records[Len(file.records) + 1] = r
      /\ \A i \in 1..Len(file.records) : last.records[i] = file.records[i]
  BY <1>1, <1>7
<1>9. ASSUME NEW a \in 0..N, NEW b \in 0..N, a <= b PROVE o[a] <= o[b]
  <2>1. N \in 0..N
    BY <1>1
  <2>2. CASE b = N
    <3>1. CASE a = N
      BY <1>2, <1>4, <2>2, <3>1
    <3>2. CASE a # N
      <4>1. ofs[a] <= L /\ ofs[a] \in Nat
        BY <1>1, <1>3, <2>1
      <4> QED BY <1>2, <1>4, <2>2, <3>2, <4>1
    <3> QED BY <3>1, <3>2
  <2>3. CASE b # N
    <3>1. a # N
      BY <1>1, <1>9, <2>3
    <3> QED BY <1>3, <1>4, <1>9, <2>3, <3>1
  <2> QED BY <2>2, <2>3
<1>10. ASSUME NEW n \in 1..N, n # N
       PROVE  /\ BlockOf(grown[n], n, o[n - 1], o[n], more, 0)
              /\ n < N => Complete(grown[n])
  <2>1. n - 1 \in 0..N /\ n \in 0..N /\ n - 1 # N /\ N \in 0..N
    BY <1>1, <1>10
  <2>2. /\ o[n - 1] = ofs[n - 1] /\ o[n] = ofs[n] /\ grown[n] = files[n]
        /\ ofs[n - 1] \in Nat /\ ofs[n] \in Nat /\ ofs[n] <= L
    BY <1>1, <1>3, <1>4, <1>10, <2>1
  <2>3. BlockOf(files[n], n, ofs[n - 1], ofs[n], done, 0)
    BY <1>3
  <2>4. \A i \in 1..(ofs[n] - ofs[n - 1]) : more[ofs[n - 1] + i] = done[ofs[n - 1] + i]
    BY <1>2, <2>2
  <2>5. BlockOf(files[n], n, ofs[n - 1], ofs[n], more, 0)
    BY <2>3, <2>4 DEF BlockOf
  <2> QED BY <1>3, <2>2, <2>5
<1>11. BlockOf(last, N, o[N - 1], o[N], more, 0)
  <2> DEFINE from == ofs[N - 1]
             k == L - from
  <2>1. N - 1 \in 0..N /\ N \in 0..N /\ N - 1 # N /\ N \in 1..N
    BY <1>1
  <2>2. o[N - 1] = from /\ o[N] = L + 1 /\ from \in Nat /\ from <= L
    BY <1>1, <1>3, <1>4, <2>1
  <2>3. BlockOf(file, N, from, L, done, 0)
    BY <1>3, <2>1 DEF file
  <2> HIDE DEF from
  <2>4. /\ k \in Nat /\ Len(file.records) = k
        /\ \A i \in 1..k : IsStep(file, N, i, done[from + i])
        /\ \A i \in 1..k - 1 : ~ Ended(file.records[i])
    BY <1>1, <1>2, <2>2, <2>3 DEF BlockOf
  <2> HIDE DEF k
  <2>5. L = from + k /\ (L + 1) - from = k + 1
    BY <1>2, <2>2 DEF k
  <2>6. ASSUME NEW i \in 1..k PROVE IsStep(last, N, i, more[from + i])
    <3>1. from + i \in 1..L
      BY <2>2, <2>4, <2>5
    <3>2. i - 1 \in Nat /\ (i # 1 => i - 1 \in 1..k)
      BY <2>4
    <3>3. ShownBefore(last, i) = ShownBefore(file, i)
      BY <1>1, <1>8, <2>4, <3>2 DEF ShownBefore
    <3>4. last.records[i] = file.records[i]
      BY <1>8, <2>4
    <3>5. IsStep(file, N, i, more[from + i])
      BY <1>2, <2>4, <3>1
    <3> QED BY <3>3, <3>4, <3>5 DEF IsStep
  <2>7. IsStep(last, N, k + 1, more[from + (k + 1)])
    <3>1. from + (k + 1) = L + 1
      BY <2>2, <2>4, <2>5
    <3> QED BY <1>2, <1>5, <1>8, <2>4, <3>1
  <2>8. ASSUME NEW i \in 1..k + 1 PROVE IsStep(last, N, i, more[from + i])
    <3>1. i = k + 1 \/ i \in 1..k
      BY <2>4
    <3> QED BY <2>6, <2>7, <3>1
  <2>9. ASSUME NEW i \in 1..k PROVE ~ Ended(last.records[i])
    <3>1. last.records[i] = file.records[i]
      BY <1>8, <2>4
    <3>2. CASE i = k
      <4>1. file.records # <<>>
        BY <1>7, <2>4
      <4> QED BY <1>6, <2>4, <3>1, <3>2, <4>1
    <3>3. CASE i # k
      <4>1. i \in 1..k - 1
        BY <2>4, <3>3
      <4> QED BY <2>4, <3>1, <4>1
    <3> QED BY <3>2, <3>3
  <2>10. (k + 1) - 1 = k /\ N # 0
    BY <1>1, <2>4
  <2>11. BlockOf(last, N, from, L + 1, more, 0)
    BY <1>8, <2>4, <2>5, <2>8, <2>9, <2>10 DEF BlockOf
  <2> QED BY <2>2, <2>11
<1>12. ASSUME NEW n \in 1..N
       PROVE  /\ BlockOf(grown[n], n, o[n - 1], o[n], more, 0)
              /\ n < N => Complete(grown[n])
  <2>1. grown[N] = last /\ ~ (N < N)
    BY <1>1 DEF last
  <2>2. CASE n = N
    BY <1>11, <2>1, <2>2
  <2> QED BY <1>10, <2>2
<1>13. ASSUME NEW k \in 1..Len(more)
       PROVE  LET n == more[k].episode IN
              n \in 1..N /\ o[n - 1] < k /\ k <= o[n]
  <2>1. CASE k = L + 1
    <3>1. more[k].episode = N /\ N \in 1..N /\ N - 1 \in 0..N /\ N - 1 # N /\ N \in 0..N
      BY <1>1, <1>2, <1>17, <2>1
    <3>2. o[N - 1] = ofs[N - 1] /\ ofs[N - 1] <= L /\ ofs[N - 1] \in Nat
      BY <1>1, <1>3, <1>4, <3>1
    <3>3. o[N - 1] < k /\ k <= o[N]
      BY <1>2, <1>4, <2>1, <3>2
    <3> QED BY <3>1, <3>3
  <2>2. CASE k # L + 1
    <3> DEFINE n == done[k].episode
    <3>1. k \in 1..L /\ more[k] = done[k]
      BY <1>2, <2>2
    <3>2. n \in 1..N /\ ofs[n - 1] < k /\ k <= ofs[n] /\ more[k].episode = n
      BY <1>3, <3>1
    <3> HIDE DEF n
    <3>3. n - 1 \in 0..N /\ n \in 0..N /\ n - 1 # N
      BY <1>1, <3>2
    <3>4. o[n - 1] = ofs[n - 1] /\ k <= o[n]
      <4>1. CASE n = N
        BY <1>2, <1>4, <3>1, <3>3, <4>1
      <4>2. CASE n # N
        BY <1>4, <3>2, <3>3, <4>2
      <4> QED BY <4>1, <4>2
    <3> QED BY <3>2, <3>4
  <2> QED BY <2>1, <2>2
<1>14. o[0] = 0 /\ 0 \in 0..N /\ o[N] = Len(more)
  BY <1>1, <1>2, <1>3, <1>4
<1>15. Blocks(grown, more, 0, o)
  BY <1>1, <1>4, <1>9, <1>12, <1>13, <1>14 DEF Blocks
<1> QED BY <1>15 DEF grown, more

\* A step of the game that is played, in the second update.
LEMMA BlocksSecond ==
  ASSUME NEW files \in Seq(Files), NEW done \in Seq(Traces), NEW ofs, files # <<>>,
         Blocks(files, done, 0, ofs),
         LET file == files[Len(files)] IN
           file.records = <<>> \/ ~ Ended(file.records[Len(file.records)]),
         NEW r \in Transitions, r.update = 2
  PROVE  Blocks(Grown(files, r), done, Len(files), ofs)
<1> DEFINE N == Len(files)
           L == Len(done)
           file == files[N]
           grown == Grown(files, r)
           last == grown[N]
<1>1. /\ N \in Nat \ {0} /\ grown \in Seq(Files) /\ Len(grown) = N
      /\ \A n \in 1..N : n # N => grown[n] = files[n]
      /\ last.records = Append(file.records, r) /\ last.initial = file.initial
      /\ file \in Files
  BY GrownIs
<1>3. /\ ofs \in [0..N -> Nat]
      /\ ofs[0] = 0 /\ ofs[N] = L
      /\ \A a, b \in 0..N : a <= b => ofs[a] <= ofs[b]
      /\ \A n \in 1..N :
           /\ BlockOf(files[n], n, ofs[n - 1], ofs[n], done, 0)
           /\ n < N => Complete(files[n])
      /\ \A k \in 1..L :
           LET n == done[k].episode IN
           n \in 1..N /\ ofs[n - 1] < k /\ k <= ofs[n]
  BY DEF Blocks
<1>6. L \in Nat /\ (file.records = <<>> \/ ~ Ended(file.records[Len(file.records)]))
  OBVIOUS
<1>7. file.records \in Seq(Transitions) /\ Len(file.records) \in Nat
  BY <1>1 DEF Files
<1> HIDE DEF file, grown, last, L, N
<1>8. Len(last.records) = Len(file.records) + 1 /\ last.records[Len(file.records) + 1] = r
      /\ \A i \in 1..Len(file.records) : last.records[i] = file.records[i]
  BY <1>1, <1>7
<1>10. ASSUME NEW n \in 1..N, n # N
       PROVE  /\ BlockOf(grown[n], n, ofs[n - 1], ofs[n], done, N)
              /\ n < N => Complete(grown[n])
  <2>1. BlockOf(files[n], n, ofs[n - 1], ofs[n], done, N)
    <3>1. BlockOf(files[n], n, ofs[n - 1], ofs[n], done, 0) /\ n # 0
      BY <1>3
    <3> QED BY <1>10, <3>1 DEF BlockOf
  <2> QED BY <1>1, <1>3, <1>10, <2>1
<1>11. BlockOf(last, N, ofs[N - 1], ofs[N], done, N)
  <2> DEFINE from == ofs[N - 1]
             k == L - from
  <2>1. N - 1 \in 0..N /\ N \in 0..N /\ N \in 1..N
    BY <1>1
  <2>2. ofs[N] = L /\ from \in Nat /\ from <= L
    BY <1>1, <1>3, <2>1
  <2>3. BlockOf(file, N, from, L, done, 0)
    BY <1>3, <2>1 DEF file
  <2> HIDE DEF from
  <2>4. /\ k \in Nat /\ Len(file.records) = k
        /\ \A i \in 1..k : IsStep(file, N, i, done[from + i])
        /\ \A i \in 1..k - 1 : ~ Ended(file.records[i])
    BY <1>1, <1>6, <2>2, <2>3 DEF BlockOf
  <2> HIDE DEF k
  <2>5. L - from = k
    BY <2>2 DEF k
  <2>6. ASSUME NEW i \in 1..k PROVE IsStep(last, N, i, done[from + i])
    <3>2. i - 1 \in Nat /\ (i # 1 => i - 1 \in 1..k)
      BY <2>4
    <3>3. ShownBefore(last, i) = ShownBefore(file, i)
      BY <1>1, <1>8, <2>4, <3>2 DEF ShownBefore
    <3>4. last.records[i] = file.records[i]
      BY <1>8, <2>4
    <3> QED BY <2>4, <3>3, <3>4 DEF IsStep
  <2>9. ASSUME NEW i \in 1..k PROVE ~ Ended(last.records[i])
    <3>1. last.records[i] = file.records[i]
      BY <1>8, <2>4
    <3>2. CASE i = k
      <4>1. file.records # <<>>
        BY <1>7, <2>4
      <4> QED BY <1>6, <2>4, <3>1, <3>2, <4>1
    <3>3. CASE i # k
      <4>1. i \in 1..k - 1
        BY <2>4, <3>3
      <4> QED BY <2>4, <3>1, <4>1
    <3> QED BY <3>2, <3>3
  <2>10. (k + 1) - 1 = k
    BY <2>4
  <2>11. BlockOf(last, N, from, L, done, N)
    BY <1>8, <2>4, <2>5, <2>6, <2>9, <2>10 DEF BlockOf
  <2> QED BY <2>2, <2>11 DEF from
<1>12. ASSUME NEW n \in 1..N
       PROVE  /\ BlockOf(grown[n], n, ofs[n - 1], ofs[n], done, N)
              /\ n < N => Complete(grown[n])
  <2>1. grown[N] = last /\ ~ (N < N)
    BY <1>1 DEF last
  <2>2. CASE n = N
    BY <1>11, <2>1, <2>2
  <2> QED BY <1>10, <2>2
<1>14. N \in 0..N
  BY <1>1
<1>15. Blocks(grown, done, N, ofs)
  BY <1>1, <1>3, <1>12, <1>14 DEF Blocks, L
<1> QED BY <1>15 DEF grown, N

\* The steps may be told what came after them.
SameSteps(done, other) ==
  /\ Len(other) = Len(done)
  /\ \A k \in 1..Len(done) :
       /\ other[k].episode = done[k].episode /\ other[k].played = done[k].played
       /\ other[k].reward = done[k].reward
       /\ other[k].before = done[k].before /\ other[k].action = done[k].action
       /\ other[k].after = done[k].after /\ other[k].outcome = done[k].outcome
       /\ other[k].limit = done[k].limit

LEMMA BlocksSame ==
  ASSUME NEW files, NEW done \in Seq(Traces), NEW other, SameSteps(done, other), NEW second, NEW ofs,
         Len(files) \in Nat, Blocks(files, done, second, ofs)
  PROVE  Blocks(files, other, second, ofs)
<1> DEFINE N == Len(files)
<1>1. /\ ofs \in [0..N -> Nat] /\ Len(done) \in Nat /\ Len(other) = Len(done)
      /\ ofs[N] = Len(done)
      /\ \A a, b \in 0..N : a <= b => ofs[a] <= ofs[b]
      /\ \A n \in 1..N :
           /\ BlockOf(files[n], n, ofs[n - 1], ofs[n], done, second)
           /\ n < N => Complete(files[n])
      /\ \A k \in 1..Len(done) :
           LET n == done[k].episode IN
           n \in 1..N /\ ofs[n - 1] < k /\ k <= ofs[n]
  BY DEF Blocks, SameSteps
<1>2. ASSUME NEW n \in 1..N PROVE BlockOf(files[n], n, ofs[n - 1], ofs[n], other, second)
  <2>1. n - 1 \in 0..N /\ n \in 0..N /\ N \in 0..N
    OBVIOUS
  <2>2. ofs[n] <= Len(done) /\ ofs[n - 1] \in Nat /\ ofs[n] \in Nat
    BY <1>1, <2>1
  <2>3. \A i \in 1..(ofs[n] - ofs[n - 1]) : ofs[n - 1] + i \in 1..Len(done)
    BY <1>1, <2>2
  <2>4. BlockOf(files[n], n, ofs[n - 1], ofs[n], done, second)
    BY <1>1
  <2>5. \A i \in 1..(ofs[n] - ofs[n - 1]) : IsStep(files[n], n, i, other[ofs[n - 1] + i])
    <3> TAKE i \in 1..(ofs[n] - ofs[n - 1])
    <3>1. IsStep(files[n], n, i, done[ofs[n - 1] + i])
      BY <2>4 DEF BlockOf
    <3> QED BY <2>3, <3>1 DEF IsStep, SameSteps
  <2> QED BY <2>4, <2>5 DEF BlockOf
<1>3. \A k \in 1..Len(other) :
        LET n == other[k].episode IN
        n \in 1..N /\ ofs[n - 1] < k /\ k <= ofs[n]
  <2> TAKE k \in 1..Len(other)
  <2>1. k \in 1..Len(done) /\ other[k].episode = done[k].episode
    BY <1>1 DEF SameSteps
  <2> QED BY <1>1, <2>1
<1> QED BY <1>1, <1>2, <1>3 DEF Blocks
-------------------------------------------------------------------------------
(* The steps.                                                                 *)

LEMMA InitRecordInv == Init => RecordInv
<1> SUFFICES ASSUME Init PROVE RecordInv
  OBVIOUS
<1>1. RecordTypes
  BY DEF Init, RecordTypes
<1>2. Phases
  <2>1. Len(<<>>) = 0 /\ rows = <<>> /\ chunk = 1 /\ pc = "ready"
    BY DEF Init
  <2> QED BY <2>1, RolloutAssumption DEF Phases
<1>3. Recording
  <2>1. /\ recorded = <<>> /\ trace = <<>> /\ chunk = 1 /\ worker.episode_index = 0
        /\ worker.observation = None
    BY DEF Init
  <2> DEFINE ofs == [n \in 0..0 |-> 0]
  <2>2. Blocks(<<>>, <<>>, 0, ofs)
    BY DEF Blocks
  <2>3. FirstSteps = <<>> /\ SecondIn = 0
    BY <2>1 DEF FirstSteps, SecondIn
  <2>4. LastFile
    BY <2>1 DEF LastFile
  <2> HIDE DEF ofs
  <2> QED BY <2>1, <2>2, <2>3, <2>4 DEF Recording
<1> QED BY <1>1, <1>2, <1>3 DEF RecordInv

\* A new game begins a file.
LEMMA ResetsRecords ==
  ASSUME RolloutInv, RecordInv, Resets
  PROVE  RecordInv'
<1>1. ResetFacts
  BY ResetsDoes DEF RolloutInv
<1>2. PICK file \in Files :
        /\ file.records = <<>> /\ file.initial = game'.view
        /\ recorded' = Recorder(Append(recorded, file))
  <2>1. PICK place \in Places, attempts \in 1..StartAttempts :
          LET view == [place |-> place, turn |-> 0] IN
          /\ game' = [case |-> CaseIndex(WorkerIndex, worker.episode_index), view |-> view,
                   played |-> <<>>, rewards |-> 0,
                   log |-> <<[place |-> place, turn |-> 0, ui |-> FALSE, charged |-> FALSE]>>]
          /\ recorded' = Recorder(Append(recorded, [attempts |-> attempts, initial |-> view, records |-> <<>>]))
    BY RolloutAssumption DEF Resets
  <2> DEFINE view == [place |-> place, turn |-> 0]
             none == <<>>
             file == [attempts |-> attempts, initial |-> view, records |-> none]
  <2>2. view \in Views /\ none \in Seq(Transitions) /\ attempts \in Nat
    BY DEF Views
  <2>3. game'.view = view
    BY <2>1
  <2>4. recorded' = Recorder(Append(recorded, file))
    BY <2>1
  <2> HIDE DEF view, none
  <2>5. file \in Files /\ file.records = none /\ file.initial = view
    BY <2>2 DEF Files
  <2> HIDE DEF file
  <2> QED BY <2>3, <2>4, <2>5 DEF none
<1>3. /\ chunk' = chunk /\ rows' = rows /\ pc' = pc /\ trace' = trace /\ first' = first
      /\ worker' = [worker' EXCEPT !.episode_index = worker.episode_index + 1]
      /\ worker.observation = None
  <2>1. worker \in Workers /\ worker' \in Workers
    BY <1>1 DEF RolloutInv, Types, ResetFacts
  <2>2. worker'.episode_index = worker.episode_index + 1
    BY <2>1 DEF Resets, Workers
  <2>3. worker' = [worker' EXCEPT !.episode_index = worker.episode_index + 1]
    BY <2>1, <2>2 DEF Workers
  <2> QED BY <2>3 DEF Resets
<1>4. worker'.episode_index = worker.episode_index + 1 /\ worker'.observation = game'.view
      /\ worker'.observation # None /\ game'.played = <<>>
  <2>1. worker' \in Workers /\ game' \in Games
    BY <1>1 DEF ResetFacts
  <2>2. game'.view \in Views
    BY <2>1 DEF Games
  <2> QED BY <1>1, <1>3, <2>1, <2>2, ViewsAreSome DEF Workers, ResetFacts
<1>5. recorded \in Seq(Files) /\ first \in Seq(Traces) /\ trace \in Seq(Traces)
  BY DEF RecordInv, RecordTypes, RolloutInv, Types
<1>6. RecordTypes'
  BY <1>2, <1>3, <1>5 DEF RecordTypes, Recorder
<1>7. CASE chunk > 1 /\ recorded = <<>>
  <2>1. recorded' = <<>> /\ ~ (chunk' = 1)
    BY <1>2, <1>3, <1>7 DEF Recorder
  <2> QED BY <1>3, <1>6, <2>1 DEF RecordInv, Phases, Recording, Kept
<1>8. CASE ~ (chunk > 1 /\ recorded = <<>>)
  <2>1. Kept /\ recorded' = Append(recorded, file) /\ recorded' # <<>>
    BY <1>2, <1>5, <1>8 DEF Recorder, Kept, RecordInv, Phases
  <2>2. FirstSteps' = FirstSteps /\ SecondIn' = SecondIn
    BY <1>3 DEF FirstSteps, SecondIn
  <2>3. FirstSteps \in Seq(Traces)
    BY <1>5 DEF FirstSteps
  <2>4. /\ Len(recorded) = worker.episode_index /\ LastFile
        /\ \E ofs : Blocks(recorded, FirstSteps, SecondIn, ofs)
    BY <2>1 DEF RecordInv, Recording
  <2>5. PICK ofs : Blocks(recorded, FirstSteps, SecondIn, ofs)
    BY <2>4
  <2>6. recorded = <<>> \/ Complete(recorded[Len(recorded)])
    BY <1>3, <2>4 DEF LastFile
  <2>7. \E o : Blocks(recorded', FirstSteps', SecondIn', o)
    <3>1. \E o : Blocks(Append(recorded, file), FirstSteps, SecondIn, o)
      BY <1>2, <1>5, <2>3, <2>5, <2>6, BlocksStart
    <3> QED BY <2>1, <2>2, <3>1
  <2>8. Len(recorded') = worker'.episode_index /\ recorded'[Len(recorded')] = file
    BY <1>4, <1>5, <2>1, <2>4
  <2>9. LastFile'
    <3>1. Len(file.records) = 0 /\ Len(game'.played) = 0
      BY <1>2, <1>4
    <3>2. ShownBefore(file, 0 + 1) = game'.view
      BY <1>2 DEF ShownBefore
    <3>3. LET n == Len(file.records) IN
          /\ n = Len(game'.played) /\ (n = 0 \/ ~ Ended(file.records[n]))
          /\ ShownBefore(file, n + 1) = game'.view
      BY <3>1, <3>2
    <3>4. LET last == recorded'[Len(recorded')]
              n == Len(last.records) IN
          /\ worker'.observation = None => recorded' = <<>> \/ Complete(last)
          /\ worker'.observation # None =>
               /\ n = Len(game'.played)
               /\ n = 0 \/ ~ Ended(last.records[n])
               /\ ShownBefore(last, n + 1) = game'.view
      BY <1>4, <2>8, <3>3
    <3> QED BY <3>4 DEF LastFile, Complete, ShownBefore
  <2>10. Phases'
    <3>1. chunk > 1 => recorded # <<>>
      BY <1>8
    <3> QED BY <1>3, <3>1 DEF RecordInv, Phases
  <2>11. Recording'
    BY <2>7, <2>8, <2>9 DEF Recording
  <2> QED BY <1>6, <2>10, <2>11 DEF RecordInv
<1> QED BY <1>7, <1>8

\* What a step adds to the recording.
LEMMA ActsAdds ==
  ASSUME RolloutInv, RecordInv, Acts
  PROVE  LET r == Record(step')
             t == Traced(step') IN
         /\ r \in Transitions /\ t \in Traces
         /\ r.update = chunk
         /\ t.episode = worker.episode_index
         /\ r.step = Len(game.played) /\ Len(t.played) = Len(game.played) + 1
         /\ t.before = game.view /\ t.after = r.observation /\ t.action = r.action
         /\ t.reward = r.reward /\ t.outcome = r.outcome /\ t.limit = r.truncated
         /\ r.terminated = (r.outcome # None)
         /\ Ended(r) = Done(step') /\ r.observation = game'.view
         /\ Len(game'.played) = Len(game.played) + 1
         /\ worker'.observation = (IF Done(step') THEN None ELSE game'.view)
         /\ worker'.episode_index = worker.episode_index
         /\ trace' = Append(trace, t) /\ recorded' = Recorder(Grown(recorded, r))
         /\ pc = "sampled" /\ pc' = "acted" /\ worker.observation # None
         /\ UNCHANGED <<chunk, first, rows>>
<1>1. Begun /\ worker.observation # None
  BY DEF Acts, RolloutInv, ReadyIsLive, WorkerIsLive
<1>2. ActFacts /\ worker \in Workers /\ game \in Games
  BY <1>1, ActsDoes DEF RolloutInv, Types
<1> DEFINE s == step'
           r == Record(s)
           t == Traced(s)
<1>3. /\ s \in Steps /\ game'.view = s.observation
      /\ s.terminated = (s.outcome # None)
      /\ game'.played = Append(game.played, s.action)
      /\ worker'.episode_index = worker.episode_index
      /\ worker'.observation = (IF Done(s) THEN None ELSE game'.view)
      /\ pc = "sampled" /\ pc' = "acted" /\ UNCHANGED <<chunk, rows>>
  BY <1>2 DEF ActFacts
<1>4. /\ trace' = Append(trace, t) /\ first' = first
      /\ recorded' = Recorder(Grown(recorded, r))
  BY DEF Acts, Grown
<1> HIDE DEF s
<1>5. /\ game.played \in Seq(Actions) /\ Len(game.played) \in Nat
      /\ worker.episode_index \in Nat /\ chunk \in Nat /\ game.view \in Views
  BY <1>2 DEF Games, Workers, RecordInv, Phases
<1>6. /\ s.action \in Actions /\ s.observation \in Views /\ s.reward \in Int
      /\ s.terminated \in BOOLEAN /\ s.outcome \in Outcomes /\ s.truncated \in BOOLEAN
  BY <1>3 DEF Steps
<1>7. r = [update |-> chunk, step |-> Len(game.played), action |-> s.action,
           observation |-> s.observation, terminated |-> s.terminated, truncated |-> s.truncated,
           outcome |-> s.outcome, reward |-> s.reward]
  BY DEF Record
<1> DEFINE played == Append(game.played, s.action)
<1>8. t = [episode |-> worker.episode_index, before |-> game.view, action |-> s.action,
           after |-> s.observation, played |-> played, reward |-> s.reward,
           outcome |-> s.outcome, limit |-> s.truncated, next |-> None]
  BY DEF Traced
<1>9. played \in Seq(Actions) /\ Len(played) = Len(game.played) + 1
  BY <1>5, <1>6
<1> HIDE DEF played, r, t
<1>10. t \in Traces
  BY <1>5, <1>6, <1>8, <1>9 DEF Traces
<1>11. r \in Transitions
  BY <1>5, <1>6, <1>7 DEF Transitions
<1>12. Ended(r) = Done(s)
  BY <1>7 DEF Ended, Done
<1>13. /\ r.update = chunk /\ r.step = Len(game.played) /\ t.episode = worker.episode_index
       /\ t.before = game.view /\ t.after = r.observation /\ t.action = r.action
       /\ t.reward = r.reward /\ t.outcome = r.outcome /\ t.limit = r.truncated
       /\ r.terminated = (r.outcome # None) /\ r.observation = game'.view
       /\ t.played = played
  BY <1>3, <1>7, <1>8
<1>14. Len(game'.played) = Len(game.played) + 1 /\ Len(t.played) = Len(game.played) + 1
  BY <1>3, <1>9, <1>13 DEF played
<1> QED BY <1>1, <1>3, <1>4, <1>10, <1>11, <1>12, <1>13, <1>14 DEF r, t, s

LEMMA ActsRecords ==
  ASSUME RolloutInv, RecordInv, Acts
  PROVE  RecordInv'
<1> DEFINE r == Record(step')
           t == Traced(step')
           N == Len(recorded)
           grown == Grown(recorded, r)
<1>1. /\ r \in Transitions /\ t \in Traces
      /\ r.update = chunk
      /\ t.episode = worker.episode_index
      /\ r.step = Len(game.played) /\ Len(t.played) = Len(game.played) + 1
      /\ t.before = game.view /\ t.after = r.observation /\ t.action = r.action
      /\ t.reward = r.reward /\ t.outcome = r.outcome /\ t.limit = r.truncated
      /\ r.terminated = (r.outcome # None)
      /\ Ended(r) = Done(step') /\ r.observation = game'.view
      /\ Len(game'.played) = Len(game.played) + 1
      /\ worker'.observation = (IF Done(step') THEN None ELSE game'.view)
      /\ worker'.episode_index = worker.episode_index
      /\ trace' = Append(trace, t) /\ recorded' = Recorder(grown)
      /\ pc = "sampled" /\ pc' = "acted" /\ worker.observation # None
      /\ chunk' = chunk /\ first' = first /\ rows' = rows
  BY ActsAdds
<1>2. /\ recorded \in Seq(Files) /\ first \in Seq(Traces) /\ trace \in Seq(Traces)
      /\ chunk \in Nat \ {0} /\ worker \in Workers /\ game \in Games /\ Begun
  BY <1>1 DEF RecordInv, RecordTypes, RolloutInv, Types, Phases, WorkerIsLive
<1>3. Phases'
  <2>1. Len(rows) < RolloutLength
    BY <1>1 DEF RecordInv, Phases
  <2>2. chunk > 1 /\ recorded' # <<>> => recorded # <<>>
    BY <1>1 DEF Recorder
  <2> QED BY <1>1, <2>1, <2>2 DEF RecordInv, Phases
<1> HIDE DEF r, t, N, grown
<1>4. CASE chunk > 1 /\ recorded = <<>>
  <2>1. recorded' = <<>> /\ ~ (chunk' = 1)
    BY <1>1, <1>4 DEF Recorder
  <2>2. RecordTypes'
    BY <1>1, <1>2, <2>1 DEF RecordTypes
  <2> QED BY <1>3, <2>1, <2>2 DEF RecordInv, Recording, Kept
<1>5. CASE ~ (chunk > 1 /\ recorded = <<>>)
  <2>1. Kept /\ recorded' = grown
    BY <1>1, <1>2, <1>5 DEF Recorder, Kept
  <2>2. N = worker.episode_index /\ LastFile /\ \E ofs : Blocks(recorded, FirstSteps, SecondIn, ofs)
    BY <2>1 DEF RecordInv, Recording, N
  <2>3. N # 0 /\ N \in Nat /\ recorded # <<>>
    BY <1>2, <2>2 DEF Begun, N
  <2> DEFINE file == recorded[N]
             last == grown[N]
             m == Len(file.records)
  <2>4. /\ grown \in Seq(Files) /\ Len(grown) = N
        /\ last.records = Append(file.records, r) /\ last.initial = file.initial
    BY <1>1, <1>2, <2>3, GrownIs DEF N, grown
  <2>5. file \in Files /\ file.records \in Seq(Transitions) /\ m \in Nat
    <3>1. file \in Files
      BY <1>2, <2>3 DEF N
    <3> HIDE DEF file
    <3>2. file.records \in Seq(Transitions)
      BY <3>1 DEF Files
    <3> QED BY <3>1, <3>2
  <2>6. /\ m = Len(game.played) /\ (m = 0 \/ ~ Ended(file.records[m]))
        /\ ShownBefore(file, m + 1) = game.view
    BY <1>1, <2>2 DEF LastFile, N
  <2>7. file.records = <<>> \/ ~ Ended(file.records[Len(file.records)])
    BY <2>5, <2>6
  <2>8. PICK ofs : Blocks(recorded, FirstSteps, 0, ofs)
    <3>1. SecondIn = 0
      BY <1>1 DEF SecondIn
    <3> QED BY <2>2, <3>1
  <2>9. RecordTypes'
    BY <1>1, <1>2, <2>1, <2>4 DEF RecordTypes
  <2>10. /\ Len(last.records) = m + 1 /\ last.records[m + 1] = r
         /\ \A i \in 1..m : last.records[i] = file.records[i]
    BY <1>1, <2>4, <2>5
  <2>11. \E o : Blocks(grown, FirstSteps', SecondIn', o)
    <3>1. CASE chunk = 1
      <4>1. FirstSteps = trace /\ FirstSteps' = Append(trace, t) /\ SecondIn' = 0
        BY <1>1, <3>1 DEF FirstSteps, SecondIn
      <4>2. ShownBefore(last, m + 1) = game.view
        <5>1. CASE m = 0
          BY <2>4, <2>6, <5>1 DEF ShownBefore
        <5>2. CASE m # 0
          <6>1. m \in 1..m /\ (m + 1) - 1 = m /\ m + 1 # 1
            BY <2>5, <5>2
          <6> QED BY <2>6, <2>10, <6>1 DEF ShownBefore
        <5> QED BY <5>1, <5>2
      <4>3. IsStep(last, N, m + 1, t)
        <5>1. (m + 1) - 1 = m
          BY <2>5
        <5> HIDE DEF m, last, file
        <5> QED BY <1>1, <2>2, <2>6, <2>10, <3>1, <4>2, <5>1 DEF IsStep
      <4>4. LET f == Grown(recorded, r)[Len(recorded)] IN
            IsStep(f, Len(recorded), Len(f.records), t)
        BY <2>10, <4>3 DEF grown, N
      <4>5. LET f == recorded[Len(recorded)] IN
            f.records = <<>> \/ ~ Ended(f.records[Len(f.records)])
        BY <2>7 DEF N
      <4>6. Blocks(recorded, trace, 0, ofs)
        BY <2>8, <4>1
      <4>7. \E o : Blocks(Grown(recorded, r), Append(trace, t), 0, o)
        BY <1>1, <1>2, <2>3, <4>4, <4>5, <4>6, BlocksStep
      <4> QED BY <4>1, <4>7 DEF grown
    <3>2. CASE chunk # 1
      <4>1. chunk = 2
        BY <1>2, <1>5, <3>2 DEF RecordInv, Phases
      <4>2. trace'[Len(trace')] = t
        <5>1. Len(trace') = Len(trace) + 1
          BY <1>1, <1>2
        <5> QED BY <1>1, <1>2, <5>1
      <4>3. FirstSteps = first /\ FirstSteps' = first /\ SecondIn' = N
        BY <1>1, <2>2, <4>1, <4>2 DEF FirstSteps, SecondIn
      <4>4. LET f == recorded[Len(recorded)] IN
            f.records = <<>> \/ ~ Ended(f.records[Len(f.records)])
        BY <2>7 DEF N
      <4>5. Blocks(recorded, first, 0, ofs)
        BY <2>8, <4>3
      <4>6. Blocks(Grown(recorded, r), first, Len(recorded), ofs)
        BY <1>1, <1>2, <2>3, <4>1, <4>4, <4>5, BlocksSecond
      <4> QED BY <4>3, <4>6 DEF grown, N
    <3> QED BY <3>1, <3>2
  <2>12. LastFile'
    <3>1. CASE Done(step')
      <4>1. Complete(last)
        BY <1>1, <2>4, <2>10, <3>1 DEF Complete
      <4>2. worker'.observation = None
        BY <1>1, <3>1
      <4> QED BY <2>1, <2>4, <4>1, <4>2 DEF LastFile, Complete
    <3>2. CASE ~ Done(step')
      <4>1. worker'.observation # None /\ worker'.observation = game'.view
        <5>1. game'.view \in Views
          BY <1>1 DEF Transitions
        <5> QED BY <1>1, <3>2, <5>1, ViewsAreSome
      <4>2. /\ m + 1 = Len(game'.played) /\ ~ Ended(last.records[m + 1])
            /\ ShownBefore(last, (m + 1) + 1) = game'.view
        <5>1. ((m + 1) + 1) - 1 = m + 1 /\ (m + 1) + 1 # 1
          BY <2>5
        <5>2. ~ Ended(r)
          BY <1>1, <3>2
        <5> QED BY <1>1, <2>6, <2>10, <5>1, <5>2 DEF ShownBefore
      <4>3. LET f == recorded'[Len(recorded')]
                n == Len(f.records) IN
            /\ n = Len(game'.played)
            /\ n = 0 \/ ~ Ended(f.records[n])
            /\ ShownBefore(f, n + 1) = game'.view
        BY <2>1, <2>4, <2>10, <4>2
      <4> QED BY <4>1, <4>3 DEF LastFile, ShownBefore
    <3> QED BY <3>1, <3>2
  <2>13. Recording'
    BY <1>1, <2>1, <2>2, <2>4, <2>11, <2>12 DEF Recording
  <2> QED BY <1>3, <2>9, <2>13 DEF RecordInv
<1> QED BY <1>4, <1>5

\* A row, or a change of the place in the loop, leaves the first chunk's recording as it is
\* and ends the second's.
LEMMA RowRecords ==
  ASSUME RolloutInv, RecordInv, RowFacts, chunk' = chunk,
         IF chunk > 1 THEN recorded' = <<>> /\ first' = <<>> ELSE UNCHANGED <<recorded, first>>,
         pc' = IF Len(rows) + 1 < RolloutLength THEN "ready" ELSE "ending"
  PROVE  RecordInv'
<1>1. /\ recorded \in Seq(Files) /\ first \in Seq(Traces) /\ trace \in Seq(Traces)
      /\ chunk \in Nat \ {0} /\ rows \in Seq(Rows) /\ Len(rows) \in Nat
      /\ Len(rows) < RolloutLength /\ RolloutLength \in Nat
  BY RolloutAssumption DEF RecordInv, RecordTypes, RolloutInv, Types, Phases, RowFacts
<1>2. Len(rows') = Len(rows) + 1
  <2>1. rows' = Append(rows, rows'[Len(rows) + 1]) /\ rows'[Len(rows) + 1] \in Rows
    BY DEF RowFacts
  <2> QED BY <1>1, <2>1
<1>3. RecordTypes'
  <2>1. <<>> \in Seq(Files) /\ <<>> \in Seq(Traces)
    OBVIOUS
  <2> QED BY <1>1, <2>1 DEF RecordTypes
<1>4. Phases'
  BY <1>1, <1>2 DEF Phases
<1>5. CASE chunk > 1
  BY <1>3, <1>4, <1>5 DEF RecordInv, Recording, Kept
<1>6. CASE chunk = 1
  <2>1. /\ FirstSteps = trace /\ FirstSteps' = trace' /\ SecondIn = 0 /\ SecondIn' = 0
        /\ Kept /\ recorded' = recorded /\ worker' = worker /\ game' = game
    BY <1>6 DEF FirstSteps, SecondIn, Kept, RowFacts
  <2>2. SameSteps(trace, trace')
    BY DEF RowFacts, SameSteps
  <2>3. PICK ofs : Blocks(recorded, trace, 0, ofs)
    BY <2>1 DEF RecordInv, Recording
  <2>4. Len(recorded) \in Nat
    BY <1>1
  <2>5. Blocks(recorded, trace', 0, ofs)
    BY <1>1, <2>2, <2>3, <2>4, BlocksSame
  <2>6. LastFile'
    BY <2>1 DEF RecordInv, Recording, LastFile
  <2> QED BY <1>3, <1>4, <2>1, <2>5, <2>6 DEF RecordInv, Recording
<1> QED BY <1>1, <1>5, <1>6

LEMMA RecordNext ==
  ASSUME RolloutInv, RecordInv, [Next]_vars
  PROVE  RecordInv'
<1>1. CASE Samples
  <2>1. /\ UNCHANGED <<worker, rows, chunk, game, trace, recorded, first>>
        /\ pc = "ready" /\ pc' = "sampled"
    BY <1>1 DEF Samples
  <2>2. SecondIn' = SecondIn /\ FirstSteps' = FirstSteps
    BY <2>1 DEF SecondIn, FirstSteps
  <2>3. RecordTypes' /\ Phases'
    BY <2>1 DEF RecordInv, RecordTypes, Phases
  <2>4. Kept' => Kept
    BY <2>1 DEF Kept
  <2> QED BY <2>1, <2>2, <2>3, <2>4 DEF RecordInv, Recording, LastFile
<1>2. CASE WantsReset
  <2>1. /\ UNCHANGED <<worker, rows, chunk, game, trace, recorded, first>>
        /\ pc = "acted" /\ pc' = "resetting"
    BY <1>2 DEF WantsReset
  <2>2. SecondIn' = SecondIn /\ FirstSteps' = FirstSteps
    BY <2>1 DEF SecondIn, FirstSteps
  <2>3. RecordTypes' /\ Phases'
    BY <2>1 DEF RecordInv, RecordTypes, Phases
  <2>4. Kept' => Kept
    BY <2>1 DEF Kept
  <2> QED BY <2>1, <2>2, <2>3, <2>4 DEF RecordInv, Recording, LastFile
<1>3. CASE Finishes
  <2>1. /\ UNCHANGED <<worker, rows, chunk, game, trace, recorded, first>>
        /\ pc = "ending" /\ pc' = "collected"
    BY <1>3 DEF Finishes
  <2>2. SecondIn' = SecondIn /\ FirstSteps' = FirstSteps
    BY <2>1 DEF SecondIn, FirstSteps
  <2>3. RecordTypes' /\ Phases'
    BY <2>1 DEF RecordInv, RecordTypes, Phases
  <2>4. Kept' => Kept
    BY <2>1 DEF Kept
  <2> QED BY <2>1, <2>2, <2>3, <2>4 DEF RecordInv, Recording, LastFile
<1>4. CASE NextChunk
  <2>1. /\ chunk' = chunk + 1 /\ rows' = <<>> /\ trace' = <<>> /\ first' = trace
        /\ pc = "collected" /\ pc' = "ready" /\ UNCHANGED <<worker, game, recorded>>
    BY <1>4 DEF NextChunk
  <2>2. /\ chunk \in Nat \ {0} /\ Len(rows) = RolloutLength /\ Len(trace) = Len(rows)
        /\ trace \in Seq(Traces) /\ recorded \in Seq(Files)
        /\ chunk > 1 => recorded = <<>>
    BY <2>1 DEF RecordInv, Phases, RecordTypes, RolloutInv, Types, RowsMatch
  <2>3. RecordTypes'
    BY <2>1, <2>2 DEF RecordTypes
  <2>4. Phases'
    <3>1. Len(rows') = 0
      BY <2>1
    <3>2. chunk' > 1 /\ recorded' # <<>> => chunk' = 2
      BY <2>1, <2>2
    <3> QED BY <2>1, <2>2, <3>1, <3>2, RolloutAssumption DEF Phases
  <2>5. CASE chunk = 1
    <3>1. /\ FirstSteps' = trace /\ FirstSteps = trace /\ SecondIn = 0 /\ SecondIn' = 0 /\ Kept
      BY <2>1, <2>5 DEF FirstSteps, SecondIn, Kept
    <3> QED BY <2>1, <2>3, <2>4, <3>1 DEF RecordInv, Recording, LastFile
  <2>6. CASE chunk # 1
    <3>1. recorded' = <<>> /\ ~ (chunk' = 1)
      BY <2>1, <2>2, <2>6
    <3> QED BY <2>3, <2>4, <3>1 DEF RecordInv, Recording, Kept
  <2> QED BY <2>5, <2>6
<1>5. CASE Records
  <2>1. RowFacts
    BY <1>5, RecordsAddsRow
  <2>2. /\ IF chunk > 1 THEN recorded' = <<>> /\ first' = <<>> ELSE UNCHANGED <<recorded, first>>
        /\ pc' = IF Len(rows) + 1 < RolloutLength THEN "ready" ELSE "ending"
        /\ chunk' = chunk
    BY <1>5 DEF Records, Continues
  <2> QED BY <2>1, <2>2, RowRecords
<1>6. CASE BootstrapsLimit
  <2>1. RowFacts
    BY <1>6, LimitAddsRow
  <2>2. /\ IF chunk > 1 THEN recorded' = <<>> /\ first' = <<>> ELSE UNCHANGED <<recorded, first>>
        /\ pc' = IF Len(rows) + 1 < RolloutLength THEN "ready" ELSE "ending"
        /\ chunk' = chunk
    BY <1>6 DEF BootstrapsLimit, Continues
  <2> QED BY <2>1, <2>2, RowRecords
<1>7. CASE BootstrapsReset
  <2>1. RowFacts
    BY <1>7, ResetAddsRow
  <2>2. /\ IF chunk > 1 THEN recorded' = <<>> /\ first' = <<>> ELSE UNCHANGED <<recorded, first>>
        /\ pc' = IF Len(rows) + 1 < RolloutLength THEN "ready" ELSE "ending"
        /\ chunk' = chunk
    BY <1>7 DEF BootstrapsReset, Continues
  <2> QED BY <2>1, <2>2, RowRecords
<1>8. CASE UNCHANGED vars
  <2>1. /\ UNCHANGED <<worker, rows, chunk, game, trace, recorded, first>>
        /\ pc' = pc
    BY <1>8 DEF vars
  <2>2. SecondIn' = SecondIn /\ FirstSteps' = FirstSteps
    BY <2>1 DEF SecondIn, FirstSteps
  <2>3. RecordTypes' /\ Phases'
    BY <2>1 DEF RecordInv, RecordTypes, Phases
  <2>4. Kept' => Kept
    BY <2>1 DEF Kept
  <2> QED BY <2>1, <2>2, <2>3, <2>4 DEF RecordInv, Recording, LastFile
<1> QED BY <1>1, <1>2, <1>3, <1>4, <1>5, <1>6, <1>7, <1>8, ResetsRecords, ActsRecords DEF Next
-------------------------------------------------------------------------------
(* The reader.                                                                *)

Samplings == [episode : Nat, step : Nat, before : Views, after : Views, action : Actions,
              reward : Int, terminated : BOOLEAN, truncated : BOOLEAN, outcome : Outcomes]
Resettings == [episode : Nat \ {0}, observation : Views]
Readings == [samples : Seq(Samplings), resets : Seq(Resettings),
             trailing : Resettings \union {NotTrailing}, finished : BOOLEAN, refused : BOOLEAN]

\* A step ends its game, or its episode.
Ends(t) == t.outcome # None \/ t.limit

\* A sample is the trace's step t.
SampleIs(s, t) ==
  /\ s.episode = t.episode /\ s.step = Len(t.played) - 1
  /\ s.before = t.before /\ s.after = t.after /\ s.action = t.action
  /\ s.reward = t.reward /\ s.outcome = t.outcome /\ s.truncated = t.limit
  /\ Ended(s) <=> Ends(t)

LEMMA SampleOf ==
  ASSUME NEW file \in Files, NEW n \in Nat, NEW i \in 1..Len(file.records), NEW t,
         IsStep(file, n, i, t)
  PROVE  Sample(file, n, i) \in Samplings /\ SampleIs(Sample(file, n, i), t)
<1> DEFINE r == file.records[i]
<1>1. /\ file.initial \in Views /\ file.records \in Seq(Transitions) /\ i \in Nat \ {0}
      /\ i - 1 \in Nat
  BY DEF Files
<1>2. ShownBefore(file, i) \in Views
  <2>1. i # 1 => i - 1 \in 1..Len(file.records)
    BY <1>1
  <2>2. \A j \in 1..Len(file.records) : file.records[j].observation \in Views
    <3> TAKE j \in 1..Len(file.records)
    <3>1. file.records[j] \in Transitions
      BY <1>1
    <3> QED BY <3>1 DEF Transitions
  <2> QED BY <1>1, <2>1, <2>2 DEF ShownBefore
<1>3. r \in Transitions
  BY <1>1
<1>4. /\ t.episode = n /\ Len(t.played) = i
      /\ t.before = ShownBefore(file, i) /\ t.after = r.observation /\ t.action = r.action
      /\ t.reward = r.reward /\ t.outcome = r.outcome /\ t.limit = r.truncated
      /\ r.terminated = (r.outcome # None)
  BY DEF IsStep
<1> HIDE DEF r
<1>5. Sample(file, n, i) = [episode |-> n, step |-> i - 1, before |-> ShownBefore(file, i),
        after |-> r.observation, action |-> r.action, reward |-> r.reward,
        terminated |-> r.terminated, truncated |-> r.truncated, outcome |-> r.outcome]
  BY DEF Sample, ShownBefore, r
<1>6. Sample(file, n, i) \in Samplings
  BY <1>1, <1>2, <1>3, <1>5 DEF Samplings, Transitions
<1>7. SampleIs(Sample(file, n, i), t)
  <2> DEFINE s == Sample(file, n, i)
  <2>1. /\ s.episode = n /\ s.step = i - 1 /\ s.before = ShownBefore(file, i)
        /\ s.after = r.observation /\ s.action = r.action /\ s.reward = r.reward
        /\ s.terminated = r.terminated /\ s.truncated = r.truncated /\ s.outcome = r.outcome
    BY <1>5
  <2> HIDE DEF s
  <2>2. Ended(s) <=> Ends(t)
    BY <1>4, <2>1 DEF Ended, Ends
  <2> QED BY <1>4, <2>1, <2>2 DEF SampleIs, s
<1> QED BY <1>6, <1>7

LEMMA Concatenated ==
  ASSUME NEW S, NEW a \in Seq(S), NEW b \in Seq(S)
  PROVE  /\ a \o b \in Seq(S) /\ Len(a \o b) = Len(a) + Len(b)
         /\ \A i \in 1..Len(a) : (a \o b)[i] = a[i]
         /\ \A i \in 1..Len(b) : (a \o b)[Len(a) + i] = b[i]
<1> QED OBVIOUS

\* The part of a file that is read.
LEMMA FirstPart ==
  ASSUME NEW file \in Files, NEW n, NEW second, NEW from \in Nat, NEW to \in Nat, from <= to, NEW done,
         BlockOf(file, n, from, to, done, second)
  PROVE  /\ StartsSecond(file.records) <=> n = second
         /\ OfFirst(file.records) \in Seq(Transitions) /\ Len(OfFirst(file.records)) = to - from
         /\ \A i \in 1..(to - from) : OfFirst(file.records)[i] = file.records[i]
<1> DEFINE k == to - from
           records == file.records
           I == {i \in 1..Len(records) : records[i].update > 1}
<1>1. k \in Nat /\ records \in Seq(Transitions) /\ Len(records) \in Nat
  BY DEF Files
<1>2. /\ Len(records) = k + (IF n = second THEN 1 ELSE 0)
      /\ \A i \in 1..k : records[i].update = 1
      /\ n = second => records[k + 1].update = 2
  BY DEF BlockOf, IsStep
<1>3. NextUpdate(records) = IF I # {} THEN Min(I) ELSE 0
  BY DEF NextUpdate, SelectInSeq
<1> HIDE DEF k, records
<1>4. CASE n = second
  <2>1. k + 1 \in 1..Len(records) /\ Len(records) = k + 1
    BY <1>1, <1>2, <1>4
  <2>2. I = {k + 1}
    <3>1. k + 1 \in I
      BY <1>2, <1>4, <2>1
    <3>2. ASSUME NEW i \in I PROVE i = k + 1
      <4>1. i \in 1..Len(records) /\ records[i].update > 1
        BY <3>2
      <4>2. ~ (i \in 1..k)
        BY <1>2, <4>1
      <4> QED BY <1>1, <2>1, <4>1, <4>2
    <3> QED BY <3>1, <3>2
  <2>3. Min(I) = k + 1
    BY <1>1, <2>2 DEF Min
  <2>4. NextUpdate(records) = k + 1
    BY <1>3, <2>2, <2>3
  <2>5. StartsSecond(records) /\ OfFirst(records) = SubSeq(records, 1, k)
    <3>1. (k + 1) - 1 = k /\ k + 1 # 0
      BY <1>1
    <3> QED BY <2>4, <3>1 DEF StartsSecond, OfFirst
  <2>6. \A i \in 1..k : records[i] \in Transitions
    BY <1>1, <2>1
  <2>7. /\ SubSeq(records, 1, k) \in Seq(Transitions) /\ Len(SubSeq(records, 1, k)) = k
        /\ \A i \in 1..k : SubSeq(records, 1, k)[i] = records[i]
    BY <1>1, <2>1, <2>6
  <2> QED BY <1>4, <2>5, <2>7 DEF k, records
<1>5. CASE n # second
  <2>1. Len(records) = k
    BY <1>1, <1>2, <1>5
  <2>2. I = {}
    BY <1>2, <2>1
  <2>3. ~ StartsSecond(records) /\ OfFirst(records) = records
    BY <1>3, <2>2 DEF StartsSecond, OfFirst
  <2> QED BY <1>1, <1>5, <2>1, <2>3 DEF k, records
<1> QED BY <1>4, <1>5

\* What reading a file of the first update adds.
BlockRead(got, acc, n, from, to, done, second) ==
  /\ got \in Readings /\ ~ got.refused /\ (got.finished <=> n = second)
  /\ got.trailing = acc.trailing
  /\ Len(got.samples) = to
  /\ \A k \in 1..from : got.samples[k] = acc.samples[k]
  /\ \A i \in 1..(to - from) : SampleIs(got.samples[from + i], done[from + i])
  /\ Len(got.resets) = Len(acc.resets) + 1
  /\ \A i \in 1..Len(acc.resets) : got.resets[i] = acc.resets[i]
  /\ got.resets[Len(acc.resets) + 1].episode = n

LEMMA ReadsBlock ==
  ASSUME NEW acc \in Readings, ~ acc.refused, ~ acc.finished,
         NEW file \in Files, NEW n \in Nat \ {0}, NEW second, NEW from \in Nat, NEW to \in Nat,
         NEW steps \in Nat, NEW done, NEW continues,
         Len(acc.samples) = from, from < steps, from <= to, to <= steps,
         BlockOf(file, n, from, to, done, second),
         to < steps => Complete(file), n = second => to = steps
  PROVE  BlockRead(ReadFile(acc, file, n, steps, continues), acc, n, from, to, done, second)
<1> DEFINE k == to - from
           records == OfFirst(file.records)
           L == Len(records)
           new == [i \in 1..L |-> Sample(file, n, i)]
           reset == Reset(file, n)
           samples == acc.samples \o new
           resets == Append(acc.resets, reset)
           starts == StartsSecond(file.records)
           got == ReadFile(acc, file, n, steps, continues)
<1>1. /\ starts <=> n = second
      /\ records \in Seq(Transitions) /\ L = k /\ k \in Nat
      /\ \A i \in 1..k : records[i] = file.records[i]
  BY FirstPart
<1>2. /\ Len(file.records) = k + (IF n = second THEN 1 ELSE 0)
      /\ \A i \in 1..k : IsStep(file, n, i, done[from + i])
      /\ \A i \in 1..Len(file.records) - 1 : ~ Ended(file.records[i])
  BY DEF BlockOf
<1>3. acc.samples \in Seq(Samplings) /\ acc.resets \in Seq(Resettings)
      /\ acc.trailing \in Resettings \union {NotTrailing} /\ file.initial \in Views
      /\ file.records \in Seq(Transitions)
  BY DEF Readings, Files
<1>4. ~ Malformed(file, Len(acc.samples), steps)
  <2>1. from + L = to
    BY <1>1
  <2>2. \A i \in 1..k : records[i].update = 1 /\ records[i].step = i - 1
    BY <1>1, <1>2 DEF IsStep
  <2>3. DOMAIN records = 1..k
    BY <1>1
  <2>4. \A i \in 1..L - 1 : ~ Ended(records[i])
    <3>1. \A i \in 1..L - 1 : i \in 1..Len(file.records) - 1 /\ i \in 1..k
      BY <1>1, <1>2
    <3> QED BY <1>1, <1>2, <3>1
  <2>5. to < steps => records # <<>> /\ Ended(Last(records))
    <3> SUFFICES ASSUME to < steps PROVE records # <<>> /\ Ended(Last(records))
      OBVIOUS
    <3>1. n # second /\ file.records # <<>> /\ Ended(file.records[Len(file.records)])
      BY DEF Complete
    <3>2. Len(file.records) = k
      BY <1>1, <1>2, <3>1
    <3>3. k # 0
      BY <1>3, <3>1, <3>2
    <3>4. k \in 1..k /\ records # <<>>
      BY <1>1, <3>3
    <3> HIDE DEF records
    <3> QED BY <1>1, <3>1, <3>2, <3>4 DEF Last
  <2>6. starts => to = steps
    BY <1>1
  <2> HIDE DEF records, starts, L
  <2>7. Malformed(file, from, steps) <=>
          \/ \E i \in DOMAIN records : records[i].update # 1 \/ records[i].step # i - 1
          \/ \E i \in 1..L - 1 : Ended(records[i])
          \/ from + L > steps
          \/ starts /\ from + L # steps
          \/ from + L < steps /\ (records = <<>> \/ ~ Ended(Last(records)))
    BY DEF Malformed, records, starts, L
  <2>8. ~ Malformed(file, from, steps)
    BY <2>1, <2>2, <2>3, <2>4, <2>5, <2>6, <2>7
  <2> QED BY <2>8
<1>5. got = [acc EXCEPT !.resets = resets, !.samples = samples, !.finished = starts]
  <2>1. Len(acc.samples) # steps
    OBVIOUS
  <2> HIDE DEF starts
  <2> QED BY <1>4, <2>1 DEF ReadFile, starts
<1>6. \A i \in 1..k : new[i] \in Samplings /\ SampleIs(new[i], done[from + i])
  <2> TAKE i \in 1..k
  <2>1. i \in 1..Len(file.records) /\ new[i] = Sample(file, n, i)
    BY <1>1, <1>2
  <2> QED BY <1>2, <2>1, SampleOf
<1>7. new \in Seq(Samplings) /\ Len(new) = k
  <2> HIDE DEF L
  <2>1. DOMAIN new = 1..k /\ new = [i \in 1..k |-> new[i]]
    BY <1>1
  <2> HIDE DEF new
  <2> QED BY <1>1, <1>6, <2>1
<1> HIDE DEF new, records, L
<1>8. /\ samples \in Seq(Samplings) /\ Len(samples) = to
      /\ \A j \in 1..from : samples[j] = acc.samples[j]
      /\ \A i \in 1..k : samples[from + i] = new[i]
  <2>1. Len(acc.samples) = from /\ to = from + k
    BY <1>1
  <2> DEFINE base == acc.samples
  <2>2. base \in Seq(Samplings) /\ new \in Seq(Samplings) /\ samples = base \o new
    BY <1>3, <1>7
  <2> HIDE DEF k, base, samples
  <2>3. /\ samples \in Seq(Samplings) /\ Len(samples) = Len(base) + Len(new)
        /\ \A i \in 1..Len(base) : samples[i] = base[i]
        /\ \A i \in 1..Len(new) : samples[Len(base) + i] = new[i]
    BY <2>2, Concatenated
  <2> QED BY <1>7, <2>1, <2>3 DEF base
<1>9. reset \in Resettings /\ reset.episode = n
  BY <1>3 DEF Reset, Resettings
<1> HIDE DEF reset, samples
<1>10. /\ resets \in Seq(Resettings) /\ Len(resets) = Len(acc.resets) + 1
       /\ \A i \in 1..Len(acc.resets) : resets[i] = acc.resets[i]
       /\ resets[Len(acc.resets) + 1] = reset
  BY <1>3, <1>9
<1>11. starts \in BOOLEAN
  BY DEF StartsSecond
<1> HIDE DEF resets, starts, got
<1>12. /\ got \in Readings /\ got.samples = samples /\ got.resets = resets
       /\ got.finished = starts /\ got.refused = acc.refused /\ got.trailing = acc.trailing
  BY <1>5, <1>8, <1>10, <1>11 DEF Readings
<1>13. BlockRead(got, acc, n, from, to, done, second)
  BY <1>1, <1>6, <1>8, <1>9, <1>10, <1>12 DEF BlockRead, k
<1> QED BY <1>13 DEF got

\* The file after the first update's last step, when the step ended its game.
LEMMA ReadsAfter ==
  ASSUME NEW acc \in Readings, ~ acc.refused, ~ acc.finished,
         NEW file \in Files, NEW n \in Nat \ {0}, NEW steps \in Nat \ {0}, NEW continues,
         Len(acc.samples) = steps, Ended(acc.samples[steps]),
         file.records = <<>> \/ file.records[1].update > 1
  PROVE  LET got == ReadFile(acc, file, n, steps, continues) IN
         /\ got \in Readings /\ ~ got.refused /\ got.finished
         /\ got.samples = acc.samples /\ got.resets = acc.resets
         /\ IF continues THEN got.trailing.episode = n ELSE got.trailing = acc.trailing
<1> DEFINE got == ReadFile(acc, file, n, steps, continues)
           reset == Reset(file, n)
<1>1. file.initial \in Views /\ file.records \in Seq(Transitions)
  BY DEF Files
<1>2. reset \in Resettings /\ reset.episode = n
  BY <1>1 DEF Reset, Resettings
<1> HIDE DEF reset
<1>3. CASE ~ continues
  <2>1. got = [acc EXCEPT !.finished = TRUE]
    BY <1>3 DEF ReadFile
  <2> HIDE DEF got
  <2>2. /\ got \in Readings /\ ~ got.refused /\ got.finished
        /\ got.samples = acc.samples /\ got.resets = acc.resets /\ got.trailing = acc.trailing
    BY <2>1 DEF Readings
  <2> QED BY <1>3, <2>2 DEF got
<1>4. CASE continues
  <2>1. Ended(Last(acc.samples))
    BY DEF Last
  <2>2. ~ (file.records # <<>> /\ Head(file.records).update <= 1)
    <3> SUFFICES ASSUME file.records # <<>> PROVE ~ (Head(file.records).update <= 1)
      OBVIOUS
    <3>1. Len(file.records) >= 1 /\ file.records[1] \in Transitions
      BY <1>1
    <3>2. Head(file.records) = file.records[1] /\ file.records[1].update \in Nat
      BY <1>1, <3>1 DEF Transitions
    <3> QED BY <3>2
  <2>3. got = [acc EXCEPT !.trailing = reset, !.finished = TRUE]
    BY <1>4, <2>1, <2>2 DEF ReadFile, reset
  <2> HIDE DEF got
  <2>4. /\ got \in Readings /\ ~ got.refused /\ got.finished
        /\ got.samples = acc.samples /\ got.resets = acc.resets /\ got.trailing = reset
    BY <1>2, <2>3 DEF Readings
  <2> QED BY <1>2, <1>4, <2>4 DEF got
<1> QED BY <1>3, <1>4

\* Induction over the natural numbers, for a set instead of a predicate.
LEMMA SetInduction ==
  ASSUME NEW T, 0 \in T, \A n \in Nat : n \in T => n + 1 \in T
  PROVE  Nat \subseteq T
<1> SUFFICES ASSUME Nat \ T # {} PROVE FALSE
  OBVIOUS
<1> DEFINE R == OpToRel(<, Nat)
<1>1. IsWellFoundedOn(R, Nat)
  BY NatLessThanWellFounded
<1>2. PICK x \in Nat \ T : \A y \in Nat \ T : ~(<<y, x>> \in R)
  <2> HIDE DEF R
  <2> QED BY <1>1, WFMin
<1>3. \A y \in Nat : <<y, x>> \in R <=> y < x
  BY DEF OpToRel
<1>4. x # 0 /\ x - 1 \in Nat /\ x - 1 < x
  OBVIOUS
<1>5. x - 1 \in T
  BY <1>2, <1>3, <1>4
<1> QED BY <1>4, <1>5

\* The files are read one after another.
ReadingOf(read, files, steps, continues) ==
  /\ read[0] = NothingRead
  /\ \A n \in 1..Len(files) : read[n] = ReadFile(read[n - 1], files[n], n, steps, continues)

LEMMA ReadExists ==
  ASSUME NEW files, Len(files) \in Nat, NEW steps, NEW continues
  PROVE  \E read : /\ ReadingOf(read, files, steps, continues)
                   /\ Read(files, steps, continues) = read[Len(files)]
<1> DEFINE N == Len(files)
           Is(f, m) == f = [n \in 0..m |-> IF n = 0 THEN NothingRead
                              ELSE ReadFile(f[n - 1], files[n], n, steps, continues)]
           T == {m \in Nat : \E f : Is(f, m)}
<1>1. 0 \in T
  <2> DEFINE f == [n \in 0..0 |-> NothingRead]
  <2>1. f = [n \in 0..0 |-> IF n = 0 THEN NothingRead
                              ELSE ReadFile(f[n - 1], files[n], n, steps, continues)]
    OBVIOUS
  <2> HIDE DEF f
  <2>2. Is(f, 0)
    BY <2>1
  <2> HIDE DEF Is
  <2> QED BY <2>2
<1>2. ASSUME NEW m \in Nat, m \in T PROVE m + 1 \in T
  <2>1. PICK f : Is(f, m)
    BY <1>2
  <2> DEFINE g == [n \in 0..(m + 1) |->
                     IF n = m + 1 THEN ReadFile(f[m], files[m + 1], m + 1, steps, continues) ELSE f[n]]
  <2>2. g[m + 1] = ReadFile(f[m], files[m + 1], m + 1, steps, continues)
        /\ \A n \in 0..m : g[n] = f[n]
    OBVIOUS
  <2>3. g = [n \in 0..(m + 1) |-> g[n]]
    OBVIOUS
  <2> HIDE DEF g
  <2>4. ASSUME NEW n \in 0..(m + 1)
        PROVE  g[n] = IF n = 0 THEN NothingRead
                      ELSE ReadFile(g[n - 1], files[n], n, steps, continues)
    <3>1. CASE n = m + 1
      <4>1. n # 0 /\ n - 1 = m /\ m \in 0..m
        BY <3>1
      <4>2. g[n - 1] = f[m]
        BY <2>2, <4>1
      <4> QED BY <2>2, <3>1, <4>1, <4>2
    <3>2. CASE n # m + 1
      <4>1. n \in 0..m /\ (n # 0 => n - 1 \in 0..m)
        BY <3>2
      <4>2. f[n] = IF n = 0 THEN NothingRead ELSE ReadFile(f[n - 1], files[n], n, steps, continues)
        BY <2>1, <4>1
      <4> QED BY <2>2, <4>1, <4>2
    <3> QED BY <3>1, <3>2
  <2>5. Is(g, m + 1)
    BY <2>3, <2>4
  <2> HIDE DEF Is
  <2> QED BY <2>5
<1>3. N \in T
  <2> HIDE DEF T
  <2> QED BY <1>1, <1>2, SetInduction
<1> DEFINE read == CHOOSE f : Is(f, N)
<1>4. Is(read, N)
  <2> HIDE DEF Is
  <2> QED BY <1>3
<1>5. Read(files, steps, continues) = read[N]
  BY DEF Read
<1> HIDE DEF read
<1>6. ReadingOf(read, files, steps, continues)
  BY <1>4 DEF ReadingOf
<1> QED BY <1>5, <1>6

\* What has been read after n files: the steps of the first update they hold, their
\* resets, and after its last file the one reset that follows an end.
ReadAt(acc, n, m, ofs, done, second, continues) ==
  /\ acc \in Readings /\ ~ acc.refused
  /\ Len(acc.samples) = ofs[n]
  /\ \A k \in 1..ofs[n] : SampleIs(acc.samples[k], done[k])
  /\ Len(acc.resets) = (IF n <= m THEN n ELSE m)
  /\ \A i \in 1..Len(acc.resets) : acc.resets[i].episode = i
  /\ acc.finished <=> n > m \/ (n = m /\ second = m)
  /\ acc.trailing.episode = IF n > m /\ continues /\ second # m THEN m + 1 ELSE 0

\* Where the first update's last step is, in file m, and what surrounds it.
LEMMA LastBlock ==
  ASSUME NEW files \in Seq(Files), NEW done \in Seq(Traces), NEW second, NEW ofs,
         Blocks(files, done, second, ofs), done # <<>>
  PROVE  LET L == Len(done)
             m == done[L].episode IN
         /\ L \in Nat \ {0} /\ m \in 1..Len(files)
         /\ \A n \in 0..Len(files) : ofs[n] \in Nat /\ ofs[n] <= L /\ (ofs[n] = L <=> n >= m)
         /\ second < m => second = 0
         /\ \A n \in 1..Len(files) : ofs[n - 1] <= ofs[n]
<1> DEFINE N == Len(files)
           L == Len(done)
           m == done[L].episode
<1>1. L \in Nat \ {0} /\ L \in 1..L /\ N \in Nat
  OBVIOUS
<1>2. /\ ofs \in [0..N -> Nat] /\ second \in 0..N
      /\ ofs[N] = L
      /\ \A a, b \in 0..N : a <= b => ofs[a] <= ofs[b]
      /\ second # 0 => ofs[second] = L
      /\ m \in 1..N /\ ofs[m - 1] < L /\ L <= ofs[m]
  BY <1>1 DEF Blocks
<1> HIDE DEF N, L, m
<1>3. m - 1 \in 0..N /\ m \in 0..N /\ N \in 0..N /\ m \in Nat
  BY <1>1, <1>2
<1>4. ASSUME NEW n \in 0..N
      PROVE  ofs[n] \in Nat /\ ofs[n] <= L /\ (ofs[n] = L <=> n >= m)
  <2>1. ofs[n] \in Nat /\ ofs[n] <= L
    BY <1>1, <1>2, <1>3
  <2>2. CASE n >= m
    <3>1. ofs[m] <= ofs[n] /\ ofs[m] \in Nat
      BY <1>2, <1>3, <2>2
    <3> QED BY <1>1, <1>2, <2>1, <2>2, <3>1
  <2>3. CASE ~ (n >= m)
    <3>1. n <= m - 1
      BY <1>3, <2>3
    <3>2. ofs[n] <= ofs[m - 1] /\ ofs[m - 1] \in Nat
      BY <1>2, <1>3, <3>1
    <3> QED BY <1>1, <1>2, <2>1, <2>3, <3>2
  <2> QED BY <2>2, <2>3
<1>5. second < m => second = 0
  BY <1>2, <1>3, <1>4
<1>6. \A n \in 1..N : ofs[n - 1] <= ofs[n]
  <2> TAKE n \in 1..N
  <2>1. n - 1 \in 0..N /\ n \in 0..N /\ n - 1 <= n
    BY <1>1
  <2> QED BY <1>2, <2>1
<1> QED BY <1>1, <1>2, <1>4, <1>5, <1>6 DEF N, L, m

\* The last file of the first update ends with its last step, unless a step of the second
\* follows, which none does after an end.
LEMMA LastFileEnds ==
  ASSUME NEW files \in Seq(Files), NEW done \in Seq(Traces), NEW second, NEW ofs,
         Blocks(files, done, second, ofs), done # <<>>
  PROVE  LET last == done[Len(done)]
             m == last.episode IN
         /\ second = m => ~ Ends(last)
         /\ second # m /\ m < Len(files) => Ends(last)
         /\ m < Len(files) => LET next == files[m + 1] IN
                              next.records = <<>> \/ next.records[1].update > 1
<1> DEFINE N == Len(files)
           L == Len(done)
           last == done[L]
           m == last.episode
           file == files[m]
           from == ofs[m - 1]
           k == L - from
<1>1. /\ L \in Nat \ {0} /\ m \in 1..N /\ N \in Nat
      /\ \A n \in 0..N : ofs[n] \in Nat /\ ofs[n] <= L /\ (ofs[n] = L <=> n >= m)
  BY LastBlock
<1>2. \A n \in 1..N : /\ BlockOf(files[n], n, ofs[n - 1], ofs[n], done, second)
                      /\ n < N => Complete(files[n])
  BY DEF Blocks
<1>9. \A n \in 1..N : files[n] \in Files
  OBVIOUS
<1> HIDE DEF N, L, last, m
<1>3. m - 1 \in 0..N /\ m \in 0..N /\ m \in Nat /\ ~ (m - 1 >= m)
  BY <1>1
<1>4. from \in Nat /\ from < L /\ ofs[m] = L /\ k \in Nat \ {0} /\ from + k = L
  <2>1. from \in Nat /\ from <= L /\ from # L
    BY <1>1, <1>3
  <2>2. ofs[m] = L
    BY <1>1, <1>3
  <2> QED BY <1>1, <2>1, <2>2
<1>5. BlockOf(file, m, from, L, done, second) /\ (m < N => Complete(file))
  BY <1>1, <1>2, <1>4
<1>6. /\ Len(file.records) = k + (IF m = second THEN 1 ELSE 0)
      /\ IsStep(file, m, k, last)
      /\ \A i \in 1..Len(file.records) - 1 : ~ Ended(file.records[i])
  <2>1. /\ Len(file.records) = k + (IF m = second THEN 1 ELSE 0)
        /\ \A i \in 1..k : IsStep(file, m, i, done[from + i])
        /\ \A i \in 1..Len(file.records) - 1 : ~ Ended(file.records[i])
    BY <1>5 DEF BlockOf
  <2>2. k \in 1..k
    BY <1>4
  <2>3. IsStep(file, m, k, done[from + k])
    BY <2>1, <2>2
  <2> QED BY <1>4, <2>1, <2>3 DEF last
<1>7. Ended(file.records[k]) <=> Ends(last)
  BY <1>6 DEF IsStep, Ended, Ends
<1> HIDE DEF k, from, file
<1>8. second = m => ~ Ends(last)
  <2> SUFFICES ASSUME second = m PROVE ~ Ends(last)
    OBVIOUS
  <2>1. k \in 1..Len(file.records) - 1
    BY <1>4, <1>6
  <2> QED BY <1>6, <1>7, <2>1
<1>10. second # m /\ m < N => Ends(last)
  <2> SUFFICES ASSUME second # m, m < N PROVE Ends(last)
    OBVIOUS
  <2>1. Len(file.records) = k
    BY <1>4, <1>6
  <2> QED BY <1>5, <1>7, <2>1 DEF Complete
<1>11. m < N => LET next == files[m + 1] IN next.records = <<>> \/ next.records[1].update > 1
  <2> SUFFICES ASSUME m < N
               PROVE  files[m + 1].records = <<>> \/ files[m + 1].records[1].update > 1
    OBVIOUS
  <2>1. m + 1 \in 1..N /\ m + 1 \in 0..N /\ (m + 1) - 1 = m /\ m + 1 >= m
    BY <1>1, <1>3
  <2>2. ofs[m + 1] = L
    BY <1>1, <2>1
  <2>3. BlockOf(files[m + 1], m + 1, L, L, done, second) /\ files[m + 1] \in Files
    BY <1>2, <1>4, <1>9, <2>1, <2>2
  <2>4. L - L = 0
    BY <1>1
  <2>5. /\ Len(files[m + 1].records) = 0 + (IF m + 1 = second THEN 1 ELSE 0)
        /\ m + 1 = second => files[m + 1].records[0 + 1].update = 2
        /\ files[m + 1].records \in Seq(Transitions)
    BY <2>3, <2>4 DEF BlockOf, Files
  <2> QED BY <2>5
<1> QED BY <1>8, <1>10, <1>11 DEF N, L, last, m

\* Every file leaves what its records add.
LEMMA ReadsOn ==
  ASSUME NEW files \in Seq(Files), NEW done \in Seq(Traces), NEW second, NEW ofs,
         Blocks(files, done, second, ofs), done # <<>>,
         NEW n \in Nat, n < Len(files), NEW acc, NEW continues,
         ReadAt(acc, n, done[Len(done)].episode, ofs, done, second, continues)
  PROVE  ReadAt(ReadFile(acc, files[n + 1], n + 1, Len(done), continues), n + 1,
                done[Len(done)].episode, ofs, done, second, continues)
<1> DEFINE N == Len(files)
           L == Len(done)
           last == done[L]
           m == last.episode
           l == n + 1
           file == files[l]
           got == ReadFile(acc, file, l, L, continues)
<1>1. /\ L \in Nat \ {0} /\ m \in 1..N /\ N \in Nat /\ second \in 0..N
      /\ \A i \in 0..N : ofs[i] \in Nat /\ ofs[i] <= L /\ (ofs[i] = L <=> i >= m)
      /\ \A i \in 1..N : ofs[i - 1] <= ofs[i]
      /\ second < m => second = 0
  <2>1. second \in 0..N
    BY DEF Blocks
  <2>2. N \in Nat
    OBVIOUS
  <2> QED BY <2>1, <2>2, LastBlock
<1>2. \A i \in 1..N : /\ BlockOf(files[i], i, ofs[i - 1], ofs[i], done, second)
                      /\ i < N => Complete(files[i])
  BY DEF Blocks
<1>3. l \in 1..N /\ l \in Nat \ {0} /\ l \in 0..N /\ n \in 0..N /\ l - 1 = n /\ file \in Files
  OBVIOUS
<1>4. /\ second = m => ~ Ends(last)
      /\ second # m /\ m < N => Ends(last)
      /\ m < N => files[m + 1].records = <<>> \/ files[m + 1].records[1].update > 1
  BY LastFileEnds
<1>5. ReadAt(acc, n, m, ofs, done, second, continues)
  OBVIOUS
<1> HIDE DEF N, L, m, last
<1>6. /\ acc \in Readings /\ ~ acc.refused
      /\ Len(acc.samples) = ofs[n]
      /\ \A k \in 1..ofs[n] : SampleIs(acc.samples[k], done[k])
      /\ Len(acc.resets) = (IF n <= m THEN n ELSE m)
      /\ \A i \in 1..Len(acc.resets) : acc.resets[i].episode = i
      /\ acc.finished <=> n > m \/ (n = m /\ second = m)
      /\ acc.trailing.episode = IF n > m /\ continues /\ second # m THEN m + 1 ELSE 0
  BY <1>5 DEF ReadAt
<1>7. m \in Nat \ {0} /\ m \in 0..N
  BY <1>1
<1>8. CASE n < m
  <2> DEFINE from == ofs[n]
             to == ofs[l]
  <2>1. from \in Nat /\ to \in Nat /\ from <= to /\ to <= L /\ from < L
    <3>1. ~ (n >= m)
      BY <1>7, <1>8
    <3>2. from \in Nat /\ to \in Nat /\ from <= L /\ to <= L /\ from # L /\ from <= to
      BY <1>1, <1>3, <3>1
    <3> QED BY <1>1, <3>2
  <2>2. to < L => Complete(file)
    <3> SUFFICES ASSUME to < L PROVE Complete(file)
      OBVIOUS
    <3>1. ~ (l >= m)
      BY <1>1, <1>3, <2>1
    <3>2. l < N
      BY <1>1, <1>3, <3>1
    <3> QED BY <1>2, <1>3, <3>2
  <2>3. l = second => to = L
    <3> SUFFICES ASSUME l = second PROVE to = L
      OBVIOUS
    <3>1. l >= m
      BY <1>1, <1>3, <1>7
    <3> QED BY <1>1, <1>3, <3>1
  <2>4. BlockOf(file, l, from, to, done, second)
    BY <1>2, <1>3
  <2>5. ~ acc.finished /\ Len(acc.samples) = from
    BY <1>6, <1>7, <1>8
  <2> HIDE DEF from, to, l, file, got
  <2>6. /\ got \in Readings /\ ~ got.refused /\ (got.finished <=> l = second)
        /\ got.trailing = acc.trailing
        /\ Len(got.samples) = to
        /\ \A k \in 1..from : got.samples[k] = acc.samples[k]
        /\ \A i \in 1..(to - from) : SampleIs(got.samples[from + i], done[from + i])
        /\ Len(got.resets) = Len(acc.resets) + 1
        /\ \A i \in 1..Len(acc.resets) : got.resets[i] = acc.resets[i]
        /\ got.resets[Len(acc.resets) + 1].episode = l
    <3>1. L \in Nat /\ to <= L
      BY <1>1, <2>1
    <3>2. acc \in Readings /\ ~ acc.refused /\ ~ acc.finished /\ file \in Files /\ l \in Nat \ {0}
      BY <1>3, <1>6, <2>5
    <3>3. from \in Nat /\ to \in Nat /\ Len(acc.samples) = from /\ from < L /\ from <= to
      BY <2>1, <2>5
    <3>4. BlockRead(ReadFile(acc, file, l, L, continues), acc, l, from, to, done, second)
      BY <2>2, <2>3, <2>4, <3>1, <3>2, <3>3, ReadsBlock
    <3> QED BY <3>4 DEF got, BlockRead
  <2>7. ASSUME NEW k \in 1..to PROVE SampleIs(got.samples[k], done[k])
    <3>1. CASE k <= from
      <4>1. k \in 1..from
        BY <2>1, <3>1
      <4> QED BY <1>6, <2>6, <4>1 DEF from
    <3>2. CASE ~ (k <= from)
      <4>1. k - from \in 1..(to - from) /\ from + (k - from) = k
        BY <2>1, <3>2
      <4>2. SampleIs(got.samples[from + (k - from)], done[from + (k - from)])
        BY <2>6, <4>1
      <4> QED BY <4>1, <4>2
    <3> QED BY <3>1, <3>2
  <2>8. l <= m /\ n <= m /\ ~ (n > m) /\ ~ (l > m)
    BY <1>3, <1>7, <1>8 DEF l
  <2>9. Len(got.resets) = l /\ \A i \in 1..l : got.resets[i].episode = i
    <3>1. Len(acc.resets) = n
      BY <1>6, <2>8
    <3>2. l = n + 1
      BY DEF l
    <3>3. ASSUME NEW i \in 1..l PROVE got.resets[i].episode = i
      <4>1. CASE i = l
        BY <2>6, <3>1, <3>2, <4>1
      <4>2. CASE i # l
        <5>1. i \in 1..n
          BY <3>2, <4>2
        <5> QED BY <1>6, <2>6, <3>1, <5>1
      <4> QED BY <4>1, <4>2
    <3> QED BY <2>6, <3>1, <3>2, <3>3
  <2>10. got.finished <=> l = m /\ second = m
    <3>1. l = second => l = m
      BY <1>1, <1>3, <1>7, <2>8
    <3> QED BY <2>6, <3>1
  <2>11. got.trailing.episode = 0
    BY <1>6, <2>6, <2>8
  <2>12. ReadAt(got, l, m, ofs, done, second, continues)
    BY <2>6, <2>7, <2>8, <2>9, <2>10, <2>11 DEF ReadAt, to
  <2> QED BY <2>12 DEF got, file, l, m, last, L
<1>9. CASE ~ (n < m)
  <2>1. n >= m /\ l > m /\ ~ (l <= m) /\ ofs[n] = L /\ ofs[l] = L
    <3>1. n >= m /\ l >= m /\ l > m /\ ~ (l <= m)
      BY <1>3, <1>7, <1>9
    <3> QED BY <1>1, <1>3, <3>1
  <2>2. Len(acc.resets) = m
    BY <1>6, <1>7, <2>1
  <2>3. CASE n = m /\ second # m
    <3>1. ~ acc.finished /\ m < N
      BY <1>1, <1>3, <1>6, <1>7, <2>3
    <3>2. Ends(last) /\ (file.records = <<>> \/ file.records[1].update > 1)
      BY <1>4, <2>3, <3>1
    <3>3. SampleIs(acc.samples[L], last) /\ Len(acc.samples) = L
      <4>1. L \in 1..L
        BY <1>1
      <4> QED BY <1>6, <2>1, <4>1 DEF last
    <3>4. Ended(acc.samples[L])
      BY <3>2, <3>3 DEF SampleIs
    <3> HIDE DEF l, file, got
    <3>5. /\ got \in Readings /\ ~ got.refused /\ got.finished
          /\ got.samples = acc.samples /\ got.resets = acc.resets
          /\ IF continues THEN got.trailing.episode = l ELSE got.trailing = acc.trailing
      BY <1>1, <1>3, <1>6, <3>1, <3>2, <3>3, <3>4, ReadsAfter DEF got
    <3>6. l = m + 1 /\ acc.trailing.episode = 0
      BY <1>6, <1>7, <2>3 DEF l
    <3>7. got.trailing.episode = IF l > m /\ continues /\ second # m THEN m + 1 ELSE 0
      BY <2>1, <2>3, <3>5, <3>6
    <3>8. ReadAt(got, l, m, ofs, done, second, continues)
      BY <1>6, <2>1, <2>2, <3>5, <3>7 DEF ReadAt
    <3> QED BY <3>8 DEF got, file, l, m, last, L
  <2>4. CASE ~ (n = m /\ second # m)
    <3>1. acc.finished
      BY <1>3, <1>6, <1>7, <2>1, <2>4
    <3>2. got = acc
      BY <3>1 DEF ReadFile
    <3>3. acc.trailing.episode = IF l > m /\ continues /\ second # m THEN m + 1 ELSE 0
      BY <1>3, <1>6, <1>7, <2>1, <2>4
    <3> HIDE DEF l, got
    <3>4. ReadAt(got, l, m, ofs, done, second, continues)
      BY <1>6, <2>1, <2>2, <3>1, <3>2, <3>3 DEF ReadAt
    <3> QED BY <3>4 DEF got, l, m, last, L
  <2> QED BY <2>3, <2>4
<1> QED BY <1>8, <1>9

\* The whole recording.
LEMMA ReadsAll ==
  ASSUME NEW files \in Seq(Files), NEW done \in Seq(Traces), NEW second, NEW ofs,
         Blocks(files, done, second, ofs), done # <<>>, NEW continues
  PROVE  ReadAt(Read(files, Len(done), continues), Len(files), done[Len(done)].episode, ofs, done,
                second, continues)
<1> DEFINE N == Len(files)
           L == Len(done)
           m == done[L].episode
<1>1. /\ N \in Nat /\ m \in 1..N /\ ofs[0] = 0
  BY LastBlock DEF Blocks
<1>2. PICK read : ReadingOf(read, files, L, continues) /\ Read(files, L, continues) = read[N]
  BY <1>1, ReadExists
<1> DEFINE T == {n \in Nat : n <= N => ReadAt(read[n], n, m, ofs, done, second, continues)}
<1>3. 0 \in T
  <2>1. NothingRead \in Readings
    <3> DEFINE none == <<>>
    <3>1. none \in Seq(Samplings) /\ none \in Seq(Resettings)
      OBVIOUS
    <3>2. NothingRead = [samples |-> none, resets |-> none, trailing |-> NotTrailing,
                         finished |-> FALSE, refused |-> FALSE]
      BY DEF NothingRead
    <3> HIDE DEF none
    <3> QED BY <3>1, <3>2 DEF Readings
  <2>2. /\ NothingRead.samples = <<>> /\ NothingRead.resets = <<>>
        /\ NothingRead.trailing.episode = 0 /\ ~ NothingRead.finished /\ ~ NothingRead.refused
    BY DEF NothingRead, NotTrailing
  <2> HIDE DEF N, m, L
  <2>3. 0 <= m /\ ~ (0 > m) /\ 0 # m
    BY <1>1
  <2>4. Len(<<>>) = 0 /\ 1..0 = {}
    OBVIOUS
  <2>5. ReadAt(NothingRead, 0, m, ofs, done, second, continues)
    BY <1>1, <2>1, <2>2, <2>3, <2>4 DEF ReadAt
  <2> QED BY <1>2, <2>5 DEF ReadingOf
<1>4. ASSUME NEW n \in Nat, n \in T PROVE n + 1 \in T
  <2> SUFFICES ASSUME n + 1 <= N
               PROVE  ReadAt(read[n + 1], n + 1, m, ofs, done, second, continues)
    OBVIOUS
  <2>1. n < N /\ ReadAt(read[n], n, m, ofs, done, second, continues)
    BY <1>1, <1>4
  <2>2. ReadAt(ReadFile(read[n], files[n + 1], n + 1, L, continues), n + 1, m, ofs, done, second,
               continues)
    BY <2>1, ReadsOn
  <2>3. read[n + 1] = ReadFile(read[n], files[n + 1], n + 1, L, continues)
    <3>1. n + 1 \in 1..N /\ (n + 1) - 1 = n
      BY <1>1
    <3> HIDE DEF L
    <3>2. read[n + 1] = ReadFile(read[(n + 1) - 1], files[n + 1], n + 1, L, continues)
      BY <1>2, <3>1 DEF ReadingOf
    <3> QED BY <3>1, <3>2
  <2> QED BY <2>2, <2>3
<1>5. N \in T
  <2> HIDE DEF T
  <2> QED BY <1>1, <1>3, <1>4, SetInduction
<1>6. ReadAt(read[N], N, m, ofs, done, second, continues)
  BY <1>5
<1> QED BY <1>2, <1>6

\* The files up to the last step's are those of the first update's games.
LEMMA FilesAreGames ==
  ASSUME NEW files \in Seq(Files), NEW done \in Seq(Traces), NEW second, NEW ofs,
         Blocks(files, done, second, ofs), done # <<>>
  PROVE  1..done[Len(done)].episode = {done[k].episode : k \in 1..Len(done)}
<1> DEFINE N == Len(files)
           L == Len(done)
           m == done[L].episode
<1>1. /\ L \in Nat \ {0} /\ m \in 1..N
      /\ \A n \in 0..N : ofs[n] \in Nat /\ ofs[n] <= L /\ (ofs[n] = L <=> n >= m)
      /\ second < m => second = 0
      /\ \A n \in 1..N : ofs[n - 1] <= ofs[n]
  BY LastBlock
<1>2. /\ N \in Nat /\ second \in 0..N
      /\ \A n \in 1..N : /\ BlockOf(files[n], n, ofs[n - 1], ofs[n], done, second)
                         /\ n < N => Complete(files[n])
      /\ \A k \in 1..L :
           LET n == done[k].episode IN
           n \in 1..N /\ ofs[n - 1] < k /\ k <= ofs[n]
  BY DEF Blocks
<1>3. \A n \in 1..N : files[n] \in Files
  OBVIOUS
<1> HIDE DEF N, L, m
<1>4. ASSUME NEW k \in 1..L PROVE done[k].episode \in 1..m
  <2> DEFINE n == done[k].episode
  <2>1. n \in 1..N /\ ofs[n - 1] < k
    BY <1>2
  <2> HIDE DEF n
  <2>2. n - 1 \in 0..N /\ n \in Nat
    BY <1>2, <2>1
  <2>3. ~ (n - 1 >= m)
    BY <1>1, <2>1, <2>2
  <2>4. n \in 1..m
    BY <1>1, <1>2, <2>1, <2>2, <2>3
  <2> QED BY <2>4 DEF n
<1>5. ASSUME NEW n \in 1..m PROVE \E k \in 1..L : done[k].episode = n
  <2> DEFINE from == ofs[n - 1]
             to == ofs[n]
             file == files[n]
  <2>1. n \in 1..N /\ n - 1 \in 0..N /\ n \in 0..N /\ n \in Nat /\ ~ (n - 1 >= m)
    BY <1>1, <1>2
  <2>2. BlockOf(file, n, from, to, done, second) /\ (n < N => Complete(file)) /\ file \in Files
    BY <1>2, <1>3, <2>1
  <2>3. from \in Nat /\ to \in Nat /\ from <= to /\ to <= L /\ from < L /\ (n = m => to = L)
    <3>1. from \in Nat /\ to \in Nat /\ from <= to /\ to <= L /\ from <= L /\ from # L
      BY <1>1, <2>1
    <3>2. n = m => to = L
      BY <1>1, <2>1
    <3> QED BY <1>1, <3>1, <3>2
  <2> HIDE DEF from, to, file
  <2>4. /\ Len(file.records) = (to - from) + (IF n = second THEN 1 ELSE 0)
        /\ \A i \in 1..(to - from) : IsStep(file, n, i, done[from + i])
        /\ file.records \in Seq(Transitions)
    BY <2>2 DEF BlockOf, Files
  <2>5. from < to
    <3>1. CASE n = m
      BY <2>3, <3>1
    <3>2. CASE n # m
      <4>1. n < m /\ n < N /\ n # second
        BY <1>1, <1>2, <2>1, <3>2
      <4>2. Len(file.records) # 0
        BY <2>2, <2>4, <4>1 DEF Complete
      <4> QED BY <2>3, <2>4, <4>1, <4>2
    <3> QED BY <3>1, <3>2
  <2>6. 1 \in 1..(to - from) /\ from + 1 \in 1..L
    BY <1>1, <2>3, <2>5
  <2>7. done[from + 1].episode = n
    BY <2>4, <2>6 DEF IsStep
  <2> QED BY <2>6, <2>7
<1>6. 1..m = {done[k].episode : k \in 1..L}
  BY <1>4, <1>5
<1> QED BY <1>6 DEF L, m

\* What the comparison makes of the recording.
TraceFacts(read, files, done, continues) ==
  LET L == Len(done)
      last == done[L] IN
  /\ read.refused <=> Retried(files) \/ (continues /\ Ends(last) /\ Len(files) = last.episode)
  /\ ~ read.refused =>
       /\ Len(read.samples) = L
       /\ \A i \in 1..L : SampleIs(read.samples[i], done[i])
       /\ {read.resets[i].episode : i \in DOMAIN read.resets} = {done[k].episode : k \in 1..L}
       /\ read.trailing.episode = IF continues /\ Ends(last) THEN last.episode + 1 ELSE 0

LEMMA TraceOf ==
  ASSUME NEW files \in Seq(Files), NEW done \in Seq(Traces), NEW second, NEW ofs,
         Blocks(files, done, second, ofs), done # <<>>, NEW continues
  PROVE  TraceFacts(Trace(files, Len(done), continues), files, done, continues)
<1> DEFINE N == Len(files)
           L == Len(done)
           last == done[L]
           m == last.episode
           got == Read(files, L, continues)
           read == Trace(files, L, continues)
<1>1. ReadAt(got, N, m, ofs, done, second, continues)
  BY ReadsAll
<1>2. /\ L \in Nat \ {0} /\ m \in 1..N /\ N \in Nat /\ ofs[N] = L
  BY LastBlock DEF Blocks
<1>3. /\ second = m => ~ Ends(last)
      /\ second # m /\ m < N => Ends(last)
  BY LastFileEnds
<1>4. 1..m = {done[k].episode : k \in 1..L}
  BY FilesAreGames
<1> HIDE DEF N, m, got
<1>5. /\ got \in Readings /\ ~ got.refused
      /\ Len(got.samples) = L
      /\ \A k \in 1..L : SampleIs(got.samples[k], done[k])
      /\ Len(got.resets) = m
      /\ \A i \in 1..m : got.resets[i].episode = i
      /\ got.trailing.episode = IF N > m /\ continues /\ second # m THEN m + 1 ELSE 0
  BY <1>1, <1>2 DEF ReadAt
<1>6. got.trailing = NotTrailing <=> ~ (N > m /\ continues /\ second # m)
  <2>1. got.trailing \in Resettings \union {NotTrailing}
    BY <1>5 DEF Readings
  <2>2. got.trailing = NotTrailing <=> got.trailing.episode = 0
    BY <2>1 DEF Resettings, NotTrailing
  <2>3. m + 1 # 0
    BY <1>2
  <2> QED BY <1>5, <2>2, <2>3
<1>7. Ended(Last(got.samples)) <=> Ends(last)
  <2>1. L \in 1..L
    BY <1>2
  <2>2. SampleIs(got.samples[L], last)
    BY <1>5, <2>1
  <2> QED BY <1>5, <2>2 DEF SampleIs, Last
<1>8. read = IF Retried(files) \/ (continues /\ Ends(last) /\ got.trailing = NotTrailing)
             THEN [got EXCEPT !.refused = TRUE] ELSE got
  <2>1. ~ (Len(got.samples) # L)
    BY <1>5
  <2> HIDE DEF L, last
  <2> QED BY <1>5, <1>7, <2>1 DEF Trace, got
<1>9. continues /\ Ends(last) /\ got.trailing = NotTrailing <=> continues /\ Ends(last) /\ N = m
  <2>1. N = m \/ N > m
    BY <1>2
  <2>2. ~ (N > m /\ N = m)
    BY <1>2
  <2> QED BY <1>3, <1>6, <2>1, <2>2
<1> HIDE DEF read
<1>10. read.refused <=> Retried(files) \/ (continues /\ Ends(last) /\ N = m)
  <2>1. CASE Retried(files) \/ (continues /\ Ends(last) /\ N = m)
    <3>1. read = [got EXCEPT !.refused = TRUE]
      BY <1>8, <1>9, <2>1
    <3>2. read.refused
      BY <1>5, <3>1 DEF Readings
    <3> QED BY <2>1, <3>2
  <2>2. CASE ~ (Retried(files) \/ (continues /\ Ends(last) /\ N = m))
    <3>1. read = got
      BY <1>8, <1>9, <2>2
    <3> QED BY <1>5, <2>2, <3>1
  <2> QED BY <2>1, <2>2
<1>11. ASSUME ~ read.refused
       PROVE  /\ Len(read.samples) = L
              /\ \A i \in 1..L : SampleIs(read.samples[i], done[i])
              /\ {read.resets[i].episode : i \in DOMAIN read.resets} = {done[k].episode : k \in 1..L}
              /\ read.trailing.episode = IF continues /\ Ends(last) THEN m + 1 ELSE 0
  <2>1. read = got
    BY <1>8, <1>9, <1>10, <1>11
  <2>2. got.trailing.episode = IF continues /\ Ends(last) THEN m + 1 ELSE 0
    <3>1. CASE continues /\ Ends(last)
      <4>1. N > m /\ second # m
        BY <1>2, <1>3, <1>10, <1>11, <3>1
      <4> QED BY <1>5, <3>1, <4>1
    <3>2. CASE ~ (continues /\ Ends(last))
      BY <1>3, <1>5, <3>2
    <3> QED BY <3>1, <3>2
  <2>3. DOMAIN got.resets = 1..m
    BY <1>2, <1>5 DEF Readings
  <2>4. {got.resets[i].episode : i \in DOMAIN got.resets} = 1..m
    BY <1>5, <2>3
  <2>5. {got.resets[i].episode : i \in DOMAIN got.resets} = {done[k].episode : k \in 1..L}
    BY <1>4, <2>4
  <2>6. Len(got.samples) = L /\ \A i \in 1..L : SampleIs(got.samples[i], done[i])
    BY <1>5
  <2> HIDE DEF L, last
  <2> QED BY <2>1, <2>2, <2>5, <2>6
<1>12. TraceFacts(read, files, done, continues)
  BY <1>10, <1>11 DEF TraceFacts, N, m
<1> QED BY <1>12 DEF read

\* TraceIsFirstUpdate, of the steps of the first update.
ReadsFirst(done) ==
  LET read == Trace(recorded, RolloutLength, continuing)
      last == done[RolloutLength]
      ends == continuing /\ (last.outcome # None \/ last.limit) IN
  /\ read.refused <=> Retried(recorded) \/ (ends /\ Len(recorded) = last.episode)
  /\ ~read.refused =>
       /\ Len(read.samples) = RolloutLength
       /\ \A i \in 1..RolloutLength :
            LET s == read.samples[i]
                t == done[i] IN
            /\ s.episode = t.episode /\ s.step = Len(t.played) - 1
            /\ s.before = t.before /\ s.after = t.after /\ s.action = t.action
            /\ s.reward = t.reward /\ s.outcome = t.outcome /\ s.truncated = t.limit
       /\ {read.resets[i].episode : i \in DOMAIN read.resets}
            = {done[i].episode : i \in 1..RolloutLength}
       /\ read.trailing.episode = IF ends THEN last.episode + 1 ELSE 0

LEMMA RecordInvariant == Spec => [](RolloutInv /\ RecordInv)
<1>1. RolloutInv /\ RecordInv /\ [Next]_vars => (RolloutInv /\ RecordInv)'
  BY RolloutNext, RecordNext
<1> QED BY InitRolloutInv, InitRecordInv, <1>1, PTL DEF Spec

\* For any games, limits, chunk lengths and numbers of episodes: from the recording of a
\* worker the comparison reads the first update's steps, in order and with what each was
\* taken from, and the resets of their games, the one that follows an end included; it
\* refuses only a recording with a retried start, and a continuing one that stops where
\* the update's last game ended.
THEOREM TraceSound == Spec => []TraceIsFirstUpdate
<1>1. RolloutInv /\ RecordInv => TraceIsFirstUpdate
  <2> SUFFICES ASSUME RolloutInv, RecordInv, recorded # <<>>, chunk > 1 \/ pc \in {"ending", "collected"}
               PROVE  TraceIsFirstUpdate
    BY DEF TraceIsFirstUpdate
  <2> DEFINE done == FirstSteps
  <2>1. /\ recorded \in Seq(Files) /\ done \in Seq(Traces) /\ Len(done) = RolloutLength
        /\ done # <<>>
    <3>1. recorded \in Seq(Files) /\ done \in Seq(Traces)
      BY DEF RecordInv, RecordTypes, RolloutInv, Types, FirstSteps
    <3>2. Len(done) = RolloutLength
      <4>1. CASE chunk > 1
        BY <4>1 DEF RecordInv, Phases, FirstSteps
      <4>2. CASE ~ (chunk > 1)
        BY <4>2 DEF RecordInv, Phases, FirstSteps, RolloutInv, RowsMatch
      <4> QED BY <4>1, <4>2
    <3>3. RolloutLength # 0
      BY RolloutAssumption
    <3> QED BY <3>1, <3>2, <3>3
  <2>2. PICK ofs : Blocks(recorded, done, SecondIn, ofs)
    BY DEF RecordInv, Recording, Kept
  <2> HIDE DEF done
  <2>3. TraceFacts(Trace(recorded, Len(done), continuing), recorded, done, continuing)
    BY <2>1, <2>2, TraceOf
  <2>4. ReadsFirst(done)
    <3> DEFINE read == Trace(recorded, RolloutLength, continuing)
               last == done[RolloutLength]
    <3>1. TraceFacts(read, recorded, done, continuing)
      BY <2>1, <2>3
    <3> HIDE DEF read
    <3>2. /\ read.refused <=> Retried(recorded) \/ (continuing /\ Ends(last) /\ Len(recorded) = last.episode)
          /\ ~ read.refused =>
               /\ Len(read.samples) = RolloutLength
               /\ \A i \in 1..RolloutLength : SampleIs(read.samples[i], done[i])
               /\ {read.resets[i].episode : i \in DOMAIN read.resets}
                    = {done[i].episode : i \in 1..RolloutLength}
               /\ read.trailing.episode
                    = IF continuing /\ Ends(last) THEN last.episode + 1 ELSE 0
      BY <2>1, <3>1 DEF TraceFacts
    <3>3. Ends(last) <=> last.outcome # None \/ last.limit
      BY DEF Ends
    <3>4. ~ read.refused =>
            \A i \in 1..RolloutLength :
              LET s == read.samples[i]
                  t == done[i] IN
              /\ s.episode = t.episode /\ s.step = Len(t.played) - 1
              /\ s.before = t.before /\ s.after = t.after /\ s.action = t.action
              /\ s.reward = t.reward /\ s.outcome = t.outcome /\ s.truncated = t.limit
      BY <3>2 DEF SampleIs
    <3> HIDE DEF last
    <3> QED BY <3>2, <3>3, <3>4 DEF ReadsFirst, read, last
  <2>5. ReadsFirst(IF chunk > 1 THEN first ELSE trace)
    BY <2>4 DEF done, FirstSteps
  <2> QED BY <2>5 DEF TraceIsFirstUpdate, ReadsFirst
<1> QED BY RecordInvariant, <1>1, PTL
-------------------------------------------------------------------------------
(* Exact fractions of amounts.                                                *)

\* A chain of sets of amounts, each closed under sums and differences, in which a fraction
\* of an amount is an amount of the next set, as it is for the multiples of the powers of
\* a common denominator.
Chain(level, depth, factor) ==
  /\ depth \in Nat /\ factor[1] \in Int /\ factor[2] \in Nat \ {0}
  /\ level \in [0..depth -> SUBSET Int]
  /\ \A k \in 0..depth : /\ 0 \in level[k]
                         /\ \A x, y \in level[k] : x + y \in level[k] /\ x - y \in level[k]
  /\ \A k \in 1..depth : /\ level[k] \subseteq level[k - 1]
                         /\ \A x \in level[k] : \E y \in level[k - 1] : factor[1] * x = factor[2] * y

LEMMA ExactDivision ==
  ASSUME NEW d \in Nat \ {0}, NEW x \in Int
  PROVE  (d * x) \div d = x
<1> DEFINE q == (d * x) \div d
           r == (d * x) % d
<1>1. q \in Int /\ r \in Int /\ d * x = d * q + r /\ 0 <= r /\ r < d
  OBVIOUS
<1> HIDE DEF q, r
<1>2. d * (x - q) = r
  BY <1>1
<1>3. CASE x - q >= 1
  <2>1. d * (x - q) >= d
    BY <1>1, <1>3
  <2> QED BY <1>1, <1>2, <2>1
<1>4. CASE x - q <= -1
  <2>1. d * (x - q) <= -d
    BY <1>1, <1>4
  <2> QED BY <1>1, <1>2, <2>1
<1>5. CASE x - q = 0
  BY <1>1, <1>5 DEF q
<1> QED BY <1>1, <1>3, <1>4, <1>5

LEMMA LevelIn ==
  ASSUME NEW level, NEW depth, NEW factor, Chain(level, depth, factor)
  PROVE  \A k \in 0..depth : \A j \in 0..k : level[k] \subseteq level[j]
<1> DEFINE T == {k \in Nat : k <= depth => \A j \in 0..k : level[k] \subseteq level[j]}
<1>1. 0 \in T
  OBVIOUS
<1>2. ASSUME NEW k \in Nat, k \in T PROVE k + 1 \in T
  <2> SUFFICES ASSUME k + 1 <= depth, NEW j \in 0..(k + 1) PROVE level[k + 1] \subseteq level[j]
    OBVIOUS
  <2>1. depth \in Nat /\ level[k + 1] \subseteq level[k]
    <3>1. depth \in Nat
      BY DEF Chain
    <3>2. k + 1 \in 1..depth /\ (k + 1) - 1 = k
      BY <3>1
    <3> QED BY <3>1, <3>2 DEF Chain
  <2>2. CASE j = k + 1
    BY <2>2
  <2>3. CASE j # k + 1
    <3>1. j \in 0..k /\ k <= depth
      BY <2>1, <2>3
    <3>2. level[k] \subseteq level[j]
      BY <1>2, <3>1
    <3> QED BY <2>1, <3>2
  <2> QED BY <2>2, <2>3
<1> HIDE DEF T
<1>3. Nat \subseteq T
  BY <1>1, <1>2, SetInduction
<1>4. ASSUME NEW k \in 0..depth PROVE k \in Nat /\ k <= depth
  BY DEF Chain
<1> QED BY <1>3, <1>4 DEF T

LEMMA LevelSums ==
  ASSUME NEW level, NEW depth, NEW factor, Chain(level, depth, factor), NEW k \in 0..depth,
         NEW x \in level[k], NEW y \in level[k]
  PROVE  x \in Int /\ x + y \in level[k] /\ x - y \in level[k] /\ 0 \in level[k]
<1> QED BY DEF Chain

\* A fraction is exact.
LEMMA TimesIs ==
  ASSUME NEW level, NEW depth, NEW factor, Chain(level, depth, factor), NEW k \in 1..depth,
         NEW x \in level[k]
  PROVE  /\ Times(factor, x) \in level[k - 1] /\ Times(factor, x) \in Int
         /\ factor[1] * x = factor[2] * Times(factor, x)
<1>1. PICK y \in level[k - 1] : factor[1] * x = factor[2] * y
  BY DEF Chain
<1>2. y \in Int /\ factor[2] \in Nat \ {0} /\ depth \in Nat
  <2>1. depth \in Nat
    BY DEF Chain
  <2>2. k - 1 \in 0..depth
    BY <2>1
  <2> QED BY <1>1, <2>1, <2>2 DEF Chain
<1>3. Times(factor, x) = (factor[2] * y) \div factor[2]
  BY <1>1 DEF Times
<1>4. Times(factor, x) = y
  BY <1>2, <1>3, ExactDivision
<1> QED BY <1>1, <1>2, <1>4

LEMMA SameProduct ==
  ASSUME NEW d \in Nat \ {0}, NEW x \in Int, NEW y \in Int, d * x = d * y
  PROVE  x = y
<1>1. (d * x) \div d = x /\ (d * y) \div d = y
  BY ExactDivision
<1> QED BY <1>1

LEMMA TimesAdds ==
  ASSUME NEW level, NEW depth, NEW factor, Chain(level, depth, factor), NEW k \in 1..depth,
         NEW x \in level[k], NEW y \in level[k]
  PROVE  /\ Times(factor, x + y) = Times(factor, x) + Times(factor, y)
         /\ Times(factor, x - y) = Times(factor, x) - Times(factor, y)
         /\ Times(factor, 0) = 0
<1> DEFINE n == factor[1]
           d == factor[2]
           a == Times(factor, x)
           b == Times(factor, y)
           s == Times(factor, x + y)
           t == Times(factor, x - y)
           z == Times(factor, 0)
<1>1. n \in Int /\ d \in Nat \ {0} /\ k \in 0..depth
  BY DEF Chain
<1>2. x \in Int /\ y \in Int /\ x + y \in level[k] /\ x - y \in level[k] /\ 0 \in level[k]
  BY <1>1, LevelSums
<1>3. a \in Int /\ n * x = d * a
  BY TimesIs
<1>4. b \in Int /\ n * y = d * b
  BY TimesIs
<1>5. s \in Int /\ n * (x + y) = d * s
  BY <1>2, TimesIs
<1>6. t \in Int /\ n * (x - y) = d * t
  BY <1>2, TimesIs
<1>7. z \in Int /\ n * 0 = d * z
  BY <1>2, TimesIs
<1> HIDE DEF n, d, a, b, s, t, z
<1>8. d * s = d * (a + b) /\ a + b \in Int
  BY <1>1, <1>2, <1>3, <1>4, <1>5
<1>9. d * t = d * (a - b) /\ a - b \in Int
  BY <1>1, <1>2, <1>3, <1>4, <1>6
<1>10. d * z = d * 0
  BY <1>1, <1>7
<1>11. s = a + b /\ t = a - b /\ z = 0
  BY <1>1, <1>5, <1>6, <1>7, <1>8, <1>9, <1>10, SameProduct
<1> QED BY <1>11 DEF s, t, z, a, b

\* Two factors, one after the other.
LEMMA TimesCommute ==
  ASSUME NEW level, NEW depth, NEW f, NEW g, Chain(level, depth, f), Chain(level, depth, g),
         NEW k \in 2..depth, NEW x \in level[k]
  PROVE  Times(f, Times(g, x)) = Times(g, Times(f, x))
<1> DEFINE fn == f[1]
           fd == f[2]
           gn == g[1]
           gd == g[2]
           a == Times(f, x)
           b == Times(g, x)
           u == Times(g, a)
           v == Times(f, b)
<1>1. fn \in Int /\ fd \in Nat \ {0} /\ gn \in Int /\ gd \in Nat \ {0} /\ depth \in Nat
  BY DEF Chain
<1>2. k \in 1..depth /\ k - 1 \in 1..depth /\ k \in 0..depth
  BY <1>1
<1>3. x \in Int
  BY <1>2, LevelSums
<1>4. a \in level[k - 1] /\ a \in Int /\ fn * x = fd * a
  BY <1>2, TimesIs
<1>5. b \in level[k - 1] /\ b \in Int /\ gn * x = gd * b
  BY <1>2, TimesIs
<1>6. u \in Int /\ gn * a = gd * u
  <2> HIDE DEF a
  <2> QED BY <1>2, <1>4, TimesIs
<1>7. v \in Int /\ fn * b = fd * v
  <2> HIDE DEF b
  <2> QED BY <1>2, <1>5, TimesIs
<1> HIDE DEF fn, fd, gn, gd, a, b, u, v
<1>8. fd * (gd * u) = gn * (fn * x)
  <2>1. fd * (gd * u) = fd * (gn * a)
    BY <1>6
  <2>2. fd * (gn * a) = gn * (fd * a)
    BY <1>1, <1>4
  <2> QED BY <1>4, <2>1, <2>2
<1>9. gd * (fd * v) = fn * (gn * x)
  <2>1. gd * (fd * v) = gd * (fn * b)
    BY <1>7
  <2>2. gd * (fn * b) = fn * (gd * b)
    BY <1>1, <1>5
  <2> QED BY <1>5, <2>1, <2>2
<1>10. fd * (gd * u) = fd * (gd * v)
  <2>1. gn * (fn * x) = fn * (gn * x)
    BY <1>1, <1>3
  <2>2. gd * (fd * v) = fd * (gd * v)
    BY <1>1, <1>7
  <2> QED BY <1>8, <1>9, <2>1, <2>2
<1>11. gd * u \in Int /\ gd * v \in Int
  BY <1>1, <1>6, <1>7
<1>12. gd * u = gd * v
  BY <1>1, <1>10, <1>11, SameProduct
<1>13. u = v
  BY <1>1, <1>6, <1>7, <1>12, SameProduct
<1> QED BY <1>13 DEF u, v, a, b
\* The values of a recursion, the step given as a function.
Upto(f, m, X, start, G) ==
  f \in [0..m -> X] /\ f[0] = start /\ \A n \in 0..(m - 1) : f[n + 1] = G[<<n, f[n]>>]

LEMMA UptoExists ==
  ASSUME NEW X, NEW start \in X, NEW G \in [Nat \X X -> X]
  PROVE  \A m \in Nat : \E f : Upto(f, m, X, start, G)
<1> DEFINE T == {m \in Nat : \E f : Upto(f, m, X, start, G)}
<1>1. 0 \in T
  <2> DEFINE f == [i \in 0..0 |-> start]
  <2>1. Upto(f, 0, X, start, G)
    BY DEF Upto
  <2> HIDE DEF f
  <2> QED BY <2>1
<1>2. ASSUME NEW m \in Nat, m \in T PROVE m + 1 \in T
  <2>1. PICK f : Upto(f, m, X, start, G)
    BY <1>2
  <2> DEFINE g == [i \in 0..(m + 1) |-> IF i = m + 1 THEN G[<<m, f[m]>>] ELSE f[i]]
  <2>2. f \in [0..m -> X] /\ f[0] = start /\ \A n \in 0..(m - 1) : f[n + 1] = G[<<n, f[n]>>]
    BY <2>1 DEF Upto
  <2>3. G[<<m, f[m]>>] \in X
    BY <2>2
  <2>4. g \in [0..(m + 1) -> X] /\ g[0] = start
    BY <2>2, <2>3
  <2>5. \A n \in 0..((m + 1) - 1) : g[n + 1] = G[<<n, g[n]>>]
    <3> TAKE n \in 0..((m + 1) - 1)
    <3>1. CASE n = m
      <4>1. g[n + 1] = G[<<m, f[m]>>] /\ g[n] = f[m]
        BY <3>1
      <4> QED BY <3>1, <4>1
    <3>2. CASE n # m
      <4>1. n \in 0..(m - 1) /\ g[n + 1] = f[n + 1] /\ g[n] = f[n]
        BY <3>2
      <4> QED BY <2>2, <4>1
    <3> QED BY <3>1, <3>2
  <2>6. Upto(g, m + 1, X, start, G)
    BY <2>4, <2>5 DEF Upto
  <2> HIDE DEF g
  <2> QED BY <2>6
<1> HIDE DEF T
<1>3. Nat \subseteq T
  BY <1>1, <1>2, SetInduction
<1> QED BY <1>3 DEF T

LEMMA UptoUnique ==
  ASSUME NEW X, NEW start, NEW G, NEW m \in Nat, NEW k \in Nat, m <= k, NEW f, NEW g,
         Upto(f, m, X, start, G), Upto(g, k, X, start, G)
  PROVE  \A n \in 0..m : f[n] = g[n]
<1> DEFINE T == {n \in Nat : n <= m => f[n] = g[n]}
<1>1. 0 \in T
  BY DEF Upto
<1>2. ASSUME NEW n \in Nat, n \in T PROVE n + 1 \in T
  <2> SUFFICES ASSUME n + 1 <= m PROVE f[n + 1] = g[n + 1]
    OBVIOUS
  <2>1. n \in 0..(m - 1) /\ n \in 0..(k - 1) /\ f[n] = g[n]
    BY <1>2
  <2> QED BY <2>1 DEF Upto
<1> HIDE DEF T
<1>3. Nat \subseteq T
  BY <1>1, <1>2, SetInduction
<1> QED BY <1>3 DEF T

Stepped(X, start, G) == start \in X /\ G \in [Nat \X X -> X]
Unfolds(f, X, start, G) == f \in [Nat -> X] /\ f[0] = start /\ \A n \in Nat : f[n + 1] = G[<<n, f[n]>>]

LEMMA Recursion ==
  ASSUME NEW X, NEW start, NEW G, Stepped(X, start, G)
  PROVE  \E f : Unfolds(f, X, start, G)
<1> DEFINE F(m) == CHOOSE f : Upto(f, m, X, start, G)
           f == [m \in Nat |-> F(m)[m]]
<1>1. \A m \in Nat : Upto(F(m), m, X, start, G)
  BY UptoExists DEF Stepped
<1> HIDE DEF F
<1>2. f \in [Nat -> X] /\ f[0] = start
  BY <1>1 DEF Upto
<1>3. ASSUME NEW n \in Nat PROVE f[n + 1] = G[<<n, f[n]>>]
  <2>1. F(n)[n] = F(n + 1)[n]
    <3> DEFINE a == F(n)
               b == F(n + 1)
               l == n + 1
    <3>1. l \in Nat /\ n <= l /\ n \in 0..n /\ Upto(a, n, X, start, G) /\ Upto(b, l, X, start, G)
      BY <1>1
    <3> HIDE DEF a, b, l
    <3>2. \A i \in 0..n : a[i] = b[i]
      BY <3>1, UptoUnique
    <3>3. a[n] = b[n]
      BY <3>1, <3>2
    <3> QED BY <3>3 DEF a, b, l
  <2>2. F(n + 1)[n + 1] = G[<<n, F(n + 1)[n]>>]
    BY <1>1 DEF Upto
  <2> QED BY <2>1, <2>2
<1> HIDE DEF f
<1>4. Unfolds(f, X, start, G)
  BY <1>2, <1>3 DEF Unfolds
<1> QED BY <1>4
-------------------------------------------------------------------------------
(* Powers of a factor, and sums.                                              *)

Factor(f) == f[1] \in Int /\ f[2] \in Nat \ {0}

LEMMA TimesInt ==
  ASSUME NEW f, Factor(f), NEW x \in Int
  PROVE  Times(f, x) \in Int
<1> DEFINE n == f[1]
           d == f[2]
<1>1. n \in Int /\ d \in Nat \ {0}
  BY DEF Factor
<1> HIDE DEF n, d
<1>2. (n * x) \in Int
  BY <1>1
<1>3. (n * x) \div d \in Int
  BY <1>1, <1>2
<1> QED BY <1>3 DEF Times, n, d

LEMMA DiscountedIs ==
  ASSUME NEW f, Factor(f), NEW x \in Int
  PROVE  /\ Discounted(f, 0, x) = x
         /\ \A n \in Nat : /\ Discounted(f, n, x) \in Int
                           /\ Discounted(f, n + 1, x) = Times(f, Discounted(f, n, x))
<1> DEFINE Is(p) == p = [k \in Nat |-> IF k = 0 THEN x ELSE Times(f, p[k - 1])]
           power == CHOOSE p : Is(p)
           G == [at \in Nat \X Int |-> Times(f, at[2])]
<1>1. G \in [Nat \X Int -> Int]
  BY TimesInt
<1>2. PICK p : Unfolds(p, Int, x, G)
  <2> HIDE DEF G
  <2> QED BY <1>1, Recursion DEF Stepped
<1>3. p \in [Nat -> Int] /\ p[0] = x /\ \A n \in Nat : p[n + 1] = Times(f, p[n])
  BY <1>2 DEF Unfolds
<1>4. ASSUME NEW k \in Nat PROVE p[k] = IF k = 0 THEN x ELSE Times(f, p[k - 1])
  <2>1. CASE k = 0
    BY <1>3, <2>1
  <2>2. CASE k # 0
    <3>1. k - 1 \in Nat /\ (k - 1) + 1 = k
      BY <2>2
    <3> QED BY <1>3, <2>2, <3>1
  <2> QED BY <2>1, <2>2
<1>5. Is(p)
  <2>1. p = [k \in Nat |-> p[k]]
    BY <1>3
  <2> QED BY <1>4, <2>1
<1>6. Is(power)
  <2> HIDE DEF Is
  <2> QED BY <1>5
<1>7. \A n \in Nat : Discounted(f, n, x) = power[n]
  BY DEF Discounted
<1> HIDE DEF power
<1>8. power[0] = x /\ \A n \in Nat : power[n + 1] = Times(f, power[n])
  <2>1. power[0] = x
    BY <1>6
  <2>2. ASSUME NEW n \in Nat PROVE power[n + 1] = Times(f, power[n])
    <3>1. n + 1 \in Nat /\ n + 1 # 0 /\ (n + 1) - 1 = n
      OBVIOUS
    <3> QED BY <1>6, <3>1
  <2> QED BY <2>1, <2>2
<1> DEFINE T == {n \in Nat : power[n] \in Int}
<1>9. 0 \in T
  BY <1>8
<1>10. ASSUME NEW n \in Nat, n \in T PROVE n + 1 \in T
  BY <1>8, <1>10, TimesInt
<1>11. \A n \in Nat : power[n] \in Int
  <2> HIDE DEF T
  <2>1. Nat \subseteq T
    BY <1>9, <1>10, SetInduction
  <2> QED BY <2>1 DEF T
<1> QED BY <1>7, <1>8, <1>11

LEMMA TotalIs ==
  ASSUME NEW f, Len(f) \in Nat, \A i \in 1..Len(f) : f[i] \in Int
  PROVE  /\ Total(f, 0) = 0
         /\ \A n \in 1..Len(f) : Total(f, n) \in Int /\ Total(f, n) = Total(f, n - 1) + f[n]
<1> DEFINE N == Len(f)
           Is(s) == s = [k \in 0..N |-> IF k = 0 THEN 0 ELSE s[k - 1] + f[k]]
           sum == CHOOSE s : Is(s)
           G == [at \in Nat \X Int |-> IF at[1] < N THEN at[2] + f[at[1] + 1] ELSE 0]
<1>1. G \in [Nat \X Int -> Int]
  <2> SUFFICES ASSUME NEW k \in Nat, NEW v \in Int
               PROVE  (IF k < N THEN v + f[k + 1] ELSE 0) \in Int
    OBVIOUS
  <2>1. k < N => k + 1 \in 1..N
    OBVIOUS
  <2>2. k < N => f[k + 1] \in Int
    BY <2>1
  <2> QED BY <2>2
<1>2. 0 \in Int /\ N \in Nat
  OBVIOUS
<1>3. PICK s : Upto(s, N, Int, 0, G)
  <2> HIDE DEF G, N
  <2> QED BY <1>1, <1>2, UptoExists
<1>4. s \in [0..N -> Int] /\ s[0] = 0 /\ \A n \in 0..(N - 1) : s[n + 1] = G[<<n, s[n]>>]
  BY <1>3 DEF Upto
<1>5. ASSUME NEW n \in 0..(N - 1) PROVE s[n + 1] = s[n] + f[n + 1]
  <2>1. n \in Nat /\ n < N /\ n \in 0..N
    BY <1>2
  <2>2. s[n] \in Int
    BY <1>4, <2>1
  <2> QED BY <1>4, <2>1, <2>2
<1>6. ASSUME NEW k \in 0..N PROVE s[k] = IF k = 0 THEN 0 ELSE s[k - 1] + f[k]
  <2>1. CASE k # 0
    <3>1. k - 1 \in 0..(N - 1) /\ (k - 1) + 1 = k
      BY <2>1
    <3> QED BY <1>5, <2>1, <3>1
  <2> QED BY <1>4, <2>1
<1>7. Is(s)
  <2>1. s = [k \in 0..N |-> s[k]]
    BY <1>4
  <2> QED BY <1>6, <2>1
<1>8. Is(sum)
  <2> HIDE DEF Is
  <2> QED BY <1>7
<1>9. \A n \in 0..N : Total(f, n) = sum[n]
  BY DEF Total
<1> HIDE DEF sum
<1>10. sum[0] = 0 /\ \A k \in 1..N : sum[k] = sum[k - 1] + f[k]
  <2>1. \A k \in 0..N : sum[k] = IF k = 0 THEN 0 ELSE sum[k - 1] + f[k]
    BY <1>8
  <2> HIDE DEF Is
  <2> QED BY <1>2, <2>1
<1> DEFINE T == {n \in Nat : n <= N => sum[n] \in Int}
<1>11. 0 \in T
  BY <1>10
<1>12. ASSUME NEW n \in Nat, n \in T PROVE n + 1 \in T
  <2> SUFFICES ASSUME n + 1 <= N PROVE sum[n + 1] \in Int
    OBVIOUS
  <2>1. n + 1 \in 1..N /\ sum[n] \in Int /\ (n + 1) - 1 = n
    BY <1>2, <1>12
  <2>2. f[n + 1] \in Int
    BY <2>1
  <2> QED BY <1>10, <2>1, <2>2
<1>13. \A n \in 0..N : sum[n] \in Int
  <2>1. Nat \subseteq T
    <3> HIDE DEF T
    <3> QED BY <1>11, <1>12, SetInduction
  <2> QED BY <2>1
<1>14. \A n \in 1..N : n \in 0..N /\ n - 1 \in 0..N
  BY <1>2
<1>15. 0 \in 0..N
  BY <1>2
<1> HIDE DEF Is, T
<1> QED BY <1>9, <1>10, <1>13, <1>14, <1>15
-------------------------------------------------------------------------------
(* Powers of a factor, of amounts.                                            *)

LEMMA ChainIs ==
  ASSUME NEW level, NEW depth, NEW f, Chain(level, depth, f)
  PROVE  /\ Factor(f) /\ depth \in Nat
         /\ \A k \in 0..depth : level[k] \subseteq Int /\ \A j \in 0..k : level[k] \subseteq level[j]
<1>1. \A k \in 0..depth : level[k] \subseteq Int
  BY DEF Chain
<1>2. \A k \in 0..depth : \A j \in 0..k : level[k] \subseteq level[j]
  BY LevelIn
<1> QED BY <1>1, <1>2 DEF Chain, Factor

LEMMA PowerLevel ==
  ASSUME NEW level, NEW depth, NEW f, Chain(level, depth, f),
         NEW k \in 0..depth, NEW x \in level[k], NEW n \in 0..k
  PROVE  Discounted(f, n, x) \in level[k - n]
<1> DEFINE T == {i \in Nat : i <= k => Discounted(f, i, x) \in level[k - i]}
<1>1. Factor(f) /\ depth \in Nat /\ x \in Int
  BY ChainIs
<1>2. /\ Discounted(f, 0, x) = x
      /\ \A i \in Nat : Discounted(f, i + 1, x) = Times(f, Discounted(f, i, x))
  BY <1>1, DiscountedIs
<1>3. 0 \in T
  BY <1>1, <1>2
<1>4. ASSUME NEW i \in Nat, i \in T PROVE i + 1 \in T
  <2> SUFFICES ASSUME i + 1 <= k PROVE Discounted(f, i + 1, x) \in level[k - (i + 1)]
    OBVIOUS
  <2> DEFINE y == Discounted(f, i, x)
             j == k - i
  <2>1. y \in level[j]
    BY <1>1, <1>4
  <2>2. j \in 1..depth /\ j - 1 = k - (i + 1)
    BY <1>1
  <2> HIDE DEF y, j
  <2>3. Times(f, y) \in level[j - 1]
    BY <2>1, <2>2, TimesIs
  <2> QED BY <1>2, <2>2, <2>3 DEF y
<1>5. Nat \subseteq T
  <2> HIDE DEF T
  <2> QED BY <1>3, <1>4, SetInduction
<1>6. n \in Nat /\ n <= k
  BY <1>1
<1> QED BY <1>5, <1>6

LEMMA PowerAdds ==
  ASSUME NEW level, NEW depth, NEW f, Chain(level, depth, f),
         NEW k \in 0..depth, NEW x \in level[k], NEW y \in level[k], NEW n \in 0..k
  PROVE  Discounted(f, n, x + y) = Discounted(f, n, x) + Discounted(f, n, y)
<1> DEFINE D(i, z) == Discounted(f, i, z)
           T == {i \in Nat : i <= k => D(i, x + y) = D(i, x) + D(i, y)}
<1>1. Factor(f) /\ depth \in Nat /\ x \in Int /\ y \in Int
  BY ChainIs
<1>2. x + y \in Int
  BY <1>1
<1>3. ASSUME NEW z \in Int PROVE D(0, z) = z /\ \A i \in Nat : D(i + 1, z) = Times(f, D(i, z))
  BY <1>1, DiscountedIs
<1>4. ASSUME NEW i \in 0..k PROVE D(i, x) \in level[k - i] /\ D(i, y) \in level[k - i]
  BY PowerLevel
<1> HIDE DEF D
<1>5. 0 \in T
  BY <1>1, <1>2, <1>3
<1>6. ASSUME NEW i \in Nat, i \in T PROVE i + 1 \in T
  <2> SUFFICES ASSUME i + 1 <= k PROVE D(i + 1, x + y) = D(i + 1, x) + D(i + 1, y)
    OBVIOUS
  <2> DEFINE j == k - i
             p == D(i, x)
             q == D(i, y)
  <2>1. j \in 1..depth /\ i \in 0..k
    BY <1>1
  <2>2. p \in level[j] /\ q \in level[j] /\ D(i, x + y) = p + q
    BY <1>4, <1>6, <2>1
  <2> HIDE DEF j, p, q
  <2>3. Times(f, p + q) = Times(f, p) + Times(f, q)
    BY <2>1, <2>2, TimesAdds
  <2> QED BY <1>1, <1>2, <1>3, <2>2, <2>3 DEF p, q
<1>7. Nat \subseteq T
  <2> HIDE DEF T
  <2> QED BY <1>5, <1>6, SetInduction
<1>8. n \in Nat /\ n <= k
  BY <1>1
<1> QED BY <1>7, <1>8 DEF D

\* A power of one factor and the other.
LEMMA PowerCommutes ==
  ASSUME NEW level, NEW depth, NEW f, NEW g, Chain(level, depth, f), Chain(level, depth, g),
         NEW k \in 1..depth, NEW x \in level[k], NEW n \in 0..(k - 1)
  PROVE  Discounted(g, n, Times(f, x)) = Times(f, Discounted(g, n, x))
<1> DEFINE D(i, z) == Discounted(g, i, z)
           y == Times(f, x)
           T == {i \in Nat : i <= k - 1 => D(i, y) = Times(f, D(i, x))}
<1>1. Factor(f) /\ Factor(g) /\ depth \in Nat /\ x \in Int /\ k \in Nat /\ k \in 0..depth
  <2>1. Factor(f) /\ Factor(g) /\ depth \in Nat
    BY ChainIs
  <2>2. k \in 0..depth
    BY <2>1
  <2> QED BY <2>1, <2>2, ChainIs
<1>2. y \in Int
  BY <1>1, TimesInt
<1>3. ASSUME NEW z \in Int PROVE D(0, z) = z /\ \A i \in Nat : D(i + 1, z) = Times(g, D(i, z))
  BY <1>1, DiscountedIs
<1>4. ASSUME NEW i \in 0..k PROVE D(i, x) \in level[k - i]
  BY <1>1, PowerLevel
<1> HIDE DEF D
<1>5. 0 \in T
  BY <1>1, <1>2, <1>3
<1>6. ASSUME NEW i \in Nat, i \in T PROVE i + 1 \in T
  <2> SUFFICES ASSUME i + 1 <= k - 1 PROVE D(i + 1, y) = Times(f, D(i + 1, x))
    OBVIOUS
  <2> DEFINE j == k - i
             p == D(i, x)
  <2>1. j \in 2..depth /\ i \in 0..k
    BY <1>1
  <2>2. p \in level[j] /\ D(i, y) = Times(f, p)
    BY <1>1, <1>4, <1>6, <2>1
  <2>3. D(i + 1, y) = Times(g, D(i, y)) /\ D(i + 1, x) = Times(g, p)
    BY <1>1, <1>2, <1>3
  <2> HIDE DEF j, p
  <2>4. Times(f, Times(g, p)) = Times(g, Times(f, p))
    BY <2>1, <2>2, TimesCommute
  <2> QED BY <2>2, <2>3, <2>4
<1>7. Nat \subseteq T
  <2> HIDE DEF T
  <2> QED BY <1>5, <1>6, SetInduction
<1>8. n \in Nat /\ n <= k - 1
  BY <1>1
<1> QED BY <1>7, <1>8 DEF D
-------------------------------------------------------------------------------
(* Sums of amounts.                                                           *)

LEMMA TotalLevel ==
  ASSUME NEW level, NEW depth, NEW factor, Chain(level, depth, factor), NEW k \in 0..depth,
         NEW f, Len(f) \in Nat, NEW m \in 0..Len(f),
         \A i \in 1..Len(f) : f[i] \in Int, \A i \in 1..m : f[i] \in level[k]
  PROVE  Total(f, m) \in level[k]
<1> DEFINE T == {i \in Nat : i <= m => Total(f, i) \in level[k]}
<1>1. /\ Total(f, 0) = 0
      /\ \A n \in 1..Len(f) : Total(f, n) \in Int /\ Total(f, n) = Total(f, n - 1) + f[n]
  BY TotalIs
<1>2. 0 \in T
  <2>1. 0 \in level[k]
    BY DEF Chain
  <2> QED BY <1>1, <2>1
<1>3. ASSUME NEW i \in Nat, i \in T PROVE i + 1 \in T
  <2> SUFFICES ASSUME i + 1 <= m PROVE Total(f, i + 1) \in level[k]
    OBVIOUS
  <2>1. i + 1 \in 1..Len(f) /\ i + 1 \in 1..m /\ (i + 1) - 1 = i /\ i <= m
    OBVIOUS
  <2> DEFINE x == Total(f, i)
             y == f[i + 1]
  <2>2. x \in level[k] /\ y \in level[k] /\ Total(f, i + 1) = x + y
    BY <1>1, <1>3, <2>1
  <2> HIDE DEF x, y
  <2>3. x + y \in level[k]
    BY <2>2, LevelSums
  <2> QED BY <2>2, <2>3
<1>4. Nat \subseteq T
  <2> HIDE DEF T
  <2> QED BY <1>2, <1>3, SetInduction
<1>5. m \in Nat
  OBVIOUS
<1> QED BY <1>4, <1>5

\* A list whose later terms are a fraction of another's.
Shifted(f, g, factor, amounts, m) ==
  /\ Len(f) \in Nat /\ Len(g) \in Nat /\ Len(f) = Len(g) + 1 /\ m \in 0..Len(g)
  /\ \A i \in 1..Len(f) : f[i] \in Int
  /\ \A i \in 1..Len(g) : g[i] \in Int
  /\ \A i \in 1..m : g[i] \in amounts /\ f[i + 1] = Times(factor, g[i])

LEMMA TotalShift ==
  ASSUME NEW level, NEW depth, NEW factor, Chain(level, depth, factor), NEW k \in 1..depth,
         NEW f, NEW g, NEW m, Shifted(f, g, factor, level[k], m)
  PROVE  Total(f, m + 1) = f[1] + Times(factor, Total(g, m))
<1> USE DEF Shifted
<1> DEFINE T == {i \in Nat : i <= m => Total(f, i + 1) = f[1] + Times(factor, Total(g, i))}
<1>1. /\ Total(f, 0) = 0
      /\ \A n \in 1..Len(f) : Total(f, n) \in Int /\ Total(f, n) = Total(f, n - 1) + f[n]
  BY TotalIs
<1>2. /\ Total(g, 0) = 0
      /\ \A n \in 1..Len(g) : Total(g, n) \in Int /\ Total(g, n) = Total(g, n - 1) + g[n]
  BY TotalIs
<1>3. k \in 0..depth /\ Factor(factor)
  BY ChainIs
<1>4. ASSUME NEW i \in 0..m PROVE Total(g, i) \in level[k]
  <2>1. i \in 0..Len(g) /\ \A j \in 1..i : g[j] \in level[k]
    OBVIOUS
  <2> QED BY <1>3, <2>1, TotalLevel
<1>5. 0 \in T
  <2>1. Times(factor, 0) = 0
    <3>1. 0 \in level[k]
      BY <1>3 DEF Chain
    <3> QED BY <3>1, TimesAdds
  <2>2. 1 \in 1..Len(f) /\ 1 - 1 = 0
    OBVIOUS
  <2>3. Total(f, 1) = f[1]
    BY <1>1, <2>2
  <2> QED BY <1>2, <2>1, <2>2, <2>3
<1>6. ASSUME NEW i \in Nat, i \in T PROVE i + 1 \in T
  <2> SUFFICES ASSUME i + 1 <= m
               PROVE  Total(f, (i + 1) + 1) = f[1] + Times(factor, Total(g, i + 1))
    OBVIOUS
  <2>1. /\ i + 1 \in 1..Len(g) /\ i + 1 \in 1..m /\ (i + 1) - 1 = i /\ i \in 0..m
        /\ (i + 1) + 1 \in 1..Len(f) /\ ((i + 1) + 1) - 1 = i + 1
    OBVIOUS
  <2> DEFINE x == Total(g, i)
             y == g[i + 1]
  <2>2. x \in level[k] /\ y \in level[k] /\ Total(g, i + 1) = x + y
    BY <1>2, <1>4, <2>1
  <2>3. Total(f, (i + 1) + 1) = Total(f, i + 1) + Times(factor, y)
    BY <1>1, <2>1
  <2>4. Total(f, i + 1) = f[1] + Times(factor, x)
    BY <1>6, <2>1
  <2>5. f[1] \in Int
    BY <2>1
  <2> HIDE DEF x, y
  <2>6. Times(factor, x + y) = Times(factor, x) + Times(factor, y)
    BY <2>2, TimesAdds
  <2>7. Times(factor, x) \in Int /\ Times(factor, y) \in Int
    BY <2>2, TimesIs
  <2> QED BY <2>2, <2>3, <2>4, <2>5, <2>6, <2>7
<1>7. Nat \subseteq T
  <2> HIDE DEF T
  <2> QED BY <1>5, <1>6, SetInduction
<1>8. m \in Nat
  OBVIOUS
<1> QED BY <1>7, <1>8
-------------------------------------------------------------------------------
(* The returns of a stretch, the steps from t to the last of an episode or of  *)
(* the chunk: its rewards, its n-step returns, and their weighted average up   *)
(* to the m-th.                                                               *)

Amounts(level, depth) == Chain(level, depth, Discount) /\ Chain(level, depth, Lambda)

Stretch(level, depth, t, last, rewards, after) ==
  /\ Amounts(level, depth)
  /\ t \in Nat /\ last \in Nat /\ t <= last /\ 2 * (last - t + 1) <= depth
  /\ \A i \in t..last : rewards[i] \in level[depth] /\ after[i] \in level[depth]

Rewarded(t, last, rewards) ==
  [i \in 1..(last - t + 1) |-> Discounted(Discount, i - 1, rewards[t + i - 1])]
NStepReturn(t, last, rewards, after, n) ==
  Total(Rewarded(t, last, rewards), n) + Discounted(Discount, n, after[t + n - 1])
WeightedReturn(t, last, rewards, after, n) ==
  Discounted(Lambda, n - 1, NStepReturn(t, last, rewards, after, n))
Differences(t, last, rewards, after) ==
  [n \in 1..(last - t) |-> WeightedReturn(t, last, rewards, after, n)
                             - Times(Lambda, WeightedReturn(t, last, rewards, after, n))]
Averaged(t, last, rewards, after, m) ==
  Total(Differences(t, last, rewards, after), m - 1) + WeightedReturn(t, last, rewards, after, m)

LEMMA StretchIs ==
  ASSUME NEW level, NEW depth, NEW t, NEW last, NEW rewards, NEW after,
         Stretch(level, depth, t, last, rewards, after)
  PROVE  /\ Chain(level, depth, Discount) /\ Chain(level, depth, Lambda)
         /\ Factor(Discount) /\ Factor(Lambda) /\ depth \in Nat
         /\ t \in Nat /\ last \in Nat /\ t <= last /\ 2 * (last - t + 1) <= depth
         /\ \A i \in t..last : /\ rewards[i] \in level[depth] /\ rewards[i] \in Int
                               /\ after[i] \in level[depth] /\ after[i] \in Int
         /\ \A k \in 0..depth : level[k] \subseteq Int /\ \A j \in 0..k : level[k] \subseteq level[j]
<1>1. Chain(level, depth, Discount) /\ Chain(level, depth, Lambda)
  BY DEF Stretch, Amounts
<1>2. Factor(Discount) /\ Factor(Lambda) /\ depth \in Nat
      /\ \A k \in 0..depth : level[k] \subseteq Int /\ \A j \in 0..k : level[k] \subseteq level[j]
  BY <1>1, ChainIs
<1>3. depth \in 0..depth
  BY <1>2
<1> QED BY <1>1, <1>2, <1>3 DEF Stretch

\* The rest of a stretch is one.
LEMMA StretchRest ==
  ASSUME NEW level, NEW depth, NEW t, NEW last, NEW rewards, NEW after,
         Stretch(level, depth, t, last, rewards, after), t < last
  PROVE  Stretch(level, depth, t + 1, last, rewards, after)
<1>1. t \in Nat /\ last \in Nat /\ depth \in Nat /\ 2 * (last - t + 1) <= depth
  BY StretchIs
<1>2. t + 1 \in Nat /\ t + 1 <= last /\ 2 * (last - (t + 1) + 1) <= depth
  BY <1>1
<1>3. \A i \in (t + 1)..last : i \in t..last
  BY <1>1
<1> QED BY <1>2, <1>3 DEF Stretch

LEMMA RewardedIs ==
  ASSUME NEW level, NEW depth, NEW t, NEW last, NEW rewards, NEW after,
         Stretch(level, depth, t, last, rewards, after)
  PROVE  LET f == Rewarded(t, last, rewards) IN
         /\ Len(f) = last - t + 1
         /\ \A i \in 1..(last - t + 1) :
              /\ f[i] = Discounted(Discount, i - 1, rewards[t + i - 1])
              /\ f[i] \in level[depth - i + 1] /\ f[i] \in Int
<1> DEFINE N == last - t + 1
           f == [i \in 1..N |-> Discounted(Discount, i - 1, rewards[t + i - 1])]
<1>1. t \in Nat /\ last \in Nat /\ depth \in Nat /\ 2 * N <= depth /\ N \in Nat
  BY StretchIs
<1>2. Len(f) = N
  BY <1>1
<1>3. ASSUME NEW i \in 1..N
      PROVE  /\ f[i] = Discounted(Discount, i - 1, rewards[t + i - 1])
             /\ f[i] \in level[depth - i + 1] /\ f[i] \in Int
  <2> DEFINE x == rewards[t + i - 1]
             n == i - 1
             z == Discounted(Discount, n, x)
  <2>1. t + i - 1 \in t..last /\ n \in 0..depth /\ depth \in 0..depth /\ depth - n = depth - i + 1
        /\ depth - n \in 0..depth
    BY <1>1
  <2>2. x \in level[depth] /\ Chain(level, depth, Discount)
    BY <2>1, StretchIs
  <2>3. f[i] = z
    OBVIOUS
  <2> HIDE DEF x, n, z, f
  <2>4. Discounted(Discount, n, x) \in level[depth - n]
    BY <2>1, <2>2, PowerLevel
  <2>5. \A k \in 0..depth : level[k] \subseteq Int
    BY StretchIs
  <2> QED BY <2>1, <2>3, <2>4, <2>5 DEF x, n, z
<1> QED BY <1>2, <1>3 DEF Rewarded

LEMMA NStepLevel ==
  ASSUME NEW level, NEW depth, NEW t, NEW last, NEW rewards, NEW after,
         Stretch(level, depth, t, last, rewards, after), NEW n \in 1..(last - t + 1)
  PROVE  /\ Total(Rewarded(t, last, rewards), n) \in level[depth - n]
         /\ Discounted(Discount, n, after[t + n - 1]) \in level[depth - n]
         /\ NStepReturn(t, last, rewards, after, n) \in level[depth - n]
<1> DEFINE N == last - t + 1
           f == Rewarded(t, last, rewards)
           k == depth - n
           x == after[t + n - 1]
<1>1. t \in Nat /\ last \in Nat /\ depth \in Nat /\ 2 * N <= depth /\ N \in Nat /\ n \in Nat
  BY StretchIs
<1>2. k \in 0..depth /\ n \in 0..N /\ n \in 0..depth /\ depth \in 0..depth /\ t + n - 1 \in t..last
  BY <1>1
<1>3. /\ Chain(level, depth, Discount) /\ x \in level[depth]
      /\ \A i \in 0..depth : level[i] \subseteq Int /\ \A j \in 0..i : level[i] \subseteq level[j]
  BY <1>2, StretchIs
<1>4. Len(f) = N /\ \A i \in 1..N : f[i] \in level[depth - i + 1] /\ f[i] \in Int
  BY RewardedIs
<1>5. ASSUME NEW i \in 1..n PROVE f[i] \in level[k]
  <2> DEFINE j == depth - i + 1
  <2>1. i \in 1..N /\ j \in 0..depth /\ k \in 0..j
    BY <1>1
  <2>2. f[i] \in level[j]
    BY <1>4, <2>1
  <2> HIDE DEF j, k, f
  <2> QED BY <1>3, <2>1, <2>2
<1> HIDE DEF N, f, k, x
<1>6. Total(f, n) \in level[k]
  <2>1. Len(f) \in Nat /\ n \in 0..Len(f) /\ \A i \in 1..Len(f) : f[i] \in Int
    BY <1>1, <1>2, <1>4
  <2> QED BY <1>2, <1>3, <1>5, <2>1, TotalLevel
<1>7. Discounted(Discount, n, x) \in level[depth - n]
  BY <1>2, <1>3, PowerLevel
<1> DEFINE p == Total(f, n)
           q == Discounted(Discount, n, x)
<1>8. p \in level[k] /\ q \in level[k]
  BY <1>6, <1>7 DEF k
<1> HIDE DEF p, q
<1>9. p + q \in level[k]
  BY <1>2, <1>3, <1>8, LevelSums
<1> QED BY <1>6, <1>7, <1>9 DEF NStepReturn, p, q, f, k, x

\* A longer return is the reward and a fraction of the return from the next step on.
LEMMA NStepShift ==
  ASSUME NEW level, NEW depth, NEW t, NEW last, NEW rewards, NEW after,
         Stretch(level, depth, t, last, rewards, after), NEW n \in 1..(last - t)
  PROVE  NStepReturn(t, last, rewards, after, n + 1)
           = rewards[t] + Times(Discount, NStepReturn(t + 1, last, rewards, after, n))
<1> DEFINE N == last - t
           f == Rewarded(t, last, rewards)
           g == Rewarded(t + 1, last, rewards)
           x == after[t + n]
           k == depth - n
           p == Total(g, n)
           q == Discounted(Discount, n, x)
<1>1. /\ t \in Nat /\ last \in Nat /\ depth \in Nat /\ 2 * (N + 1) <= depth /\ N \in Nat
      /\ n \in Nat /\ t < last
  BY StretchIs
<1>2. Stretch(level, depth, t + 1, last, rewards, after)
  BY <1>1, StretchRest
<1>3. /\ last - (t + 1) + 1 = N /\ last - t + 1 = N + 1 /\ (t + 1) + n - 1 = t + n
      /\ t + (n + 1) - 1 = t + n /\ k \in 1..depth /\ t \in t..last /\ t + n \in t..last
  BY <1>1
<1>4. Chain(level, depth, Discount) /\ Factor(Discount) /\ rewards[t] \in Int /\ x \in Int
  BY <1>3, StretchIs
<1>5. /\ Len(f) = N + 1
      /\ \A i \in 1..(N + 1) : f[i] = Discounted(Discount, i - 1, rewards[t + i - 1]) /\ f[i] \in Int
  BY <1>3, RewardedIs
<1>6. /\ Len(g) = N
      /\ \A i \in 1..N : /\ g[i] = Discounted(Discount, i - 1, rewards[(t + 1) + i - 1])
                         /\ g[i] \in level[depth - i + 1] /\ g[i] \in Int
  BY <1>2, <1>3, RewardedIs
<1>7. p \in level[k] /\ q \in level[k] /\ NStepReturn(t + 1, last, rewards, after, n) = p + q
  <2>1. n \in 1..(last - (t + 1) + 1)
    BY <1>3
  <2> QED BY <1>2, <1>3, <2>1, NStepLevel DEF NStepReturn
<1>8. ASSUME NEW i \in 1..n PROVE g[i] \in level[k] /\ f[i + 1] = Times(Discount, g[i])
  <2> DEFINE j == depth - i + 1
             y == rewards[t + i]
             m == i - 1
  <2>1. /\ i \in 1..N /\ i + 1 \in 1..(N + 1) /\ j \in 0..depth /\ k \in 0..j /\ m \in Nat
        /\ m + 1 = i /\ (t + 1) + i - 1 = t + i /\ t + (i + 1) - 1 = t + i /\ (i + 1) - 1 = i
        /\ t + i \in t..last
    BY <1>1
  <2>2. g[i] \in level[j] /\ g[i] = Discounted(Discount, m, y)
    BY <1>6, <2>1
  <2>3. f[i + 1] = Discounted(Discount, m + 1, y)
    BY <1>5, <2>1
  <2>4. y \in Int
    BY <2>1, StretchIs
  <2> HIDE DEF j, k, f, g, m, y
  <2>5. Discounted(Discount, m + 1, y) = Times(Discount, Discounted(Discount, m, y))
    BY <1>4, <2>1, <2>4, DiscountedIs
  <2>6. level[j] \subseteq level[k]
    BY <2>1, StretchIs
  <2> QED BY <2>2, <2>3, <2>5, <2>6
<1>9. f[1] = rewards[t]
  <2>1. 1 \in 1..(N + 1) /\ 1 - 1 = 0 /\ t + 1 - 1 = t
    BY <1>1
  <2>2. Discounted(Discount, 0, rewards[t]) = rewards[t]
    BY <1>4, DiscountedIs
  <2> QED BY <1>5, <2>1, <2>2
<1>10. NStepReturn(t, last, rewards, after, n + 1)
         = Total(f, n + 1) + Discounted(Discount, n + 1, x)
  BY <1>3 DEF NStepReturn
<1> HIDE DEF N, f, g, x, k
<1>11. Total(f, n + 1) = f[1] + Times(Discount, Total(g, n))
  <2>1. n \in 0..N
    BY <1>1 DEF N
  <2>2. Len(f) \in Nat /\ Len(g) \in Nat /\ Len(f) = Len(g) + 1 /\ n \in 0..Len(g)
    BY <1>1, <1>5, <1>6, <2>1
  <2>3. /\ \A i \in 1..Len(f) : f[i] \in Int
        /\ \A i \in 1..Len(g) : g[i] \in Int
    BY <1>5, <1>6
  <2>4. /\ Len(f) \in Nat /\ Len(g) \in Nat /\ Len(f) = Len(g) + 1 /\ n \in 0..Len(g)
        /\ \A i \in 1..Len(f) : f[i] \in Int
        /\ \A i \in 1..Len(g) : g[i] \in Int
    BY <2>2, <2>3
  <2>5. Shifted(f, g, Discount, level[k], n)
    BY <1>8, <2>4 DEF Shifted
  <2> QED BY <1>3, <1>4, <2>5, TotalShift
<1>12. Discounted(Discount, n + 1, x) = Times(Discount, q)
  BY <1>1, <1>4, DiscountedIs
<1> HIDE DEF p, q
<1>13. Times(Discount, p + q) = Times(Discount, p) + Times(Discount, q)
       /\ Times(Discount, p) \in Int /\ Times(Discount, q) \in Int
  BY <1>3, <1>4, <1>7, TimesAdds, TimesIs
<1> QED BY <1>4, <1>7, <1>9, <1>10, <1>11, <1>12, <1>13 DEF p

LEMMA WeightedLevel ==
  ASSUME NEW level, NEW depth, NEW t, NEW last, NEW rewards, NEW after,
         Stretch(level, depth, t, last, rewards, after), NEW n \in 1..(last - t + 1)
  PROVE  /\ WeightedReturn(t, last, rewards, after, n) \in level[depth - 2 * n + 1]
         /\ WeightedReturn(t, last, rewards, after, n) \in Int
         /\ Times(Lambda, WeightedReturn(t, last, rewards, after, n)) \in level[depth - 2 * n]
         /\ Times(Lambda, WeightedReturn(t, last, rewards, after, n)) \in Int
<1> DEFINE x == NStepReturn(t, last, rewards, after, n)
           k == depth - n
           m == n - 1
           j == depth - 2 * n + 1
           w == WeightedReturn(t, last, rewards, after, n)
<1>1. t \in Nat /\ last \in Nat /\ depth \in Nat /\ 2 * (last - t + 1) <= depth /\ n \in Nat
  BY StretchIs
<1>2. k \in 0..depth /\ m \in 0..k /\ k - m = j /\ j \in 1..depth /\ j \in 0..depth
      /\ j - 1 = depth - 2 * n
  BY <1>1
<1>3. x \in level[k]
  BY NStepLevel
<1>4. Chain(level, depth, Lambda) /\ \A i \in 0..depth : level[i] \subseteq Int
  BY StretchIs
<1>5. w = Discounted(Lambda, m, x)
  BY DEF WeightedReturn
<1> HIDE DEF x, k, m, j, w
<1>6. w \in level[j]
  BY <1>2, <1>3, <1>4, <1>5, PowerLevel
<1>7. Times(Lambda, w) \in level[j - 1] /\ Times(Lambda, w) \in Int
  BY <1>2, <1>4, <1>6, TimesIs
<1>8. w \in Int
  BY <1>2, <1>4, <1>6
<1> QED BY <1>2, <1>6, <1>7, <1>8 DEF w, j

\* Both factors, of sums.
LEMMA BothAdd ==
  ASSUME NEW level, NEW depth, Amounts(level, depth), NEW k \in 2..depth,
         NEW x \in level[k], NEW y \in level[k]
  PROVE  LET Both(z) == Times(Discount, Times(Lambda, z)) IN
         /\ Both(x + y) = Both(x) + Both(y) /\ Both(x - y) = Both(x) - Both(y)
         /\ Both(x) \in Int /\ Both(y) \in Int
<1> DEFINE a == Times(Lambda, x)
           b == Times(Lambda, y)
           j == k - 1
<1>1. Chain(level, depth, Discount) /\ Chain(level, depth, Lambda) /\ depth \in Nat
  BY DEF Amounts, Chain
<1>2. k \in 1..depth /\ j \in 1..depth
  BY <1>1
<1>3. a \in level[j] /\ b \in level[j]
  BY <1>1, <1>2, TimesIs
<1>4. Times(Lambda, x + y) = a + b /\ Times(Lambda, x - y) = a - b
  BY <1>1, <1>2, TimesAdds
<1> HIDE DEF a, b, j
<1>5. /\ Times(Discount, a + b) = Times(Discount, a) + Times(Discount, b)
      /\ Times(Discount, a - b) = Times(Discount, a) - Times(Discount, b)
  BY <1>1, <1>2, <1>3, TimesAdds
<1>6. Times(Discount, a) \in Int /\ Times(Discount, b) \in Int
  BY <1>1, <1>2, <1>3, TimesIs
<1> QED BY <1>4, <1>5, <1>6 DEF a, b

LEMMA WeightedShift ==
  ASSUME NEW level, NEW depth, NEW t, NEW last, NEW rewards, NEW after,
         Stretch(level, depth, t, last, rewards, after), NEW n \in 1..(last - t)
  PROVE  WeightedReturn(t, last, rewards, after, n + 1)
           = Discounted(Lambda, n, rewards[t])
               + Times(Discount, Times(Lambda, WeightedReturn(t + 1, last, rewards, after, n)))
<1> DEFINE x == NStepReturn(t + 1, last, rewards, after, n)
           r == rewards[t]
           y == Times(Discount, x)
           k == depth - n
           l == depth - n - 1
           m == n - 1
<1>1. /\ t \in Nat /\ last \in Nat /\ depth \in Nat /\ 2 * (last - t + 1) <= depth
      /\ n \in Nat /\ t < last
  BY StretchIs
<1>2. Stretch(level, depth, t + 1, last, rewards, after) /\ n \in 1..(last - (t + 1) + 1)
  BY <1>1, StretchRest
<1>3. /\ k \in 1..depth /\ l \in 0..depth /\ l = k - 1 /\ depth \in 0..depth /\ l \in 0..depth
      /\ n \in 0..l /\ n \in 0..(k - 1) /\ m \in Nat /\ m + 1 = n /\ (n + 1) - 1 = n /\ t \in t..last
  BY <1>1
<1>4. /\ Chain(level, depth, Discount) /\ Chain(level, depth, Lambda)
      /\ Factor(Discount) /\ Factor(Lambda) /\ r \in level[depth]
      /\ \A i \in 0..depth : level[i] \subseteq Int /\ \A j \in 0..i : level[i] \subseteq level[j]
  BY <1>3, StretchIs
<1>5. x \in level[k]
  BY <1>2, NStepLevel
<1>6. WeightedReturn(t, last, rewards, after, n + 1) = Discounted(Lambda, n, r + y)
  <2>1. NStepReturn(t, last, rewards, after, n + 1) = r + y
    BY NStepShift
  <2> QED BY <1>3, <2>1 DEF WeightedReturn
<1>7. WeightedReturn(t + 1, last, rewards, after, n) = Discounted(Lambda, m, x)
  BY DEF WeightedReturn
<1> HIDE DEF x, r, k, l, m
<1>8. y \in level[l] /\ r \in level[l] /\ x \in Int
  <2>1. y \in level[k - 1]
    BY <1>3, <1>4, <1>5, TimesIs
  <2>2. l \in 0..depth /\ k \in 0..depth
    BY <1>1, <1>3
  <2> QED BY <1>3, <1>4, <1>5, <2>1, <2>2
<1>9. Discounted(Lambda, n, y) = Times(Discount, Discounted(Lambda, n, x))
  BY <1>3, <1>4, <1>5, PowerCommutes
<1> HIDE DEF y
<1>10. Discounted(Lambda, n, r + y) = Discounted(Lambda, n, r) + Discounted(Lambda, n, y)
  BY <1>3, <1>4, <1>8, PowerAdds
<1>11. Discounted(Lambda, n, x) = Times(Lambda, Discounted(Lambda, m, x))
  <2>1. Discounted(Lambda, m + 1, x) = Times(Lambda, Discounted(Lambda, m, x))
    BY <1>3, <1>4, <1>8, DiscountedIs
  <2> QED BY <1>3, <2>1
<1> QED BY <1>6, <1>7, <1>9, <1>10, <1>11 DEF r

\* The average grows by a term.
LEMMA AveragedGrows ==
  ASSUME NEW level, NEW depth, NEW t, NEW last, NEW rewards, NEW after,
         Stretch(level, depth, t, last, rewards, after)
  PROVE  LET W(n) == WeightedReturn(t, last, rewards, after, n)
             S(m) == Averaged(t, last, rewards, after, m) IN
         /\ S(1) = W(1)
         /\ \A m \in 1..(last - t) : S(m + 1) = S(m) - Times(Lambda, W(m)) + W(m + 1)
         /\ \A m \in 1..(last - t + 1) : S(m) \in level[depth - 2 * m + 1]
<1> DEFINE W(n) == WeightedReturn(t, last, rewards, after, n)
           S(m) == Averaged(t, last, rewards, after, m)
           V(n) == Times(Lambda, W(n))
           N == last - t
           f == [n \in 1..N |-> W(n) - V(n)]
           d == Differences(t, last, rewards, after)
<1>1. /\ t \in Nat /\ last \in Nat /\ depth \in Nat /\ 2 * (last - t + 1) <= depth /\ N \in Nat
      /\ Chain(level, depth, Lambda)
      /\ \A i \in 0..depth : level[i] \subseteq Int /\ \A j \in 0..i : level[i] \subseteq level[j]
  BY StretchIs
<1>2. last - t + 1 = N + 1
  BY <1>1
<1>3. ASSUME NEW n \in 1..(N + 1)
      PROVE  /\ W(n) \in level[depth - 2 * n + 1] /\ W(n) \in Int
             /\ V(n) \in level[depth - 2 * n] /\ V(n) \in Int
  BY <1>2, WeightedLevel
<1>4. d = f
  BY DEF Differences
<1>5. ASSUME NEW m PROVE S(m) = Total(f, m - 1) + W(m)
  BY <1>4 DEF Averaged
<1> HIDE DEF W, V, S, d
<1>6. Len(f) = N /\ \A n \in 1..N : f[n] = W(n) - V(n)
  BY <1>1
<1> HIDE DEF f
<1>7. \A n \in 1..N : f[n] \in Int
  <2> TAKE n \in 1..N
  <2>1. n \in 1..(N + 1)
    BY <1>1
  <2> QED BY <1>3, <1>6, <2>1
<1>8. /\ Total(f, 0) = 0
      /\ \A n \in 1..N : Total(f, n) \in Int /\ Total(f, n) = Total(f, n - 1) + f[n]
  BY <1>1, <1>6, <1>7, TotalIs
<1>9. S(1) = W(1)
  <2>1. 1 \in 1..(N + 1) /\ 1 - 1 = 0
    BY <1>1
  <2> QED BY <1>3, <1>5, <1>8, <2>1
<1>10. ASSUME NEW m \in 1..N PROVE S(m + 1) = S(m) - V(m) + W(m + 1)
  <2>1. m \in 1..(N + 1) /\ m + 1 \in 1..(N + 1) /\ (m + 1) - 1 = m
    BY <1>1
  <2>2. S(m + 1) = Total(f, m) + W(m + 1) /\ S(m) = Total(f, m - 1) + W(m)
    BY <1>5, <2>1
  <2>3. Total(f, m) = Total(f, m - 1) + (W(m) - V(m))
    BY <1>6, <1>8
  <2>4. Total(f, m - 1) \in Int
    <3>1. m - 1 = 0 \/ m - 1 \in 1..N
      BY <1>1
    <3> QED BY <1>8, <3>1
  <2>5. W(m) \in Int /\ V(m) \in Int /\ W(m + 1) \in Int
    BY <1>3, <2>1
  <2> QED BY <2>2, <2>3, <2>4, <2>5
<1>11. ASSUME NEW m \in 1..(N + 1) PROVE S(m) \in level[depth - 2 * m + 1]
  <2> DEFINE k == depth - 2 * m + 1
             l == m - 1
             a == Total(f, l)
             b == W(m)
  <2>1. k \in 0..depth /\ l \in 0..N /\ m \in Nat
    BY <1>1
  <2>2. ASSUME NEW i \in 1..l PROVE f[i] \in level[k]
    <3> DEFINE j == depth - 2 * i
               w == W(i)
               v == V(i)
    <3>1. i \in 1..(N + 1) /\ i \in 1..N /\ j \in 0..depth /\ j + 1 \in 0..depth
          /\ k \in 0..j /\ k \in 0..(j + 1)
      BY <1>1, <2>1
    <3>2. w \in level[j + 1] /\ v \in level[j] /\ f[i] = w - v
      BY <1>3, <1>6, <3>1
    <3> HIDE DEF j, w, v, k
    <3>3. w \in level[k] /\ v \in level[k]
      BY <1>1, <3>1, <3>2
    <3>4. w - v \in level[k]
      BY <1>1, <2>1, <3>3, LevelSums
    <3> QED BY <3>2, <3>4
  <2>3. b \in level[k]
    BY <1>3
  <2> HIDE DEF k, l
  <2>4. Len(f) \in Nat /\ l \in 0..Len(f) /\ \A i \in 1..Len(f) : f[i] \in Int
    BY <1>1, <1>6, <1>7, <2>1
  <2>5. a \in level[k]
    BY <1>1, <2>1, <2>2, <2>4, TotalLevel
  <2> HIDE DEF a, b
  <2>6. a + b \in level[k]
    BY <1>1, <2>1, <2>3, <2>5, LevelSums
  <2> QED BY <1>5, <2>6 DEF a, b, k, l
<1> QED BY <1>2, <1>9, <1>10, <1>11 DEF W, V, S

\* The average of a stretch, from the one of its rest.
LEMMA AveragedShift ==
  ASSUME NEW level, NEW depth, NEW t, NEW last, NEW rewards, NEW after,
         Stretch(level, depth, t, last, rewards, after), NEW m \in 1..(last - t)
  PROVE  LET Both(z) == Times(Discount, Times(Lambda, z)) IN
         Averaged(t, last, rewards, after, m + 1)
           = rewards[t] + (Times(Discount, after[t]) - Both(after[t]))
               + Both(Averaged(t + 1, last, rewards, after, m))
<1> DEFINE N == last - t
           r == rewards[t]
           a == after[t]
           Both(z) == Times(Discount, Times(Lambda, z))
           W(n) == WeightedReturn(t, last, rewards, after, n)
           S(n) == Averaged(t, last, rewards, after, n)
           V(n) == WeightedReturn(t + 1, last, rewards, after, n)
           R(n) == Averaged(t + 1, last, rewards, after, n)
           D(n) == Discounted(Lambda, n, r)
           T == {i \in Nat : i + 1 <= N =>
                   S(i + 2) = r + (Times(Discount, a) - Both(a)) + Both(R(i + 1))}
<1>1. /\ t \in Nat /\ last \in Nat /\ depth \in Nat /\ 2 * (N + 1) <= depth /\ N \in Nat
      /\ t < last
      /\ Chain(level, depth, Discount) /\ Chain(level, depth, Lambda)
      /\ Factor(Discount) /\ Factor(Lambda)
      /\ \A i \in 0..depth : level[i] \subseteq Int /\ \A j \in 0..i : level[i] \subseteq level[j]
  BY StretchIs
<1>2. Stretch(level, depth, t + 1, last, rewards, after)
  BY <1>1, StretchRest
<1>3. last - (t + 1) = N - 1 /\ last - (t + 1) + 1 = N /\ last - t = N /\ last - t + 1 = N + 1
  BY <1>1
<1>4. /\ S(1) = W(1) /\ \A n \in 1..N : S(n + 1) = S(n) - Times(Lambda, W(n)) + W(n + 1)
      /\ \A n \in 1..(N + 1) : S(n) \in level[depth - 2 * n + 1]
  BY <1>3, AveragedGrows
<1>5. /\ R(1) = V(1) /\ \A n \in 1..(N - 1) : R(n + 1) = R(n) - Times(Lambda, V(n)) + V(n + 1)
      /\ \A n \in 1..N : R(n) \in level[depth - 2 * n + 1]
  BY <1>2, <1>3, AveragedGrows
<1>6. ASSUME NEW n \in 1..(N + 1)
      PROVE  W(n) \in Int /\ Times(Lambda, W(n)) \in Int
  BY <1>3, WeightedLevel
<1>7. ASSUME NEW n \in 1..N
      PROVE  /\ V(n) \in level[depth - 2 * n + 1] /\ V(n) \in Int
             /\ Times(Lambda, V(n)) \in level[depth - 2 * n]
  BY <1>2, <1>3, WeightedLevel
<1>8. ASSUME NEW n \in 1..N PROVE W(n + 1) = D(n) + Both(V(n))
  BY WeightedShift
<1>9. r \in level[depth] /\ a \in level[depth] /\ r \in Int /\ a \in Int
  <2>1. t \in t..last
    BY <1>1
  <2> QED BY <2>1, StretchIs
<1>10. D(0) = r /\ \A n \in Nat : D(n) \in Int /\ D(n + 1) = Times(Lambda, D(n))
  BY <1>1, <1>9, DiscountedIs
<1>11. ASSUME NEW n \in 1..N PROVE D(n) \in level[depth - n]
  <2>1. n \in 0..depth /\ depth \in 0..depth
    BY <1>1
  <2> QED BY <1>1, <1>9, <2>1, PowerLevel
<1>12. W(1) = r + Times(Discount, a)
  <2> DEFINE f == Rewarded(t, last, rewards)
  <2>1. /\ Len(f) = N + 1
        /\ \A i \in 1..(N + 1) : f[i] = Discounted(Discount, i - 1, rewards[t + i - 1]) /\ f[i] \in Int
    BY <1>3, RewardedIs
  <2>2. f[1] = r
    <3>1. 1 \in 1..(N + 1) /\ 1 - 1 = 0 /\ t + 1 - 1 = t
      BY <1>1
    <3>2. Discounted(Discount, 0, r) = r
      BY <1>1, <1>9, DiscountedIs
    <3> QED BY <2>1, <3>1, <3>2
  <2>3. NStepReturn(t, last, rewards, after, 1) = Total(f, 1) + Discounted(Discount, 1, a)
    <3>1. t + 1 - 1 = t
      BY <1>1
    <3> QED BY <3>1 DEF NStepReturn
  <2> HIDE DEF f
  <2>4. Total(f, 1) = r
    <3>1. Len(f) \in Nat /\ \A i \in 1..Len(f) : f[i] \in Int
      BY <1>1, <2>1
    <3>2. 1 \in 1..Len(f) /\ 1 - 1 = 0
      BY <1>1, <2>1
    <3>3. Total(f, 0) = 0 /\ Total(f, 1) = Total(f, 0) + f[1]
      BY <3>1, <3>2, TotalIs
    <3> QED BY <1>9, <2>2, <3>3
  <2>5. Discounted(Discount, 1, a) = Times(Discount, a)
    <3>1. /\ Discounted(Discount, 0, a) = a
          /\ \A n \in Nat : Discounted(Discount, n + 1, a) = Times(Discount, Discounted(Discount, n, a))
      BY <1>1, <1>9, DiscountedIs
    <3>2. Discounted(Discount, 0 + 1, a) = Times(Discount, Discounted(Discount, 0, a))
      BY <3>1
    <3> QED BY <3>1, <3>2
  <2> DEFINE x == r + Times(Discount, a)
  <2>6. WeightedReturn(t, last, rewards, after, 1) = Discounted(Lambda, 0, x)
    BY <2>3, <2>4, <2>5 DEF WeightedReturn
  <2>7. x \in Int
    BY <1>1, <1>9, TimesInt
  <2> HIDE DEF x
  <2>8. Discounted(Lambda, 0, x) = x
    BY <1>1, <2>7, DiscountedIs
  <2> QED BY <2>6, <2>8 DEF x
<1>13. /\ Times(Lambda, r + Times(Discount, a)) = Times(Lambda, r) + Both(a)
       /\ Times(Discount, a) \in Int /\ Times(Lambda, r) \in Int /\ Both(a) \in Int
  <2> DEFINE k == depth - 1
             y == Times(Discount, a)
  <2>1. depth \in 2..depth /\ depth \in 1..depth /\ k \in 1..depth /\ k \in 0..depth /\ k \in 0..depth
        /\ depth \in 0..depth
    BY <1>1
  <2>2. y \in level[k] /\ y \in Int
    BY <1>1, <1>9, <2>1, TimesIs
  <2>3. r \in level[k]
    BY <1>1, <1>9, <2>1
  <2>4. Times(Discount, Times(Lambda, a)) = Times(Lambda, Times(Discount, a))
    BY <1>1, <1>9, <2>1, TimesCommute
  <2> HIDE DEF k, y
  <2>5. Times(Lambda, r + y) = Times(Lambda, r) + Times(Lambda, y)
    BY <1>1, <2>1, <2>2, <2>3, TimesAdds
  <2>6. Times(Lambda, r) \in Int /\ Times(Lambda, y) \in Int
    BY <1>1, <1>9, <2>2, TimesInt
  <2> QED BY <2>2, <2>4, <2>5, <2>6 DEF y
<1>14. Amounts(level, depth)
  BY <1>1 DEF Amounts
<1> HIDE DEF W, S, V, R, D
<1>15. 0 \in T
  <2>1. 1 \in 1..N /\ 1 \in 1..(N + 1) /\ 2 \in 1..(N + 1) /\ 1 + 1 = 2 /\ 0 + 2 = 2
    BY <1>1
  <2>2. S(2) = W(1) - Times(Lambda, W(1)) + W(2)
    BY <1>4, <2>1
  <2>3. W(2) = D(1) + Both(V(1))
    BY <1>8, <2>1
  <2>4. D(1) = Times(Lambda, r)
    <3>1. D(0 + 1) = Times(Lambda, D(0))
      BY <1>10
    <3> QED BY <1>10, <3>1
  <2>5. Both(V(1)) \in Int
    BY <1>1, <1>7, <2>1, TimesInt
  <2> QED BY <1>5, <1>9, <1>12, <1>13, <2>1, <2>2, <2>3, <2>4, <2>5
<1>16. ASSUME NEW i \in Nat, i \in T PROVE i + 1 \in T
  <2> SUFFICES ASSUME (i + 1) + 1 <= N
               PROVE  S((i + 1) + 2) = r + (Times(Discount, a) - Both(a)) + Both(R((i + 1) + 1))
    OBVIOUS
  <2> DEFINE n == i + 1
             k == depth - 2 * n - 1
             base == r + (Times(Discount, a) - Both(a))
             old == R(n)
             v == V(n)
             lv == Times(Lambda, v)
             w == V(n + 1)
             d == D(n)
  <2>1. /\ n \in 1..N /\ n \in 1..(N - 1) /\ n + 1 \in 1..N /\ n + 1 \in 1..(N + 1) /\ n \in Nat
        /\ (i + 1) + 2 = (n + 1) + 1 /\ i + 2 = n + 1 /\ i + 1 = n
        /\ k \in 2..depth /\ k \in 0..depth /\ n + 2 \in 1..(N + 1) /\ (n + 1) + 1 = n + 2
        /\ depth - 2 * n \in 0..depth /\ depth - 2 * n + 1 \in 0..depth
        /\ depth - 2 * (n + 1) + 1 = k
    BY <1>1
  <2>2. S(n + 1) = base + Both(old)
    BY <1>16, <2>1
  <2>3. S(n + 2) = S(n + 1) - Times(Lambda, W(n + 1)) + W(n + 2)
    BY <1>4, <2>1
  <2>4. W(n + 1) = d + Both(v) /\ W(n + 2) = D(n + 1) + Both(w)
    BY <1>8, <2>1
  <2>5. R(n + 1) = old - lv + w
    BY <1>5, <2>1
  <2>6. D(n + 1) = Times(Lambda, d) /\ d \in Int
    BY <1>10, <2>1
  <2>7. old \in level[k] /\ lv \in level[k] /\ w \in level[k]
    <3>1. old \in level[depth - 2 * n + 1] /\ lv \in level[depth - 2 * n] /\ w \in level[k]
      BY <1>5, <1>7, <2>1
    <3>2. k \in 0..(depth - 2 * n + 1) /\ k \in 0..(depth - 2 * n)
      BY <1>1, <2>1
    <3> HIDE DEF k, old, lv, w
    <3> QED BY <1>1, <2>1, <3>1, <3>2
  <2>8. d \in level[depth - n] /\ v \in level[depth - 2 * n + 1] /\ v \in Int
    BY <1>7, <1>11, <2>1
  <2>9. Times(Lambda, d + Both(v)) = Times(Lambda, d) + Both(lv)
        /\ Times(Lambda, d) \in Int
    <3> DEFINE j == depth - 2 * n + 1
               l == depth - 2 * n - 1
               x == Times(Lambda, v)
               y == Times(Discount, x)
    <3>1. /\ j \in 3..depth /\ j \in 1..depth /\ j \in 2..depth /\ j - 1 \in 1..depth
          /\ j - 1 \in 2..depth /\ l = j - 2
          /\ l \in 1..depth /\ l \in 0..depth /\ l \in 0..(depth - n) /\ (j - 1) - 1 = l
          /\ depth - n \in 0..depth
      BY <1>1, <2>1
    <3>2. v \in level[j] /\ d \in level[l]
      BY <1>1, <2>8, <3>1
    <3> HIDE DEF j, l, v, d
    <3>3. x \in level[j - 1]
      BY <1>1, <3>1, <3>2, TimesIs
    <3> HIDE DEF x
    <3>4. y \in level[l] /\ Times(Lambda, Times(Discount, x)) = Times(Discount, Times(Lambda, x))
      BY <1>1, <3>1, <3>3, TimesIs, TimesCommute
    <3> HIDE DEF y
    <3>5. Times(Lambda, d + y) = Times(Lambda, d) + Times(Lambda, y) /\ Times(Lambda, d) \in Int
      BY <1>1, <3>1, <3>2, <3>4, TimesAdds, TimesIs
    <3> QED BY <3>4, <3>5 DEF x, y
  <2> HIDE DEF n, k, base, old, v, lv, w, d
  <2>10. /\ Both(old - lv) = Both(old) - Both(lv) /\ Both(old) \in Int /\ Both(lv) \in Int
         /\ old - lv \in level[k]
    <3>1. old - lv \in level[k]
      BY <1>1, <2>1, <2>7, LevelSums
    <3> QED BY <1>14, <2>1, <2>7, <3>1, BothAdd
  <2> DEFINE e == old - lv
  <2>11. e \in level[k]
    BY <2>10
  <2> HIDE DEF e
  <2>12. Both(e + w) = Both(e) + Both(w) /\ Both(w) \in Int
    BY <1>14, <2>1, <2>7, <2>11, BothAdd
  <2>13. Both(R(n + 1)) = Both(old) - Both(lv) + Both(w)
    BY <2>5, <2>10, <2>12 DEF e
  <2>14. base \in Int
    BY <1>9, <1>13 DEF base
  <2> DEFINE p == S(n + 1)
             q == Times(Lambda, W(n + 1))
             u == W(n + 2)
             bo == Both(old)
             bl == Both(lv)
             bw == Both(w)
             ld == Times(Lambda, d)
  <2>15. /\ S(n + 2) = p - q + u /\ p = base + bo /\ q = ld + bl /\ u = ld + bw
         /\ bo \in Int /\ bl \in Int /\ bw \in Int /\ ld \in Int
    BY <2>2, <2>3, <2>4, <2>6, <2>9, <2>10, <2>12
  <2> HIDE DEF p, q, u, bo, bl, bw, ld
  <2>16. S(n + 2) = base + (bo - bl + bw)
    BY <2>14, <2>15
  <2>17. Both(R(n + 1)) = bo - bl + bw
    BY <2>13 DEF bo, bl, bw
  <2> QED BY <2>1, <2>16, <2>17 DEF base
<1>17. Nat \subseteq T
  <2> HIDE DEF T
  <2> QED BY <1>15, <1>16, SetInduction
<1>18. m - 1 \in Nat /\ (m - 1) + 1 <= N /\ (m - 1) + 2 = m + 1 /\ (m - 1) + 1 = m
  BY <1>1
<1>19. S(m + 1) = r + (Times(Discount, a) - Both(a)) + Both(R(m))
  BY <1>17, <1>18
<1> QED BY <1>19 DEF S, R
-------------------------------------------------------------------------------
(* Where the episode of a step ends, or the chunk.                            *)

IsLast(t, e, n, ends) ==
  /\ e \in t..n
  /\ ends[e] \/ e = n
  /\ \A i \in t..(e - 1) : ~ ends[i]
LastOf(t, n, ends) == CHOOSE e \in t..n : /\ ends[e] \/ e = n
                                          /\ \A i \in t..(e - 1) : ~ ends[i]

LEMMA LastIs ==
  ASSUME NEW n \in Nat \ {0}, NEW ends
  PROVE  /\ \A t \in 1..n : IsLast(t, LastOf(t, n, ends), n, ends)
         /\ \A t \in 1..n : ends[t] \/ t = n => LastOf(t, n, ends) = t
         /\ \A t \in 1..(n - 1) : ~ ends[t] =>
              LastOf(t, n, ends) = LastOf(t + 1, n, ends) /\ t < LastOf(t, n, ends)
<1> DEFINE T == {j \in Nat : j <= n - 1 => \E e \in (n - j)..n : IsLast(n - j, e, n, ends)}
<1>1. 0 \in T
  <2>1. n \in (n - 0)..n /\ IsLast(n - 0, n, n, ends)
    BY DEF IsLast
  <2> HIDE DEF IsLast
  <2> QED BY <2>1
<1>2. ASSUME NEW j \in Nat, j \in T PROVE j + 1 \in T
  <2> SUFFICES ASSUME j + 1 <= n - 1
               PROVE  \E e \in (n - (j + 1))..n : IsLast(n - (j + 1), e, n, ends)
    OBVIOUS
  <2> DEFINE t == n - (j + 1)
  <2>1. t \in 1..n /\ n - j = t + 1 /\ t < n
    OBVIOUS
  <2>2. PICK e \in (n - j)..n : IsLast(n - j, e, n, ends)
    BY <1>2
  <2> HIDE DEF t
  <2>3. CASE ends[t]
    <3>1. IsLast(t, t, n, ends)
      BY <2>1, <2>3 DEF IsLast
    <3> QED BY <2>1, <3>1 DEF t
  <2>4. CASE ~ ends[t]
    <3>1. e \in t..n /\ (ends[e] \/ e = n) /\ \A i \in (t + 1)..(e - 1) : ~ ends[i]
      BY <2>1, <2>2 DEF IsLast
    <3>2. \A i \in t..(e - 1) : i = t \/ i \in (t + 1)..(e - 1)
      BY <2>1
    <3>3. IsLast(t, e, n, ends)
      BY <2>4, <3>1, <3>2 DEF IsLast
    <3> QED BY <3>1, <3>3 DEF t
  <2> QED BY <2>3, <2>4
<1> HIDE DEF T
<1>3. Nat \subseteq T
  BY <1>1, <1>2, SetInduction
<1>4. ASSUME NEW t \in 1..n PROVE IsLast(t, LastOf(t, n, ends), n, ends)
  <2>1. n - t \in Nat /\ n - t <= n - 1 /\ n - (n - t) = t
    OBVIOUS
  <2>2. \E e \in t..n : IsLast(t, e, n, ends)
    BY <1>3, <2>1 DEF T
  <2> QED BY <2>2 DEF IsLast, LastOf
<1>5. ASSUME NEW t \in 1..n, NEW e, NEW f, IsLast(t, e, n, ends), IsLast(t, f, n, ends)
      PROVE  e = f
  <2>1. e \in t..n /\ f \in t..n /\ (ends[e] \/ e = n) /\ (ends[f] \/ f = n)
        /\ (\A i \in t..(e - 1) : ~ ends[i]) /\ (\A i \in t..(f - 1) : ~ ends[i])
    BY <1>5 DEF IsLast
  <2>2. e < f => e \in t..(f - 1) /\ e # n
    BY <2>1
  <2>3. f < e => f \in t..(e - 1) /\ f # n
    BY <2>1
  <2> QED BY <2>1, <2>2, <2>3
<1>6. ASSUME NEW t \in 1..n, ends[t] \/ t = n PROVE LastOf(t, n, ends) = t
  <2>1. IsLast(t, t, n, ends)
    BY <1>6 DEF IsLast
  <2> QED BY <1>4, <1>5, <2>1
<1>7. ASSUME NEW t \in 1..(n - 1), ~ ends[t]
      PROVE  LastOf(t, n, ends) = LastOf(t + 1, n, ends) /\ t < LastOf(t, n, ends)
  <2> DEFINE e == LastOf(t + 1, n, ends)
  <2>1. t \in 1..n /\ t + 1 \in 1..n
    OBVIOUS
  <2>2. IsLast(t + 1, e, n, ends)
    BY <1>4, <2>1
  <2> HIDE DEF e
  <2>3. e \in (t + 1)..n /\ (ends[e] \/ e = n) /\ \A i \in (t + 1)..(e - 1) : ~ ends[i]
    BY <2>2 DEF IsLast
  <2>4. \A i \in t..(e - 1) : i = t \/ i \in (t + 1)..(e - 1)
    OBVIOUS
  <2>5. e \in t..n
    BY <2>1, <2>3
  <2>6. IsLast(t, e, n, ends)
    BY <1>7, <2>3, <2>4, <2>5 DEF IsLast
  <2>7. LastOf(t, n, ends) = e
    BY <1>4, <1>5, <2>1, <2>6
  <2> QED BY <2>3, <2>7 DEF e
<1> QED BY <1>4, <1>6, <1>7

\* What a chunk's returns are computed from.
Chunk(level, depth, n, rewards, after, ends) ==
  /\ Amounts(level, depth)
  /\ n \in Nat \ {0} /\ 2 * n <= depth /\ Len(rewards) = n
  /\ \A i \in 1..n : rewards[i] \in level[depth] /\ after[i] \in level[depth]

LEMMA LambdaReturnIsAveraged ==
  ASSUME NEW level, NEW depth, NEW n, NEW rewards, NEW after, NEW ends,
         Chunk(level, depth, n, rewards, after, ends), NEW t \in 1..n
  PROVE  LET last == LastOf(t, n, ends) IN
         /\ Stretch(level, depth, t, last, rewards, after)
         /\ LambdaReturn(t, rewards, after, ends, Discount, Lambda)
              = Averaged(t, last, rewards, after, last - t + 1)
<1> DEFINE last == LastOf(t, n, ends)
<1>1. n \in Nat \ {0} /\ 2 * n <= depth /\ Len(rewards) = n /\ Amounts(level, depth)
  BY DEF Chunk
<1>2. last \in t..n
  BY <1>1, LastIs DEF IsLast
<1>3. last = CHOOSE e \in t..Len(rewards) : /\ ends[e] \/ e = Len(rewards)
                                            /\ \A i \in t..(e - 1) : ~ ends[i]
  BY <1>1 DEF LastOf
<1> HIDE DEF last
<1>4. t \in Nat /\ last \in Nat /\ depth \in Nat /\ t <= last /\ 2 * (last - t + 1) <= depth
  <2>1. depth \in Nat
    BY <1>1 DEF Amounts, Chain
  <2> QED BY <1>1, <1>2, <2>1
<1>5. Stretch(level, depth, t, last, rewards, after)
  <2>1. \A i \in t..last : i \in 1..n
    BY <1>1, <1>2
  <2>2. \A i \in 1..n : rewards[i] \in level[depth] /\ after[i] \in level[depth]
    BY DEF Chunk
  <2> QED BY <1>1, <1>4, <2>1, <2>2 DEF Stretch
<1> DEFINE steps == last - t + 1
<1>6. steps - 1 = last - t
  BY <1>4
<1>7. LambdaReturn(t, rewards, after, ends, Discount, Lambda)
        = Total([m \in 1..(steps - 1) |->
                   WeightedReturn(t, last, rewards, after, m)
                     - Times(Lambda, WeightedReturn(t, last, rewards, after, m))], steps - 1)
            + WeightedReturn(t, last, rewards, after, steps)
  BY <1>3 DEF LambdaReturn, WeightedReturn, NStepReturn, Rewarded
<1>8. [m \in 1..(steps - 1) |->
         WeightedReturn(t, last, rewards, after, m)
           - Times(Lambda, WeightedReturn(t, last, rewards, after, m))]
        = Differences(t, last, rewards, after)
  BY <1>6 DEF Differences
<1>9. LambdaReturn(t, rewards, after, ends, Discount, Lambda)
        = Averaged(t, last, rewards, after, steps)
  BY <1>7, <1>8 DEF Averaged
<1> QED BY <1>5, <1>9 DEF last

\* The lambda-return, backwards over the chunk.
LEMMA LambdaReturnIs ==
  ASSUME NEW level, NEW depth, NEW n, NEW rewards, NEW after, NEW ends,
         Chunk(level, depth, n, rewards, after, ends), NEW t \in 1..n
  PROVE  LET Both(z) == Times(Discount, Times(Lambda, z))
             L(i) == LambdaReturn(i, rewards, after, ends, Discount, Lambda) IN
         /\ ends[t] \/ t = n => L(t) = rewards[t] + Times(Discount, after[t])
         /\ ~ (ends[t] \/ t = n) =>
              /\ L(t + 1) \in level[2]
              /\ L(t) = rewards[t] + (Times(Discount, after[t]) - Both(after[t])) + Both(L(t + 1))
<1> DEFINE Both(z) == Times(Discount, Times(Lambda, z))
           L(i) == LambdaReturn(i, rewards, after, ends, Discount, Lambda)
           e == LastOf(t, n, ends)
<1>1. n \in Nat \ {0} /\ 2 * n <= depth /\ Amounts(level, depth)
  BY DEF Chunk
<1>2. Stretch(level, depth, t, e, rewards, after) /\ L(t) = Averaged(t, e, rewards, after, e - t + 1)
  BY LambdaReturnIsAveraged
<1>3. CASE ends[t] \/ t = n
  <2>1. e = t
    BY <1>1, <1>3, LastIs
  <2>2. Stretch(level, depth, t, t, rewards, after) /\ L(t) = Averaged(t, t, rewards, after, t - t + 1)
    BY <1>2, <2>1
  <2>3. t - t + 1 = 1 /\ 1 \in 1..(t - t + 1) /\ t \in t..t /\ t + 1 - 1 = t
    OBVIOUS
  <2> DEFINE r == rewards[t]
             a == after[t]
             f == Rewarded(t, t, rewards)
             x == r + Times(Discount, a)
  <2>4. Factor(Discount) /\ Factor(Lambda) /\ r \in Int /\ a \in Int
    BY <2>2, <2>3, StretchIs
  <2>5. L(t) = WeightedReturn(t, t, rewards, after, 1)
    BY <2>2, <2>3, AveragedGrows
  <2>6. NStepReturn(t, t, rewards, after, 1) = Total(f, 1) + Discounted(Discount, 1, a)
    BY <2>3 DEF NStepReturn
  <2>7. Len(f) = 1 /\ f[1] = Discounted(Discount, 0, r) /\ f[1] \in Int
    <3>1. /\ Len(f) = t - t + 1
          /\ \A i \in 1..(t - t + 1) : f[i] = Discounted(Discount, i - 1, rewards[t + i - 1]) /\ f[i] \in Int
      BY <2>2, RewardedIs
    <3>2. 1 - 1 = 0
      OBVIOUS
    <3> QED BY <2>3, <3>1, <3>2
  <2> HIDE DEF f
  <2>8. Discounted(Discount, 0, r) = r /\ Discounted(Discount, 0, a) = a
    BY <2>4, DiscountedIs
  <2>9. Discounted(Discount, 1, a) = Times(Discount, a)
    <3>1. \A i \in Nat : Discounted(Discount, i + 1, a) = Times(Discount, Discounted(Discount, i, a))
      BY <2>4, DiscountedIs
    <3>2. Discounted(Discount, 0 + 1, a) = Times(Discount, Discounted(Discount, 0, a))
      BY <3>1
    <3> QED BY <2>8, <3>2
  <2>10. Total(f, 1) = r
    <3>1. Len(f) \in Nat /\ \A i \in 1..Len(f) : f[i] \in Int
      BY <2>7
    <3>2. 1 \in 1..Len(f) /\ 1 - 1 = 0
      BY <2>7
    <3>3. Total(f, 0) = 0 /\ Total(f, 1) = Total(f, 0) + f[1]
      BY <3>1, <3>2, TotalIs
    <3> QED BY <2>4, <2>7, <2>8, <3>3
  <2>11. WeightedReturn(t, t, rewards, after, 1) = Discounted(Lambda, 0, x)
    BY <2>6, <2>9, <2>10 DEF WeightedReturn
  <2>12. x \in Int
    BY <2>4, TimesInt
  <2> HIDE DEF x
  <2>13. Discounted(Lambda, 0, x) = x
    BY <2>4, <2>12, DiscountedIs
  <2> QED BY <1>3, <2>5, <2>11, <2>13 DEF x
<1>4. CASE ~ (ends[t] \/ t = n)
  <2>1. t \in 1..(n - 1) /\ t + 1 \in 1..n /\ ~ ends[t]
    BY <1>1, <1>4
  <2>2. e = LastOf(t + 1, n, ends) /\ t < e /\ e \in t..n
    BY <1>1, <2>1, LastIs DEF IsLast
  <2> HIDE DEF e
  <2>3. L(t + 1) = Averaged(t + 1, e, rewards, after, e - (t + 1) + 1)
    BY <2>1, <2>2, LambdaReturnIsAveraged
  <2> DEFINE m == e - t
             k == depth - 2 * m + 1
  <2>4. m \in 1..(e - t) /\ e - (t + 1) + 1 = m /\ e - t + 1 = m + 1 /\ m \in 1..(e - (t + 1) + 1)
    BY <2>2
  <2>5. Stretch(level, depth, t + 1, e, rewards, after)
    BY <1>2, <2>2, StretchRest
  <2>6. Averaged(t + 1, e, rewards, after, m) \in level[k]
    BY <2>4, <2>5, AveragedGrows
  <2>7. k \in 0..depth /\ 2 \in 0..k
    <3>1. depth \in Nat
      BY <1>2, StretchIs
    <3> QED BY <1>1, <2>2, <2>4, <3>1
  <2>8. Averaged(t + 1, e, rewards, after, m) \in level[2]
    <3> DEFINE x == Averaged(t + 1, e, rewards, after, m)
    <3> HIDE DEF k, x
    <3>1. \A i \in 0..depth : \A j \in 0..i : level[i] \subseteq level[j]
      BY <1>2, StretchIs
    <3> QED BY <2>6, <2>7, <3>1 DEF x
  <2>9. Averaged(t, e, rewards, after, m + 1)
          = rewards[t] + (Times(Discount, after[t]) - Both(after[t]))
              + Both(Averaged(t + 1, e, rewards, after, m))
    BY <1>2, <2>4, AveragedShift
  <2> QED BY <1>2, <1>4, <2>3, <2>4, <2>8, <2>9
<1> QED BY <1>3, <1>4
-------------------------------------------------------------------------------
(* The advantages, and the returns.                                           *)

\* The value of what follows a step, as the rows have it.
NextValue(chunk_rows, final, t) ==
  IF chunk_rows[t].done THEN chunk_rows[t].bootstrap
  ELSE IF t = Len(chunk_rows) THEN final ELSE chunk_rows[t + 1].value

\* The rows of a chunk, as far as the returns are concerned.
Amounted(chunk_rows, final) ==
  /\ Len(chunk_rows) \in Nat \ {0} /\ final \in Int
  /\ \A t \in 1..Len(chunk_rows) :
       /\ chunk_rows[t].reward \in Int /\ chunk_rows[t].value \in Int
       /\ chunk_rows[t].bootstrap \in Int

LEMMA AdvantageIs ==
  ASSUME NEW list, NEW final, Amounted(list, final), Factor(Discount), Factor(Lambda)
  PROVE  LET A == GeneralizedAdvantage(list, final, Discount, Lambda) IN
         \A t \in 1..Len(list) :
           /\ A[t] \in Int
           /\ A[t] = list[t].reward + Times(Discount, NextValue(list, final, t)) - list[t].value
                       + (IF t = Len(list) \/ list[t].done THEN 0
                          ELSE Times(Discount, Times(Lambda, A[t + 1])))
<1> DEFINE n == Len(list)
           Follow(t) == IF list[t].done THEN list[t].bootstrap
                        ELSE IF t = n THEN final ELSE list[t + 1].value
           Delta(t) == list[t].reward + Times(Discount, Follow(t)) - list[t].value
           Is(a) == a = [t \in 1..n |->
                           Delta(t) + (IF t = n \/ list[t].done THEN 0
                                       ELSE Times(Discount, Times(Lambda, a[t + 1])))]
           A == CHOOSE a : Is(a)
           Both(x) == Times(Discount, Times(Lambda, x))
           \* From the last step to the first.
           G == [at \in Nat \X Int |->
                   IF at[1] < n
                   THEN Delta(n - at[1]) + (IF at[1] = 0 \/ list[n - at[1]].done THEN 0 ELSE Both(at[2]))
                   ELSE 0]
<1>1. n \in Nat \ {0} /\ n \in Nat
  BY DEF Amounted
<1>2. ASSUME NEW t \in 1..n PROVE Delta(t) \in Int
  <2>1. t # n => t + 1 \in 1..n
    BY <1>1
  <2>2. Follow(t) \in Int
    BY <2>1 DEF Amounted
  <2> HIDE DEF Follow
  <2>3. Times(Discount, Follow(t)) \in Int /\ list[t].reward \in Int /\ list[t].value \in Int
    BY <2>2, TimesInt DEF Amounted
  <2> QED BY <2>3
<1>3. ASSUME NEW x \in Int PROVE Both(x) \in Int
  BY TimesInt
<1>4. GeneralizedAdvantage(list, final, Discount, Lambda) = A
  BY DEF GeneralizedAdvantage
<1>5. \A t \in 1..n : Follow(t) = NextValue(list, final, t)
  BY DEF NextValue
<1> HIDE DEF Follow, n
<1>6. \A t \in 1..n : Delta(t) = list[t].reward + Times(Discount, NextValue(list, final, t)) - list[t].value
  BY <1>5
<1> HIDE DEF Delta, Both
<1>7. G \in [Nat \X Int -> Int]
  <2> SUFFICES ASSUME NEW k \in Nat, NEW x \in Int
               PROVE  (IF k < n
                       THEN Delta(n - k) + (IF k = 0 \/ list[n - k].done THEN 0 ELSE Both(x))
                       ELSE 0) \in Int
    OBVIOUS
  <2>1. k < n => n - k \in 1..n
    BY <1>1
  <2>2. k < n => Delta(n - k) \in Int
    BY <1>2, <2>1
  <2> QED BY <1>3, <2>2
<1>8. PICK h : Upto(h, n, Int, 0, G)
  <2> HIDE DEF G
  <2>1. 0 \in Int
    OBVIOUS
  <2> QED BY <1>1, <1>7, <2>1, UptoExists
<1>9. h \in [0..n -> Int] /\ \A k \in 0..(n - 1) : h[k + 1] = G[<<k, h[k]>>]
  BY <1>8 DEF Upto
<1>10. ASSUME NEW k \in 0..(n - 1)
       PROVE  h[k + 1] = Delta(n - k) + (IF k = 0 \/ list[n - k].done THEN 0 ELSE Both(h[k]))
  <2>1. k \in Nat /\ k < n /\ k \in 0..n
    BY <1>1
  <2>2. h[k] \in Int
    BY <1>9, <2>1
  <2> QED BY <1>9, <2>1, <2>2
<1> DEFINE a == [t \in 1..n |-> h[n - t + 1]]
<1>11. ASSUME NEW t \in 1..n
       PROVE  /\ a[t] \in Int
              /\ a[t] = Delta(t) + (IF t = n \/ list[t].done THEN 0 ELSE Both(a[t + 1]))
  <2> DEFINE k == n - t
  <2>1. k \in 0..(n - 1) /\ n - k = t /\ (k = 0 <=> t = n) /\ k + 1 = n - t + 1 /\ k + 1 \in 0..n
    BY <1>1
  <2>2. t # n => t + 1 \in 1..n /\ n - (t + 1) + 1 = k
    BY <1>1
  <2> HIDE DEF k
  <2>3. a[t] = h[k + 1] /\ (t # n => a[t + 1] = h[k])
    BY <2>1, <2>2
  <2>4. h[k + 1] = Delta(t) + (IF t = n \/ list[t].done THEN 0 ELSE Both(h[k]))
    BY <1>10, <2>1
  <2>5. h[k + 1] \in Int
    BY <1>9, <2>1
  <2> QED BY <2>3, <2>4, <2>5
<1>12. Is(a)
  <2>1. a = [t \in 1..n |-> a[t]]
    OBVIOUS
  <2> HIDE DEF a
  <2> QED BY <1>11, <2>1 DEF Both
<1>13. Is(A)
  <2> HIDE DEF Is
  <2> QED BY <1>12
<1> HIDE DEF A
<1>14. \A t \in 1..n : A[t] = Delta(t) + (IF t = n \/ list[t].done THEN 0 ELSE Both(A[t + 1]))
  BY <1>13 DEF Both
<1> HIDE DEF Is, G, a
<1> DEFINE T == {k \in Nat : k <= n - 1 => A[n - k] \in Int}
<1>15. 0 \in T
  <2>1. n \in 1..n /\ n - 0 = n
    BY <1>1
  <2> QED BY <1>2, <1>14, <2>1
<1>16. ASSUME NEW k \in Nat, k \in T PROVE k + 1 \in T
  <2> SUFFICES ASSUME k + 1 <= n - 1 PROVE A[n - (k + 1)] \in Int
    OBVIOUS
  <2>1. n - (k + 1) \in 1..n /\ n - (k + 1) + 1 = n - k /\ A[n - k] \in Int
    BY <1>1, <1>16
  <2>2. Both(A[n - k]) \in Int /\ Delta(n - (k + 1)) \in Int
    BY <1>2, <1>3, <2>1
  <2> QED BY <1>14, <2>1, <2>2
<1>17. Nat \subseteq T
  <2> HIDE DEF T
  <2> QED BY <1>15, <1>16, SetInduction
<1>18. ASSUME NEW t \in 1..n PROVE A[t] \in Int
  <2>1. n - t \in Nat /\ n - t <= n - 1 /\ n - (n - t) = t
    BY <1>1
  <2> QED BY <1>17, <2>1
<1> QED BY <1>4, <1>6, <1>14, <1>18 DEF n, Both

\* The advantage and the value are the lambda-return.
LEMMA ReturnsAgree ==
  ASSUME NEW level, NEW depth, NEW list, NEW final, NEW rewards, NEW after, NEW ends,
         Amounted(list, final), Chunk(level, depth, Len(list), rewards, after, ends),
         \A t \in 1..Len(list) : /\ rewards[t] = list[t].reward /\ ends[t] = list[t].done
                                 /\ after[t] = NextValue(list, final, t)
  PROVE  \A t \in 1..Len(list) :
           GeneralizedAdvantage(list, final, Discount, Lambda)[t] + list[t].value
             = LambdaReturn(t, rewards, after, ends, Discount, Lambda)
<1> DEFINE n == Len(list)
           A == GeneralizedAdvantage(list, final, Discount, Lambda)
           L(i) == LambdaReturn(i, rewards, after, ends, Discount, Lambda)
           Both(z) == Times(Discount, Times(Lambda, z))
           T == {k \in Nat : k <= n - 1 => A[n - k] + list[n - k].value = L(n - k)}
<1>1. /\ n \in Nat \ {0} /\ 2 * n <= depth /\ Amounts(level, depth) /\ depth \in Nat
      /\ Factor(Discount) /\ Factor(Lambda)
  <2>1. Chain(level, depth, Discount) /\ Chain(level, depth, Lambda)
    BY DEF Chunk, Amounts
  <2> QED BY <2>1, ChainIs DEF Chunk
<1>2. ASSUME NEW t \in 1..n
      PROVE  /\ A[t] \in Int /\ list[t].value \in Int /\ rewards[t] \in Int
             /\ A[t] = rewards[t] + Times(Discount, after[t]) - list[t].value
                         + (IF t = n \/ ends[t] THEN 0 ELSE Both(A[t + 1]))
             /\ Times(Discount, after[t]) \in Int /\ after[t] \in level[depth]
             /\ (t # n /\ ~ ends[t] => after[t] = list[t + 1].value)
  <2>1. after[t] \in Int /\ after[t] \in level[depth]
    <3>1. after[t] \in level[depth] /\ depth \in 0..depth
      BY <1>1 DEF Chunk
    <3>2. level[depth] \subseteq Int
      BY <1>1, <3>1, ChainIs DEF Amounts
    <3> QED BY <3>1, <3>2
  <2>2. Times(Discount, after[t]) \in Int
    BY <1>1, <2>1, TimesInt
  <2>3. list[t].value \in Int /\ rewards[t] \in Int
    BY DEF Amounted
  <2>4. /\ A[t] \in Int
        /\ A[t] = list[t].reward + Times(Discount, NextValue(list, final, t)) - list[t].value
                       + (IF t = n \/ list[t].done THEN 0 ELSE Both(A[t + 1]))
    BY <1>1, AdvantageIs
  <2> QED BY <2>1, <2>2, <2>3, <2>4 DEF NextValue
<1> HIDE DEF A, L
<1>3. ASSUME NEW t \in 1..n, ends[t] \/ t = n PROVE A[t] + list[t].value = L(t)
  <2>1. L(t) = rewards[t] + Times(Discount, after[t])
    BY <1>3, LambdaReturnIs DEF L
  <2> DEFINE y == Times(Discount, after[t])
  <2>2. A[t] = rewards[t] + y - list[t].value + 0 /\ y \in Int /\ rewards[t] \in Int
        /\ list[t].value \in Int
    BY <1>2, <1>3
  <2>3. L(t) = rewards[t] + y
    BY <2>1
  <2> HIDE DEF y
  <2> QED BY <2>2, <2>3
<1>4. ASSUME NEW t \in 1..n, ~ (ends[t] \/ t = n), A[t + 1] + list[t + 1].value = L(t + 1)
      PROVE  A[t] + list[t].value = L(t)
  <2> DEFINE x == L(t + 1)
             a == after[t]
  <2>1. x \in level[2] /\ L(t) = rewards[t] + (Times(Discount, a) - Both(a)) + Both(x)
    BY <1>4, LambdaReturnIs DEF L
  <2>2. t + 1 \in 1..n /\ depth \in 0..depth /\ 2 \in 0..depth /\ 2 \in 2..depth
    BY <1>1, <1>4
  <2>3. a \in level[2] /\ x \in Int /\ a \in Int
    <3>1. Chain(level, depth, Discount)
      BY <1>1 DEF Amounts
    <3>2. level[depth] \subseteq level[2] /\ level[2] \subseteq Int
      BY <2>2, <3>1, ChainIs
    <3> QED BY <1>2, <2>1, <3>2
  <2>4. A[t + 1] = x - a
    <3>1. A[t + 1] \in Int /\ list[t + 1].value = a
      BY <1>2, <1>4, <2>2
    <3> QED BY <1>4, <2>3, <3>1
  <2> DEFINE y == Times(Discount, a)
  <2>5. A[t] = rewards[t] + y - list[t].value + Both(A[t + 1]) /\ y \in Int
        /\ rewards[t] \in Int /\ list[t].value \in Int
    BY <1>2, <1>4
  <2> HIDE DEF x, a
  <2>6. Both(x - a) = Both(x) - Both(a) /\ Both(x) \in Int /\ Both(a) \in Int
    BY <1>1, <2>1, <2>2, <2>3, BothAdd
  <2> HIDE DEF y
  <2> DEFINE bx == Both(x)
             ba == Both(a)
  <2>7. A[t] = rewards[t] + y - list[t].value + (bx - ba) /\ bx \in Int /\ ba \in Int
    BY <2>4, <2>5, <2>6
  <2>8. L(t) = rewards[t] + (y - ba) + bx
    BY <2>1 DEF y
  <2> HIDE DEF bx, ba
  <2> QED BY <2>5, <2>7, <2>8
<1>5. 0 \in T
  <2>1. n \in 1..n /\ n - 0 = n
    BY <1>1
  <2> QED BY <1>3, <2>1
<1>6. ASSUME NEW k \in Nat, k \in T PROVE k + 1 \in T
  <2> SUFFICES ASSUME k + 1 <= n - 1
               PROVE  A[n - (k + 1)] + list[n - (k + 1)].value = L(n - (k + 1))
    OBVIOUS
  <2> DEFINE t == n - (k + 1)
  <2>1. t \in 1..n /\ t + 1 = n - k
    BY <1>1
  <2>2. A[t + 1] + list[t + 1].value = L(t + 1)
    BY <1>6, <2>1
  <2> HIDE DEF t
  <2>3. A[t] + list[t].value = L(t)
    BY <1>3, <1>4, <2>1, <2>2
  <2> QED BY <2>3 DEF t
<1>7. Nat \subseteq T
  <2> HIDE DEF T
  <2> QED BY <1>5, <1>6, SetInduction
<1>8. ASSUME NEW t \in 1..n PROVE A[t] + list[t].value = L(t)
  <2>1. n - t \in Nat /\ n - t <= n - 1 /\ n - (n - t) = t
    BY <1>1
  <2> QED BY <1>7, <2>1
<1> QED BY <1>8 DEF A, L
-------------------------------------------------------------------------------
(* Units in which every division met in a chunk is exact.                     *)

\* The amounts that base divides n times.
Divisible(base, n) ==
  LET level[k \in Nat] == IF k = 0 THEN Int ELSE {base * x : x \in level[k - 1]} IN level[n]

\* Values and rewards are multiples of a high enough power of a common denominator.
UnitsAreExact ==
  /\ Factor(Discount) /\ Factor(Lambda)
  /\ \E base \in Nat \ {0} :
       /\ \E i \in Nat : base = i * Discount[2]
       /\ \E i \in Nat : base = i * Lambda[2]
       /\ Values \union {DecisionCost, ShortCycleCost, OverflowCost, Reached}
            \subseteq Divisible(base, 2 * RolloutLength)

LEMMA DivisibleIs ==
  ASSUME NEW base \in Nat \ {0}
  PROVE  /\ Divisible(base, 0) = Int
         /\ \A n \in Nat : /\ Divisible(base, n) \subseteq Int
                           /\ Divisible(base, n + 1) = {base * x : x \in Divisible(base, n)}
<1> DEFINE Is(l) == l = [k \in Nat |-> IF k = 0 THEN Int ELSE {base * x : x \in l[k - 1]}]
           level == CHOOSE l : Is(l)
           G == [at \in Nat \X SUBSET Int |-> {base * x : x \in at[2]}]
<1>1. G \in [Nat \X SUBSET Int -> SUBSET Int]
  <2> SUFFICES ASSUME NEW S \in SUBSET Int PROVE {base * x : x \in S} \in SUBSET Int
    OBVIOUS
  <2>1. \A x \in S : base * x \in Int
    OBVIOUS
  <2> QED BY <2>1
<1>2. PICK l : Unfolds(l, SUBSET Int, Int, G)
  <2> HIDE DEF G
  <2>1. Int \in SUBSET Int
    OBVIOUS
  <2>2. Stepped(SUBSET Int, Int, G)
    BY <1>1, <2>1 DEF Stepped
  <2> QED BY <2>2, Recursion
<1>3. l \in [Nat -> SUBSET Int] /\ l[0] = Int /\ \A n \in Nat : l[n + 1] = G[<<n, l[n]>>]
  BY <1>2 DEF Unfolds
<1>4. \A n \in Nat : l[n + 1] = {base * x : x \in l[n]}
  BY <1>3
<1>5. ASSUME NEW k \in Nat PROVE l[k] = IF k = 0 THEN Int ELSE {base * x : x \in l[k - 1]}
  <2>1. CASE k # 0
    <3>1. k - 1 \in Nat /\ (k - 1) + 1 = k
      BY <2>1
    <3> QED BY <1>4, <2>1, <3>1
  <2> QED BY <1>3, <2>1
<1>6. Is(l)
  <2>1. l = [k \in Nat |-> l[k]]
    BY <1>3
  <2> QED BY <1>5, <2>1
<1>7. Is(level)
  <2> HIDE DEF Is
  <2> QED BY <1>6
<1>8. \A n \in Nat : Divisible(base, n) = level[n]
  BY DEF Divisible
<1> HIDE DEF level
<1>9. level[0] = Int
  BY <1>7
<1>10. ASSUME NEW n \in Nat PROVE level[n + 1] = {base * x : x \in level[n]}
  <2>1. n + 1 \in Nat /\ n + 1 # 0 /\ (n + 1) - 1 = n
    OBVIOUS
  <2>2. level[n + 1] = {base * x : x \in level[(n + 1) - 1]}
    BY <1>7, <2>1
  <2> QED BY <2>1, <2>2
<1> DEFINE T == {n \in Nat : level[n] \subseteq Int}
<1> HIDE DEF Is
<1>11. 0 \in T
  BY <1>9
<1>12. ASSUME NEW n \in Nat, n \in T PROVE n + 1 \in T
  <2>1. \A x \in level[n] : base * x \in Int
    BY <1>12
  <2> QED BY <1>10, <2>1
<1>13. Nat \subseteq T
  <2> HIDE DEF T
  <2> QED BY <1>11, <1>12, SetInduction
<1> QED BY <1>8, <1>9, <1>10, <1>13

\* Closed under sums, differences and multiples, and each within the one before.
LEMMA DivisibleClosed ==
  ASSUME NEW base \in Nat \ {0}
  PROVE  \A n \in Nat :
           LET S == Divisible(base, n) IN
           /\ 0 \in S /\ Divisible(base, n + 1) \subseteq S
           /\ \A x, y \in S : x + y \in S /\ x - y \in S
           /\ \A x \in S, i \in Int : i * x \in S
<1> DEFINE D(n) == Divisible(base, n)
           Closed(S) == /\ 0 \in S /\ \A x, y \in S : x + y \in S /\ x - y \in S
                        /\ \A x \in S, i \in Int : i * x \in S
           T == {n \in Nat : Closed(D(n)) /\ D(n + 1) \subseteq D(n)}
<1>1. D(0) = Int /\ \A n \in Nat : D(n) \subseteq Int /\ D(n + 1) = {base * x : x \in D(n)}
  BY DivisibleIs
<1> HIDE DEF D
<1>2. 0 \in T
  <2>1. D(0 + 1) \subseteq Int
    BY <1>1
  <2> QED BY <1>1, <2>1
<1>3. ASSUME NEW n \in Nat, n \in T PROVE n + 1 \in T
  <2> DEFINE S == D(n)
             R == D(n + 1)
  <2>1. S \subseteq Int /\ R = {base * x : x \in S} /\ Closed(S) /\ R \subseteq S
        /\ D((n + 1) + 1) = {base * x : x \in R}
    <3>1. n + 1 \in Nat
      OBVIOUS
    <3>2. D((n + 1) + 1) = {base * x : x \in R} /\ R = {base * x : x \in S} /\ S \subseteq Int
      BY <1>1, <3>1
    <3>3. Closed(D(n)) /\ D(n + 1) \subseteq D(n)
      BY <1>3
    <3> HIDE DEF Closed
    <3> QED BY <3>2, <3>3
  <2> HIDE DEF S, R
  <2>2. 0 \in R
    <3>1. base * 0 = 0 /\ 0 \in S
      BY <2>1
    <3> QED BY <2>1, <3>1
  <2>3. ASSUME NEW x \in R, NEW y \in R PROVE x + y \in R /\ x - y \in R
    <3>1. PICK u \in S, v \in S : x = base * u /\ y = base * v
      BY <2>1, <2>3
    <3>2. u + v \in S /\ u - v \in S /\ u \in Int /\ v \in Int
      BY <2>1
    <3>3. x + y = base * (u + v) /\ x - y = base * (u - v)
      BY <3>1, <3>2
    <3> QED BY <2>1, <3>2, <3>3
  <2>4. ASSUME NEW x \in R, NEW i \in Int PROVE i * x \in R
    <3>1. PICK u \in S : x = base * u
      BY <2>1, <2>4
    <3>2. i * u \in S /\ u \in Int
      BY <2>1
    <3>3. i * (base * u) = base * (i * u)
      BY <3>2
    <3> QED BY <2>1, <3>1, <3>2, <3>3
  <2>5. D((n + 1) + 1) \subseteq R
    BY <2>1
  <2> QED BY <2>2, <2>3, <2>4, <2>5 DEF R
<1>4. Nat \subseteq T
  <2> HIDE DEF T
  <2> QED BY <1>2, <1>3, SetInduction
<1> QED BY <1>4 DEF D

LEMMA FactorsDivide ==
  ASSUME NEW base \in Nat \ {0}, NEW factor, Factor(factor), NEW i \in Nat, base = i * factor[2],
         NEW depth \in Nat
  PROVE  Chain([k \in 0..depth |-> Divisible(base, k)], depth, factor)
<1> DEFINE level == [k \in 0..depth |-> Divisible(base, k)]
           n == factor[1]
           d == factor[2]
<1>1. n \in Int /\ d \in Nat \ {0}
  BY DEF Factor
<1>2. level \in [0..depth -> SUBSET Int]
  BY DivisibleIs
<1>3. ASSUME NEW k \in 0..depth
      PROVE  0 \in level[k] /\ \A x, y \in level[k] : x + y \in level[k] /\ x - y \in level[k]
  <2>1. k \in Nat
    OBVIOUS
  <2> QED BY <2>1, DivisibleClosed
<1>4. ASSUME NEW k \in 1..depth
      PROVE  /\ level[k] \subseteq level[k - 1]
             /\ \A x \in level[k] : \E y \in level[k - 1] : n * x = d * y
  <2> DEFINE S == Divisible(base, k - 1)
             R == Divisible(base, k)
  <2>1. k - 1 \in Nat /\ (k - 1) + 1 = k /\ level[k] = R /\ level[k - 1] = S
    OBVIOUS
  <2> HIDE DEF level
  <2>2. R \subseteq S /\ \A x \in S, j \in Int : j * x \in S
    <3>1. Divisible(base, (k - 1) + 1) \subseteq S /\ \A x \in S, j \in Int : j * x \in S
      BY <2>1, DivisibleClosed
    <3> QED BY <2>1, <3>1
  <2>3. R = {base * x : x \in S} /\ S \subseteq Int
    <3>1. Divisible(base, (k - 1) + 1) = {base * x : x \in S} /\ S \subseteq Int
      BY <2>1, DivisibleIs
    <3> QED BY <2>1, <3>1
  <2> HIDE DEF R, S
  <2>4. ASSUME NEW x \in R PROVE \E y \in S : n * x = d * y
    <3>1. PICK u \in S : x = base * u
      BY <2>3
    <3> HIDE DEF n, d
    <3>2. u \in Int /\ n * i \in Int
      BY <1>1, <2>3
    <3>3. (n * i) * u \in S
      BY <2>2, <3>2
    <3>4. base = i * d
      BY DEF d
    <3>5. n * ((i * d) * u) = d * ((n * i) * u)
      BY <1>1, <3>2
    <3>6. n * x = d * ((n * i) * u)
      BY <3>1, <3>4, <3>5
    <3> QED BY <3>3, <3>6
  <2> QED BY <2>1, <2>2, <2>4
<1> HIDE DEF level
<1> QED BY <1>1, <1>2, <1>3, <1>4 DEF Chain, level

LEMMA ExactAmounts ==
  ASSUME UnitsAreExact
  PROVE  \E level : /\ Amounts(level, 2 * RolloutLength)
                    /\ Values \subseteq level[2 * RolloutLength]
                    /\ {DecisionCost, ShortCycleCost, OverflowCost, Reached}
                         \subseteq level[2 * RolloutLength]
<1> DEFINE depth == 2 * RolloutLength
<1>1. depth \in Nat
  BY RolloutAssumption
<1>2. PICK base \in Nat \ {0} :
        /\ \E i \in Nat : base = i * Discount[2]
        /\ \E i \in Nat : base = i * Lambda[2]
        /\ Values \union {DecisionCost, ShortCycleCost, OverflowCost, Reached}
             \subseteq Divisible(base, depth)
  BY DEF UnitsAreExact
<1> DEFINE level == [k \in 0..depth |-> Divisible(base, k)]
<1>3. Chain(level, depth, Discount)
  <2>1. PICK i \in Nat : base = i * Discount[2]
    BY <1>2
  <2> HIDE DEF depth
  <2> QED BY <1>1, <2>1, FactorsDivide DEF UnitsAreExact
<1>4. Chain(level, depth, Lambda)
  <2>1. PICK i \in Nat : base = i * Lambda[2]
    BY <1>2
  <2> HIDE DEF depth
  <2> QED BY <1>1, <2>1, FactorsDivide DEF UnitsAreExact
<1>5. level[depth] = Divisible(base, depth)
  BY <1>1
<1> HIDE DEF level
<1>6. Amounts(level, depth)
  BY <1>3, <1>4 DEF Amounts
<1> HIDE DEF depth
<1>7. /\ Amounts(level, depth) /\ Values \subseteq level[depth]
      /\ {DecisionCost, ShortCycleCost, OverflowCost, Reached} \subseteq level[depth]
  BY <1>2, <1>5, <1>6
<1> QED BY <1>7 DEF depth
-------------------------------------------------------------------------------
(* The values and rewards of a chunk's rows.                                  *)

\* What a row of training's list pays: the game's reward less the costs that apply.
Payments ==
  {g - DecisionCost - c - o : g \in {0, Reached}, c \in {0, ShortCycleCost}, o \in {0, OverflowCost}}

\* The value that follows a row is the row's bootstrap or the next row's value.
FollowedBy(t) ==
  IF rows[t].done THEN rows[t].bootstrap = Follows(trace[t])
  ELSE t < Len(rows) => rows[t + 1].value = Follows(trace[t])

\* The step in hand is the trace's last, and where a reset is awaited its game has ended
\* in a death that training continues after.
InHand ==
  pc \in {"acted", "resetting"} =>
    LET last == trace[Len(trace)] IN
    /\ step.reward \in {0, Reached} /\ step.terminated = (step.outcome # None)
    /\ last.outcome = step.outcome /\ last.limit = step.truncated
    /\ pc = "acted" => last.played = game.played
    /\ pc = "resetting" => UsesReset /\ (worker.observation # None => game.played = <<>>)

\* Where the latest row's game goes on, the model's next answer is what follows the row.
GoesOn ==
  rows # <<>> /\ ~ rows[Len(rows)].done =>
    LET last == trace[Len(rows)] IN
    /\ pc \in {"ready", "sampled", "ending"} =>
         worker.observation # None /\ last.after = game.view /\ last.played = game.played
    /\ pc \in {"acted", "resetting"} => step.value = Follows(last)

ValueInv ==
  /\ \A t \in 1..Len(rows) : FollowedBy(t) /\ rows[t].reward \in Payments
  /\ InHand /\ GoesOn
  /\ pc = "sampled" => query.history = EncodeHistory(game.played)
  /\ pc = "collected" => ReturnsAreLambdaReturns

LEMMA InitValueInv == Init => ValueInv
<1> SUFFICES ASSUME Init PROVE ValueInv
  OBVIOUS
<1>1. rows = <<>> /\ pc = "ready"
  BY DEF Init
<1>2. Len(rows) = 0
  BY <1>1
<1> QED BY <1>1, <1>2 DEF ValueInv, InHand, GoesOn

\* What follows a step that did not end its game is what the game shows after it.
LEMMA FollowsOn ==
  ASSUME NEW s, s.outcome = None
  PROVE  Follows(s) = Value(s.after, EncodeHistory(s.played))
<1> QED BY DEF Follows

\* Rows and steps.
LEMMA RowsAndSteps ==
  ASSUME RolloutInv
  PROVE  /\ rows \in Seq(Rows) /\ trace \in Seq(Traces) /\ Len(rows) \in Nat /\ Len(trace) \in Nat
         /\ DOMAIN rows = 1..Len(rows)
         /\ Len(trace) = IF pc \in {"acted", "resetting"} THEN Len(rows) + 1 ELSE Len(rows)
         /\ \A t \in 1..Len(rows) :
              /\ rows[t] \in Rows
              /\ rows[t].done <=> trace[t].outcome # None \/ trace[t].limit
<1>1. rows \in Seq(Rows) /\ trace \in Seq(Traces)
  BY DEF RolloutInv, Types
<1> QED BY <1>1 DEF RolloutInv, RowsMatch, RowsAreTransitions

\* A row is added, with the bootstrap of a step that ended, or before the next step of
\* one that did not.
Added(row) ==
  /\ pc \in {"acted", "resetting"} /\ pc' \in {"ready", "ending"}
  /\ rows' = Append(rows, row) /\ row.value = step.value /\ row.reward \in Payments
  /\ \A t \in 1..Len(rows) : trace'[t] = trace[t]
  /\ row.done => row.bootstrap = Follows(trace'[Len(rows) + 1])
  /\ ~ row.done => LET last == trace'[Len(rows) + 1] IN
                   worker.observation # None /\ last.after = game.view /\ last.played = game.played
  /\ UNCHANGED <<setting, worker, game>>

LEMMA AddedValues ==
  ASSUME RolloutInv, ValueInv, NEW row \in Rows, Added(row)
  PROVE  ValueInv'
<1> DEFINE n == Len(rows)
<1>1. rows \in Seq(Rows) /\ n \in Nat
  BY RowsAndSteps
<1>2. /\ Len(rows') = n + 1 /\ rows'[n + 1] = row /\ \A t \in 1..n : rows'[t] = rows[t]
      /\ rows' # <<>>
  <2>1. rows' = Append(rows, row)
    BY DEF Added
  <2> QED BY <1>1, <2>1
<1>3. continuing' = continuing /\ pc' \in {"ready", "ending"} /\ pc \in {"acted", "resetting"}
      /\ worker' = worker /\ game' = game /\ \A t \in 1..n : trace'[t] = trace[t]
  BY DEF Added, setting
<1>4. ASSUME NEW s PROVE Follows(s)' = Follows(s')
  BY <1>3 DEF Follows
<1>5. ASSUME NEW t \in 1..(n + 1)
      PROVE  FollowedBy(t)' /\ rows'[t].reward \in Payments
  <2>1. CASE t = n + 1
    <3>1. rows'[t] = row /\ ~ (t < Len(rows'))
      BY <1>1, <1>2, <2>1
    <3>2. row.done => row.bootstrap = Follows(trace'[t])
      BY <2>1 DEF Added
    <3>3. row.reward \in Payments
      BY DEF Added
    <3> QED BY <1>3, <3>1, <3>2, <3>3 DEF FollowedBy, Follows
  <2>2. CASE t # n + 1
    <3>1. t \in 1..n /\ rows'[t] = rows[t] /\ trace'[t] = trace[t] /\ FollowedBy(t)
          /\ rows[t].reward \in Payments
      BY <1>1, <1>2, <1>3, <2>2 DEF ValueInv
    <3>2. CASE rows[t].done
      BY <1>3, <3>1, <3>2 DEF FollowedBy, Follows
    <3>3. CASE ~ rows[t].done
      <4>1. rows'[t + 1].value = Follows(trace[t])
        <5>1. CASE t = n
          <6>1. rows # <<>>
            BY <1>1, <3>1
          <6>2. step.value = Follows(trace[n])
            BY <1>3, <3>3, <5>1, <6>1 DEF ValueInv, GoesOn
          <6> QED BY <1>2, <5>1, <6>2 DEF Added
        <5>2. CASE t # n
          <6>1. t < n /\ t + 1 \in 1..n
            BY <1>1, <3>1, <5>2
          <6> QED BY <1>2, <3>1, <3>3, <6>1 DEF FollowedBy
        <5> QED BY <5>1, <5>2
      <4> QED BY <1>3, <3>1, <3>3, <4>1 DEF FollowedBy, Follows
    <3> QED BY <3>1, <3>2, <3>3
  <2> QED BY <2>1, <2>2
<1>6. InHand'
  BY <1>3 DEF InHand
<1>7. GoesOn'
  <2> DEFINE last == trace'[n + 1]
  <2>1. ~ row.done => worker'.observation # None /\ last.after = game'.view /\ last.played = game'.played
    BY <1>3 DEF Added
  <2>2. rows'[Len(rows')] = row /\ trace'[Len(rows')] = last
    BY <1>2
  <2> HIDE DEF last, n
  <2> QED BY <1>3, <2>1, <2>2 DEF GoesOn
<1>8. /\ pc' # "sampled" /\ pc' # "collected"
  BY <1>3
<1>9. \A t \in 1..Len(rows') : (FollowedBy(t) /\ rows[t].reward \in Payments)'
  BY <1>2, <1>5 DEF Payments
<1> QED BY <1>6, <1>7, <1>8, <1>9 DEF ValueInv

\* What a row pays.
LEMMA RowPays ==
  ASSUME RolloutInv, ValueInv, pc \in {"acted", "resetting"}, NEW bootstrap \in Values \union {0}
  PROVE  LET row == Row(bootstrap, step.observation) IN
         /\ row \in Rows /\ row.value = step.value /\ row.bootstrap = bootstrap
         /\ row.done = Done(step) /\ row.reward \in Payments
<1> DEFINE row == Row(bootstrap, step.observation)
<1>1. step \in Steps
  BY DEF RolloutInv, Types
<1>2. row \in Rows /\ row.done = Done(step)
  BY <1>1, RowTypes
<1>3. row.value = step.value /\ row.bootstrap = bootstrap
      /\ row.reward = step.reward - DecisionCost - (IF step.short_cycle THEN ShortCycleCost ELSE 0)
                        - (IF step.overflow THEN OverflowCost ELSE 0)
  BY DEF Row
<1>4. step.reward \in {0, Reached}
  BY DEF ValueInv, InHand
<1>5. row.reward \in Payments
  <2> DEFINE c == IF step.short_cycle THEN ShortCycleCost ELSE 0
             o == IF step.overflow THEN OverflowCost ELSE 0
  <2>1. c \in {0, ShortCycleCost} /\ o \in {0, OverflowCost}
        /\ row.reward = step.reward - DecisionCost - c - o
    BY <1>3
  <2> HIDE DEF c, o, row
  <2> QED BY <1>4, <2>1 DEF Payments
<1> QED BY <1>2, <1>3, <1>5

\* The step in hand, as the rows find it.
LEMMA StepInHand ==
  ASSUME RolloutInv, ValueInv, pc \in {"acted", "resetting"}
  PROVE  LET last == trace[Len(rows) + 1] IN
         /\ step \in Steps
         /\ step.terminated = (step.outcome # None)
         /\ last \in Traces /\ last.outcome = step.outcome /\ last.limit = step.truncated
         /\ last.after = step.observation /\ Len(trace) = Len(rows) + 1
         /\ pc = "acted" => /\ game \in Games /\ game.view \in Views
                            /\ last.played = game.played /\ step.history = game.played
                            /\ step.observation = game.view
                            /\ worker.observation = IF Done(step) THEN None ELSE game.view
<1>1. Len(trace) = Len(rows) + 1 /\ trace \in Seq(Traces) /\ Len(rows) \in Nat
  BY RowsAndSteps
<1>2. trace[Len(rows) + 1] \in Traces
  BY <1>1
<1>3. step \in Steps /\ (IF Begun THEN game \in Games ELSE game = None)
  BY DEF RolloutInv, Types
<1>4. step.observation = trace[Len(rows) + 1].after
  BY <1>1 DEF RolloutInv, RowsMatch
<1>5. /\ step.terminated = (step.outcome # None)
      /\ trace[Len(rows) + 1].outcome = step.outcome /\ trace[Len(rows) + 1].limit = step.truncated
      /\ pc = "acted" => trace[Len(rows) + 1].played = game.played
  BY <1>1 DEF ValueInv, InHand
<1>6. pc = "acted" => /\ Begun /\ step.observation = game.view /\ step.history = game.played
                      /\ worker.observation = IF Done(step) THEN None ELSE game.view
  BY DEF RolloutInv, StepIsLive
<1>7. pc = "acted" => game \in Games /\ game.view \in Views
  BY <1>3, <1>6 DEF Games
<1> QED BY <1>1, <1>2, <1>3, <1>4, <1>5, <1>6, <1>7

\* A step that ended by itself has no value after it, or a game that goes on follows.
LEMMA RecordsValues == ASSUME RolloutInv, ValueInv, Records PROVE ValueInv'
<1> DEFINE row == Row(0, step.observation)
           n == Len(rows)
           last == trace[n + 1]
<1>1. pc = "acted" /\ ~ (step.truncated /\ ~ step.terminated) /\ ~ UsesReset
      /\ Continues(row, Following) /\ UNCHANGED <<setting, worker, game, trace>>
  BY DEF Records
<1>2. /\ row \in Rows /\ row.value = step.value /\ row.bootstrap = 0
      /\ row.done = Done(step) /\ row.reward \in Payments
  BY <1>1, RowPays
<1>3. /\ step \in Steps /\ step.terminated = (step.outcome # None) /\ last.outcome = step.outcome
      /\ last.after = step.observation /\ game.view \in Views /\ last.played = game.played
      /\ step.observation = game.view /\ worker.observation = IF Done(step) THEN None ELSE game.view
  BY <1>1, StepInHand
<1>4. trace' = trace /\ rows' = Append(rows, row) /\ pc' \in {"ready", "ending"}
  BY <1>1 DEF Continues
<1>5. row.done => Follows(last) = 0
  <2> SUFFICES ASSUME Done(step) PROVE Follows(last) = 0
    BY <1>2
  <2>1. step.outcome # None
    BY <1>1, <1>3 DEF Done, Steps
  <2>2. step.outcome = "won" \/ ~ continuing
    BY <1>1, <1>3, <2>1 DEF UsesReset
  <2> QED BY <1>3, <2>1, <2>2 DEF Follows
<1>6. ~ row.done => worker.observation # None /\ last.after = game.view /\ last.played = game.played
  BY <1>2, <1>3, ViewsAreSome
<1> HIDE DEF row
<1>7. Added(row)
  BY <1>1, <1>2, <1>4, <1>5, <1>6 DEF Added
<1> QED BY <1>2, <1>7, AddedValues

\* A step at the limit is followed by what the model says of the game.
LEMMA LimitValues == ASSUME RolloutInv, ValueInv, BootstrapsLimit PROVE ValueInv'
<1> DEFINE n == Len(rows)
           last == trace[n + 1]
           bootstrap == Value(query'.feature, query'.history)
           row == Row(bootstrap, step.observation)
<1>1. pc = "acted" /\ step.truncated /\ ~ step.terminated /\ UNCHANGED <<setting, worker, game, trace>>
      /\ Continues(row, Following)
      /\ query'.feature = step.observation /\ query'.history = EncodeHistory(step.history)
  BY DEF BootstrapsLimit
<1>2. /\ step \in Steps /\ step.terminated = (step.outcome # None) /\ last.outcome = step.outcome
      /\ last.after = step.observation /\ last.played = game.played /\ step.history = game.played
  BY <1>1, StepInHand
<1>3. bootstrap = Follows(last)
  BY <1>1, <1>2, FollowsOn
<1>4. bootstrap \in Values \union {0}
  <2>1. step.observation \in Views /\ step.history \in Seq(Actions)
    BY <1>2 DEF Steps
  <2>2. EncodeHistory(step.history) \in Histories
    BY <2>1, EncodedIsNewestFirst
  <2> QED BY <1>1, <2>1, <2>2 DEF Values
<1> HIDE DEF bootstrap
<1>5. /\ row \in Rows /\ row.value = step.value /\ row.bootstrap = bootstrap
      /\ row.done = Done(step) /\ row.reward \in Payments
  BY <1>1, <1>4, RowPays
<1>6. row.done
  BY <1>1, <1>2, <1>5 DEF Done, Steps
<1>7. trace' = trace /\ rows' = Append(rows, row) /\ pc' \in {"ready", "ending"}
  BY <1>1 DEF Continues
<1> HIDE DEF row
<1>8. Added(row)
  BY <1>1, <1>3, <1>5, <1>6, <1>7 DEF Added
<1> QED BY <1>5, <1>8, AddedValues

\* A death that training continues after is followed by what the model says of the new
\* game, which has been played no action.
LEMMA ResetValues == ASSUME RolloutInv, ValueInv, BootstrapsReset PROVE ValueInv'
<1> DEFINE n == Len(rows)
           last == trace[n + 1]
           bootstrap == Value(query'.feature, query'.history)
           row == Row(bootstrap, step.observation)
<1>1. pc = "resetting" /\ worker.observation # None /\ UNCHANGED <<setting, worker, game>>
      /\ Continues(row, worker.observation)
      /\ query'.feature = worker.observation /\ query'.history = EncodeHistory(worker.history)
      /\ trace' = [trace EXCEPT ![Len(trace)].next = game.view]
  BY DEF BootstrapsReset
<1>2. /\ step \in Steps /\ step.terminated = (step.outcome # None) /\ last.outcome = step.outcome
      /\ last \in Traces /\ Len(trace) = n + 1
  BY <1>1, StepInHand
<1>3. UsesReset /\ game.played = <<>>
  BY <1>1 DEF ValueInv, InHand
<1>4. /\ worker.observation = game.view /\ worker.history = <<>> /\ Begun
  BY <1>1, <1>3 DEF RolloutInv, WorkerIsLive
<1>5. trace \in Seq(Traces) /\ n \in Nat
  BY RowsAndSteps
<1>6. /\ trace'[n + 1].outcome = last.outcome /\ trace'[n + 1].next = game.view
      /\ \A t \in 1..n : trace'[t] = trace[t]
  <2>1. trace' = [trace EXCEPT ![n + 1] = [@ EXCEPT !.next = game.view]] /\ n + 1 \in DOMAIN trace
    BY <1>1, <1>2, <1>5
  <2>2. trace'[n + 1] = [last EXCEPT !.next = game.view]
    BY <2>1
  <2>3. \A t \in 1..n : t \in DOMAIN trace /\ t # n + 1
    BY <1>2, <1>5
  <2> QED BY <1>2, <2>1, <2>2, <2>3 DEF Traces
<1>7. bootstrap = Follows(trace'[n + 1])
  <2>1. last.outcome # None /\ last.outcome # "won" /\ continuing
    BY <1>2, <1>3 DEF UsesReset
  <2> QED BY <1>1, <1>4, <1>6, <2>1 DEF Follows
<1>8. bootstrap \in Values \union {0}
  <2>1. game.view \in Views
    BY <1>4 DEF RolloutInv, Types, Games
  <2>2. <<>> \in Seq(Actions)
    OBVIOUS
  <2>3. EncodeHistory(<<>>) \in Histories
    BY <2>2, EncodedIsNewestFirst
  <2> QED BY <1>1, <1>4, <2>1, <2>3 DEF Values
<1> HIDE DEF bootstrap
<1>9. /\ row \in Rows /\ row.value = step.value /\ row.bootstrap = bootstrap
      /\ row.done = Done(step) /\ row.reward \in Payments
  BY <1>1, <1>8, RowPays
<1>10. row.done
  BY <1>2, <1>3, <1>9 DEF UsesReset, Done, Steps
<1>11. rows' = Append(rows, row) /\ pc' \in {"ready", "ending"}
  BY <1>1 DEF Continues
<1> HIDE DEF row
<1>12. Added(row)
  BY <1>1, <1>6, <1>7, <1>9, <1>10, <1>11 DEF Added
<1> QED BY <1>9, <1>12, AddedValues
-------------------------------------------------------------------------------
(* The steps that add no row.                                                 *)

LEMMA RowsStay ==
  ASSUME RolloutInv, ValueInv, UNCHANGED <<setting, rows>>, \A t \in 1..Len(rows) : trace'[t] = trace[t]
  PROVE  (\A t \in 1..Len(rows) : FollowedBy(t) /\ rows[t].reward \in Payments)'
<1>1. continuing' = continuing /\ rows' = rows
  BY DEF setting
<1>2. ASSUME NEW t \in 1..Len(rows)
      PROVE  FollowedBy(t)' /\ rows'[t].reward \in Payments
  <2>1. FollowedBy(t) /\ rows[t].reward \in Payments /\ trace'[t] = trace[t]
    BY DEF ValueInv
  <2> QED BY <1>1, <2>1 DEF FollowedBy, Follows
<1> QED BY <1>1, <1>2 DEF Payments

\* What a step is of, besides ActFacts.
LEMMA ActValues ==
  ASSUME Types, Begun, Acts
  PROVE  /\ step'.value = Value(query.feature, query.history) /\ step'.reward \in {0, Reached}
         /\ trace' = Append(trace, Traced(step'))
         /\ Traced(step').played = Append(game.played, step'.action)
<1>1. PICK action \in Actions, place \in Places, turns \in Passing, outcome \in Outcomes :
         step' = Taken(action, place, turns, outcome) /\ trace' = Append(trace, Traced(step'))
  BY DEF Acts, Actions, Outcomes
<1>2. step'.value = Value(query.feature, query.history)
      /\ step'.reward = IF place # game.view.place THEN Reached ELSE 0
  BY <1>1 DEF Taken
<1> QED BY <1>1, <1>2 DEF Traced

LEMMA ActsValues == ASSUME RolloutInv, ValueInv, Acts PROVE ValueInv'
<1> DEFINE n == Len(rows)
           added == Traced(step')
<1>1. pc = "sampled" /\ pc' = "acted" /\ UNCHANGED <<setting, rows>>
  BY DEF Acts
<1>2. Begun /\ Types /\ query.feature = game.view
  BY <1>1 DEF RolloutInv, ReadyIsLive, WorkerIsLive
<1>3. ActFacts
  BY <1>2, ActsDoes
<1>4. /\ step'.value = Value(query.feature, query.history) /\ step'.reward \in {0, Reached}
      /\ trace' = Append(trace, added) /\ added.played = Append(game.played, step'.action)
  BY <1>2, ActValues
<1> HIDE DEF added
<1>5. trace \in Seq(Traces) /\ n \in Nat /\ Len(trace) = n
  BY <1>1, RowsAndSteps
<1>6. Len(trace') = n + 1 /\ trace'[n + 1] = added /\ \A t \in 1..n : trace'[t] = trace[t]
  BY <1>4, <1>5
<1>7. (\A t \in 1..Len(rows) : FollowedBy(t) /\ rows[t].reward \in Payments)'
  BY <1>1, <1>6, RowsStay
<1>8. InHand'
  <2>1. /\ step'.terminated = (step'.outcome # None) /\ added.outcome = step'.outcome
        /\ added.limit = step'.truncated /\ game'.played = Append(game.played, step'.action)
    BY <1>3, <1>5, <1>6 DEF ActFacts
  <2>2. trace'[Len(trace')] = added
    BY <1>6
  <2> QED BY <1>1, <1>4, <2>1, <2>2 DEF InHand
<1>9. GoesOn'
  <2> SUFFICES ASSUME rows # <<>>, ~ rows[n].done
               PROVE  (step.value = Follows(trace[Len(rows)]))'
    BY <1>1 DEF GoesOn
  <2>1. n \in 1..n
    BY <1>5, RowsAndSteps
  <2>2. trace[n].outcome = None
    BY <2>1, RowsAndSteps
  <2>3. trace[n].after = game.view /\ trace[n].played = game.played
        /\ query.history = EncodeHistory(game.played)
    BY <1>1 DEF ValueInv, GoesOn
  <2>4. step'.value = Follows(trace[n])
    BY <1>2, <1>4, <2>2, <2>3, FollowsOn
  <2>5. trace'[n] = trace[n] /\ continuing' = continuing
    BY <1>1, <1>6, <2>1 DEF setting
  <2>6. Follows(trace[Len(rows)])' = Follows(trace[n])
    BY <1>1, <2>5 DEF Follows
  <2> QED BY <2>4, <2>6
<1> QED BY <1>1, <1>7, <1>8, <1>9 DEF ValueInv

LEMMA ResetsValues == ASSUME RolloutInv, ValueInv, Resets PROVE ValueInv'
<1>1. Types
  BY DEF RolloutInv
<1>2. ResetFacts
  BY <1>1, ResetsDoes
<1>3. /\ pc \in {"ready", "resetting"} /\ worker.observation = None /\ game'.played = <<>>
      /\ UNCHANGED <<setting, step, rows, pc, trace>>
  BY <1>2 DEF ResetFacts
<1>4. (\A t \in 1..Len(rows) : FollowedBy(t) /\ rows[t].reward \in Payments)'
  BY <1>3, RowsStay
<1>5. InHand'
  BY <1>3 DEF ValueInv, InHand, UsesReset, setting
<1>6. GoesOn'
  BY <1>3 DEF ValueInv, GoesOn, Follows, setting
<1> QED BY <1>3, <1>4, <1>5, <1>6 DEF ValueInv

LEMMA SamplesValues == ASSUME RolloutInv, ValueInv, Samples PROVE ValueInv'
<1>1. /\ pc = "ready" /\ pc' = "sampled" /\ worker.observation # None
      /\ query'.history = EncodeHistory(worker.history)
      /\ UNCHANGED <<setting, worker, game, step, rows, trace>>
  BY DEF Samples
<1>2. worker.history = game.played
  BY <1>1 DEF RolloutInv, WorkerIsLive
<1>3. (\A t \in 1..Len(rows) : FollowedBy(t) /\ rows[t].reward \in Payments)'
  BY <1>1, RowsStay
<1>4. GoesOn'
  BY <1>1 DEF ValueInv, GoesOn
<1>5. query'.history = EncodeHistory(game'.played)
  BY <1>1, <1>2
<1> QED BY <1>1, <1>3, <1>4, <1>5 DEF ValueInv, InHand, EncodeHistory

LEMMA WantsValues == ASSUME RolloutInv, ValueInv, WantsReset PROVE ValueInv'
<1>1. /\ pc = "acted" /\ pc' = "resetting" /\ UsesReset
      /\ UNCHANGED <<setting, worker, game, step, rows, trace>>
  BY DEF WantsReset
<1>2. worker.observation = None
  <2>1. Done(step)
    BY <1>1 DEF UsesReset, Done
  <2> QED BY <1>1, <2>1 DEF RolloutInv, StepIsLive
<1>3. (\A t \in 1..Len(rows) : FollowedBy(t) /\ rows[t].reward \in Payments)'
  BY <1>1, RowsStay
<1>4. InHand'
  BY <1>1, <1>2 DEF ValueInv, InHand, UsesReset, setting
<1>5. GoesOn'
  BY <1>1 DEF ValueInv, GoesOn, Follows, setting
<1> QED BY <1>1, <1>3, <1>4, <1>5 DEF ValueInv

LEMMA NextChunkValues == ASSUME RolloutInv, ValueInv, NextChunk PROVE ValueInv'
<1>1. rows' = <<>> /\ pc' = "ready"
  BY DEF NextChunk
<1>2. Len(rows') = 0
  BY <1>1
<1> QED BY <1>1, <1>2 DEF ValueInv, InHand, GoesOn

LEMMA StutterValues == ASSUME ValueInv, UNCHANGED vars PROVE ValueInv'
<1>1. UNCHANGED <<setting, worker, game, step, rows, trace, pc, query, returns>>
  BY DEF vars
<1> USE <1>1 DEF setting
<1>2. InHand'
  BY DEF ValueInv, InHand, UsesReset
<1>3. GoesOn'
  BY DEF ValueInv, GoesOn, Follows
<1>4. ReturnsAreLambdaReturns' = ReturnsAreLambdaReturns
  BY DEF ReturnsAreLambdaReturns, Follows
<1>5. \A t : FollowedBy(t)' = FollowedBy(t)
  BY DEF FollowedBy, Follows
<1> QED BY <1>2, <1>3, <1>4, <1>5 DEF ValueInv, Payments

\* When a chunk is complete its returns are the lambda-returns of the games' own steps:
\* the values that the rows carry are those of what follows each step.
LEMMA FinishesValues ==
  ASSUME UnitsAreExact, RolloutInv, RecordInv, ValueInv, Finishes
  PROVE  ValueInv'
<1> DEFINE n == Len(rows)
           final == IF rows[n].done THEN 0 ELSE Value(query'.feature, query'.history)
           rewards == [i \in DOMAIN rows |-> rows[i].reward]
           after == [i \in DOMAIN rows |-> Follows(trace[i])]
           ends == [i \in DOMAIN rows |-> rows[i].done]
           advantages == GeneralizedAdvantage(rows, final, Discount, Lambda)
<1>1. /\ pc = "ending" /\ pc' = "collected"
      /\ UNCHANGED <<setting, worker, ready, game, step, rows, trace>>
      /\ ~ rows[n].done => query' = [feature |-> ready, history |-> EncodeHistory(worker.history),
                                     mask |-> worker.mask]
      /\ returns' = [t \in 1..n |-> advantages[t] + rows[t].value]
  BY DEF Finishes
<1>2. n = RolloutLength /\ n \in Nat \ {0}
  BY <1>1, RolloutAssumption DEF RecordInv, Phases
<1>3. /\ rows \in Seq(Rows) /\ trace \in Seq(Traces) /\ DOMAIN rows = 1..n /\ Len(trace) = n
      /\ \A t \in 1..n : rows[t] \in Rows /\ trace[t] \in Traces
                         /\ (rows[t].done <=> trace[t].outcome # None \/ trace[t].limit)
  <2>1. rows \in Seq(Rows) /\ trace \in Seq(Traces) /\ DOMAIN rows = 1..n /\ Len(trace) = n
        /\ \A t \in 1..n : rows[t] \in Rows
                           /\ (rows[t].done <=> trace[t].outcome # None \/ trace[t].limit)
    BY <1>1, RowsAndSteps
  <2> QED BY <2>1
<1>4. ~ rows[n].done => final = Follows(trace[n]) /\ final \in Values
  <2> SUFFICES ASSUME ~ rows[n].done PROVE final = Follows(trace[n]) /\ final \in Values
    OBVIOUS
  <2>1. n \in 1..n /\ rows # <<>>
    BY <1>2
  <2>2. worker.observation # None /\ trace[n].after = game.view /\ trace[n].played = game.played
    BY <1>1, <2>1 DEF ValueInv, GoesOn
  <2>3. ready # None /\ ready = worker.observation
    BY <1>1 DEF RolloutInv, ReadyIsLive
  <2>4. worker.observation = game.view /\ worker.history = game.played /\ Begun
    BY <2>2 DEF RolloutInv, WorkerIsLive
  <2>5. query'.feature = game.view /\ query'.history = EncodeHistory(game.played)
    BY <1>1, <2>3, <2>4
  <2>6. trace[n].outcome = None
    BY <1>3, <2>1
  <2>7. game.view \in Views /\ game.played \in Seq(Actions)
    BY <2>4 DEF RolloutInv, Types, Games
  <2>8. EncodeHistory(game.played) \in Histories
    BY <2>7, EncodedIsNewestFirst
  <2>9. Value(game.view, EncodeHistory(game.played)) \in Values
    BY <2>7, <2>8 DEF Values
  <2> QED BY <2>2, <2>5, <2>6, <2>9, FollowsOn
<1>5. final \in Values \union {0}
  BY <1>4
<1> HIDE DEF final
<1>6. ASSUME NEW t \in 1..n
      PROVE  NextValue(rows, final, t) = Follows(trace[t]) /\ Follows(trace[t]) \in Values \union {0}
  <2>1. rows[t] \in Rows /\ FollowedBy(t)
    BY <1>3 DEF ValueInv
  <2>2. CASE rows[t].done
    BY <2>1, <2>2 DEF NextValue, FollowedBy, Rows
  <2>3. CASE ~ rows[t].done /\ t = n
    BY <1>4, <2>3 DEF NextValue
  <2>4. CASE ~ rows[t].done /\ t # n
    <3>1. t < n /\ t + 1 \in 1..n
      BY <1>2, <2>4
    <3>2. rows[t + 1].value = Follows(trace[t]) /\ rows[t + 1] \in Rows
      BY <1>3, <2>1, <2>4, <3>1 DEF FollowedBy
    <3> QED BY <2>4, <3>2 DEF NextValue, Rows
  <2> QED BY <2>2, <2>3, <2>4
<1>7. PICK level : /\ Amounts(level, 2 * RolloutLength)
                   /\ Values \subseteq level[2 * RolloutLength]
                   /\ {DecisionCost, ShortCycleCost, OverflowCost, Reached}
                        \subseteq level[2 * RolloutLength]
  BY ExactAmounts
<1> DEFINE depth == 2 * n
<1>8. depth \in Nat /\ depth \in 0..depth /\ 2 * n <= depth /\ depth = 2 * RolloutLength
  BY <1>2
<1> HIDE DEF depth
<1>9. /\ Amounts(level, depth) /\ Chain(level, depth, Discount) /\ Values \subseteq level[depth]
      /\ {DecisionCost, ShortCycleCost, OverflowCost, Reached} \subseteq level[depth]
  BY <1>7, <1>8 DEF Amounts
<1>10. 0 \in level[depth] /\ level[depth] \subseteq Int
  BY <1>8, <1>9 DEF Chain
<1>11. Payments \subseteq level[depth]
  <2>1. \A x, y \in level[depth] : x - y \in level[depth]
    BY <1>8, <1>9 DEF Chain
  <2> SUFFICES ASSUME NEW g \in {0, Reached}, NEW c \in {0, ShortCycleCost}, NEW o \in {0, OverflowCost}
               PROVE  g - DecisionCost - c - o \in level[depth]
    BY DEF Payments
  <2>2. g \in level[depth] /\ c \in level[depth] /\ o \in level[depth] /\ DecisionCost \in level[depth]
    BY <1>9, <1>10
  <2>3. g - DecisionCost \in level[depth]
    BY <2>1, <2>2
  <2>4. (g - DecisionCost) - c \in level[depth]
    BY <2>1, <2>2, <2>3
  <2> QED BY <2>1, <2>2, <2>4
<1>12. Chunk(level, depth, n, rewards, after, ends)
  <2>1. \A t \in 1..n : rows[t].reward \in level[depth]
    BY <1>11 DEF ValueInv
  <2>2. Len(rewards) = n
    BY <1>2, <1>3
  <2>3. \A t \in 1..n : rewards[t] \in level[depth] /\ after[t] \in level[depth]
    BY <1>3, <1>6, <1>9, <1>10, <2>1
  <2> HIDE DEF rewards, after, ends
  <2> QED BY <1>2, <1>8, <1>9, <2>2, <2>3 DEF Chunk
<1>13. Amounted(rows, final)
  <2>1. \A t \in 1..n : rows[t].value \in Values /\ rows[t].bootstrap \in Values \union {0}
    BY <1>3 DEF Rows
  <2>2. \A t \in 1..n : rows[t].reward \in Int
    BY <1>10, <1>11 DEF ValueInv
  <2>3. Values \subseteq Int
    BY <1>9, <1>10
  <2>4. Values \union {0} \subseteq Int
    BY <2>3
  <2>5. final \in Int /\ \A t \in 1..n : rows[t].value \in Int /\ rows[t].bootstrap \in Int
    <3> DEFINE all == Values \union {0}
    <3>1. \A t \in 1..n : rows[t].value \in all /\ rows[t].bootstrap \in all
      BY <2>1
    <3>2. final \in all /\ all \subseteq Int
      BY <1>5, <2>4
    <3> HIDE DEF all
    <3> QED BY <3>1, <3>2
  <2> HIDE DEF rewards, after, ends
  <2> QED BY <1>2, <2>2, <2>5 DEF Amounted
<1>14. \A t \in 1..n : /\ rewards[t] = rows[t].reward /\ ends[t] = rows[t].done
                       /\ after[t] = NextValue(rows, final, t)
  BY <1>3, <1>6
<1> HIDE DEF rewards, after, ends
<1>15. \A t \in 1..n : advantages[t] + rows[t].value
                         = LambdaReturn(t, rewards, after, ends, Discount, Lambda)
  BY <1>12, <1>13, <1>14, ReturnsAgree
<1> HIDE DEF advantages
<1>16. \A t \in DOMAIN rows : returns'[t] = LambdaReturn(t, rewards, after, ends, Discount, Lambda)
  BY <1>1, <1>3, <1>15
<1>17. ReturnsAreLambdaReturns'
  <2>1. \A s : Follows(s)' = Follows(s')
    BY <1>1 DEF Follows, setting
  <2>2. /\ [i \in DOMAIN rows |-> rows[i].reward]' = rewards
        /\ [i \in DOMAIN rows |-> Follows(trace[i])]' = after
        /\ [i \in DOMAIN rows |-> rows[i].done]' = ends
    BY <1>1 DEF rewards, after, ends, Follows, setting
  <2> QED BY <1>1, <1>16, <2>2 DEF ReturnsAreLambdaReturns
<1>18. (\A t \in 1..Len(rows) : FollowedBy(t) /\ rows[t].reward \in Payments)'
  BY <1>1, RowsStay
<1>19. InHand' /\ GoesOn'
  BY <1>1 DEF InHand, GoesOn
<1> QED BY <1>1, <1>17, <1>18, <1>19 DEF ValueInv

LEMMA ValueNext ==
  ASSUME UnitsAreExact, RolloutInv, RecordInv, ValueInv, [Next]_vars
  PROVE  ValueInv'
<1> QED BY ResetsValues, SamplesValues, ActsValues, RecordsValues, LimitValues, WantsValues,
           ResetValues, FinishesValues, NextChunkValues, StutterValues DEF Next

\* For any games, model, costs, limits, factors and chunk lengths, in units in which no
\* division leaves a remainder: the rows of a chunk are the steps its games took, ends
\* included, what is reported is what the games paid, and the returns of a complete chunk
\* are the lambda-returns of those steps, whatever follows each of them, although games
\* end in it and others start.
THEOREM TrainingSound == ASSUME UnitsAreExact PROVE Spec => []TrainedOnItsGames
<1>1. RolloutInv /\ RecordInv /\ ValueInv /\ [Next]_vars => (RolloutInv /\ RecordInv /\ ValueInv)'
  BY RolloutNext, RecordNext, ValueNext
<1>2. RolloutInv /\ ValueInv => TrainedOnItsGames
  <2>1. RolloutInv => ReportedIsPaid /\ RowsAreTransitions
    BY DEF RolloutInv, RowsMatch, ReportedIsPaid, Accounts, WorkerIsLive
  <2>2. ValueInv => (pc = "collected" => ReturnsAreLambdaReturns)
    BY DEF ValueInv
  <2> QED BY <2>1, <2>2 DEF TrainedOnItsGames
<1> QED BY InitRolloutInv, InitRecordInv, InitValueInv, <1>1, <1>2, PTL DEF Spec
-------------------------------------------------------------------------------
(* The seed schedule: workers share a suite without playing a case twice before *)
(* it wraps.                                                                   *)

Indices == 0..(WorkerCount - 1)

\* A later episode of any worker comes after every worker's earlier one.
LEMMA EpisodesAreBlocks ==
  ASSUME NEW v \in Indices, NEW w \in Indices, NEW d \in Nat, NEW e \in Nat, d < e
  PROVE  Position(v, d) < Position(w, e)
<1> DEFINE W == WorkerCount
<1>1. W \in Nat /\ v \in Nat /\ w \in Nat /\ v < W
  BY ScheduleAssumption DEF Indices
<1>2. \E k \in Nat : e = d + 1 + k
  <2>1. e - d - 1 \in Nat /\ e = d + 1 + (e - d - 1)
    OBVIOUS
  <2> QED
    BY <2>1
<1>3. PICK k \in Nat : e = d + 1 + k
  BY <1>2
<1> HIDE DEF W
<1>4. e * W = d * W + W + k * W /\ k * W \in Nat /\ d * W \in Nat
  BY <1>1, <1>3
<1>5. v + d * W < w + e * W
  BY <1>1, <1>4
<1> QED
  BY <1>5 DEF Position, W

\* No two episodes have one position.
LEMMA PositionsDiffer ==
  ASSUME NEW v \in Indices, NEW w \in Indices, NEW d \in Nat, NEW e \in Nat,
         Position(v, d) = Position(w, e)
  PROVE  v = w /\ d = e
<1>1. Position(v, d) \in Int /\ v \in Int /\ w \in Int
  BY ScheduleAssumption DEF Position, Indices
<1>2. ~ (d < e) /\ ~ (e < d)
  BY <1>1, EpisodesAreBlocks
<1>3. d = e
  BY <1>2
<1>4. v + d * WorkerCount = w + d * WorkerCount /\ d * WorkerCount \in Int
  BY <1>3, ScheduleAssumption DEF Position
<1> QED
  BY <1>1, <1>3, <1>4

\* "Allocate disjoint worker blocks before wrapping a fixed seed suite": whatever
\* the paces of the workers, two episodes before the suite wraps have two cases.
THEOREM CasesDisjoint ==
  ASSUME NEW v \in Indices, NEW w \in Indices, NEW d \in Nat, NEW e \in Nat,
         Position(v, d) < CaseCount, Position(w, e) < CaseCount,
         v # w \/ d # e
  PROVE  CaseIndex(v, d) # CaseIndex(w, e)
<1>1. \A x \in Nat : x < CaseCount => x % CaseCount = x
  BY ScheduleAssumption
<1>2. Position(v, d) \in Nat /\ Position(w, e) \in Nat
  <2>1. d * WorkerCount \in Nat /\ e * WorkerCount \in Nat /\ v \in Nat /\ w \in Nat
    BY ScheduleAssumption DEF Indices
  <2> QED
    BY <2>1 DEF Position
<1>3. CaseIndex(v, d) = Position(v, d) /\ CaseIndex(w, e) = Position(w, e)
  BY <1>1, <1>2 DEF CaseIndex
<1> QED
  BY <1>3, PositionsDiffer
===============================================================================
