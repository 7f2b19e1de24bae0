-------------------------------- MODULE Episode --------------------------------
(* One recorded episode: the game's messages, DcssEnv with its reducer and     *)
(* rewards, the trajectory that is written, its readers, and the evaluation's  *)
(* discovery tracker.  A reader folds a file record by record, so each reader  *)
(* takes a record here as soon as it is written.                               *)
EXTENDS Trajectory, FiniteSets

CONSTANTS Levels,       \* <<place, depth>>
          Start,        \* the level a game begins on
          Coordinates,  \* <<x, y>>
          Slots,        \* inventory slots
          MaxXl,        \* bound: experience level
          MaxDrawn,     \* bound: cells that change in one map message
          MaxMessages,  \* bound: messages after the first ones
          MaxSteps      \* max_steps

\* The floors of a branch are counted from 1; depth 0 is a branch of one floor.
\* A game begins on a floor that is counted, and the map of a floor is finite.
ASSUME EpisodeAssumption ==
  /\ Levels \subseteq STRING \X Nat /\ \A l \in Levels : l[2] = 0 => <<l[1], 1>> \notin Levels
  /\ Start \in Levels /\ Start[2] # 0
  /\ Coordinates \subseteq Int \X Int /\ IsFiniteSet(Coordinates)
  /\ MaxXl \in Nat /\ MaxDrawn \in Nat /\ MaxMessages \in Nat /\ MaxSteps \in Nat \ {0}

VARIABLES game,      \* what DCSS shows its player
          sent,      \* messages so far
          messages,  \* the texts of the current batch
          outcome,   \* what the first terminal message of the batch says
          reducer,   \* DcssEnv.reducer
          phase,     \* where the loop of the policy is
          current,   \* DcssEnv.current, also RecordingEnv._observation
          action,    \* the action being played
          steps, maxima, total,   \* DcssEnv.steps, _max_depth and _max_xl, the rewards so far
          detached,  \* what apply_observation_delta has reconstructed
          transient, \* the state of the reader that replays in place
          sample,    \* the pair of observation and action it takes from the latest record
          discovery, \* _DiscoveryTracker
          past       \* where the episode began, and the cells shown

environment == <<current, steps, maxima, total>>
readers == <<detached, transient, sample>>
vars == <<game, sent, messages, outcome, reducer, phase, action, environment, readers,
          discovery, past>>

Init ==
  /\ game = [level |-> Start, maps |-> [l \in Levels |-> Nothing], xl |-> 1, hp |-> 1,
             inv |-> [s \in Slots |-> 0], mode |-> 0, last |-> None, over |-> FALSE]
  /\ sent = 0 /\ messages = {} /\ outcome = None
  /\ reducer = NewReducer
  /\ phase = "starting"
  /\ action = None
  /\ current = None /\ steps = 0 /\ total = 0
  /\ maxima = [depth |-> 0, xl |-> 1]
  /\ detached = None /\ transient = None /\ sample = None
  /\ discovery = [cells |-> {}, levels |-> {}, score |-> 0]
  /\ past = [start |-> <<Start, 1>>, shown |-> [l \in Levels |-> {}]]
-------------------------------------------------------------------------------
(* The game: each message as it is sent, and what the client makes of it.      *)
(* Not in the repository: taken from what the reducer reads and from           *)
(* tests/test_observation.py.                                                  *)

Receiving == phase = "stepping" /\ sent < MaxMessages /\ game.hp > 0 /\ ~ game.over

Unread == UNCHANGED <<phase, action, environment, readers, discovery, past>>
Sends == sent' = sent + 1 /\ Unread
Quiet == UNCHANGED <<messages, outcome>>

\* The first terminal message of the batch counts.
Outcome(terminal) == IF outcome = None THEN terminal ELSE outcome

Monsters == [name : {"rat"}, threat : {0, 1}]
Cells == [g : {"."}, mon : {None} \union Monsters]

\* What is sent of a monster is no null.
ASSUME MonsterAssumption == \A m \in Monsters : \A S \in SUBSET DOMAIN m : Restricted(m, S) # None

ByRow(a, b) == a[2] < b[2] \/ (a[2] = b[2] /\ a[1] < b[1])

RowOrder(S) ==
  CHOOSE ats \in [1..Cardinality(S) -> S] :
    \A i, j \in 1..Cardinality(S) : i < j => ByRow(ats[i], ats[j])

\* The fields of a cell that changed, and of a monster that stays those of its own.
Changes(old, new) ==
  [f \in {f \in {"g", "mon"} : old[f] # new[f]} |->
     IF f = "mon" /\ old.mon # None /\ new.mon # None
       THEN Restricted(new.mon, {k \in DOMAIN new.mon : old.mon[k] # new.mon[k]})
       ELSE new[f]]

\* Cells in row order, each without coordinates when it follows the one before it,
\* and only with what changed.
Encoded(known, new) ==
  LET ats == RowOrder(DOMAIN new)
      Previous(i) == IF i = 1 THEN game.last ELSE ats[i - 1]
      Follows(i) == Previous(i) # None /\ ats[i] = <<Previous(i)[1] + 1, Previous(i)[2]>>
      Old(at) == IF at \in DOMAIN known THEN known[at] ELSE FromProtocol(Nothing) IN
  [i \in 1..Len(ats) |->
     [x |-> IF Follows(i) THEN None ELSE ats[i][1], y |-> IF Follows(i) THEN None ELSE ats[i][2],
      fields |-> Changes(Old(ats[i]), new[ats[i]])]]

LastOf(new) == IF new = Nothing THEN game.last ELSE Last(RowOrder(DOMAIN new))

PlaceOf(level) == [place |-> level[1], depth |-> level[2]]
PlayerOf(level, xl, hp, inv) ==
  [place |-> level[1], depth |-> level[2], xl |-> xl, hp |-> hp, inv |-> inv]

\* The first messages of a game show every field of the player, and no monster.
Joins ==
  /\ phase = "starting"
  /\ \E at \in Coordinates, cell \in {c \in Cells : c.mon = None} : LET new == Only(at, cell) IN
       /\ game' = [game EXCEPT !.maps[Start] = new, !.last = LastOf(new), !.mode = 1]
       /\ LET player == ReadsPlayer(reducer, PlayerOf(Start, 1, 1, game.inv))
              map == ReadsMap(player, [clear |-> TRUE, cells |-> Encoded(Nothing, new)]) IN
         reducer' = ReadsMode(map, 1)
  /\ phase' = "resetting"
  /\ UNCHANGED <<sent, messages, outcome, action, environment, readers, discovery, past>>

Draws ==
  /\ Receiving
  /\ \E S \in {T \in SUBSET Coordinates \ {{}} : Cardinality(T) <= MaxDrawn} : \E new \in [S -> Cells] :
       LET known == game.maps[game.level] IN
         /\ \A at \in S : at \in DOMAIN known => known[at] # new[at]
         /\ game' = [game EXCEPT !.maps[game.level] = Updated(@, new), !.last = LastOf(new)]
         /\ reducer' = ReadsMap(reducer, [clear |-> FALSE, cells |-> Encoded(known, new)])
  /\ Sends /\ Quiet

\* A change of level shows what is remembered of it on an empty map.
Moves ==
  /\ Receiving
  /\ \E level \in Levels \ {game.level} :
       LET new == game.maps[level] IN
         /\ game' = [game EXCEPT !.level = level, !.last = LastOf(new)]
         /\ reducer' = ReadsMap(ReadsPlayer(reducer, PlaceOf(level)),
                                [clear |-> TRUE, cells |-> Encoded(Nothing, new)])
  /\ Sends /\ Quiet

Advances ==
  /\ Receiving /\ game.xl < MaxXl
  /\ game' = [game EXCEPT !.xl = @ + 1]
  /\ reducer' = ReadsPlayer(reducer, [xl |-> game.xl + 1])
  /\ Sends /\ Quiet

\* A slot that is used up is sent with quantity 0.
Carries ==
  /\ Receiving
  /\ \E s \in Slots :
       /\ game' = [game EXCEPT !.inv[s] = 1 - @]
       /\ reducer' = ReadsPlayer(reducer, [inv |-> Only(s, 1 - game.inv[s])])
  /\ Sends /\ Quiet

Says ==
  /\ Receiving
  /\ \E text \in {"staircase", "question"} : messages' = messages \union {text}
  /\ Sends /\ UNCHANGED <<game, reducer, outcome>>

Layers ==
  /\ Receiving
  /\ \E menu \in {None, [type |-> "ability", choices |-> {"a", "X"}]} :
       reducer.menu # menu /\ reducer' = ReadsMenu(reducer, menu)
  /\ Sends /\ Quiet /\ UNCHANGED game

Modes ==
  /\ Receiving
  /\ \E mode \in {0, 1, 5, 7} \ {game.mode} :
       game' = [game EXCEPT !.mode = mode] /\ reducer' = ReadsMode(reducer, mode)
  /\ Sends /\ Quiet

\* Faulty variant: a milestone is not looked at.
DiesUnseen ==
  /\ Receiving
  /\ game' = [game EXCEPT !.hp = 0]
  /\ \/ reducer' = ReadsPlayer(reducer, [hp |-> 0]) /\ outcome' = Outcome("dead") /\ UNCHANGED messages
     \/ messages' = messages \union {"you die"} /\ outcome' = Outcome("dead") /\ UNCHANGED reducer
     \/ UNCHANGED <<messages, reducer, outcome>>
  /\ Sends

\* Death is shown by a player message, a text or a milestone.
Dies ==
  /\ Receiving
  /\ game' = [game EXCEPT !.hp = 0]
  /\ \/ reducer' = ReadsPlayer(reducer, [hp |-> 0]) /\ UNCHANGED messages
     \/ messages' = messages \union {"you die"} /\ UNCHANGED reducer
     \/ UNCHANGED <<messages, reducer>>
  /\ outcome' = Outcome("dead")
  /\ Sends

\* An exit_reason; an unknown one ends nothing.
Exits ==
  /\ phase = "stepping" /\ sent < MaxMessages /\ ~ game.over
  /\ \/ game' = [game EXCEPT !.over = TRUE]
        /\ outcome' = Outcome(IF game.hp > 0 THEN "won" ELSE "dead")
     \/ UNCHANGED <<game, outcome>>
  /\ Sends /\ UNCHANGED <<reducer, messages>>
-------------------------------------------------------------------------------
(* reset_typed and step_typed, with RecordingEnv.                             *)

Larger(a, b) == IF a > b THEN a ELSE b

\* Faulty variant: the latest values instead of the largest.
MaximaLatest(m, player) ==
  [depth |-> IF "depth" \in DOMAIN player THEN player["depth"] ELSE m.depth,
   xl |-> IF "xl" \in DOMAIN player THEN player["xl"] ELSE m.xl]

Maxima(m, player) ==
  [depth |-> IF "depth" \in DOMAIN player THEN Larger(m.depth, player["depth"]) ELSE m.depth,
   xl |-> IF "xl" \in DOMAIN player THEN Larger(m.xl, player["xl"]) ELSE m.xl]

SparseReward(old, new, result) ==
  3 * (new.depth - old.depth) + 10 * (new.xl - old.xl) + (IF result = "won" THEN 1000 ELSE 0)

\* max_steps.
Truncated(n) == n >= MaxSteps

\* Faulty variant: cells are told apart by depth only.
ObservedByDepth(d, o) ==
  LET depth == IF "depth" \in DOMAIN o.player THEN Larger(o.player["depth"], 1) ELSE 1
      new == {<<depth, at>> : at \in DOMAIN o.cells} \ d.cells IN
  [cells |-> d.cells \union new,
   levels |-> d.levels \union {<<o.player["place"], depth>>},
   score |-> d.score + depth * Cardinality(new)]

\* _DiscoveryTracker.observe.
Observed(d, o) ==
  LET depth == IF "depth" \in DOMAIN o.player THEN Larger(o.player["depth"], 1) ELSE 1
      place == IF "place" \in DOMAIN o.player THEN o.player["place"] ELSE "Dungeon"
      level == <<place, depth>>
      new == {<<level, at>> : at \in DOMAIN o.cells} \ d.cells IN
  [cells |-> d.cells \union new, levels |-> d.levels \union {level},
   score |-> d.score + depth * Cardinality(new)]

\* An input boundary: the reducer emits its snapshot, and the batch is done with.
Boundary(next) ==
  /\ reducer' = Emitted(reducer)
  /\ messages' = {} /\ outcome' = None
  /\ phase' = next
  /\ current' = Snapshot(reducer, messages)
  /\ discovery' = Observed(discovery, Snapshot(reducer, messages))
  /\ UNCHANGED <<game, sent>>

Shown == [past.shown EXCEPT ![game.level] = @ \union DOMAIN game.maps[game.level]]

Reset ==
  /\ phase = "resetting"
  /\ Boundary("deciding")
  /\ steps' = 0 /\ total' = 0
  /\ maxima' = Maxima([depth |-> 0, xl |-> 1], Snapshot(reducer, messages).player)
  \* the header of the file, as every reader takes it
  /\ detached' = Snapshot(reducer, messages) /\ transient' = Snapshot(reducer, messages)
  /\ past' = [past EXCEPT !.start = <<game.level, game.xl>>, !.shown = Shown]
  /\ UNCHANGED <<action, sample>>

Decides ==
  /\ phase = "deciding"
  /\ \E a \in Legal(current) : action' = a
  /\ phase' = "stepping"
  /\ sample' = None
  /\ UNCHANGED <<game, sent, messages, outcome, reducer, environment, detached, transient,
                 discovery, past>>

\* Faulty variant: the record is applied before the observation is encoded.
ReadsAfter(delta) ==
  /\ detached' = ApplyDelta(detached, delta)
  /\ transient' = TransientApply(transient, delta)
  /\ sample' = [observation |-> TransientApply(transient, delta), action |-> action]

\* replay_frames and load_imitation_episode, and load_imitation_replay_episode,
\* which encodes its observation before its state changes under it.
ReadsRecord(delta) ==
  /\ detached' = ApplyDelta(detached, delta)
  /\ transient' = TransientApply(transient, delta)
  /\ sample' = [observation |-> transient, action |-> action]

Steps ==
  /\ phase = "stepping"
  /\ LET new == Snapshot(reducer, messages)
         largest == Maxima(maxima, new.player) IN
       /\ Boundary(IF outcome # None \/ Truncated(steps + 1) THEN "ended" ELSE "deciding")
       /\ steps' = steps + 1
       /\ maxima' = largest
       /\ total' = total + SparseReward(maxima, largest, outcome)
       /\ ReadsRecord(ObservationDelta(current, new))
  /\ action' = None
  /\ past' = [past EXCEPT !.shown = Shown]

Game == Joins \/ Draws \/ Moves \/ Advances \/ Carries \/ Says \/ Layers \/ Modes \/ Dies \/ Exits
Next == Game \/ Reset \/ Decides \/ Steps

Spec == Init /\ [][Next]_vars
-------------------------------------------------------------------------------
(* Properties.                                                                *)

Shows(o) ==
  /\ o.cells = game.maps[game.level]
  /\ o.player = PlayerOf(game.level, game.xl, game.hp,
                         Restricted(game.inv, {s \in Slots : game.inv[s] > 0}))
  /\ o.input_mode = game.mode

\* Whatever order sparse updates, cells without coordinates and cleared maps came
\* in, the policy decides on what the game shows.
ViewIsGames == phase = "deciding" => Shows(current)

\* "Applying each patch reconstructs the policy-facing snapshots", for both ways
\* of reading the file.
ReadersAgree == detached = current /\ transient = current

\* The reader that replays in place pairs each action with the observation it was
\* chosen on, in which it was legal.
SampleIsDecision ==
  [][sample' # None =>
       sample' = [observation |-> current, action |-> action] /\ action \in Legal(current)]_sample

Depths == {l[2] : l \in discovery.levels}

\* The sparse rewards add up to the milestones reached, whatever way the episode
\* went up and down: no level and no experience is paid twice, and none is lost.
RewardIsProgress ==
  phase \in {"deciding", "stepping"} =>
    total = 3 * (Max(Depths) - past.start[1][2]) + 10 * (current.player["xl"] - past.start[2])

\* "Already-seen cells ... add no credit": the score is the depth of every cell the
\* game has shown at a boundary (at least 1), once, on whatever levels and however often.
DiscoveryCountsOnce ==
  discovery.score =
    Cardinality(UNION {({l} \X past.shown[l]) \X (1..Larger(l[2], 1)) : l \in Levels})

\* "Player-visible death ends episode before post-game UI."
DeadNeverActs == phase = "deciding" => game.hp > 0 /\ ~ game.over
===============================================================================
