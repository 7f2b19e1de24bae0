----------------------------- MODULE ScriptedPolicy -----------------------------
(* The policies that decide without weights: ScriptedMibePolicy, the teacher,  *)
(* with its breadth-first search, and the search the features of a learned     *)
(* policy are computed with.  Points are <<x, y>>, cells a function of the     *)
(* point; a monster is its name.                                               *)
EXTENDS Integers, FiniteSets, SequencesExt

CONSTANT Nil  \* no value

ASSUME NilAssumption == Nil \notin Int \union (Int \X Int)

Command(kind) == [kind |-> kind, key |-> Nil]
MenuSelect(key) == [kind |-> "menu_select", key |-> key]

\* In the order of the catalog.
Moves == <<"move_n", "move_ne", "move_e", "move_se", "move_s", "move_sw", "move_w", "move_nw">>
_NEIGHBORS == <<<<0, -1>>, <<1, -1>>, <<1, 0>>, <<1, 1>>, <<0, 1>>, <<-1, 1>>, <<-1, 0>>, <<-1, -1>>>>
Commands == Moves \o <<"wait", "explore", "rest", "stairs_down", "stairs_up", "abilities">>

Adjacent(p) == [i \in 1..8 |-> <<p[1] + _NEIGHBORS[i][1], p[2] + _NEIGHBORS[i][2]>>]
Around(p) == ToSet(Adjacent(p))

MoveToward(origin, destination) ==
  Command(Moves[CHOOSE i \in 1..8 : Adjacent(origin)[i] = destination])

\* legal_actions: a menu's choices, or in the command mode the commands, stairs
\* only when the messages name them.
Legal(o) ==
  IF o.menu # Nil THEN {Command("cancel")} \union {MenuSelect(c.key) : c \in ToSet(o.menu.choices)}
  ELSE IF o.mode # 1 THEN {Command("cancel")}
  ELSE {Command(k) : k \in ToSet(Commands) \ {"stairs_down", "stairs_up"}}
         \union (IF "staircase" \in o.messages THEN {Command("stairs_down")} ELSE {})
-------------------------------------------------------------------------------
(* _shortest_step.                                                            *)

\* The neighbours of a point that are among those wanted, in their order.
Fresh(at, wanted) ==
  LET adjacent == Adjacent(at)
      fresh[i \in Nat] ==
        IF i = 0 THEN <<>>
        ELSE LET s == fresh[i - 1] IN
             IF adjacent[i] \in wanted THEN Append(s, adjacent[i]) ELSE s IN
  fresh[8]

\* The points that entered the queue from this one.
From(from, at, new) ==
  [p \in DOMAIN from \union ToSet(new) |-> IF p \in DOMAIN from THEN from[p] ELSE at]

\* Faulty variant: the newest point of the queue is expanded first.
ExpandedDepthFirst(s, open) ==
  LET at == Head(s.queue)
      new == Fresh(at, open \ DOMAIN s.from) IN
  [queue |-> new \o Tail(s.queue), from |-> From(s.from, at, new)]

\* One point leaves the queue and its neighbours enter it, in their order.
Expanded(s, open) ==
  LET at == Head(s.queue)
      new == Fresh(at, open \ DOMAIN s.from) IN
  [queue |-> Tail(s.queue) \o new, from |-> From(s.from, at, new)]

\* The search stops at a goal that is not the start, or with an empty queue.
Stopped(s, start, goals) ==
  s.queue = <<>> \/ (Head(s.queue) # start /\ Head(s.queue) \in goals)

Searched(start, goals, open) ==
  LET search[n \in Nat] ==
        IF n = 0 THEN [queue |-> <<start>>, from |-> [p \in {start} |-> Nil]]
        ELSE LET s == search[n - 1] IN
             IF Stopped(s, start, goals) THEN s ELSE Expanded(s, open) IN
  search[Cardinality(open) + 1]

\* Back from a point to the first one after the start.
Back(from, start, point) ==
  LET back[n \in Nat] ==
        IF n = 0 THEN point
        ELSE LET p == back[n - 1] IN IF from[p] = start THEN p ELSE from[p] IN
  back[Cardinality(DOMAIN from)]

\* The first step of the way found, or Nil.
ShortestStep(start, goals, open) ==
  LET s == Searched(start, goals, open) IN
  IF goals = {} \/ s.queue = <<>> THEN Nil ELSE Back(s.from, start, Head(s.queue))
-------------------------------------------------------------------------------
(* ScriptedMibePolicy.                                                        *)

_IMPASSABLE_GLYPHS == {" ", "#"}
Walkable(cell) == cell.g # Nil /\ cell.g \notin _IMPASSABLE_GLYPHS /\ cell.mf \in {Nil, 1}

_IGNORED_STATIONARY_MONSTERS == {"plant"}
Monsters(o) ==
  {p \in DOMAIN o.cells : o.cells[p].mon \notin {Nil} \union _IGNORED_STATIONARY_MONSTERS}

\* Faulty variant: stairs are known by their feature, also under the player.
DownstairsByFeature(o) == {p \in DOMAIN o.cells : o.cells[p].mf = 12}

Downstairs(o) == {p \in DOMAIN o.cells : o.cells[p].g = ">"}

\* The cooldown's light, "-Berserk", says berserk too.
Berserk(o) == {"Berserk", "-Berserk"} \intersect o.status # {}
Exhausted(o) == "Exh" \in o.status
Hurt(o) == o.hp < o.hp_max

WorthBerserk(o) ==
  \/ Cardinality(Monsters(o)) >= 2
  \/ o.depth >= 3
  \/ o.hp * 4 <= o.hp_max * 3

\* sorted(...)[0].
Least(S) == CHOOSE p \in S : \A q \in S : p[1] < q[1] \/ (p[1] = q[1] /\ p[2] <= q[2])

Open(o, targets) == {p \in DOMAIN o.cells : p \in targets \/ Walkable(o.cells[p])}
StepToMonster(o) ==
  ShortestStep(o.at, UNION {Around(p) : p \in Monsters(o)}, Open(o, Monsters(o)))
StepToStairs(o) == ShortestStep(o.at, Downstairs(o), Open(o, Downstairs(o)))

DecideInMenu(menu) ==
  LET Of(text) == {i \in DOMAIN menu.choices : menu.choices[i].text = text}
      berserk == {i \in Of("berserk") : menu.choices[i].applicable}
      picked == IF menu.type = "ability" /\ berserk # {} THEN berserk
                ELSE IF Of("strength") # {} THEN Of("strength")
                ELSE IF menu.type = "more" THEN DOMAIN menu.choices
                ELSE IF menu.type = "prompt" THEN Of("no")
                ELSE {} IN
  IF picked = {} THEN Command("cancel") ELSE MenuSelect(menu.choices[Min(picked)].key)

\* Faulty variant: an idle Berserk is not waited out.
DecideIdling(o) ==
  LET near == Monsters(o) \intersect Around(o.at) IN
  IF near # {} THEN IF WorthBerserk(o) /\ ~Berserk(o) /\ ~Exhausted(o)
                      THEN Command("abilities") ELSE MoveToward(o.at, Least(near))
  ELSE IF "lethal" \in o.messages THEN Command("wait")
  ELSE IF Monsters(o) = {} /\ Hurt(o) THEN Command("rest")
  ELSE IF StepToMonster(o) # Nil THEN MoveToward(o.at, StepToMonster(o))
  ELSE IF "staircase" \in o.messages THEN Command("stairs_down")
  ELSE IF "nearby" \in o.messages THEN Command("wait")
  ELSE IF o.at \in Downstairs(o) THEN Command("stairs_down")
  ELSE IF StepToStairs(o) # Nil THEN MoveToward(o.at, StepToStairs(o))
  ELSE Command("explore")

DecideCommand(o) ==
  LET near == Monsters(o) \intersect Around(o.at) IN
  IF near # {} THEN IF WorthBerserk(o) /\ ~Berserk(o) /\ ~Exhausted(o)
                      THEN Command("abilities") ELSE MoveToward(o.at, Least(near))
  ELSE IF Berserk(o) /\ Monsters(o) = {} THEN Command("wait")
  ELSE IF "lethal" \in o.messages THEN Command("wait")
  ELSE IF Monsters(o) = {} /\ Hurt(o) THEN Command("rest")
  ELSE IF StepToMonster(o) # Nil THEN MoveToward(o.at, StepToMonster(o))
  ELSE IF "staircase" \in o.messages THEN Command("stairs_down")
  ELSE IF "nearby" \in o.messages THEN Command("wait")
  ELSE IF o.at \in Downstairs(o) THEN Command("stairs_down")
  ELSE IF StepToStairs(o) # Nil THEN MoveToward(o.at, StepToStairs(o))
  ELSE Command("explore")

Decide(o) == IF o.menu # Nil THEN DecideInMenu(o.menu) ELSE DecideCommand(o)

\* Faulty variant: what was decided is played although it is not offered.
SelectUnmasked(o) == Decide(o)

\* What is not legal falls back to cancel, then to the first action of the mask.
Select(o) ==
  IF Decide(o) \in Legal(o) THEN Decide(o)
  ELSE IF Command("cancel") \in Legal(o) THEN Command("cancel")
  ELSE Command(Head(SelectSeq(Commands, LAMBDA k : Command(k) \in Legal(o))))
-------------------------------------------------------------------------------
(* encode_observation: the step to the stairs a learned policy is shown.      *)

_WALL_GLYPHS == {" ", "#"}
\* navigation_terrain_hint: walls, mapped walls, and lava to who does not fly.
Blocked(o) ==
  {p \in DOMAIN o.cells : o.cells[p].mf \in {2, 4} \/ (o.cells[p].mf = 17 /\ "Fly" \notin o.status)}

ShownOpen(o, terrain_aware) ==
  {p \in DOMAIN o.cells : p \in Downstairs(o) \/ o.cells[p].g \notin {Nil} \union _WALL_GLYPHS}
    \ (IF terrain_aware THEN Blocked(o) ELSE {})

ShownStep(o, terrain_aware) == ShortestStep(o.at, Downstairs(o), ShownOpen(o, terrain_aware))
===============================================================================
