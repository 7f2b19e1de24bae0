----------------------------- MODULE EvaluationCase -----------------------------
(* One case of an evaluation from its start to its close: _start_episode and   *)
(* the close are GameLifecycle's; while a game is played, a policy decides key *)
(* by key and the game answers, until death or the step limit.  The policy     *)
(* runs inside the one state "playing" of the life cycle.                      *)
EXTENDS GameLifecycle, ScriptedPolicy

CONSTANTS Policies,    \* among "scripted", "curriculum" and "gated"
          Levels,      \* what a level may look like: a kind for every point
          Entrance,    \* where one arrives on a level
          Lair,        \* where a monster appears
          Troubles,    \* among "none", "poison", "zot" (resting asks) and "piety" (Berserk refused)
          MaxDepth,    \* bound: depth
          step_limit,
          Detailed     \* bound: the attempts whose game is played key by key

ASSUME CaseAssumption ==
  /\ Policies \subseteq {"scripted", "curriculum", "gated"}
  /\ Troubles \subseteq {"none", "poison", "zot", "piety"}
  /\ \A level \in Levels : /\ level \in [DOMAIN level -> {"floor", "wall", "door", "stairs", "fumes"}]
                            /\ DOMAIN level \subseteq Int \X Int /\ IsFiniteSet(DOMAIN level)
                            /\ {Entrance, Lair} \subseteq DOMAIN level
  /\ MaxDepth \in Nat \ {0} /\ step_limit \in Nat \ {0}
  /\ Detailed \subseteq Roots

VARIABLES policy,  \* who plays
          world,   \* the game's side
          steps,   \* DcssEnv.steps
          idle     \* history: what the teacher decided on since game time last passed

play == <<policy, world, steps, idle>>
allvars == <<vars, play>>

hp_max == 2
NoWorld == [hp |-> 0]

Entered(level, trouble, depth, hp, status) ==
  [level |-> level, trouble |-> trouble, depth |-> depth, at |-> Entrance, revealed |-> FALSE,
   foe |-> FALSE, hp |-> hp, status |-> status, messages |-> {}, menu |-> Nil, mode |-> 1,
   asked |-> FALSE, passed |-> TRUE]
-------------------------------------------------------------------------------
(* The game.  Not in the repository: taken from what the policy reads and from *)
(* the stalls docs/experiments.md reports.                                     *)

Kind == [floor |-> [g |-> ".", mf |-> 1], wall |-> [g |-> "#", mf |-> 2],
         door |-> [g |-> "+", mf |-> 5], stairs |-> [g |-> ">", mf |-> 12],
         fumes |-> [g |-> "~", mf |-> 17]]  \* a cloud over lava

Passable(w, p) == p \in DOMAIN w.level /\ w.level[p] \notin {"wall", "fumes"}

Seen(w) == IF w.revealed THEN DOMAIN w.level
           ELSE {p \in DOMAIN w.level : p = w.at \/ p \in Around(w.at)}

View(w) ==
  [cells |-> [p \in Seen(w) |->
                [g |-> IF p = w.at THEN "@" ELSE IF w.foe /\ p = Lair THEN "r" ELSE Kind[w.level[p]].g,
                 mf |-> Kind[w.level[p]].mf,
                 mon |-> IF w.foe /\ p = Lair THEN "rat" ELSE Nil]],
   at |-> w.at, hp |-> w.hp, hp_max |-> hp_max, depth |-> w.depth, status |-> w.status,
   messages |-> w.messages, menu |-> w.menu, mode |-> w.mode]

More == [type |-> "more", choices |-> <<[key |-> " ", text |-> "other", applicable |-> TRUE]>>]
LevelUp == [type |-> "prompt", choices |-> <<[key |-> "I", text |-> "other", applicable |-> TRUE],
                                             [key |-> "S", text |-> "strength", applicable |-> TRUE]>>]
RestPrompt == [type |-> "prompt", choices |-> <<[key |-> "Y", text |-> "yes", applicable |-> TRUE],
                                                [key |-> "N", text |-> "no", applicable |-> TRUE]>>]
Abilities(applicable) ==
  [type |-> "ability", choices |-> <<[key |-> "a", text |-> "berserk", applicable |-> applicable]>>]
AbilityMenu(w) == Abilities(w.status = {} /\ w.trouble # "piety")

Menus == {More, LevelUp, RestPrompt} \union {Abilities(applicable) : applicable \in BOOLEAN}

ASSUME MenuAssumption == Nil \notin Menus /\ Nil \notin {"a", "rat"}

Passed(w, foe, hp, status, trouble, ask) ==
  [w EXCEPT !.foe = foe, !.hp = hp, !.status = status, !.trouble = trouble,
            !.menu = ask[1], !.mode = ask[2], !.asked = @ \/ ask # <<Nil, 1>>, !.passed = TRUE]

\* Time passes: a monster comes or hits, a status or the poison ends, and once in a
\* game something is asked.
After(w) ==
  {Passed(w, foe, hp, status, trouble, ask) :
     foe \in IF w.foe THEN {TRUE} ELSE {FALSE, Passable(w, Lair) /\ w.at # Lair},
     hp \in IF w.foe /\ w.at \in Around(Lair) THEN {w.hp, w.hp - 1} ELSE {w.hp},
     status \in IF w.status = {"Berserk"} THEN {{"Berserk"}, {"-Berserk"}}
                ELSE IF w.status = {"-Berserk"} THEN {{"-Berserk"}, {}} ELSE {w.status},
     trouble \in IF w.trouble = "poison" THEN {"poison", "none"} ELSE {w.trouble},
     ask \in {<<Nil, 1>>} \union (IF w.asked THEN {} ELSE {<<More, 5>>, <<LevelUp, 7>>, <<Nil, 7>>})}

Instead(w, messages, menu) ==
  {[w EXCEPT !.messages = messages, !.menu = menu, !.mode = IF menu = Nil THEN 1 ELSE 7,
             !.passed = FALSE]}

Quiet(w) == [w EXCEPT !.messages = {}]
Answered(w) == [w EXCEPT !.messages = {}, !.menu = Nil, !.mode = 1]

InMenu(w, a) ==
  IF a.kind = "menu_select" /\ a.key = "a" /\ w.menu.choices[1].applicable
    THEN After([Answered(w) EXCEPT !.status = {"Berserk"}]) \union After(Answered(w))
  ELSE IF a.kind = "menu_select" /\ a.key = "Y" THEN After([Answered(w) EXCEPT !.hp = hp_max])
  ELSE Instead(w, {}, IF a.key = "a" THEN w.menu ELSE Nil)

Steps(w, a) ==
  LET i == CHOOSE i \in 1..8 : Moves[i] = a.kind
      p == Adjacent(w.at)[i] IN
  IF w.foe /\ p = Lair THEN After(Quiet(w)) \union After([Quiet(w) EXCEPT !.foe = FALSE])
  ELSE IF Passable(w, p)
    THEN After([w EXCEPT !.at = p, !.messages = IF w.level[p] = "stairs" THEN {"staircase"} ELSE {}])
  ELSE Instead(w, {}, Nil)

\* The points within n steps of the goals, over open points.
Within(goals, open, n) ==
  LET ball[k \in Nat] ==
        IF k = 0 THEN {p \in open : p \in goals}
        ELSE LET near == ball[k - 1] IN {p \in open : p \in near \/ Around(p) \intersect near # {}} IN
  ball[n]

Rests(w) ==
  IF w.foe THEN Instead(w, {}, Nil)
  ELSE IF w.trouble = "poison" THEN Instead(w, {"lethal"}, Nil)
  ELSE IF w.trouble = "zot" THEN Instead(w, {}, RestPrompt)
  ELSE After([Quiet(w) EXCEPT !.hp = hp_max])

\* Autoexplore goes anywhere it can, opening doors; it refuses a raging player, a
\* monster stops it, and what is explored takes no time.
Explores(w) ==
  IF w.status = {"Berserk"} THEN Instead(w, {}, Nil)
  ELSE IF w.foe THEN Instead(w, {"nearby"}, Nil)
  ELSE IF w.revealed THEN Instead(w, {"done exploring"}, Nil)
  ELSE LET passable == {p \in DOMAIN w.level : Passable(w, p)} IN
       UNION {After([Quiet(w) EXCEPT !.revealed = TRUE, !.at = p]) :
                p \in {q \in Within({w.at}, passable, Cardinality(passable)) :
                         w.level[q] = "floor"}}

Descends(w) ==
  IF w.level[w.at] = "stairs" /\ w.depth < MaxDepth
    THEN {Entered(w.level, w.trouble, w.depth + 1, w.hp, w.status)}
    ELSE Instead(w, {}, Nil)

Answers(w, a) ==
  CASE w.menu # Nil             -> InMenu(w, a)
    [] w.menu = Nil /\ w.mode # 1 -> Instead(w, {}, Nil)
    [] OTHER ->
       CASE a.kind \in ToSet(Moves)  -> Steps(w, a)
         [] a.kind = "wait"          -> After(Quiet(w))
         [] a.kind = "rest"          -> Rests(w)
         [] a.kind = "explore"       -> Explores(w)
         [] a.kind = "stairs_down"   -> Descends(w)
         [] a.kind = "abilities"     -> Instead(w, {}, AbilityMenu(w))
-------------------------------------------------------------------------------
(* _run_episode.                                                              *)

\* Faulty variant: the ability menu is opened in a menu too.
ExposureUnmasked(o) == IF steps % 8 = 0 THEN Command("abilities") ELSE Select(o)

\* AbilityCurriculumPolicy: every eighth decision opens the ability menu.
Exposure(o) ==
  IF o.menu = Nil /\ steps % 8 = 0 /\ Command("abilities") \in Legal(o)
    THEN Command("abilities") ELSE Select(o)

\* ConfidenceGatedPolicy: any legal action when the model is confident, or the
\* fallback's.
Options(o) ==
  CASE policy = "scripted"   -> {Select(o)}
    [] policy = "curriculum" -> {Exposure(o)}
    [] policy = "gated"      -> Legal(o) \union {Select(o)}

Over == world.hp = 0 \/ steps >= step_limit

PlayedOut == IsWorker \/ Over \/ <<episode, attempt>> \notin Detailed

\* policy.select and env.step: the action is checked against what is legal.
Plays ==
  /\ pc = "playing" /\ ~PlayedOut /\ proc \in alive
  /\ \E o \in {View(world)} : \E a \in Options(o) \intersect Legal(o) : \E w \in Answers(world, a) :
       /\ world' = w
       /\ steps' = steps + 1
       /\ idle' = IF w.passed \/ policy # "scripted" THEN {} ELSE idle \union {o}
  /\ UNCHANGED <<vars, policy>>

CaseStarts ==
  /\ Start
  /\ IF pc' = "playing" /\ ~IsWorker
       THEN \E level \in Levels, trouble \in Troubles :
              world' = Entered(level, trouble, 1, hp_max, {})
       ELSE UNCHANGED world
  /\ UNCHANGED <<policy, steps, idle>>

\* A step may raise at any time; only a game that is played out gives a result.
CaseEnds ==
  /\ EpisodeEnds
  /\ pc' = "idle" => PlayedOut
  /\ world' = NoWorld /\ steps' = 0 /\ idle' = {}
  /\ UNCHANGED policy

CaseInit ==
  /\ Init
  /\ policy \in IF IsWorker THEN {"scripted"} ELSE Policies
  /\ world = NoWorld /\ steps = 0 /\ idle = {}

Elsewhere == BeginEpisode \/ StepRaises \/ Release \/ Dies

CaseNext == CaseStarts \/ Plays \/ CaseEnds \/ (Elsewhere /\ UNCHANGED play)

CaseSpec == CaseInit /\ [][CaseNext]_allvars
-------------------------------------------------------------------------------
(* Properties.                                                                *)

Playing == pc = "playing" /\ world # NoWorld /\ ~Over

\* A step found by a search, against the distances defined without it.
IsShortest(step, start, goals, open) ==
  IF step = Nil THEN Around(start) \intersect Within(goals, open, Cardinality(open)) = {}
  ELSE /\ step \in Around(start)
       /\ \E n \in 0..Cardinality(open) :
            /\ step \in Within(goals, open, n)
            /\ n > 0 => Around(start) \intersect Within(goals, open, n - 1) = {}

\* The searches made on an observation, and the step each finds.
Ways(o) ==
  LET near == UNION {Around(p) : p \in Monsters(o)} IN
  {[step |-> StepToStairs(o), goals |-> Downstairs(o), open |-> Open(o, Downstairs(o))]}
    \union {[step |-> ShownStep(o, aware), goals |-> Downstairs(o), open |-> ShownOpen(o, aware)] :
              aware \in BOOLEAN}
    \union (IF o.at \in near THEN {}
            ELSE {[step |-> StepToMonster(o), goals |-> near, open |-> Open(o, Monsters(o))]})

\* The teacher's steps to a monster and to the stairs, and the step a learner is
\* shown under either terrain rule, begin a shortest way over what each of them
\* takes to be open, and are missing only when there is none; a learner is shown a
\* way whenever the teacher takes one.
WaysAreShortest ==
  Playing /\ world.menu = Nil =>
    \A o \in {View(world)} :
      /\ \A way \in Ways(o) : IsShortest(way.step, o.at, way.goals, way.open)
      /\ StepToStairs(o) # Nil => \A aware \in BOOLEAN : ShownStep(o, aware) # Nil

\* What a policy chooses can be encoded for the screen it saw, and what the teacher
\* decides in the command mode or a menu is what it plays: select never replaces it
\* by the first action of the mask, a step north.
DecisionIsOffered ==
  Playing =>
    \A o \in {View(world)} :
      /\ Options(o) \subseteq Legal(o)
      /\ o.menu # Nil \/ o.mode = 1 => Decide(o) \in Legal(o)

\* The game says that nothing is left to explore, which the teacher does not read,
\* and it has no way to stairs: it stands on them after their message is gone, or
\* doors, items or lava are in the way.
NoWayOn(o) == "done exploring" \in o.messages /\ StepToStairs(o) = Nil

\* The refusals the teacher does not remember.
Refused(o) ==
  \/ world.trouble = "piety" /\ Monsters(o) \intersect Around(o.at) # {} /\ WorthBerserk(o)
  \/ world.trouble = "zot" /\ Hurt(o)

\* The loops docs/experiments.md reports (idle Berserk, poison, unseen
\* monsters, rejected abilities) are gone: the teacher decides twice on the same
\* observation, with no game time in between, only when Berserk or rest is refused
\* for a reason no status shows, or nothing on the level is left to do.
OnlyKnownStalls ==
  Playing /\ policy = "scripted" =>
    \A o \in {View(world)} \intersect idle : NoWayOn(o) \/ Refused(o)
===============================================================================
