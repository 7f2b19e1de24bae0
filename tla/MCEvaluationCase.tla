---------------------------- MODULE MCEvaluationCase ----------------------------
(* A ring with a longer and a shorter way, a door before the stairs, and a    *)
(* cloud over lava before them with a way past it that a monster may stand on. *)
EXTENDS EvaluationCase

MCEntrance == <<0, 0>>
MCLair == <<2, 1>>
Level(rows) ==
  [p \in (0..Len(rows[1]) - 1) \X (0..Len(rows) - 1) |-> rows[p[2] + 1][p[1] + 1]]
MCLevels ==
  {Level(<<<<"floor", "floor", "floor">>, <<"floor", "wall", "floor">>, <<"floor", "floor", "stairs">>>>),
   Level(<<<<"floor", "floor", "door", "stairs">>, <<"floor", "floor", "wall", "floor">>>>),
   Level(<<<<"floor", "fumes", "stairs">>, <<"floor", "floor", "floor">>>>)}
MCDetailed == {<<1, 0>>}
===============================================================================
