--------------------------- MODULE MCWorkerRollout ---------------------------
EXTENDS WorkerRollout

MCUnit == 64
\* Different for every place, turn and latest action.
MCValue(view, history) ==
  MCUnit * (view.place + 3 * view.turn + (IF history[1] = None THEN 0 ELSE IF history[1] = "ui" THEN 20 ELSE 40))
MCHalf == <<1, 2>>
MCPassing == {0, 1}
MCDecisionCost == MCUnit
MCShortCycleCost == 2 * MCUnit
MCOverflowCost == 4 * MCUnit
MCReached == 8 * MCUnit
===============================================================================
