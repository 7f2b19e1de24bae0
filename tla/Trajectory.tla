------------------------------ MODULE Trajectory ------------------------------
(* The patches of a trajectory: observation_delta, as the writer records it,   *)
(* and the two readers of it, on snapshots as ObservationReducer emits them.   *)
EXTENDS ObservationReducer

\* dict.get: null for a key that is not there.
Get(f, k) == IF k \in DOMAIN f THEN f[k] ELSE None

\* The fields of the player that previous.get tells apart: a new one that is null
\* is not among them.
ChangedFields(previous, current) ==
  Restricted(current, {k \in DOMAIN current : Get(previous, k) # current[k]})

\* The cells that are new or have changed: a cell is never null.
ChangedCells(previous, current) ==
  Restricted(current,
    {k \in DOMAIN current : k \notin DOMAIN previous \/ previous[k] # current[k]})

\* Faulty variant: cells that are no longer there are not recorded.
DeltaKeepingCells(previous, current) ==
  [player |-> ChangedFields(previous.player, current.player),
   removed_player_fields |-> DOMAIN previous.player \ DOMAIN current.player,
   cells |-> ChangedCells(previous.cells, current.cells),
   removed_cells |-> {},
   messages |-> current.messages,
   menu_changed |-> previous.menu # current.menu,
   menu |-> IF previous.menu # current.menu THEN current.menu ELSE None,
   input_mode_changed |-> previous.input_mode # current.input_mode,
   input_mode |-> IF previous.input_mode # current.input_mode THEN current.input_mode ELSE None]

ObservationDelta(previous, current) ==
  [player |-> ChangedFields(previous.player, current.player),
   removed_player_fields |-> DOMAIN previous.player \ DOMAIN current.player,
   cells |-> ChangedCells(previous.cells, current.cells),
   removed_cells |-> DOMAIN previous.cells \ DOMAIN current.cells,
   messages |-> current.messages,
   menu_changed |-> previous.menu # current.menu,
   menu |-> IF previous.menu # current.menu THEN current.menu ELSE None,
   input_mode_changed |-> previous.input_mode # current.input_mode,
   input_mode |-> IF previous.input_mode # current.input_mode THEN current.input_mode ELSE None]

\* A mapping without some of its entries.
Without(f, S) == Restricted(f, DOMAIN f \ S)

\* apply_observation_delta: a new snapshot.
ApplyDelta(previous, delta) ==
  [player |-> Updated(Without(previous.player, delta.removed_player_fields), delta.player),
   cells |-> Updated(Without(previous.cells, delta.removed_cells), delta.cells),
   messages |-> delta.messages,
   menu |-> IF delta.menu_changed THEN delta.menu ELSE previous.menu,
   input_mode |-> IF delta.input_mode_changed THEN delta.input_mode ELSE previous.input_mode]

\* _TransientObservation.apply: the one state is changed in place.
TransientApply(state, delta) ==
  LET player == [state EXCEPT !.player = Updated(Without(@, delta.removed_player_fields), delta.player)]
      cells == [player EXCEPT !.cells = Updated(Without(@, delta.removed_cells), delta.cells)]
      shown == [cells EXCEPT !.messages = delta.messages]
      layered == IF delta.menu_changed THEN [shown EXCEPT !.menu = delta.menu] ELSE shown IN
  IF delta.input_mode_changed THEN [layered EXCEPT !.input_mode = delta.input_mode] ELSE layered
===============================================================================
