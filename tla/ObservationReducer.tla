-------------------------- MODULE ObservationReducer --------------------------
(* ObservationReducer: sparse player and map messages are merged into raw      *)
(* state, cells are normalised when they change, and a snapshot is emitted at  *)
(* each input boundary.  Snapshots are ordered by row in the code; here the    *)
(* cells of a snapshot are a function of the coordinate.                       *)
EXTENDS Integers, Sequences, SequencesExt

CONSTANT None  \* no value, and JSON's null

ASSUME NoneAssumption == None \notin {"dead", "won"} /\ None \notin Int

Nothing == [k \in {} |-> None]

\* A mapping of one key.
Only(key, value) == [k \in {key} |-> value]

\* A mapping updated with another one.
Updated(known, delta) ==
  [k \in DOMAIN known \union DOMAIN delta |-> IF k \in DOMAIN delta THEN delta[k] ELSE known[k]]

\* No message yet: nothing known of the player, the map or the input mode.
NewReducer ==
  [player |-> Nothing,    \* _player
   cells |-> Nothing,     \* _cells
   semantic |-> Nothing,  \* _semantic_cell_cache
   ordered |-> None,      \* _ordered_semantic_cells
   cursor |-> None,       \* _map_x, _map_y
   menu |-> None,         \* _menu
   mode |-> None]         \* _input_mode
-------------------------------------------------------------------------------
(* apply, message by message.                                                 *)

\* _merge on the player: the inventory is merged slot by slot, other values are
\* replaced.
ReadsPlayer(r, delta) ==
  [r EXCEPT !.player =
     IF "inv" \in DOMAIN delta /\ "inv" \in DOMAIN @
       THEN Updated(@, [delta EXCEPT !["inv"] = Updated(r.player["inv"], @)])
       ELSE Updated(@, delta)]

\* _merge on a cell: what is sent of a monster is merged into the one that is known
\* there; null forgets it.
MergedCell(cell, fields) ==
  IF "mon" \in DOMAIN fields \cap DOMAIN cell /\ fields["mon"] # None /\ cell["mon"] # None
    THEN Updated(cell, [fields EXCEPT !["mon"] = Updated(cell["mon"], @)])
    ELSE Updated(cell, fields)

FromProtocol(cell) ==
  [f \in {"g", "mon"} |-> IF f \in DOMAIN cell THEN cell[f] ELSE None]

\* A cell without coordinates follows the one before it, in this message or an
\* earlier one; there is none before the first.
Coordinate(r, delta) ==
  <<IF delta.x # None THEN delta.x ELSE IF r.cursor # None THEN r.cursor[1] + 1 ELSE None,
    IF delta.y # None THEN delta.y ELSE IF r.cursor # None THEN r.cursor[2] ELSE None>>

\* Faulty variant: the ordered cells are kept when a known cell changes.
ReadsCellKeepingOrder(r, delta) ==
  LET at == Coordinate(r, delta)
      cell == MergedCell(IF at \in DOMAIN r.cells THEN r.cells[at] ELSE Nothing, delta.fields) IN
  IF at[1] = None \/ at[2] = None THEN r
  ELSE [r EXCEPT !.cursor = at,
                 !.cells = Updated(@, Only(at, cell)),
                 !.semantic = Updated(@, Only(at, FromProtocol(cell))),
                 !.ordered = IF at \in DOMAIN r.cells THEN @ ELSE None]

ReadsCell(r, delta) ==
  LET at == Coordinate(r, delta)
      cell == MergedCell(IF at \in DOMAIN r.cells THEN r.cells[at] ELSE Nothing, delta.fields) IN
  IF at[1] = None \/ at[2] = None THEN r
  ELSE [r EXCEPT !.cursor = at,
                 !.cells = Updated(@, Only(at, cell)),
                 !.semantic = Updated(@, Only(at, FromProtocol(cell))),
                 !.ordered = None]

\* A clear leaves the cursor where it is.
Cleared(r) == [r EXCEPT !.cells = Nothing, !.semantic = Nothing, !.ordered = None]

ReadsMap(r, map) ==
  LET read[i \in 0..Len(map.cells)] ==
        IF i = 0 THEN IF map.clear THEN Cleared(r) ELSE r
                 ELSE ReadsCell(read[i - 1], map.cells[i]) IN
  read[Len(map.cells)]

ReadsMode(r, mode) == [r EXCEPT !.mode = mode]

\* ui-push and menu, ui-pop and close_menu: one slot for any number of layers.
ReadsMenu(r, menu) == [r EXCEPT !.menu = menu]
-------------------------------------------------------------------------------
(* The snapshot.                                                              *)

Restricted(f, S) == [k \in S |-> f[k]]

\* Slots that are empty are not shown.
SemanticPlayer(r) ==
  [f \in DOMAIN r.player |->
     IF f = "inv" THEN Restricted(r.player[f], {s \in DOMAIN r.player[f] : r.player[f][s] > 0})
                  ELSE r.player[f]]

Ordered(r) == IF r.ordered = None THEN r.semantic ELSE r.ordered

\* Every cell of a snapshot is materialised anew.
Views(r) == Restricted(Ordered(r), DOMAIN Ordered(r))

\* A --more-- and a question with choices, read from the batch's messages, become
\* menus when there is none.
Menu(r, messages) ==
  IF r.menu # None THEN r.menu
  ELSE IF r.mode = 5 THEN [type |-> "more", choices |-> {" "}]
  ELSE IF r.mode = 7 /\ "question" \in messages THEN [type |-> "prompt", choices |-> {"y"}]
  ELSE None

Snapshot(r, messages) ==
  [player |-> SemanticPlayer(r), cells |-> Views(r), messages |-> messages,
   menu |-> Menu(r, messages), input_mode |-> r.mode]

Emitted(r) == [r EXCEPT !.ordered = Ordered(r)]

\* legal_actions: a menu's choices (menu_select, named by the key), or the commands
\* of the command mode.
Legal(o) ==
  IF o.menu # None THEN {"cancel"} \union o.menu.choices
  ELSE IF o.input_mode # 1 THEN {"cancel"}
  ELSE {"move", "abilities"} \union (IF "staircase" \in o.messages THEN {"stairs"} ELSE {})
===============================================================================
