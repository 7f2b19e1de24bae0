------------------------------ MODULE EpisodeProofs ------------------------------
(* Reading a trajectory gives back what was recorded, the policy decides on     *)
(* what the game shows, and what is paid and counted is what was reached.       *)
EXTENDS Episode, FiniteSetTheorems, NaturalsInduction, WellFoundedInduction, TLAPS

\* A mapping is what its domain and its values make it.
IsMapping(f) == f = [k \in DOMAIN f |-> f[k]]

\* An observation with these parts.
Parts(p, c, m, u, i) == [player |-> p, cells |-> c, messages |-> m, menu |-> u, input_mode |-> i]

\* What Snapshot emits.
IsSnapshot(o) ==
  /\ IsMapping(o.player) /\ IsMapping(o.cells)
  /\ o = Parts(o.player, o.cells, o.messages, o.menu, o.input_mode)

\* A restriction is a mapping.
LEMMA RestrictedMapping ==
  ASSUME NEW f, NEW S
  PROVE  IsMapping(Restricted(f, S)) /\ DOMAIN Restricted(f, S) = S
BY DEF IsMapping, Restricted

\* Whatever the reducer has read, it emits a snapshot.
LEMMA SnapshotShape ==
  ASSUME NEW r, NEW texts
  PROVE  IsSnapshot(Snapshot(r, texts))
BY RestrictedMapping DEF IsSnapshot, Parts, IsMapping, Snapshot, SemanticPlayer, Views, Restricted

\* The cells that changed, over those that are kept, are the new cells.
LEMMA PatchedCells ==
  ASSUME NEW f, NEW g, IsMapping(g)
  PROVE  Updated(Without(f, DOMAIN f \ DOMAIN g), ChangedCells(f, g)) = g
<1> DEFINE C == {k \in DOMAIN g : k \notin DOMAIN f \/ f[k] # g[k]}
           K == DOMAIN f \ (DOMAIN f \ DOMAIN g)
<1>1. ChangedCells(f, g) = [k \in C |-> g[k]] /\ Without(f, DOMAIN f \ DOMAIN g) = [k \in K |-> f[k]]
  BY DEF ChangedCells, Without, Restricted
<1>2. K \union C = DOMAIN g
  OBVIOUS
<1>3. \A k \in DOMAIN g : k \notin C => k \in K /\ f[k] = g[k]
  OBVIOUS
<1>4. Updated([k \in K |-> f[k]], [k \in C |-> g[k]]) = [k \in DOMAIN g |-> g[k]]
  BY <1>2, <1>3 DEF Updated
<1> QED
  BY <1>1, <1>4 DEF IsMapping

\* A field that is new, with the value null.
NewNull(f, g) == \E k \in DOMAIN g \ DOMAIN f : g[k] = None

\* The fields that changed, over those that are kept, are the new fields, unless one
\* of them is new and null.
LEMMA PatchedFields ==
  ASSUME NEW f, NEW g, IsMapping(g)
  PROVE  Updated(Without(f, DOMAIN f \ DOMAIN g), ChangedFields(f, g)) = g <=> ~ NewNull(f, g)
<1> DEFINE C == {k \in DOMAIN g : Get(f, k) # g[k]}
           K == DOMAIN f \ (DOMAIN f \ DOMAIN g)
           u == Updated([k \in K |-> f[k]], [k \in C |-> g[k]])
<1>1. ChangedFields(f, g) = [k \in C |-> g[k]] /\ Without(f, DOMAIN f \ DOMAIN g) = [k \in K |-> f[k]]
  BY DEF ChangedFields, Without, Restricted
<1>2. u = [k \in K \union C |-> IF k \in C THEN g[k] ELSE f[k]]
  BY DEF Updated
<1>3. ASSUME ~ NewNull(f, g) PROVE u = g
  <2>1. K \union C = DOMAIN g
    BY <1>3 DEF NewNull, Get
  <2>2. \A k \in DOMAIN g : k \notin C => f[k] = g[k]
    BY <2>1 DEF Get
  <2>3. u = [k \in DOMAIN g |-> g[k]]
    BY <1>2, <2>1, <2>2
  <2> QED
    BY <2>3 DEF IsMapping
<1>4. ASSUME u = g, NEW k \in DOMAIN g \ DOMAIN f PROVE g[k] # None
  <2>1. k \in K \union C
    BY <1>2, <1>4
  <2> QED
    BY <2>1 DEF Get
<1> QED
  BY <1>1, <1>3, <1>4 DEF NewNull

\* apply_observation_delta is the inverse of observation_delta on two snapshots
\* exactly when no field of the player is new with the value null: such a field is
\* not recorded.
THEOREM PatchReconstructs ==
  ASSUME NEW p, NEW c, IsSnapshot(p), IsSnapshot(c)
  PROVE  ApplyDelta(p, ObservationDelta(p, c)) = c <=> ~ NewNull(p.player, c.player)
<1> DEFINE d == ObservationDelta(p, c)
           u == Updated(Without(p.player, d.removed_player_fields), d.player)
<1>1. u = c.player <=> ~ NewNull(p.player, c.player)
  BY PatchedFields DEF ObservationDelta, IsSnapshot
<1>2. Updated(Without(p.cells, d.removed_cells), d.cells) = c.cells
  BY PatchedCells DEF ObservationDelta, IsSnapshot
<1>3. (IF d.menu_changed THEN d.menu ELSE p.menu) = c.menu
  BY DEF ObservationDelta
<1>4. (IF d.input_mode_changed THEN d.input_mode ELSE p.input_mode) = c.input_mode
  BY DEF ObservationDelta
<1>5. d.messages = c.messages
  BY DEF ObservationDelta
<1> HIDE DEF d
<1>6. ApplyDelta(p, d) = Parts(u, c.cells, c.messages, c.menu, c.input_mode)
  BY <1>2, <1>3, <1>4, <1>5 DEF ApplyDelta, Parts
<1> HIDE DEF u
<1>7. c = Parts(c.player, c.cells, c.messages, c.menu, c.input_mode)
  BY DEF IsSnapshot
<1>8. Parts(u, c.cells, c.messages, c.menu, c.input_mode).player = u
  BY DEF Parts
<1> QED
  BY <1>1, <1>6, <1>7, <1>8 DEF d

\* The state that is changed in place ends as the new snapshot too.
LEMMA TransientIsDetached ==
  ASSUME NEW o, NEW d, IsSnapshot(o)
  PROVE  TransientApply(o, d) = ApplyDelta(o, d)
<1> DEFINE p == Updated(Without(o.player, d.removed_player_fields), d.player)
           c == Updated(Without(o.cells, d.removed_cells), d.cells)
           o1 == [o EXCEPT !.player = p]
           o2 == [o1 EXCEPT !.cells = Updated(Without(o1.cells, d.removed_cells), d.cells)]
           o3 == [o2 EXCEPT !.messages = d.messages]
           o4 == IF d.menu_changed THEN [o3 EXCEPT !.menu = d.menu] ELSE o3
           u == IF d.menu_changed THEN d.menu ELSE o.menu
           i == IF d.input_mode_changed THEN d.input_mode ELSE o.input_mode
<1> HIDE DEF p, c, o1, o2, o3, o4, u, i
<1>1. o = Parts(o.player, o.cells, o.messages, o.menu, o.input_mode)
  BY DEF IsSnapshot
<1>2. o1 = Parts(p, o.cells, o.messages, o.menu, o.input_mode)
  BY <1>1 DEF Parts, o1
<1>3. o2 = [o1 EXCEPT !.cells = c]
  BY <1>2 DEF Parts, o2, c
<1>4. o2 = Parts(p, c, o.messages, o.menu, o.input_mode)
  BY <1>2, <1>3 DEF Parts
<1>5. o3 = Parts(p, c, d.messages, o.menu, o.input_mode)
  BY <1>4 DEF Parts, o3
<1>6. o4 = Parts(p, c, d.messages, u, o.input_mode)
  <2>1. [o3 EXCEPT !.menu = d.menu] = Parts(p, c, d.messages, d.menu, o.input_mode)
    BY <1>5 DEF Parts
  <2> QED
    BY <1>5, <2>1 DEF o4, u
<1>7. (IF d.input_mode_changed THEN [o4 EXCEPT !.input_mode = d.input_mode] ELSE o4)
        = Parts(p, c, d.messages, u, i)
  <2>1. [o4 EXCEPT !.input_mode = d.input_mode] = Parts(p, c, d.messages, u, d.input_mode)
    BY <1>6 DEF Parts
  <2> QED
    BY <1>6, <2>1 DEF i
<1>8. TransientApply(o, d) = Parts(p, c, d.messages, u, i)
  BY <1>7 DEF TransientApply, o1, o2, o3, o4, p
<1>9. ApplyDelta(o, d) = Parts(p, c, d.messages, u, i)
  BY DEF ApplyDelta, Parts, p, c, u, i
<1> QED
  BY <1>8, <1>9
-------------------------------------------------------------------------------
(* What the game sends, and the reducer makes of it.                          *)

\* Induction over the natural numbers, for a set instead of a predicate.
LEMMA SetInduction ==
  ASSUME NEW T, 0 \in T, \A n \in Nat : n \in T => n + 1 \in T
  PROVE  Nat \subseteq T
<1> SUFFICES ASSUME Nat \ T # {} PROVE FALSE
  OBVIOUS
<1> DEFINE R == OpToRel(<, Nat)
<1>1. IsWellFoundedOn(R, Nat)
  BY NatLessThanWellFounded
<1>2. PICK x \in Nat \ T : \A y \in Nat \ T : ~(<<y, x>> \in R)
  <2> HIDE DEF R
  <2> QED BY <1>1, WFMin
<1>3. \A y \in Nat : <<y, x>> \in R <=> y < x
  BY DEF OpToRel
<1>4. x # 0 /\ x - 1 \in Nat /\ x - 1 < x
  OBVIOUS
<1>5. x - 1 \in T
  BY <1>2, <1>3, <1>4
<1> QED BY <1>4, <1>5

\* A finite set of coordinates has a last one in row order.
LEMMA LastInRow ==
  ASSUME NEW S \in SUBSET (Int \X Int), IsFiniteSet(S), S # {}
  PROVE  \E m \in S : \A x \in S : x # m => ByRow(x, m)
<1> DEFINE T == {n \in Nat : \A U \in SUBSET (Int \X Int) :
                   IsFiniteSet(U) /\ Cardinality(U) = n + 1
                     => \E m \in U : \A x \in U : x # m => ByRow(x, m)}
<1>1. 0 \in T
  <2> SUFFICES ASSUME NEW U \in SUBSET (Int \X Int), IsFiniteSet(U), Cardinality(U) = 1
               PROVE  \E m \in U : \A x \in U : x # m => ByRow(x, m)
    OBVIOUS
  <2>1. \E x : U = {x}
    BY FS_Singleton
  <2> QED BY <2>1
<1>2. ASSUME NEW n \in Nat, n \in T PROVE n + 1 \in T
  <2> SUFFICES ASSUME NEW U \in SUBSET (Int \X Int), IsFiniteSet(U), Cardinality(U) = n + 2
               PROVE  \E m \in U : \A x \in U : x # m => ByRow(x, m)
    OBVIOUS
  <2>1. U # {}
    BY FS_EmptySet
  <2>2. PICK a \in U : TRUE
    BY <2>1
  <2> DEFINE V == U \ {a}
  <2>3. IsFiniteSet(V) /\ Cardinality(V) = n + 1 /\ V \in SUBSET (Int \X Int)
    BY FS_RemoveElement
  <2>4. PICK m \in V : \A x \in V : x # m => ByRow(x, m)
    BY <1>2, <2>3
  <2>5. a \in Int \X Int /\ m \in Int \X Int /\ m # a
    OBVIOUS
  <2>6. ByRow(a, m) \/ ByRow(m, a)
    <3>1. a = <<a[1], a[2]>> /\ m = <<m[1], m[2]>> /\ a[1] \in Int /\ a[2] \in Int /\ m[1] \in Int /\ m[2] \in Int
      BY <2>5
    <3> QED BY <2>5, <3>1 DEF ByRow
  <2>7. CASE ByRow(a, m)
    BY <2>4, <2>7
  <2>8. CASE ByRow(m, a)
    <3>1. \A x \in V : ByRow(x, m) => ByRow(x, a)
      <4> TAKE x \in V
      <4>1. /\ x[1] \in Int /\ x[2] \in Int /\ a[1] \in Int /\ a[2] \in Int
            /\ m[1] \in Int /\ m[2] \in Int
        BY <2>5
      <4> QED BY <2>8, <4>1 DEF ByRow
    <3> QED BY <2>4, <2>8, <3>1
  <2> QED BY <2>6, <2>7, <2>8
<1>3. Nat \subseteq T
  <2> HIDE DEF T
  <2> QED BY <1>1, <1>2, SetInduction
<1>4. Cardinality(S) \in Nat /\ Cardinality(S) # 0
  BY FS_CardinalityType, FS_EmptySet
<1>5. Cardinality(S) - 1 \in T /\ Cardinality(S) = (Cardinality(S) - 1) + 1
  BY <1>3, <1>4
<1> QED BY <1>5

\* A finite set of coordinates can be listed in row order, each once.
Listed(S, ats) ==
  /\ ats \in [1..Cardinality(S) -> S]
  /\ \A i, j \in 1..Cardinality(S) : i < j => ByRow(ats[i], ats[j])

LEMMA RowOrderExists ==
  ASSUME NEW S \in SUBSET (Int \X Int), IsFiniteSet(S)
  PROVE  \E ats : Listed(S, ats)
<1> DEFINE T == {n \in Nat : \A U \in SUBSET (Int \X Int) :
                   IsFiniteSet(U) /\ Cardinality(U) = n => \E ats : Listed(U, ats)}
<1>1. 0 \in T
  <2> SUFFICES ASSUME NEW U \in SUBSET (Int \X Int), IsFiniteSet(U), Cardinality(U) = 0
               PROVE  \E ats : Listed(U, ats)
    OBVIOUS
  <2>1. 1..Cardinality(U) = {}
    OBVIOUS
  <2>2. [i \in 1..Cardinality(U) |-> i] \in [1..Cardinality(U) -> U]
    BY <2>1
  <2> QED BY <2>1, <2>2 DEF Listed
<1>2. ASSUME NEW n \in Nat, n \in T PROVE n + 1 \in T
  <2> SUFFICES ASSUME NEW U \in SUBSET (Int \X Int), IsFiniteSet(U), Cardinality(U) = n + 1
               PROVE  \E ats : Listed(U, ats)
    OBVIOUS
  <2>1. U # {}
    BY FS_EmptySet
  <2>2. PICK m \in U : \A x \in U : x # m => ByRow(x, m)
    BY <2>1, LastInRow
  <2> DEFINE V == U \ {m}
  <2>3. IsFiniteSet(V) /\ Cardinality(V) = n /\ V \in SUBSET (Int \X Int)
    <3>1. IsFiniteSet(V) /\ Cardinality(V) = (n + 1) - 1
      BY FS_RemoveElement
    <3> QED BY <3>1
  <2>4. PICK s : Listed(V, s)
    BY <1>2, <2>3
  <2> DEFINE t == [i \in 1..(n + 1) |-> IF i = n + 1 THEN m ELSE s[i]]
  <2>5. s \in [1..n -> V] /\ \A i, j \in 1..n : i < j => ByRow(s[i], s[j])
    BY <2>3, <2>4 DEF Listed
  <2>6. \A i \in 1..(n + 1) : i = n + 1 \/ i \in 1..n
    OBVIOUS
  <2>7. t \in [1..(n + 1) -> U]
    BY <2>5, <2>6
  <2>8. ASSUME NEW i \in 1..(n + 1), NEW j \in 1..(n + 1), i < j PROVE ByRow(t[i], t[j])
    <3>1. i \in 1..n /\ t[i] = s[i] /\ s[i] \in V
      BY <2>5, <2>8
    <3>2. CASE j = n + 1
      BY <2>2, <3>1, <3>2
    <3>3. CASE j # n + 1
      <4>1. j \in 1..n /\ t[j] = s[j]
        BY <2>6, <3>3
      <4> QED BY <2>5, <2>8, <3>1, <4>1
    <3> QED BY <3>2, <3>3
  <2> HIDE DEF t
  <2>9. Listed(U, t)
    BY <2>7, <2>8 DEF Listed
  <2> QED BY <2>9
<1>3. Nat \subseteq T
  <2> HIDE DEF T
  <2> QED BY <1>1, <1>2, SetInduction
<1>4. Cardinality(S) \in Nat
  BY FS_CardinalityType
<1> QED BY <1>3, <1>4

LEMMA RowOrderLists ==
  ASSUME NEW S \in SUBSET (Int \X Int), IsFiniteSet(S)
  PROVE  LET n == Cardinality(S) IN
         /\ n \in Nat /\ RowOrder(S) \in [1..n -> S]
         /\ \A x \in S : \E i \in 1..n : RowOrder(S)[i] = x
<1> DEFINE n == Cardinality(S)
           r == RowOrder(S)
<1>1. n \in Nat /\ IsFiniteSet(1..n) /\ Cardinality(1..n) = n
  BY FS_CardinalityType, FS_Interval
<1>2. Listed(S, r)
  BY RowOrderExists DEF Listed, RowOrder
<1>3. r \in [1..n -> S] /\ \A i, j \in 1..n : i < j => ByRow(r[i], r[j])
  BY <1>2 DEF Listed
<1> HIDE DEF r
<1>4. \A i, j \in 1..n : i # j => r[i] # r[j]
  <2> SUFFICES ASSUME NEW i \in 1..n, NEW j \in 1..n, i < j PROVE r[i] # r[j]
    BY <1>1
  <2>1. ByRow(r[i], r[j])
    BY <1>3
  <2>2. r[i] \in Int \X Int
    BY <1>3
  <2>3. r[i][1] \in Int /\ r[i][2] \in Int
    BY <2>2
  <2>4. ~ByRow(r[i], r[i])
    BY <2>3 DEF ByRow
  <2> QED BY <2>1, <2>4
<1> HIDE DEF n
<1>5. r \in Injection(1..n, S)
  BY <1>3, <1>4 DEF Injection, IsInjective
<1>6. r \in Surjection(1..n, S)
  BY <1>1, <1>5, FS_Injection DEF n
<1>7. \A x \in S : \E i \in 1..n : r[i] = x
  BY <1>6 DEF Surjection
<1> QED BY <1>1, <1>3, <1>7 DEF n, r

\* What a map of the game is, and what the reducer makes of it.
Maps == UNION {[S -> Cells] : S \in SUBSET Coordinates}

IsReducer(r) ==
  r = [player |-> r.player, cells |-> r.cells, semantic |-> r.semantic, ordered |-> r.ordered,
       cursor |-> r.cursor, menu |-> r.menu, mode |-> r.mode]

\* The raw cells of r say m, and so do the cells it has normalised.
Holds(r, m) ==
  /\ IsReducer(r) /\ IsMapping(r.cells)
  /\ DOMAIN r.cells = DOMAIN m /\ \A at \in DOMAIN m : FromProtocol(r.cells[at]) = m[at]
  /\ r.semantic = m /\ r.ordered \in {None, m}

LEMMA MapShape ==
  ASSUME NEW m \in Maps
  PROVE  /\ DOMAIN m \in SUBSET (Int \X Int) /\ IsFiniteSet(DOMAIN m) /\ IsMapping(m)
         /\ DOMAIN m \subseteq Coordinates /\ \A at \in DOMAIN m : m[at] \in Cells
<1>1. PICK S \in SUBSET Coordinates : m \in [S -> Cells]
  BY DEF Maps
<1>2. IsFiniteSet(S) /\ S \in SUBSET (Int \X Int)
  BY EpisodeAssumption, FS_Subset
<1> QED BY <1>1, <1>2 DEF IsMapping

LEMMA MapsUpdated ==
  ASSUME NEW m \in Maps, NEW new \in Maps
  PROVE  Updated(m, new) \in Maps /\ Updated(Nothing, new) = new /\ Nothing \in Maps
<1>1. PICK S \in SUBSET Coordinates : m \in [S -> Cells]
  BY DEF Maps
<1>2. PICK R \in SUBSET Coordinates : new \in [R -> Cells]
  BY DEF Maps
<1>3. Updated(m, new) \in [S \union R -> Cells] /\ S \union R \in SUBSET Coordinates
  BY <1>1, <1>2 DEF Updated
<1>4. Updated(Nothing, new) = new
  BY <1>2 DEF Updated, Nothing
<1>5. Nothing \in [{} -> Cells] /\ {} \in SUBSET Coordinates
  BY DEF Nothing
<1> QED BY <1>3, <1>4, <1>5 DEF Maps

\* A cell as it is normalised.
IsCell(c) == c = [f \in {"g", "mon"} |-> c[f]] /\ c["mon"] \in {None} \union Monsters

LEMMA CellShape == IsCell(FromProtocol(Nothing)) /\ \A c \in Cells : IsCell(c)
BY DEF IsCell, FromProtocol, Nothing, Cells

\* The fields of a monster that changed make it the new one, whichever of the two
\* was known.
LEMMA MonsterMerged ==
  ASSUME NEW old \in Monsters, NEW new \in Monsters, NEW m \in {old, new}
  PROVE  LET d == Restricted(new, {k \in DOMAIN new : old[k] # new[k]}) IN
         Updated(m, d) = new /\ Updated(new, new) = new /\ d # None /\ new # None
<1> DEFINE K == {"name", "threat"}
           C == {k \in DOMAIN new : old[k] # new[k]}
<1>1. DOMAIN old = K /\ DOMAIN new = K /\ new = [k \in K |-> new[k]]
  BY DEF Monsters
<1>2. Restricted(new, C) = [k \in C |-> new[k]]
  BY DEF Restricted
<1>3. Updated(m, [k \in C |-> new[k]]) = [k \in K |-> new[k]]
  <2>1. K \union C = K /\ DOMAIN m = K
    BY <1>1
  <2>2. Updated(m, [k \in C |-> new[k]]) = [k \in K |-> IF k \in C THEN new[k] ELSE m[k]]
    BY <2>1 DEF Updated
  <2>3. \A k \in K : k \notin C => m[k] = new[k]
    BY <1>1
  <2> QED BY <2>2, <2>3
<1>4. Updated(new, new) = [k \in K |-> new[k]]
  BY <1>1 DEF Updated
<1>5. Restricted(new, C) # None
  BY MonsterAssumption
<1>6. new # None
  <2>1. Restricted(new, DOMAIN new) # None
    BY MonsterAssumption
  <2>2. Restricted(new, DOMAIN new) = new
    BY <1>1 DEF Restricted
  <2> QED BY <2>1, <2>2
<1> QED BY <1>1, <1>2, <1>3, <1>4, <1>5, <1>6

\* A cell of which only the changes are sent, when it is known as it was or as it is.
LEMMA CellDecoded ==
  ASSUME NEW c, NEW old, NEW new, IsCell(old), IsCell(new), FromProtocol(c) \in {old, new}
  PROVE  FromProtocol(MergedCell(c, Changes(old, new))) = new
<1> DEFINE d == Changes(old, new)
           u == MergedCell(c, d)
           F == {f \in {"g", "mon"} : old[f] # new[f]}
           part == Restricted(new["mon"], {k \in DOMAIN new["mon"] : old["mon"][k] # new["mon"][k]})
           whole == old["mon"] # None /\ new["mon"] # None
<1>1. /\ DOMAIN d = F
      /\ "g" \in F => d["g"] = new["g"]
      /\ "mon" \in F => d["mon"] = IF whole THEN part ELSE new["mon"]
  BY DEF Changes
<1> DEFINE w == [d EXCEPT !["mon"] = Updated(c["mon"], @)]
           merged == "mon" \in F \cap DOMAIN c /\ d["mon"] # None /\ c["mon"] # None
<1>2. u = IF merged THEN Updated(c, w) ELSE Updated(c, d)
  BY <1>1 DEF MergedCell
<1>3. DOMAIN w = F /\ ("g" \in F => w["g"] = d["g"]) /\ ("mon" \in F => w["mon"] = Updated(c["mon"], d["mon"]))
  BY <1>1
<1> HIDE DEF d, w, part
<1>4. /\ DOMAIN u = DOMAIN c \union F
      /\ \A f \in DOMAIN c \ F : u[f] = c[f]
      /\ "g" \in F => u["g"] = new["g"]
      /\ "mon" \in F => u["mon"] = IF merged THEN Updated(c["mon"], d["mon"]) ELSE d["mon"]
  BY <1>1, <1>2, <1>3 DEF Updated
<1>5. \A f \in {"g", "mon"} : FromProtocol(c)[f] = IF f \in DOMAIN c THEN c[f] ELSE None
  BY DEF FromProtocol
<1> HIDE DEF u, merged
<1>6. \A f \in {"g", "mon"} : FromProtocol(u)[f] = IF f \in DOMAIN u THEN u[f] ELSE None
  BY DEF FromProtocol
<1>7. \A f \in F : FromProtocol(u)[f] = u[f]
  <2>1. F \subseteq {"g", "mon"} /\ F \subseteq DOMAIN u
    BY <1>4
  <2> HIDE DEF F
  <2> QED BY <1>6, <2>1
<1>8. ASSUME NEW f \in {"g", "mon"}, f \notin F PROVE FromProtocol(u)[f] = new[f]
  BY <1>4, <1>5, <1>6, <1>8
<1>9. ASSUME "mon" \in F PROVE FromProtocol(u)["mon"] = new["mon"]
  <2> DEFINE o == old["mon"]
             n == new["mon"]
             k == c["mon"]
  <2>1. /\ o \in {None} \union Monsters /\ n \in {None} \union Monsters /\ o # n
        /\ FromProtocol(c)["mon"] \in {o, n}
    BY <1>9 DEF IsCell
  <2>2. "mon" \in DOMAIN c => k \in {o, n}
    BY <1>5, <2>1
  <2>3. "mon" \notin DOMAIN c => None \in {o, n}
    BY <1>5, <2>1
  <2>4. CASE whole
    <3>1. o \in Monsters /\ n \in Monsters
      BY <2>1, <2>4
    <3>2. "mon" \in DOMAIN c /\ k \in {o, n} /\ k # None
      BY <2>2, <2>3, <2>4
    <3>3. Updated(k, part) = n /\ part # None
      <4> HIDE DEF o, n, k
      <4> QED BY <3>1, <3>2, MonsterMerged DEF part, o, n
    <3>4. merged
      BY <1>1, <1>9, <2>4, <3>2, <3>3 DEF merged
    <3>5. u["mon"] = n
      BY <1>1, <1>4, <1>9, <2>4, <3>3, <3>4
    <3> QED BY <1>7, <1>9, <3>5
  <2>5. CASE ~ whole
    <3>1. d["mon"] = n
      BY <1>1, <1>9, <2>5
    <3>2. CASE merged
      <4>1. k = n /\ n \in Monsters
        BY <2>1, <2>2, <2>5, <3>1, <3>2 DEF merged
      <4>2. Updated(n, n) = n
        <5> HIDE DEF n
        <5> QED BY <4>1, MonsterMerged
      <4>3. u["mon"] = n
        BY <1>4, <1>9, <3>1, <3>2, <4>1, <4>2
      <4> QED BY <1>7, <1>9, <4>3
    <3>3. CASE ~ merged
      <4>1. u["mon"] = n
        BY <1>4, <1>9, <3>1, <3>3
      <4> QED BY <1>7, <1>9, <4>1
    <3> QED BY <3>2, <3>3
  <2> QED BY <2>4, <2>5
<1>10. ASSUME "g" \in F PROVE FromProtocol(u)["g"] = new["g"]
  BY <1>4, <1>7, <1>10
<1>11. \A f \in {"g", "mon"} : FromProtocol(u)[f] = new[f]
  <2>1. FromProtocol(u)["g"] = new["g"]
    BY <1>8, <1>10
  <2>2. FromProtocol(u)["mon"] = new["mon"]
    BY <1>8, <1>9
  <2> QED BY <2>1, <2>2
<1>12. FromProtocol(u) = [f \in {"g", "mon"} |-> new[f]] /\ new = [f \in {"g", "mon"} |-> new[f]]
  BY <1>11 DEF FromProtocol, IsCell
<1> QED BY <1>12 DEF u, d

\* What a map message is, given the map that is known and the one that is new.
Old(known, at) == IF at \in DOMAIN known THEN known[at] ELSE FromProtocol(Nothing)
Before(ats, i) == IF i = 1 THEN game.last ELSE ats[i - 1]
After(ats, i) == Before(ats, i) # None /\ ats[i] = <<Before(ats, i)[1] + 1, Before(ats, i)[2]>>

LEMMA EncodedIs ==
  ASSUME NEW known, NEW new \in Maps
  PROVE  LET ats == RowOrder(DOMAIN new)
             n == Cardinality(DOMAIN new) IN
         /\ n \in Nat /\ ats \in [1..n -> DOMAIN new] /\ \A x \in DOMAIN new : \E i \in 1..n : ats[i] = x
         /\ Len(Encoded(known, new)) = n
         /\ \A i \in 1..n :
              Encoded(known, new)[i] =
                [x |-> IF After(ats, i) THEN None ELSE ats[i][1],
                 y |-> IF After(ats, i) THEN None ELSE ats[i][2],
                 fields |-> Changes(Old(known, ats[i]), new[ats[i]])]
         /\ new = Nothing => n = 0
         /\ LastOf(new) = IF n = 0 THEN game.last ELSE ats[n]
<1> DEFINE ats == RowOrder(DOMAIN new)
           n == Cardinality(DOMAIN new)
           d == Encoded(known, new)
<1>1. DOMAIN new \in SUBSET (Int \X Int) /\ IsFiniteSet(DOMAIN new) /\ IsMapping(new)
  BY MapShape
<1>2. n \in Nat /\ ats \in [1..n -> DOMAIN new] /\ \A x \in DOMAIN new : \E i \in 1..n : ats[i] = x
  BY <1>1, RowOrderLists
<1>3. ats \in Seq(DOMAIN new) /\ Len(ats) = n
  <2> HIDE DEF ats, n
  <2> QED BY <1>2
<1>4. d = [i \in 1..n |->
             [x |-> IF After(ats, i) THEN None ELSE ats[i][1],
              y |-> IF After(ats, i) THEN None ELSE ats[i][2],
              fields |-> Changes(Old(known, ats[i]), new[ats[i]])]]
  <2>1. Len(RowOrder(DOMAIN new)) = n
    BY <1>3
  <2> HIDE DEF n
  <2> QED BY <2>1 DEF Encoded, After, Before, Old
<1>5. Len(d) = n
  <2> DEFINE V == {d[i] : i \in 1..n}
  <2>1. d \in [1..n -> V]
    <3>1. DOMAIN d = 1..n /\ d = [i \in DOMAIN d |-> d[i]]
      BY <1>4
    <3> HIDE DEF d, n
    <3> QED BY <3>1
  <2> HIDE DEF d, n, V
  <2> QED BY <1>2, <2>1
<1>6. new = Nothing <=> n = 0
  <2>1. n = 0 <=> DOMAIN new = {}
    BY <1>1, FS_EmptySet
  <2>2. DOMAIN new = {} => new = [k \in {} |-> None]
    BY <1>1 DEF IsMapping
  <2> QED BY <2>1, <2>2 DEF Nothing
<1>7. LastOf(new) = IF n = 0 THEN game.last ELSE ats[n]
  <2>1. Last(ats) = ats[n]
    BY <1>3 DEF Last
  <2> HIDE DEF ats, n
  <2> QED BY <1>6, <2>1 DEF LastOf, ats
<1> QED BY <1>2, <1>4, <1>5, <1>6, <1>7

\* A cell is read: where it is, and what it is.
LEMMA ReadsOne ==
  ASSUME NEW r, NEW m, IsMapping(m), Holds(r, m), NEW d, NEW a \in Int \X Int, NEW nc,
         Coordinate(r, d) = a,
         FromProtocol(MergedCell(IF a \in DOMAIN r.cells THEN r.cells[a] ELSE Nothing, d.fields)) = nc
  PROVE  LET s == ReadsCell(r, d) IN
         /\ Holds(s, Updated(m, Only(a, nc))) /\ s.cursor = a
         /\ s.player = r.player /\ s.menu = r.menu /\ s.mode = r.mode
<1> DEFINE cell == MergedCell(IF a \in DOMAIN r.cells THEN r.cells[a] ELSE Nothing, d.fields)
           cells == Updated(r.cells, Only(a, cell))
           semantic == Updated(r.semantic, Only(a, FromProtocol(cell)))
           s == ReadsCell(r, d)
<1>1. a[1] # None /\ a[2] # None
  <2>1. a[1] \in Int /\ a[2] \in Int
    OBVIOUS
  <2> QED BY <2>1, NoneAssumption
<1>2. s = [r EXCEPT !.cursor = a, !.cells = cells, !.semantic = semantic, !.ordered = None]
  BY <1>1 DEF ReadsCell
<1>3. FromProtocol(cell) = nc
  OBVIOUS
<1> HIDE DEF cell
<1>4. /\ IsMapping(cells) /\ DOMAIN cells = DOMAIN r.cells \union {a} /\ cells[a] = cell
      /\ \A at \in DOMAIN r.cells : at # a => cells[at] = r.cells[at]
  BY DEF Updated, Only, IsMapping
<1>5. r.semantic = m /\ DOMAIN r.cells = DOMAIN m /\ IsReducer(r)
      /\ \A at \in DOMAIN m : FromProtocol(r.cells[at]) = m[at]
  BY DEF Holds
<1> DEFINE w == Updated(m, Only(a, nc))
<1>6. semantic = w
  BY <1>3, <1>5
<1>7. /\ DOMAIN w = DOMAIN m \union {a} /\ w[a] = nc
      /\ \A at \in DOMAIN m : at # a => w[at] = m[at]
  BY DEF Updated, Only
<1> HIDE DEF cells, semantic, w, s
<1>8. s = [player |-> r.player, cells |-> cells, semantic |-> semantic, ordered |-> None,
           cursor |-> a, menu |-> r.menu, mode |-> r.mode]
  BY <1>2, <1>5 DEF IsReducer
<1>9. IsReducer(s) /\ s.cells = cells /\ s.semantic = w /\ s.ordered = None
  BY <1>6, <1>8 DEF IsReducer
<1>10. \A at \in DOMAIN w : FromProtocol(cells[at]) = w[at]
  BY <1>3, <1>4, <1>5, <1>7
<1>11. Holds(s, w)
  BY <1>4, <1>5, <1>7, <1>9, <1>10 DEF Holds
<1> QED BY <1>8, <1>11 DEF s, w

\* The cells of a message, read from the first.
Reads(start, ds, f) ==
  f = [i \in 0..Len(ds) |-> IF i = 0 THEN start ELSE ReadsCell(f[i - 1], ds[i])]

LEMMA ReadsExists ==
  ASSUME NEW start, NEW ds, Len(ds) \in Nat
  PROVE  \E f : Reads(start, ds, f)
<1> DEFINE N == Len(ds)
           Upto(f, m) == f = [i \in 0..m |-> IF i = 0 THEN start ELSE ReadsCell(f[i - 1], ds[i])]
           T == {m \in Nat : m <= N => \E f : Upto(f, m)}
<1>1. 0 \in T
  <2> DEFINE f == [i \in 0..0 |-> start]
  <2>1. Upto(f, 0)
    OBVIOUS
  <2> HIDE DEF Upto
  <2> QED BY <2>1
<1>2. ASSUME NEW m \in Nat, m \in T PROVE m + 1 \in T
  <2> SUFFICES ASSUME m + 1 <= N PROVE \E g : Upto(g, m + 1)
    OBVIOUS
  <2>1. PICK f : Upto(f, m)
    <3> HIDE DEF Upto
    <3>1. m <= N
      OBVIOUS
    <3> QED BY <1>2, <3>1
  <2> DEFINE g == [i \in 0..(m + 1) |-> IF i = m + 1 THEN ReadsCell(f[m], ds[m + 1]) ELSE f[i]]
  <2>2. \A i \in 0..(m + 1) : g[i] = IF i = 0 THEN start ELSE ReadsCell(g[i - 1], ds[i])
    <3> SUFFICES ASSUME NEW i \in 0..(m + 1)
                 PROVE  g[i] = IF i = 0 THEN start ELSE ReadsCell(g[i - 1], ds[i])
      OBVIOUS
    <3>1. CASE i = m + 1
      <4>1. g[i] = ReadsCell(f[m], ds[m + 1]) /\ g[i - 1] = f[m] /\ i # 0
        BY <3>1
      <4> QED BY <3>1, <4>1
    <3>2. CASE i # m + 1
      <4>1. i \in 0..m /\ g[i] = f[i] /\ (i # 0 => g[i - 1] = f[i - 1])
        BY <3>2
      <4>2. f[i] = IF i = 0 THEN start ELSE ReadsCell(f[i - 1], ds[i])
        BY <2>1, <4>1
      <4> QED BY <4>1, <4>2
    <3> QED BY <3>1, <3>2
  <2>3. Upto(g, m + 1)
    <3>1. g = [i \in 0..(m + 1) |-> g[i]]
      OBVIOUS
    <3> HIDE DEF g
    <3> QED BY <2>2, <3>1
  <2> HIDE DEF g, Upto
  <2> QED BY <2>3
<1>3. N \in T
  <2> HIDE DEF T, N
  <2>1. Nat \subseteq T
    BY <1>1, <1>2, SetInduction
  <2> QED BY <2>1 DEF N
<1> QED BY <1>3 DEF Reads

LEMMA ReadsMapIs ==
  ASSUME NEW r, NEW map, Len(map.cells) \in Nat
  PROVE  \E f : /\ Reads(IF map.clear THEN Cleared(r) ELSE r, map.cells, f)
                /\ ReadsMap(r, map) = f[Len(map.cells)]
<1> DEFINE start == IF map.clear THEN Cleared(r) ELSE r
           f == CHOOSE f : Reads(start, map.cells, f)
<1>1. Reads(start, map.cells, f)
  BY ReadsExists
<1>2. ReadsMap(r, map) = f[Len(map.cells)]
  BY DEF ReadsMap, Reads
<1> QED BY <1>1, <1>2

\* One cell more of a new map.
LEMMA OneMore ==
  ASSUME NEW known, NEW new, IsMapping(new), NEW S \in SUBSET DOMAIN new, NEW a \in DOMAIN new
  PROVE  Updated(Updated(known, Restricted(new, S)), Only(a, new[a]))
           = Updated(known, Restricted(new, S \union {a}))
<1> DEFINE m == Updated(known, Restricted(new, S))
           v == Updated(known, Restricted(new, S \union {a}))
           u == Updated(m, Only(a, new[a]))
<1>1. DOMAIN m = DOMAIN known \union S /\ \A at \in DOMAIN m : m[at] = IF at \in S THEN new[at] ELSE known[at]
  BY DEF Updated, Restricted
<1>2. /\ v = [at \in DOMAIN known \union S \union {a} |-> v[at]]
      /\ \A at \in DOMAIN known \union S \union {a} :
           v[at] = IF at \in S \union {a} THEN new[at] ELSE known[at]
  BY DEF Updated, Restricted
<1> HIDE DEF m, v
<1>3. /\ u = [at \in DOMAIN known \union S \union {a} |-> u[at]]
      /\ \A at \in DOMAIN known \union S \union {a} : u[at] = IF at = a THEN new[a] ELSE m[at]
  BY <1>1 DEF Updated, Only
<1> HIDE DEF u
<1>4. \A at \in DOMAIN known \union S \union {a} : u[at] = v[at]
  BY <1>1, <1>2, <1>3
<1>5. u = v
  BY <1>2, <1>3, <1>4
<1> QED BY <1>5 DEF u, v, m

\* The first clause of a message: the coordinates that are left out are those after
\* the cursor.
LEMMA Located ==
  ASSUME NEW r, NEW d, NEW a \in Int \X Int, NEW follows \in BOOLEAN,
         d.x = IF follows THEN None ELSE a[1], d.y = IF follows THEN None ELSE a[2],
         follows => r.cursor # None /\ a = <<r.cursor[1] + 1, r.cursor[2]>>
  PROVE  Coordinate(r, d) = a
<1>1. a = <<a[1], a[2]>> /\ a[1] \in Int /\ a[2] \in Int /\ a[1] # None /\ a[2] # None
  <2>1. a = <<a[1], a[2]>> /\ a[1] \in Int /\ a[2] \in Int
    OBVIOUS
  <2> QED BY <2>1, NoneAssumption
<1>2. CASE follows
  <2>1. d.x = None /\ d.y = None /\ r.cursor # None /\ a = <<r.cursor[1] + 1, r.cursor[2]>>
    BY <1>2
  <2> QED BY <2>1 DEF Coordinate
<1>3. CASE ~ follows
  <2>1. d.x = a[1] /\ d.y = a[2]
    BY <1>3
  <2>2. Coordinate(r, d) = <<a[1], a[2]>>
    BY <1>1, <2>1 DEF Coordinate
  <2> QED BY <1>1, <2>2
<1> QED BY <1>2, <1>3

\* Whatever was known, the reducer makes of a map message the map that the game
\* encoded in it.
LEMMA MapDecoded ==
  ASSUME NEW r, NEW start, NEW map, NEW known \in Maps, NEW new \in Maps,
         start = (IF map.clear THEN Cleared(r) ELSE r), Holds(start, known),
         start.cursor = game.last, map.cells = Encoded(known, new)
  PROVE  /\ Holds(ReadsMap(r, map), Updated(known, new))
         /\ ReadsMap(r, map).cursor = LastOf(new)
         /\ ReadsMap(r, map).player = start.player
         /\ ReadsMap(r, map).menu = start.menu
         /\ ReadsMap(r, map).mode = start.mode
<1> DEFINE ats == RowOrder(DOMAIN new)
           n == Cardinality(DOMAIN new)
           ds == Encoded(known, new)
<1>1. /\ n \in Nat /\ ats \in [1..n -> DOMAIN new] /\ \A x \in DOMAIN new : \E i \in 1..n : ats[i] = x
      /\ Len(ds) = n
      /\ \A i \in 1..n :
           ds[i] = [x |-> IF After(ats, i) THEN None ELSE ats[i][1],
                    y |-> IF After(ats, i) THEN None ELSE ats[i][2],
                    fields |-> Changes(Old(known, ats[i]), new[ats[i]])]
      /\ LastOf(new) = IF n = 0 THEN game.last ELSE ats[n]
  BY EncodedIs
<1>2. PICK f : Reads(start, map.cells, f) /\ ReadsMap(r, map) = f[Len(map.cells)]
  BY <1>1, ReadsMapIs
<1>3. /\ DOMAIN known \in SUBSET (Int \X Int) /\ IsMapping(known) /\ \A at \in DOMAIN known : known[at] \in Cells
      /\ DOMAIN new \in SUBSET (Int \X Int) /\ IsMapping(new) /\ \A at \in DOMAIN new : new[at] \in Cells
  BY MapShape
<1> HIDE DEF ats, n, ds
<1>4. /\ f[0] = start /\ ReadsMap(r, map) = f[n]
      /\ \A i \in 1..n : f[i] = ReadsCell(f[i - 1], ds[i])
  <2>1. f = [i \in 0..n |-> IF i = 0 THEN start ELSE ReadsCell(f[i - 1], ds[i])]
    BY <1>1, <1>2 DEF Reads, ds
  <2>2. 0 \in 0..n /\ \A i \in 1..n : i \in 0..n /\ i # 0
    BY <1>1
  <2>3. ReadsMap(r, map) = f[n]
    BY <1>1, <1>2 DEF ds
  <2> QED BY <2>1, <2>2, <2>3
<1> DEFINE Seen(i) == {ats[j] : j \in 1..i}
           Mid(i) == Updated(known, Restricted(new, Seen(i)))
           Good(i) == /\ Holds(f[i], Mid(i)) /\ f[i].cursor = (IF i = 0 THEN game.last ELSE ats[i])
                      /\ f[i].player = start.player /\ f[i].menu = start.menu /\ f[i].mode = start.mode
           T == {i \in Nat : i <= n => Good(i)}
<1>5. \A i \in 0..n : Seen(i) \in SUBSET DOMAIN new
  BY <1>1
<1>6. \A i \in 0..n : IsMapping(Mid(i)) /\ DOMAIN Mid(i) = DOMAIN known \union Seen(i)
        /\ \A at \in DOMAIN Mid(i) : Mid(i)[at] = IF at \in Seen(i) THEN new[at] ELSE known[at]
  BY <1>5 DEF Updated, Restricted, IsMapping
<1>7. 0 \in T
  <2>1. Seen(0) = {}
    OBVIOUS
  <2>2. Mid(0) = known
    <3>1. Updated(known, Restricted(new, {})) = [k \in DOMAIN known |-> known[k]]
      BY DEF Updated, Restricted
    <3> QED BY <1>3, <2>1, <3>1 DEF IsMapping
  <2> HIDE DEF Mid
  <2> QED BY <1>4, <2>2
<1>8. ASSUME NEW i \in Nat, i \in T PROVE i + 1 \in T
  <2> SUFFICES ASSUME i + 1 <= n PROVE Good(i + 1)
    OBVIOUS
  <2> DEFINE a == ats[i + 1]
             d == ds[i + 1]
  <2>1. i \in 0..n /\ i + 1 \in 1..n /\ i + 1 # 0 /\ (i + 1) - 1 = i /\ Good(i)
    BY <1>1, <1>8
  <2>2. a \in DOMAIN new /\ a \in Int \X Int /\ new[a] \in Cells
    BY <1>1, <1>3, <2>1
  <2>3. f[i + 1] = ReadsCell(f[i], d)
    <3>1. f[i + 1] = ReadsCell(f[(i + 1) - 1], ds[i + 1])
      BY <1>4, <2>1
    <3> QED BY <2>1, <3>1
  <2>4. Seen(i + 1) = Seen(i) \union {a}
    BY <2>1
  <2>5. Mid(i + 1) = Updated(Mid(i), Only(a, new[a]))
    <3>1. Seen(i) \in SUBSET DOMAIN new
      BY <1>5, <2>1
    <3> HIDE DEF Seen, a
    <3> QED BY <1>3, <2>2, <2>4, <3>1, OneMore
  <2>6. d = [x |-> IF After(ats, i + 1) THEN None ELSE a[1],
             y |-> IF After(ats, i + 1) THEN None ELSE a[2],
             fields |-> Changes(Old(known, a), new[a])]
    BY <1>1, <2>1
  <2>7. Before(ats, i + 1) = f[i].cursor
    <3>1. i + 1 = 1 <=> i = 0
      BY <2>1
    <3> QED BY <2>1, <3>1 DEF Before
  <2>8. After(ats, i + 1) \in BOOLEAN
        /\ (After(ats, i + 1) => f[i].cursor # None /\ a = <<f[i].cursor[1] + 1, f[i].cursor[2]>>)
    BY <2>7 DEF After
  <2>9. Coordinate(f[i], d) = a
    <3>1. d.x = (IF After(ats, i + 1) THEN None ELSE a[1]) /\ d.y = (IF After(ats, i + 1) THEN None ELSE a[2])
      BY <2>6
    <3> HIDE DEF d, a
    <3> QED BY <2>2, <2>8, <3>1, Located
  <2>10. d.fields = Changes(Old(known, a), new[a])
    BY <2>6
  <2> DEFINE c == f[i].cells
             k == IF a \in DOMAIN c THEN c[a] ELSE Nothing
  <2>11. Holds(f[i], Mid(i)) /\ IsMapping(Mid(i)) /\ DOMAIN c = DOMAIN known \union Seen(i)
    BY <1>6, <2>1 DEF Holds
  <2>12. FromProtocol(k) \in {Old(known, a), new[a]}
    <3>1. CASE a \in DOMAIN c
      <4>1. FromProtocol(c[a]) = Mid(i)[a]
        BY <2>11, <3>1 DEF Holds
      <4>2. FromProtocol(c[a]) = IF a \in Seen(i) THEN new[a] ELSE known[a]
        BY <1>6, <2>1, <2>11, <3>1, <4>1
      <4>3. a \notin Seen(i) => a \in DOMAIN known
        BY <2>11, <3>1
      <4> HIDE DEF c, a
      <4> QED BY <3>1, <4>2, <4>3 DEF Old
    <3>2. CASE a \notin DOMAIN c
      BY <2>11, <3>2 DEF Old
    <3> QED BY <3>1, <3>2
  <2> DEFINE q == new[a]
             o == Old(known, a)
             m == Mid(i)
             g == f[i]
  <2>13. FromProtocol(MergedCell(IF a \in DOMAIN g.cells THEN g.cells[a] ELSE Nothing, d.fields)) = q
    <3>1. IsCell(o) /\ IsCell(q)
      BY <1>3, <2>2, CellShape DEF Old
    <3> HIDE DEF o, q
    <3>2. FromProtocol(k) \in {o, q} /\ d.fields = Changes(o, q)
      BY <2>10, <2>12 DEF o, q
    <3> HIDE DEF k, d
    <3>3. FromProtocol(MergedCell(k, d.fields)) = q
      BY <3>1, <3>2, CellDecoded
    <3> QED BY <3>3 DEF k
  <2>14. IsMapping(m) /\ Holds(g, m) /\ Coordinate(g, d) = a
    BY <2>9, <2>11
  <2> HIDE DEF a, d, q, o, m, g, c, k, Mid, Seen
  <2>15. LET s == ReadsCell(g, d) IN
           /\ Holds(s, Updated(m, Only(a, q))) /\ s.cursor = a
           /\ s.player = g.player /\ s.menu = g.menu /\ s.mode = g.mode
    BY <2>2, <2>13, <2>14, ReadsOne
  <2>16. Holds(f[i + 1], Mid(i + 1)) /\ f[i + 1].cursor = a
    BY <2>3, <2>5, <2>15 DEF q, m, g
  <2>17. f[i + 1].player = f[i].player /\ f[i + 1].menu = f[i].menu /\ f[i + 1].mode = f[i].mode
    BY <2>3, <2>15 DEF g
  <2> QED BY <2>1, <2>16, <2>17 DEF a
<1>9. Good(n)
  <2> HIDE DEF T
  <2>1. Nat \subseteq T
    BY <1>7, <1>8, SetInduction
  <2>2. n \in T /\ n <= n
    BY <1>1, <2>1
  <2> HIDE DEF Good
  <2> QED BY <2>2 DEF T
<1>10. Mid(n) = Updated(known, new)
  <2>1. Seen(n) = DOMAIN new
    <3>1. Seen(n) \subseteq DOMAIN new
      BY <1>1
    <3>2. ASSUME NEW x \in DOMAIN new PROVE x \in Seen(n)
      <4>1. PICK i \in 1..n : ats[i] = x
        BY <1>1
      <4> QED BY <4>1
    <3> HIDE DEF Seen
    <3> QED BY <3>1, <3>2
  <2>2. Restricted(new, DOMAIN new) = new
    BY <1>3 DEF Restricted, IsMapping
  <2> QED BY <2>1, <2>2
<1> HIDE DEF Mid, Seen
<1>11. f[n].cursor = LastOf(new)
  BY <1>1, <1>9
<1> QED BY <1>4, <1>9, <1>10, <1>11
-------------------------------------------------------------------------------
(* The reducer holds what the game shows.                                     *)

PhaseInv == phase \in {"starting", "resetting", "deciding", "stepping", "ended"}

\* What the game can show.
GameType ==
  game \in [level : Levels, maps : [Levels -> Maps], xl : Nat \ {0}, hp : {0, 1},
            inv : [Slots -> {0, 1}], mode : {0, 1, 5, 7}, last : Coordinates \union {None},
            over : BOOLEAN]

\* Before its first messages the environment knows nothing; then the reducer holds
\* what the game shows, except that the health of a game that died unseen is stale.
ScreenInv ==
  /\ phase = "starting" => reducer = NewReducer /\ game.level = Start /\ game.xl = 1 /\ game.hp = 1
                           /\ game.last = None /\ game.maps = [l \in Levels |-> Nothing]
  /\ phase = "resetting" => game.level = Start
  /\ phase # "starting" =>
       /\ Holds(reducer, game.maps[game.level])
       /\ reducer.cursor = game.last /\ reducer.mode = game.mode
       /\ \E h \in {0, 1} : /\ reducer.player = PlayerOf(game.level, game.xl, h, game.inv)
                            /\ h = game.hp \/ game.hp = 0

\* What the environment has paid for, and of which levels the tracker knows.
ProgressInv ==
  /\ past.start[1] \in Levels /\ past.start[2] \in Nat /\ Depths \subseteq Nat \ {0}
  /\ phase \in {"starting", "resetting"} => discovery.levels = {}
  /\ phase \in {"deciding", "stepping"} =>
       /\ past.start[1][2] # 0
       /\ maxima \in [depth : Depths, xl : Nat] /\ \A d \in Depths : d <= maxima.depth
       /\ maxima.xl = current.player["xl"] /\ maxima.xl <= game.xl
       /\ total = 3 * (maxima.depth - past.start[1][2]) + 10 * (maxima.xl - past.start[2])

\* The name a level goes by in the tracker.
Named(l) == <<l[1], Larger(l[2], 1)>>

\* The cells that were shown, and what the score is to count of them.
Met(shown) == UNION {{Named(l)} \X shown[l] : l \in Levels}
Credits(shown) == UNION {({l} \X shown[l]) \X (1..Larger(l[2], 1)) : l \in Levels}

\* The tracker knows the cells that were shown.
DiscoveryInv ==
  /\ past = [start |-> past.start, shown |-> past.shown]
  /\ past.shown \in [Levels -> SUBSET Coordinates] /\ IsFiniteSet(Credits(past.shown))
  /\ discovery.cells = Met(past.shown) /\ discovery.score = Cardinality(Credits(past.shown))

\* A game that has just begun.
LEMMA InitScreen == Init => GameType /\ ScreenInv
<1> SUFFICES ASSUME Init PROVE GameType /\ ScreenInv
  OBVIOUS
<1>1. game = [level |-> Start, maps |-> [l \in Levels |-> Nothing], xl |-> 1, hp |-> 1,
              inv |-> [s \in Slots |-> 0], mode |-> 0, last |-> None, over |-> FALSE]
  BY DEF Init
<1>2. Nothing \in Maps
  <2>1. Nothing \in [{} -> Cells] /\ {} \in SUBSET Coordinates
    BY DEF Nothing
  <2> QED BY <2>1 DEF Maps
<1>3. GameType
  BY <1>1, <1>2, EpisodeAssumption DEF GameType
<1>4. ScreenInv
  BY <1>1 DEF Init, ScreenInv
<1> QED BY <1>3, <1>4

\* An empty map.
LEMMA HoldsNothing ==
  ASSUME NEW r, IsReducer(r)
  PROVE  /\ Holds(Cleared(r), Nothing) /\ Cleared(r).cursor = r.cursor
         /\ Cleared(r).player = r.player /\ Cleared(r).menu = r.menu /\ Cleared(r).mode = r.mode
<1>1. Cleared(r) = [player |-> r.player, cells |-> Nothing, semantic |-> Nothing, ordered |-> None,
                    cursor |-> r.cursor, menu |-> r.menu, mode |-> r.mode]
  <2>1. PICK p, c, s, o, k, u, i : r = [player |-> p, cells |-> c, semantic |-> s, ordered |-> o,
                                        cursor |-> k, menu |-> u, mode |-> i]
    BY DEF IsReducer
  <2> DEFINE e == Nothing
  <2>2. Cleared(r) = [r EXCEPT !.cells = e, !.semantic = e, !.ordered = None]
    BY DEF Cleared
  <2> HIDE DEF e
  <2>3. Cleared(r) = [player |-> p, cells |-> e, semantic |-> e, ordered |-> None,
                      cursor |-> k, menu |-> u, mode |-> i]
    BY <2>1, <2>2
  <2>4. r.player = p /\ r.cursor = k /\ r.menu = u /\ r.mode = i
    BY <2>1
  <2> QED BY <2>3, <2>4 DEF e
<1>2. DOMAIN Nothing = {} /\ IsMapping(Nothing)
  BY DEF Nothing, IsMapping
<1> DEFINE c == Cleared(r)
<1>3. IsReducer(c) /\ c.cells = Nothing /\ c.semantic = Nothing /\ c.ordered = None
  BY <1>1 DEF IsReducer
<1> HIDE DEF c
<1>4. Holds(c, Nothing)
  BY <1>2, <1>3 DEF Holds
<1> QED BY <1>1, <1>4 DEF c

\* A message that is not about the map leaves it alone, and so does a snapshot.
LEMMA HoldsPlayer ==
  ASSUME NEW r, NEW m, Holds(r, m), NEW p
  PROVE  Holds([r EXCEPT !.player = p], m)
<1>1. IsReducer(r)
  BY DEF Holds
<1>2. IsReducer([r EXCEPT !.player = p])
  BY <1>1 DEF IsReducer
<1> QED BY <1>1, <1>2 DEF Holds, IsReducer

LEMMA HoldsMenu ==
  ASSUME NEW r, NEW m, Holds(r, m), NEW u
  PROVE  Holds([r EXCEPT !.menu = u], m)
<1>1. IsReducer(r)
  BY DEF Holds
<1>2. IsReducer([r EXCEPT !.menu = u])
  BY <1>1 DEF IsReducer
<1> QED BY <1>1, <1>2 DEF Holds, IsReducer

LEMMA HoldsMode ==
  ASSUME NEW r, NEW m, Holds(r, m), NEW i
  PROVE  Holds([r EXCEPT !.mode = i], m)
<1>1. IsReducer(r)
  BY DEF Holds
<1>2. IsReducer([r EXCEPT !.mode = i])
  BY <1>1 DEF IsReducer
<1> QED BY <1>1, <1>2 DEF Holds, IsReducer

LEMMA HoldsOrdered ==
  ASSUME NEW r, NEW m, Holds(r, m)
  PROVE  Holds([r EXCEPT !.ordered = m], m)
<1>1. IsReducer(r)
  BY DEF Holds
<1>2. IsReducer([r EXCEPT !.ordered = m])
  BY <1>1 DEF IsReducer
<1> QED BY <1>1, <1>2 DEF Holds, IsReducer

\* A player message on a new level.
LEMMA PlayerMoved ==
  ASSUME NEW r, NEW l, NEW x, NEW h, NEW i, r.player = PlayerOf(l, x, h, i), NEW level
  PROVE  ReadsPlayer(r, PlaceOf(level)) = [r EXCEPT !.player = PlayerOf(level, x, h, i)]
<1> DEFINE p == PlayerOf(l, x, h, i)
           d == PlaceOf(level)
<1>1. Updated(p, d) = PlayerOf(level, x, h, i)
  BY DEF Updated, PlaceOf, PlayerOf
<1>2. "inv" \notin DOMAIN d
  BY DEF PlaceOf
<1> HIDE DEF d, p
<1>3. ReadsPlayer(r, d) = [r EXCEPT !.player = Updated(p, d)]
  BY <1>2 DEF ReadsPlayer, p
<1> QED BY <1>1, <1>3 DEF d

\* Player messages of one field.
LEMMA PlayerAdvanced ==
  ASSUME NEW r, NEW l, NEW x, NEW h, NEW i, r.player = PlayerOf(l, x, h, i), NEW v
  PROVE  ReadsPlayer(r, [xl |-> v]) = [r EXCEPT !.player = PlayerOf(l, v, h, i)]
<1> DEFINE p == PlayerOf(l, x, h, i)
           d == [xl |-> v]
<1>1. Updated(p, d) = PlayerOf(l, v, h, i)
  BY DEF Updated, PlayerOf
<1>2. "inv" \notin DOMAIN d
  OBVIOUS
<1> HIDE DEF d, p
<1>3. ReadsPlayer(r, d) = [r EXCEPT !.player = Updated(p, d)]
  BY <1>2 DEF ReadsPlayer, p
<1> QED BY <1>1, <1>3 DEF d

LEMMA PlayerHurt ==
  ASSUME NEW r, NEW l, NEW x, NEW h, NEW i, r.player = PlayerOf(l, x, h, i)
  PROVE  ReadsPlayer(r, [hp |-> 0]) = [r EXCEPT !.player = PlayerOf(l, x, 0, i)]
<1> DEFINE p == PlayerOf(l, x, h, i)
           d == [hp |-> 0]
<1>1. Updated(p, d) = PlayerOf(l, x, 0, i)
  BY DEF Updated, PlayerOf
<1>2. "inv" \notin DOMAIN d
  OBVIOUS
<1> HIDE DEF d, p
<1>3. ReadsPlayer(r, d) = [r EXCEPT !.player = Updated(p, d)]
  BY <1>2 DEF ReadsPlayer, p
<1> QED BY <1>1, <1>3 DEF d

LEMMA PlayerCarries ==
  ASSUME NEW r, NEW l, NEW x, NEW h, NEW i, r.player = PlayerOf(l, x, h, i), NEW v
  PROVE  ReadsPlayer(r, [inv |-> v]) = [r EXCEPT !.player = PlayerOf(l, x, h, Updated(i, v))]
<1> DEFINE p == PlayerOf(l, x, h, i)
           d == [inv |-> v]
           w == Updated(i, v)
<1>1. "inv" \in DOMAIN p /\ p["inv"] = i
  BY DEF PlayerOf
<1>2. "inv" \in DOMAIN d /\ [d EXCEPT !["inv"] = Updated(i, @)] = [inv |-> w]
  OBVIOUS
<1> HIDE DEF w
<1>3. Updated(p, [inv |-> w]) = PlayerOf(l, x, h, w)
  BY DEF Updated, PlayerOf
<1> HIDE DEF d, p
<1>4. r.player = p
  BY DEF p
<1>5. ReadsPlayer(r, d) = [r EXCEPT !.player = Updated(p, [d EXCEPT !["inv"] = Updated(i, @)])]
  BY <1>1, <1>2, <1>4 DEF ReadsPlayer
<1> QED BY <1>2, <1>3, <1>5 DEF d, w

LEMMA LastType ==
  ASSUME GameType, NEW new \in Maps
  PROVE  LastOf(new) \in Coordinates \union {None}
<1> DEFINE ats == RowOrder(DOMAIN new)
           n == Cardinality(DOMAIN new)
<1>1. n \in Nat /\ ats \in [1..n -> DOMAIN new] /\ LastOf(new) = IF n = 0 THEN game.last ELSE ats[n]
  BY EncodedIs
<1>2. DOMAIN new \subseteq Coordinates
  BY MapShape
<1> HIDE DEF ats, n
<1>3. n # 0 => n \in 1..n
  BY <1>1
<1> QED BY <1>1, <1>2, <1>3 DEF GameType

\* The reducer after a message that leaves the health of the game as it was.
LEMMA ScreenAfter ==
  ASSUME phase' # "starting", phase' = "resetting" => game'.level = Start, game'.hp = game.hp,
         Holds(reducer', game'.maps[game'.level]),
         reducer'.cursor = game'.last, reducer'.mode = game'.mode,
         NEW h \in {0, 1}, reducer'.player = PlayerOf(game'.level, game'.xl, h, game'.inv),
         h = game.hp \/ game.hp = 0
  PROVE  ScreenInv'
BY DEF ScreenInv

LEMMA JoinsScreen == ASSUME GameType, ScreenInv, Joins PROVE GameType' /\ ScreenInv'
<1>1. PICK at \in Coordinates, cell \in Cells :
        LET new == Only(at, cell) IN
        /\ game' = [game EXCEPT !.maps[Start] = new, !.last = LastOf(new), !.mode = 1]
        /\ reducer' = ReadsMode(ReadsMap(ReadsPlayer(reducer, PlayerOf(Start, 1, 1, game.inv)),
                                         [clear |-> TRUE, cells |-> Encoded(Nothing, new)]), 1)
  BY DEF Joins
<1> DEFINE new == Only(at, cell)
           p == PlayerOf(Start, 1, 1, game.inv)
           r == ReadsPlayer(reducer, p)
           map == [clear |-> TRUE, cells |-> Encoded(Nothing, new)]
           s == ReadsMap(r, map)
<1>2. game' = [game EXCEPT !.maps[Start] = new, !.last = LastOf(new), !.mode = 1]
      /\ reducer' = ReadsMode(s, 1)
  BY <1>1
<1>3. new \in Maps
  <2>1. new \in [{at} -> Cells] /\ {at} \in SUBSET Coordinates
    BY DEF Only
  <2> QED BY <2>1 DEF Maps
<1>4. LastOf(new) \in Coordinates \union {None} /\ Start \in Levels
  BY <1>3, LastType, EpisodeAssumption
<1> HIDE DEF new
<1>5. game' = [level |-> game.level, maps |-> [game.maps EXCEPT ![Start] = new], xl |-> game.xl,
               hp |-> game.hp, inv |-> game.inv, mode |-> 1, last |-> LastOf(new), over |-> game.over]
  BY <1>2 DEF GameType
<1>6. GameType'
  BY <1>3, <1>4, <1>5 DEF GameType
<1>7. phase = "starting" /\ phase' = "resetting" /\ reducer = NewReducer /\ game.level = Start
      /\ game.xl = 1 /\ game.hp = 1 /\ game.last = None
  BY DEF Joins, ScreenInv
<1>8. r = [player |-> p, cells |-> Nothing, semantic |-> Nothing, ordered |-> None, cursor |-> None,
           menu |-> None, mode |-> None]
  <2>1. Updated(Nothing, p) = p
    BY DEF Updated, Nothing, PlayerOf
  <2>2. "inv" \notin DOMAIN Nothing
    BY DEF Nothing
  <2> DEFINE e == Nothing
  <2>3. reducer = [player |-> e, cells |-> e, semantic |-> e, ordered |-> None, cursor |-> None,
                   menu |-> None, mode |-> None] /\ "inv" \notin DOMAIN e /\ Updated(e, p) = p
    BY <1>7, <2>1, <2>2 DEF NewReducer
  <2> HIDE DEF e, p
  <2> QED BY <2>3 DEF ReadsPlayer, e
<1>9. IsReducer(r) /\ r.player = p /\ r.cursor = None
  <2> DEFINE e == Nothing
  <2> HIDE DEF e, r, p
  <2>1. r = [player |-> p, cells |-> e, semantic |-> e, ordered |-> None, cursor |-> None,
             menu |-> None, mode |-> None]
    BY <1>8 DEF e
  <2> QED BY <2>1 DEF IsReducer
<1> HIDE DEF r, p
<1>10. /\ Holds(Cleared(r), Nothing) /\ Cleared(r).cursor = None /\ Cleared(r).player = p
  BY <1>9, HoldsNothing
<1>11. Nothing \in Maps /\ Updated(Nothing, new) = new
  BY <1>3, MapsUpdated
<1>12. Holds(s, new) /\ s.cursor = LastOf(new) /\ s.player = p
  <2> DEFINE start == Cleared(r)
  <2>1. start = (IF map.clear THEN Cleared(r) ELSE r) /\ map.cells = Encoded(Nothing, new)
    OBVIOUS
  <2>2. Holds(start, Nothing) /\ start.cursor = game.last
    BY <1>7, <1>10
  <2> HIDE DEF start, map
  <2>3. /\ Holds(ReadsMap(r, map), Updated(Nothing, new)) /\ ReadsMap(r, map).cursor = LastOf(new)
        /\ ReadsMap(r, map).player = start.player
    BY <1>3, <1>11, <2>1, <2>2, MapDecoded
  <2> QED BY <1>10, <1>11, <2>3 DEF start
<1> HIDE DEF s, map
<1>13. Holds(reducer', new) /\ reducer'.cursor = LastOf(new) /\ reducer'.player = p /\ reducer'.mode = 1
  <2>1. reducer' = [s EXCEPT !.mode = 1] /\ IsReducer(s)
    BY <1>2, <1>12 DEF ReadsMode, Holds
  <2>2. Holds([s EXCEPT !.mode = 1], new)
    BY <1>12, HoldsMode
  <2> QED BY <1>12, <2>1, <2>2 DEF IsReducer
<1>14. /\ game'.maps[game'.level] = new /\ game'.last = LastOf(new) /\ game'.mode = 1
       /\ p = PlayerOf(game'.level, game'.xl, 1, game'.inv) /\ game'.hp = game.hp /\ 1 = game.hp
  BY <1>4, <1>5, <1>7 DEF GameType, p
<1>15. ScreenInv'
  <2>1. phase' # "starting" /\ game'.level = Start
    BY <1>5, <1>7
  <2> QED BY <1>7, <1>13, <1>14, <2>1, ScreenAfter
<1> QED BY <1>6, <1>15

LEMMA DrawsScreen == ASSUME GameType, ScreenInv, Draws PROVE GameType' /\ ScreenInv'
<1>1. PICK S \in SUBSET Coordinates \ {{}} : \E new \in [S -> Cells] :
        LET known == game.maps[game.level] IN
        /\ game' = [game EXCEPT !.maps[game.level] = Updated(@, new), !.last = LastOf(new)]
        /\ reducer' = ReadsMap(reducer, [clear |-> FALSE, cells |-> Encoded(known, new)])
  BY DEF Draws
<1>2. PICK new \in [S -> Cells] :
        LET known == game.maps[game.level] IN
        /\ game' = [game EXCEPT !.maps[game.level] = Updated(@, new), !.last = LastOf(new)]
        /\ reducer' = ReadsMap(reducer, [clear |-> FALSE, cells |-> Encoded(known, new)])
  BY <1>1
<1> DEFINE known == game.maps[game.level]
           map == [clear |-> FALSE, cells |-> Encoded(known, new)]
<1>3. new \in Maps /\ known \in Maps /\ game.level \in Levels
  BY DEF Maps, GameType
<1>4. LastOf(new) \in Coordinates \union {None} /\ Updated(known, new) \in Maps
  BY <1>3, LastType, MapsUpdated
<1>5. game' = [level |-> game.level, maps |-> [game.maps EXCEPT ![game.level] = Updated(known, new)],
               xl |-> game.xl, hp |-> game.hp, inv |-> game.inv, mode |-> game.mode,
               last |-> LastOf(new), over |-> game.over]
  BY <1>2 DEF GameType
<1> HIDE DEF known
<1>6. GameType'
  BY <1>3, <1>4, <1>5 DEF GameType
<1>7. phase = "stepping" /\ phase' = "stepping"
  BY DEF Draws, Receiving, Sends, Unread
<1>8. /\ Holds(reducer, known) /\ reducer.cursor = game.last /\ reducer.mode = game.mode
      /\ \E h \in {0, 1} : /\ reducer.player = PlayerOf(game.level, game.xl, h, game.inv)
                           /\ h = game.hp \/ game.hp = 0
  BY <1>7 DEF ScreenInv, known
<1>9. PICK h \in {0, 1} : /\ reducer.player = PlayerOf(game.level, game.xl, h, game.inv)
                          /\ h = game.hp \/ game.hp = 0
  BY <1>8
<1>10. /\ Holds(reducer', Updated(known, new)) /\ reducer'.cursor = LastOf(new)
       /\ reducer'.player = reducer.player /\ reducer'.mode = reducer.mode
  <2>1. reducer = (IF map.clear THEN Cleared(reducer) ELSE reducer) /\ map.cells = Encoded(known, new)
        /\ reducer' = ReadsMap(reducer, map)
    BY <1>2 DEF known
  <2> HIDE DEF map
  <2>2. /\ Holds(ReadsMap(reducer, map), Updated(known, new)) /\ ReadsMap(reducer, map).cursor = LastOf(new)
        /\ ReadsMap(reducer, map).player = reducer.player /\ ReadsMap(reducer, map).mode = reducer.mode
    BY <1>3, <1>8, <2>1, MapDecoded
  <2> QED BY <2>1, <2>2
<1>11. /\ game'.maps[game'.level] = Updated(known, new) /\ game'.last = LastOf(new)
       /\ game'.mode = game.mode /\ game'.level = game.level /\ game'.xl = game.xl
       /\ game'.inv = game.inv /\ game'.hp = game.hp
  BY <1>3, <1>5 DEF GameType
<1>12. ScreenInv'
  <2>1. phase' # "starting" /\ phase' # "resetting"
    BY <1>7
  <2> QED BY <1>8, <1>9, <1>10, <1>11, <2>1, ScreenAfter
<1> QED BY <1>6, <1>12

LEMMA MovesScreen == ASSUME GameType, ScreenInv, Moves PROVE GameType' /\ ScreenInv'
<1>1. PICK level \in Levels \ {game.level} :
        LET new == game.maps[level] IN
        /\ game' = [game EXCEPT !.level = level, !.last = LastOf(new)]
        /\ reducer' = ReadsMap(ReadsPlayer(reducer, PlaceOf(level)),
                               [clear |-> TRUE, cells |-> Encoded(Nothing, new)])
  BY DEF Moves
<1> DEFINE new == game.maps[level]
           r == ReadsPlayer(reducer, PlaceOf(level))
           map == [clear |-> TRUE, cells |-> Encoded(Nothing, new)]
           start == Cleared(r)
<1>2. new \in Maps
  BY DEF GameType
<1>3. LastOf(new) \in Coordinates \union {None} /\ Updated(Nothing, new) = new /\ Nothing \in Maps
  BY <1>2, LastType, MapsUpdated
<1>4. game' = [level |-> level, maps |-> game.maps, xl |-> game.xl, hp |-> game.hp, inv |-> game.inv,
               mode |-> game.mode, last |-> LastOf(new), over |-> game.over]
  BY <1>1 DEF GameType
<1>5. GameType'
  <2> HIDE DEF new
  <2> QED BY <1>3, <1>4 DEF GameType
<1>6. phase = "stepping" /\ phase' = "stepping"
  BY DEF Moves, Receiving, Sends, Unread
<1>7. /\ Holds(reducer, game.maps[game.level]) /\ reducer.cursor = game.last /\ reducer.mode = game.mode
      /\ \E h \in {0, 1} : /\ reducer.player = PlayerOf(game.level, game.xl, h, game.inv)
                           /\ h = game.hp \/ game.hp = 0
  BY <1>6 DEF ScreenInv
<1>8. PICK h \in {0, 1} : /\ reducer.player = PlayerOf(game.level, game.xl, h, game.inv)
                          /\ h = game.hp \/ game.hp = 0
  BY <1>7
<1> DEFINE p == PlayerOf(level, game.xl, h, game.inv)
<1>9. r = [reducer EXCEPT !.player = p]
  <2> HIDE DEF p, r
  <2> QED BY <1>8, PlayerMoved DEF p, r
<1>10. IsReducer(r) /\ r.player = p /\ r.cursor = game.last /\ r.mode = game.mode
  <2>1. IsReducer(reducer) /\ Holds([reducer EXCEPT !.player = p], game.maps[game.level])
    <3>1. IsReducer(reducer)
      BY <1>7 DEF Holds
    <3> QED BY <1>7, <3>1, HoldsPlayer
  <2> HIDE DEF p, r
  <2> QED BY <1>7, <1>9, <2>1 DEF IsReducer, Holds
<1> HIDE DEF r, p, new
<1>11. /\ Holds(start, Nothing) /\ start.cursor = game.last /\ start.player = p /\ start.mode = game.mode
  BY <1>10, HoldsNothing
<1>12. /\ Holds(reducer', new) /\ reducer'.cursor = LastOf(new)
       /\ reducer'.player = p /\ reducer'.mode = game.mode
  <2>1. start = (IF map.clear THEN Cleared(r) ELSE r) /\ map.cells = Encoded(Nothing, new)
        /\ reducer' = ReadsMap(r, map)
    BY <1>1 DEF r, new
  <2> HIDE DEF map, start
  <2>2. /\ Holds(ReadsMap(r, map), Updated(Nothing, new)) /\ ReadsMap(r, map).cursor = LastOf(new)
        /\ ReadsMap(r, map).player = start.player /\ ReadsMap(r, map).mode = start.mode
    BY <1>2, <1>3, <1>11, <2>1, MapDecoded
  <2> QED BY <1>3, <1>11, <2>1, <2>2
<1>13. /\ game'.maps[game'.level] = new /\ game'.last = LastOf(new) /\ game'.hp = game.hp
       /\ game'.mode = game.mode /\ PlayerOf(game'.level, game'.xl, h, game'.inv) = p
  BY <1>4 DEF GameType, p, new
<1>14. ScreenInv'
  <2>1. phase' # "starting" /\ phase' # "resetting"
    BY <1>6
  <2> QED BY <1>8, <1>12, <1>13, <2>1, ScreenAfter
<1> QED BY <1>5, <1>14

\* Messages that are not about the map.
LEMMA AdvancesScreen == ASSUME GameType, ScreenInv, Advances PROVE GameType' /\ ScreenInv'
<1>1. /\ game' = [game EXCEPT !.xl = @ + 1] /\ reducer' = ReadsPlayer(reducer, [xl |-> game.xl + 1])
      /\ phase = "stepping" /\ phase' = "stepping"
  BY DEF Advances, Receiving, Sends, Unread
<1>2. game' = [level |-> game.level, maps |-> game.maps, xl |-> game.xl + 1, hp |-> game.hp,
               inv |-> game.inv, mode |-> game.mode, last |-> game.last, over |-> game.over]
  BY <1>1 DEF GameType
<1>3. GameType'
  BY <1>2 DEF GameType
<1>4. /\ Holds(reducer, game.maps[game.level]) /\ reducer.cursor = game.last /\ reducer.mode = game.mode
      /\ \E h \in {0, 1} : /\ reducer.player = PlayerOf(game.level, game.xl, h, game.inv)
                           /\ h = game.hp \/ game.hp = 0
  BY <1>1 DEF ScreenInv
<1>5. PICK h \in {0, 1} : /\ reducer.player = PlayerOf(game.level, game.xl, h, game.inv)
                          /\ h = game.hp \/ game.hp = 0
  BY <1>4
<1> DEFINE p == PlayerOf(game.level, game.xl + 1, h, game.inv)
<1>6. reducer' = [reducer EXCEPT !.player = p]
  <2> DEFINE x == game.xl + 1
  <2>1. reducer' = ReadsPlayer(reducer, [xl |-> x])
    BY <1>1
  <2> HIDE DEF x
  <2>2. ReadsPlayer(reducer, [xl |-> x]) = [reducer EXCEPT !.player = PlayerOf(game.level, x, h, game.inv)]
    BY <1>5, PlayerAdvanced
  <2> QED BY <2>1, <2>2 DEF x
<1> HIDE DEF p
<1>7. Holds(reducer', game.maps[game.level])
  BY <1>4, <1>6, HoldsPlayer
<1>8. reducer'.player = p /\ reducer'.cursor = game.last /\ reducer'.mode = game.mode
  BY <1>4, <1>6 DEF Holds, IsReducer
<1>9. /\ game'.maps = game.maps /\ game'.level = game.level /\ game'.last = game.last
      /\ game'.hp = game.hp /\ game'.mode = game.mode
      /\ PlayerOf(game'.level, game'.xl, h, game'.inv) = p
  BY <1>2 DEF p
<1>10. ScreenInv'
  <2>1. phase' # "starting" /\ phase' # "resetting"
    BY <1>1
  <2> QED BY <1>5, <1>7, <1>8, <1>9, <2>1, ScreenAfter
<1> QED BY <1>3, <1>10

LEMMA CarriesScreen == ASSUME GameType, ScreenInv, Carries PROVE GameType' /\ ScreenInv'
<1>1. PICK s \in Slots : /\ game' = [game EXCEPT !.inv[s] = 1 - @]
                         /\ reducer' = ReadsPlayer(reducer, [inv |-> Only(s, 1 - game.inv[s])])
  BY DEF Carries
<1>2. phase = "stepping" /\ phase' = "stepping"
  BY DEF Carries, Receiving, Sends, Unread
<1> DEFINE v == Only(s, 1 - game.inv[s])
           inv == [game.inv EXCEPT ![s] = 1 - game.inv[s]]
<1>3. game' = [level |-> game.level, maps |-> game.maps, xl |-> game.xl, hp |-> game.hp,
               inv |-> inv, mode |-> game.mode, last |-> game.last, over |-> game.over]
  BY <1>1 DEF GameType
<1>4. inv \in [Slots -> {0, 1}]
  <2>1. game.inv \in [Slots -> {0, 1}]
    BY DEF GameType
  <2>2. 1 - game.inv[s] \in {0, 1}
    BY <2>1
  <2> QED BY <2>1, <2>2
<1>5. Updated(game.inv, v) = inv
  <2>1. game.inv \in [Slots -> {0, 1}]
    BY DEF GameType
  <2> DEFINE i == game.inv
             w == 1 - game.inv[s]
  <2>2. i \in [Slots -> {0, 1}]
    BY <2>1
  <2> HIDE DEF i, w
  <2>3. Updated(i, Only(s, w)) = [i EXCEPT ![s] = w]
    <3>1. Updated(i, Only(s, w)) = [k \in Slots |-> IF k = s THEN w ELSE i[k]]
      BY <2>2 DEF Updated, Only
    <3> QED BY <2>2, <3>1
  <2> QED BY <2>3 DEF i, w
<1> HIDE DEF inv
<1>6. GameType'
  BY <1>3, <1>4 DEF GameType
<1>7. /\ Holds(reducer, game.maps[game.level]) /\ reducer.cursor = game.last /\ reducer.mode = game.mode
      /\ \E h \in {0, 1} : /\ reducer.player = PlayerOf(game.level, game.xl, h, game.inv)
                           /\ h = game.hp \/ game.hp = 0
  BY <1>2 DEF ScreenInv
<1>8. PICK h \in {0, 1} : /\ reducer.player = PlayerOf(game.level, game.xl, h, game.inv)
                          /\ h = game.hp \/ game.hp = 0
  BY <1>7
<1> DEFINE p == PlayerOf(game.level, game.xl, h, inv)
<1>9. reducer' = [reducer EXCEPT !.player = p]
  <2> HIDE DEF v
  <2>1. reducer' = ReadsPlayer(reducer, [inv |-> v])
    BY <1>1 DEF v
  <2>2. ReadsPlayer(reducer, [inv |-> v])
          = [reducer EXCEPT !.player = PlayerOf(game.level, game.xl, h, Updated(game.inv, v))]
    BY <1>8, PlayerCarries
  <2> QED BY <1>5, <2>1, <2>2
<1> HIDE DEF p
<1>10. Holds(reducer', game.maps[game.level])
  BY <1>7, <1>9, HoldsPlayer
<1>11. reducer'.player = p /\ reducer'.cursor = game.last /\ reducer'.mode = game.mode
  BY <1>7, <1>9 DEF Holds, IsReducer
<1>12. /\ game'.maps = game.maps /\ game'.level = game.level /\ game'.last = game.last
       /\ game'.hp = game.hp /\ game'.mode = game.mode
       /\ PlayerOf(game'.level, game'.xl, h, game'.inv) = p
  BY <1>3 DEF p
<1>13. ScreenInv'
  <2>1. phase' # "starting" /\ phase' # "resetting"
    BY <1>2
  <2> QED BY <1>8, <1>10, <1>11, <1>12, <2>1, ScreenAfter
<1> QED BY <1>6, <1>13

\* What leaves the game, the map and the player as they are.
LEMMA SameScreen ==
  ASSUME GameType, ScreenInv, phase # "starting", phase' \notin {"starting", "resetting"},
         \/ reducer' = reducer \/ (\E u : reducer' = [reducer EXCEPT !.menu = u])
         \/ reducer' = [reducer EXCEPT !.ordered = game.maps[game.level]],
         game' = game
  PROVE  GameType' /\ ScreenInv'
<1>1. /\ Holds(reducer, game.maps[game.level]) /\ reducer.cursor = game.last /\ reducer.mode = game.mode
      /\ \E h \in {0, 1} : /\ reducer.player = PlayerOf(game.level, game.xl, h, game.inv)
                           /\ h = game.hp \/ game.hp = 0
  BY DEF ScreenInv
<1>2. Holds(reducer', game.maps[game.level])
  BY <1>1, HoldsMenu, HoldsOrdered
<1>3. IsReducer(reducer)
  BY <1>1 DEF Holds
<1>4. reducer'.cursor = reducer.cursor /\ reducer'.mode = reducer.mode /\ reducer'.player = reducer.player
  BY <1>3 DEF IsReducer
<1>5. ScreenInv'
  BY <1>1, <1>2, <1>4 DEF ScreenInv
<1> QED BY <1>5 DEF GameType

LEMMA QuietScreen == ASSUME GameType, ScreenInv, Says \/ Layers PROVE GameType' /\ ScreenInv'
<1>1. phase = "stepping" /\ phase' = "stepping" /\ game' = game
  BY DEF Says, Layers, Receiving, Sends, Unread
<1>2. reducer' = reducer \/ (\E u : reducer' = [reducer EXCEPT !.menu = u])
  BY DEF Says, Layers, ReadsMenu
<1> QED BY <1>1, <1>2, SameScreen

LEMMA ModesScreen == ASSUME GameType, ScreenInv, Modes PROVE GameType' /\ ScreenInv'
<1>1. PICK mode \in {0, 1, 5, 7} : game' = [game EXCEPT !.mode = mode] /\ reducer' = ReadsMode(reducer, mode)
  BY DEF Modes
<1>2. phase = "stepping" /\ phase' = "stepping"
  BY DEF Modes, Receiving, Sends, Unread
<1>3. game' = [level |-> game.level, maps |-> game.maps, xl |-> game.xl, hp |-> game.hp,
               inv |-> game.inv, mode |-> mode, last |-> game.last, over |-> game.over]
  BY <1>1 DEF GameType
<1>4. GameType'
  BY <1>3 DEF GameType
<1>5. /\ Holds(reducer, game.maps[game.level]) /\ reducer.cursor = game.last
      /\ \E h \in {0, 1} : /\ reducer.player = PlayerOf(game.level, game.xl, h, game.inv)
                           /\ h = game.hp \/ game.hp = 0
  BY <1>2 DEF ScreenInv
<1>6. reducer' = [reducer EXCEPT !.mode = mode]
  BY <1>1 DEF ReadsMode
<1>7. Holds(reducer', game.maps[game.level])
  BY <1>5, <1>6, HoldsMode
<1>8. IsReducer(reducer)
  BY <1>5 DEF Holds
<1>9. reducer'.cursor = reducer.cursor /\ reducer'.mode = mode /\ reducer'.player = reducer.player
  BY <1>6, <1>8 DEF IsReducer
<1>10. ScreenInv'
  BY <1>2, <1>3, <1>5, <1>7, <1>9 DEF ScreenInv
<1> QED BY <1>4, <1>10

LEMMA DiesScreen == ASSUME GameType, ScreenInv, Dies PROVE GameType' /\ ScreenInv'
<1>1. /\ phase = "stepping" /\ phase' = "stepping" /\ game' = [game EXCEPT !.hp = 0]
      /\ reducer' = ReadsPlayer(reducer, [hp |-> 0]) \/ reducer' = reducer
  BY DEF Dies, Receiving, Sends, Unread
<1>2. game' = [level |-> game.level, maps |-> game.maps, xl |-> game.xl, hp |-> 0,
               inv |-> game.inv, mode |-> game.mode, last |-> game.last, over |-> game.over]
  BY <1>1 DEF GameType
<1>3. GameType'
  BY <1>2 DEF GameType
<1>4. /\ Holds(reducer, game.maps[game.level]) /\ reducer.cursor = game.last /\ reducer.mode = game.mode
      /\ \E h \in {0, 1} : reducer.player = PlayerOf(game.level, game.xl, h, game.inv)
  BY <1>1 DEF ScreenInv
<1>5. PICK h \in {0, 1} : reducer.player = PlayerOf(game.level, game.xl, h, game.inv)
  BY <1>4
<1> DEFINE p == PlayerOf(game.level, game.xl, 0, game.inv)
<1>6. reducer' = [reducer EXCEPT !.player = p] \/ reducer' = reducer
  <2>1. ReadsPlayer(reducer, [hp |-> 0]) = [reducer EXCEPT !.player = p]
    BY <1>5, PlayerHurt
  <2> QED BY <1>1, <2>1
<1>7. Holds(reducer', game.maps[game.level])
  BY <1>4, <1>6, HoldsPlayer
<1>8. IsReducer(reducer)
  BY <1>4 DEF Holds
<1>9. reducer'.cursor = reducer.cursor /\ reducer'.mode = reducer.mode
      /\ reducer'.player \in {p, reducer.player}
  <2> HIDE DEF p
  <2> QED BY <1>6, <1>8 DEF IsReducer
<1>10. \E i \in {0, 1} : reducer'.player = PlayerOf(game.level, game.xl, i, game.inv)
  BY <1>5, <1>9
<1>11. ScreenInv'
  BY <1>1, <1>2, <1>4, <1>7, <1>9, <1>10 DEF ScreenInv
<1> QED BY <1>3, <1>11

LEMMA ExitsScreen == ASSUME GameType, ScreenInv, Exits PROVE GameType' /\ ScreenInv'
<1>1. /\ phase = "stepping" /\ phase' = "stepping" /\ reducer' = reducer
      /\ game' = game \/ game' = [game EXCEPT !.over = TRUE]
  BY DEF Exits, Sends, Unread
<1>2. CASE game' = game
  BY <1>1, <1>2, SameScreen
<1>3. CASE game' = [game EXCEPT !.over = TRUE]
  <2>1. game' = [level |-> game.level, maps |-> game.maps, xl |-> game.xl, hp |-> game.hp,
                 inv |-> game.inv, mode |-> game.mode, last |-> game.last, over |-> TRUE]
    BY <1>3 DEF GameType
  <2>2. GameType'
    BY <2>1 DEF GameType
  <2>3. ScreenInv'
    BY <1>1, <2>1 DEF ScreenInv
  <2> QED BY <2>2, <2>3
<1> QED BY <1>1, <1>2, <1>3

\* The snapshot of an input boundary, and what the reducer keeps of it.
LEMMA SnapshotIs ==
  ASSUME GameType, ScreenInv, phase # "starting"
  PROVE  /\ Ordered(reducer) = game.maps[game.level]
         /\ \E h \in {0, 1} :
              /\ h = game.hp \/ game.hp = 0
              /\ Snapshot(reducer, messages).player
                   = PlayerOf(game.level, game.xl, h, Restricted(game.inv, {s \in Slots : game.inv[s] > 0}))
         /\ Snapshot(reducer, messages).cells = game.maps[game.level]
         /\ Snapshot(reducer, messages).input_mode = game.mode
<1> DEFINE m == game.maps[game.level]
           c == Restricted(game.inv, {s \in Slots : game.inv[s] > 0})
<1>1. Holds(reducer, m) /\ reducer.mode = game.mode
  BY DEF ScreenInv
<1>2. Ordered(reducer) = m
  BY <1>1 DEF Ordered, Holds
<1>3. m \in Maps
  BY DEF GameType
<1>4. Views(reducer) = m
  <2>1. IsMapping(m)
    BY <1>3, MapShape
  <2> HIDE DEF m
  <2> QED BY <1>2, <2>1 DEF Views, Restricted, IsMapping
<1>5. PICK h \in {0, 1} : /\ reducer.player = PlayerOf(game.level, game.xl, h, game.inv)
                          /\ h = game.hp \/ game.hp = 0
  BY DEF ScreenInv
<1>6. SemanticPlayer(reducer) = PlayerOf(game.level, game.xl, h, c)
  <2> DEFINE p == PlayerOf(game.level, game.xl, h, game.inv)
             q == PlayerOf(game.level, game.xl, h, c)
             K == {"place", "depth", "xl", "hp", "inv"}
  <2>1. DOMAIN p = K /\ p["inv"] = game.inv
    BY DEF PlayerOf
  <2>2. DOMAIN game.inv = Slots
    BY DEF GameType
  <2>3. SemanticPlayer(reducer) = [f \in K |-> IF f = "inv" THEN c ELSE p[f]]
    <3> HIDE DEF p, K
    <3> QED BY <1>5, <2>1, <2>2 DEF SemanticPlayer, p
  <2>4. \A f \in K : q[f] = IF f = "inv" THEN c ELSE p[f]
    <3> HIDE DEF c
    <3> QED BY DEF PlayerOf
  <2>5. q = [f \in K |-> q[f]]
    <3> HIDE DEF c
    <3> QED BY DEF PlayerOf
  <2> HIDE DEF p, q, K, c
  <2> QED BY <2>3, <2>4, <2>5 DEF q
<1>7. /\ Snapshot(reducer, messages).player = PlayerOf(game.level, game.xl, h, c)
      /\ Snapshot(reducer, messages).cells = m /\ Snapshot(reducer, messages).input_mode = game.mode
  <2> HIDE DEF m, c
  <2> QED BY <1>1, <1>4, <1>6 DEF Snapshot
<1> HIDE DEF m, c
<1> QED BY <1>2, <1>5, <1>7 DEF m, c

\* An input boundary changes nothing of this.
LEMMA BoundaryScreen ==
  ASSUME GameType, ScreenInv, phase # "starting", phase' \notin {"starting", "resetting"},
         reducer' = Emitted(reducer), game' = game
  PROVE  GameType' /\ ScreenInv'
<1>1. Ordered(reducer) = game.maps[game.level]
  BY SnapshotIs
<1>2. reducer' = [reducer EXCEPT !.ordered = game.maps[game.level]]
  BY <1>1 DEF Emitted
<1> QED BY <1>2, SameScreen

LEMMA NextScreen ==
  ASSUME PhaseInv, GameType, ScreenInv, [Next]_vars
  PROVE  GameType' /\ ScreenInv'
<1>1. CASE Draws \/ Moves \/ Advances \/ Carries
  BY <1>1, DrawsScreen, MovesScreen, AdvancesScreen, CarriesScreen
<1>2. CASE Joins \/ Says \/ Layers \/ Modes \/ Dies \/ Exits
  BY <1>2, JoinsScreen, QuietScreen, ModesScreen, DiesScreen, ExitsScreen
<1>3. CASE Reset
  <2>1. phase # "starting" /\ phase' \notin {"starting", "resetting"} /\ reducer' = Emitted(reducer) /\ game' = game
    BY <1>3 DEF Reset, Boundary
  <2> QED BY <2>1, BoundaryScreen
<1>4. CASE Steps
  <2>1. phase # "starting" /\ phase' \notin {"starting", "resetting"} /\ reducer' = Emitted(reducer) /\ game' = game
    BY <1>4 DEF Steps, Boundary
  <2> QED BY <2>1, BoundaryScreen
<1>5. CASE Decides
  <2>1. phase # "starting" /\ phase' \notin {"starting", "resetting"} /\ reducer' = reducer /\ game' = game
    BY <1>5 DEF Decides
  <2> QED BY <2>1, SameScreen
<1>6. CASE UNCHANGED vars
  BY <1>6 DEF vars, GameType, ScreenInv
<1> QED BY <1>1, <1>2, <1>3, <1>4, <1>5, <1>6 DEF Next, Game

-------------------------------------------------------------------------------
(* What the readers hold, and when a game is over.                            *)

\* The fields of the player that are shown from the first message on.
PlayerFields == {"place", "depth", "xl", "hp", "inv"}

LEMMA SnapshotFields ==
  ASSUME GameType, ScreenInv, phase # "starting"
  PROVE  DOMAIN Snapshot(reducer, messages).player = PlayerFields
<1> DEFINE p == Snapshot(reducer, messages).player
           c == Restricted(game.inv, {s \in Slots : game.inv[s] > 0})
<1>1. \E h \in {0, 1} : (h = game.hp \/ game.hp = 0) /\ p = PlayerOf(game.level, game.xl, h, c)
  BY SnapshotIs
<1> HIDE DEF p, c
<1>2. PICK h : p = PlayerOf(game.level, game.xl, h, c)
  BY <1>1
<1> QED BY <1>2 DEF PlayerOf, PlayerFields, p

\* What the readers hold is what the environment shows, and it is a snapshot with
\* every field of the player: none is ever new.
ReadersInv ==
  /\ detached = current /\ transient = current
  /\ phase \in {"deciding", "stepping", "ended"} =>
       IsSnapshot(current) /\ DOMAIN current.player = PlayerFields

\* The action being played was legal when it was chosen.
ActionInv == phase = "stepping" => action \in Legal(current)

\* A game that is over has said so in the batch that is not yet looked at, unless
\* the episode has ended.
OutcomeInv ==
  /\ {"hp", "over"} \subseteq DOMAIN game
  /\ phase # "ended" /\ (game.hp = 0 \/ game.over) => phase = "stepping" /\ outcome # None
  /\ game.hp \in {0, 1} /\ game.over \in BOOLEAN
  /\ phase # "stepping" => outcome = None

EpisodeInv == PhaseInv /\ ReadersInv /\ ActionInv /\ OutcomeInv

LEMMA InitInv == Init => EpisodeInv
BY DEF Init, EpisodeInv, PhaseInv, ReadersInv, ActionInv, OutcomeInv

\* A message of the game changes nothing the policy or a reader holds, and if it
\* ends the game it says so.
LEMMA MessageInv ==
  ASSUME EpisodeInv, phase = "stepping", Unread,
         \/ game' = game /\ outcome' = outcome
         \/ game'.hp = game.hp /\ game'.over = game.over /\ DOMAIN game' = DOMAIN game
              /\ outcome' = outcome
         \/ game'.hp \in {0, 1} /\ game'.over \in BOOLEAN /\ DOMAIN game' = DOMAIN game
              /\ outcome' # None
  PROVE  EpisodeInv'
<1>1. PhaseInv' /\ ActionInv' /\ ReadersInv'
  BY DEF EpisodeInv, PhaseInv, ReadersInv, ActionInv, Unread, environment, readers
<1>2. OutcomeInv'
  BY DEF EpisodeInv, OutcomeInv, Unread
<1> QED
  BY <1>1, <1>2 DEF EpisodeInv

\* Joins, before the environment looks at anything.
LEMMA JoinsInv == ASSUME EpisodeInv, Joins PROVE EpisodeInv'
<1>1. PICK at, cell : game' = [game EXCEPT !.maps[Start] = Only(at, cell),
                                          !.last = LastOf(Only(at, cell)), !.mode = 1]
  BY DEF Joins
<1>2. game'.hp = game.hp /\ game'.over = game.over /\ DOMAIN game' = DOMAIN game
  BY <1>1 DEF EpisodeInv, OutcomeInv
<1> QED
  BY <1>2 DEF Joins, EpisodeInv, PhaseInv, ReadersInv, ActionInv, OutcomeInv, environment, readers

\* Messages that do not end the game.
LEMMA RunningInv ==
  ASSUME EpisodeInv, Draws \/ Moves \/ Advances \/ Carries \/ Says \/ Layers \/ Modes
  PROVE  EpisodeInv'
<1> USE DEF EpisodeInv, OutcomeInv
<1>1. phase = "stepping" /\ Unread
  BY DEF Draws, Moves, Advances, Carries, Says, Layers, Modes, Receiving, Sends
<1>2. outcome' = outcome
  BY DEF Draws, Moves, Advances, Carries, Says, Layers, Modes, Quiet
<1>3. game'.hp = game.hp /\ game'.over = game.over /\ DOMAIN game' = DOMAIN game
  <2>1. CASE Draws  BY <2>1 DEF Draws
  <2>2. CASE Moves  BY <2>2 DEF Moves
  <2>3. CASE Advances  BY <2>3 DEF Advances
  <2>4. CASE Carries  BY <2>4 DEF Carries
  <2>5. CASE Says \/ Layers  BY <2>5 DEF Says, Layers
  <2>6. CASE Modes  BY <2>6 DEF Modes
  <2> QED  BY <2>1, <2>2, <2>3, <2>4, <2>5, <2>6
<1> QED
  BY <1>1, <1>2, <1>3, MessageInv

\* Messages that may.
LEMMA EndingInv == ASSUME EpisodeInv, Dies \/ Exits PROVE EpisodeInv'
<1> USE DEF EpisodeInv, OutcomeInv
<1>1. phase = "stepping" /\ Unread
  BY DEF Dies, Exits, Receiving, Sends
<1>2. CASE Dies
  <2>1. outcome' # None
    BY <1>2, NoneAssumption DEF Dies, Outcome
  <2>2. game'.hp \in {0, 1} /\ game'.over \in BOOLEAN /\ DOMAIN game' = DOMAIN game
    BY <1>2 DEF Dies
  <2> QED
    BY <1>1, <2>1, <2>2, MessageInv
<1>3. CASE Exits
  <2>1. CASE game' = game /\ outcome' = outcome
    BY <1>1, <2>1, MessageInv
  <2>2. CASE game' = [game EXCEPT !.over = TRUE]
                /\ outcome' = Outcome(IF game.hp > 0 THEN "won" ELSE "dead")
    <3>1. outcome' # None
      BY <2>2, NoneAssumption DEF Outcome
    <3>2. game'.hp \in {0, 1} /\ game'.over \in BOOLEAN /\ DOMAIN game' = DOMAIN game
      BY <2>2
    <3> QED
      BY <1>1, <3>1, <3>2, MessageInv
  <2> QED
    BY <1>3, <2>1, <2>2 DEF Exits
<1> QED
  BY <1>2, <1>3

LEMMA ResetInv == ASSUME EpisodeInv, GameType, ScreenInv, Reset PROVE EpisodeInv'
<1>1. IsSnapshot(Snapshot(reducer, messages)) /\ DOMAIN Snapshot(reducer, messages).player = PlayerFields
  BY SnapshotShape, SnapshotFields DEF Reset
<1>2. PhaseInv' /\ ActionInv'
  BY DEF Reset, Boundary, PhaseInv, ActionInv
<1>3. ReadersInv'
  BY <1>1 DEF Reset, Boundary, ReadersInv
<1>4. OutcomeInv'
  BY DEF EpisodeInv, OutcomeInv, Reset, Boundary
<1> QED
  BY <1>2, <1>3, <1>4 DEF EpisodeInv

LEMMA DecidesInv == ASSUME EpisodeInv, Decides PROVE EpisodeInv'
<1>1. PhaseInv' /\ ActionInv'
  BY DEF Decides, PhaseInv, ActionInv, environment
<1>2. ReadersInv'
  BY DEF EpisodeInv, ReadersInv, Decides, environment
<1>3. OutcomeInv'
  BY DEF EpisodeInv, OutcomeInv, Decides
<1> QED
  BY <1>1, <1>2, <1>3 DEF EpisodeInv

\* The record of a step takes both readers to the new snapshot.
LEMMA StepsInv == ASSUME EpisodeInv, GameType, ScreenInv, Steps PROVE EpisodeInv'
<1> DEFINE new == Snapshot(reducer, messages)
<1>1. IsSnapshot(new) /\ DOMAIN new.player = PlayerFields
  BY SnapshotShape, SnapshotFields DEF Steps
<1>2. IsSnapshot(current) /\ DOMAIN current.player = PlayerFields
      /\ detached = current /\ transient = current
  BY DEF EpisodeInv, ReadersInv, Steps
<1>3. current' = new
  BY DEF Steps, Boundary
<1>4. phase' = (IF outcome # None \/ Truncated(steps + 1) THEN "ended" ELSE "deciding")
  BY DEF Steps, Boundary
<1>5. detached' = ApplyDelta(current, ObservationDelta(current, new))
  BY <1>2 DEF Steps, ReadsRecord
<1>6. transient' = TransientApply(current, ObservationDelta(current, new))
  BY <1>2 DEF Steps, ReadsRecord
<1> HIDE DEF new
<1>7. detached' = new
  <2>1. ~ NewNull(current.player, new.player)
    BY <1>1, <1>2 DEF NewNull
  <2> QED
    BY <1>1, <1>2, <1>5, <2>1, PatchReconstructs
<1>8. transient' = new
  BY <1>1, <1>2, <1>6, <1>7, <1>5, TransientIsDetached
<1>9. ReadersInv'
  BY <1>1, <1>3, <1>7, <1>8 DEF ReadersInv
<1>10. PhaseInv' /\ ActionInv'
  BY <1>4 DEF PhaseInv, ActionInv
<1>11. OutcomeInv'
  <2>1. game' = game /\ outcome' = None /\ phase = "stepping"
    BY DEF Steps, Boundary
  <2>2. outcome = None => ~ (game.hp = 0 \/ game.over)
    BY <2>1 DEF EpisodeInv, OutcomeInv
  <2>3. outcome # None => phase' = "ended"
    BY <1>4
  <2>4. ~ (phase' # "ended" /\ (game.hp = 0 \/ game.over))
    BY <2>2, <2>3
  <2>5. {"hp", "over"} \subseteq DOMAIN game /\ game.hp \in {0, 1} /\ game.over \in BOOLEAN
    BY DEF EpisodeInv, OutcomeInv
  <2> QED
    BY <2>1, <2>4, <2>5 DEF OutcomeInv
<1> QED
  BY <1>9, <1>10, <1>11 DEF EpisodeInv

LEMMA NextInv == EpisodeInv /\ GameType /\ ScreenInv /\ [Next]_vars => EpisodeInv'
<1> SUFFICES ASSUME EpisodeInv, GameType, ScreenInv, [Next]_vars PROVE EpisodeInv'
  OBVIOUS
<1>1. CASE UNCHANGED vars
  BY <1>1 DEF vars, environment, readers, EpisodeInv, PhaseInv, ReadersInv, ActionInv, OutcomeInv
<1>2. CASE Game
  BY <1>2, JoinsInv, RunningInv, EndingInv DEF Game
<1> QED
  BY <1>1, <1>2, ResetInv, DecidesInv, StepsInv DEF Next

LEMMA Invariance == Spec => []EpisodeInv
<1> DEFINE I == EpisodeInv /\ GameType /\ ScreenInv
<1>1. Init => I
  BY InitInv, InitScreen
<1>2. I /\ [Next]_vars => I'
  BY NextInv, NextScreen DEF EpisodeInv
<1>3. I => EpisodeInv
  OBVIOUS
<1> QED BY <1>1, <1>2, <1>3, PTL DEF Spec

\* Both ways of reading a trajectory give the observations that were shown, after
\* every record and for every game.
THEOREM ReadersReconstruct == Spec => []ReadersAgree
<1>1. EpisodeInv => ReadersAgree
  BY DEF EpisodeInv, ReadersInv, ReadersAgree
<1> QED
  BY <1>1, Invariance, PTL

\* The environment asks for no action in a game that is over.
THEOREM NoActionAfterEnd == Spec => []DeadNeverActs
<1>1. EpisodeInv => DeadNeverActs
  BY DEF EpisodeInv, OutcomeInv, DeadNeverActs
<1> QED
  BY <1>1, Invariance, PTL

\* What the reader that replays in place learns from is the decision that was made.
THEOREM SamplesAreDecisions == Spec => SampleIsDecision
<1> DEFINE A == sample' # None =>
                  sample' = [observation |-> current, action |-> action] /\ action \in Legal(current)
<1>1. EpisodeInv /\ [Next]_vars => [A]_sample
  <2> SUFFICES ASSUME EpisodeInv, [Next]_vars PROVE [A]_sample
    OBVIOUS
  <2>1. CASE Steps
    BY <2>1 DEF Steps, ReadsRecord, EpisodeInv, ReadersInv, ActionInv
  <2>2. CASE Decides
    BY <2>2 DEF Decides
  <2>3. CASE ~ Steps /\ ~ Decides
    BY <2>3 DEF Next, Game, Joins, Draws, Moves, Advances, Carries, Says, Layers, Modes, Dies,
                Exits, Sends, Unread, Reset, vars, readers
  <2> QED
    BY <2>1, <2>2, <2>3
<1> QED
  BY <1>1, Invariance, PTL DEF Spec, SampleIsDecision
-------------------------------------------------------------------------------
(* What the policy decides on, what it is paid, and what the tracker counts.  *)

\* What is decided on was shown by a game that goes on.
LEMMA NextView ==
  ASSUME EpisodeInv, GameType, ScreenInv, ViewIsGames, [Next]_vars
  PROVE  ViewIsGames'
<1> SUFFICES ASSUME phase' = "deciding" PROVE Shows(current)'
  BY DEF ViewIsGames
<1>1. CASE Reset \/ Steps
  <2>1. phase # "starting" /\ game.hp # 0
    BY <1>1 DEF Reset, Steps, Boundary, EpisodeInv, OutcomeInv
  <2>2. current' = Snapshot(reducer, messages) /\ game' = game
    BY <1>1 DEF Reset, Steps, Boundary
  <2> DEFINE o == Snapshot(reducer, messages)
             c == Restricted(game.inv, {s \in Slots : game.inv[s] > 0})
  <2>3. /\ \E h \in {0, 1} : /\ h = game.hp \/ game.hp = 0
                             /\ o.player = PlayerOf(game.level, game.xl, h, c)
        /\ o.cells = game.maps[game.level] /\ o.input_mode = game.mode
    BY <2>1, SnapshotIs
  <2> HIDE DEF o
  <2>4. Shows(o)
    BY <2>1, <2>3 DEF Shows
  <2> QED BY <2>2, <2>4 DEF Shows, o
<1>2. CASE UNCHANGED vars
  BY <1>2 DEF vars, environment, ViewIsGames, Shows
<1>3. ~ Game /\ ~ Decides
  BY DEF Game, Joins, Draws, Moves, Advances, Carries, Says, Layers, Modes, Dies, Exits,
         Receiving, Sends, Unread, Decides
<1> QED BY <1>1, <1>2, <1>3 DEF Next

\* Whatever order sparse updates, cells without coordinates and cleared maps came
\* in, the policy decides on what the game shows.
THEOREM ViewSound == Spec => []ViewIsGames
<1> DEFINE I == EpisodeInv /\ GameType /\ ScreenInv /\ ViewIsGames
<1>1. Init => I
  BY InitInv, InitScreen DEF Init, ViewIsGames
<1>2. I /\ [Next]_vars => I'
  BY NextInv, NextScreen, NextView DEF EpisodeInv
<1>3. I => ViewIsGames
  OBVIOUS
<1> QED BY <1>1, <1>2, <1>3, PTL DEF Spec

\* What the rewards and the tracker take from a snapshot.
LEMMA LevelType ==
  ASSUME GameType
  PROVE  /\ game.level \in Levels /\ game.level = <<game.level[1], game.level[2]>>
         /\ game.level[2] \in Nat /\ game.xl \in Nat \ {0}
<1>1. game.level \in Levels /\ game.xl \in Nat \ {0}
  BY DEF GameType
<1>2. game.level \in STRING \X Nat
  BY <1>1, EpisodeAssumption
<1> QED BY <1>1, <1>2

LEMMA SnapshotPlayer ==
  ASSUME GameType, ScreenInv, phase # "starting"
  PROVE  LET p == Snapshot(reducer, messages).player IN
         /\ {"place", "depth", "xl"} \subseteq DOMAIN p
         /\ p["place"] = game.level[1] /\ p["depth"] = game.level[2] /\ p["xl"] = game.xl
<1> DEFINE p == Snapshot(reducer, messages).player
           c == Restricted(game.inv, {s \in Slots : game.inv[s] > 0})
<1>1. \E h \in {0, 1} : (h = game.hp \/ game.hp = 0) /\ p = PlayerOf(game.level, game.xl, h, c)
  BY SnapshotIs
<1> HIDE DEF p, c
<1>2. PICK h : p = PlayerOf(game.level, game.xl, h, c)
  BY <1>1
<1> QED BY <1>2 DEF PlayerOf, p

LEMMA MaximaIs ==
  ASSUME GameType, ScreenInv, phase # "starting", NEW m
  PROVE  Maxima(m, Snapshot(reducer, messages).player)
           = [depth |-> Larger(m.depth, game.level[2]), xl |-> Larger(m.xl, game.xl)]
<1> DEFINE p == Snapshot(reducer, messages).player
<1>1. {"place", "depth", "xl"} \subseteq DOMAIN p /\ p["depth"] = game.level[2] /\ p["xl"] = game.xl
  BY SnapshotPlayer
<1> HIDE DEF p
<1>2. Maxima(m, p) = [depth |-> Larger(m.depth, game.level[2]), xl |-> Larger(m.xl, game.xl)]
  BY <1>1 DEF Maxima
<1> QED BY <1>2 DEF p

LEMMA ObservedIs ==
  ASSUME GameType, ScreenInv, phase # "starting", NEW d
  PROVE  LET new == {<<Named(game.level), at>> : at \in DOMAIN game.maps[game.level]} \ d.cells IN
         Observed(d, Snapshot(reducer, messages))
           = [cells |-> d.cells \union new, levels |-> d.levels \union {Named(game.level)},
              score |-> d.score + Larger(game.level[2], 1) * Cardinality(new)]
<1> DEFINE o == Snapshot(reducer, messages)
           p == o.player
           n == Larger(game.level[2], 1)
           level == Named(game.level)
           m == game.maps[game.level]
<1>1. /\ {"place", "depth", "xl"} \subseteq DOMAIN p
      /\ p["place"] = game.level[1] /\ p["depth"] = game.level[2]
  BY SnapshotPlayer
<1>2. o.cells = m
  BY SnapshotIs
<1> HIDE DEF o, m
<1>3. LET depth == IF "depth" \in DOMAIN o.player THEN Larger(o.player["depth"], 1) ELSE 1
          place == IF "place" \in DOMAIN o.player THEN o.player["place"] ELSE "Dungeon" IN
      depth = n /\ <<place, depth>> = level
  BY <1>1 DEF Named
<1> HIDE DEF n, level
<1>4. LET new == {<<level, at>> : at \in DOMAIN m} \ d.cells IN
      Observed(d, o) = [cells |-> d.cells \union new, levels |-> d.levels \union {level},
                        score |-> d.score + n * Cardinality(new)]
  BY <1>2, <1>3 DEF Observed
<1> QED BY <1>4 DEF o, n, level, m

LEMMA LevelsObserved ==
  ASSUME GameType, ScreenInv, phase # "starting", NEW d
  PROVE  Observed(d, Snapshot(reducer, messages)).levels = d.levels \union {Named(game.level)}
<1> DEFINE o == Snapshot(reducer, messages)
           new == {<<Named(game.level), at>> : at \in DOMAIN game.maps[game.level]} \ d.cells
           c == d.cells \union new
           k == d.score + Larger(game.level[2], 1) * Cardinality(new)
<1>1. Observed(d, o) = [cells |-> c, levels |-> d.levels \union {Named(game.level)}, score |-> k]
  BY ObservedIs
<1> HIDE DEF o, c, k
<1> QED BY <1>1 DEF o

LEMMA InitProgress == Init => ProgressInv /\ DiscoveryInv
<1> SUFFICES ASSUME Init PROVE ProgressInv /\ DiscoveryInv
  OBVIOUS
<1>1. /\ past = [start |-> <<Start, 1>>, shown |-> [l \in Levels |-> {}]] /\ phase = "starting"
      /\ discovery = [cells |-> {}, levels |-> {}, score |-> 0]
  BY DEF Init
<1>2. ProgressInv
  BY <1>1, EpisodeAssumption DEF ProgressInv, Depths
<1> DEFINE e == [l \in Levels |-> {}]
<1>3. Met(e) = {} /\ Credits(e) = {}
  BY DEF Met, Credits
<1>4. IsFiniteSet(Credits(e)) /\ Cardinality(Credits(e)) = 0
  BY <1>3, FS_EmptySet
<1>5. e \in [Levels -> SUBSET Coordinates] /\ past.shown = e /\ past.start = <<Start, 1>>
  BY <1>1
<1> HIDE DEF e
<1>6. DiscoveryInv
  BY <1>1, <1>3, <1>4, <1>5 DEF DiscoveryInv, e
<1> QED BY <1>2, <1>6

\* A boundary pays for the deepest level so far, and the level of experience.
LEMMA ResetProgress ==
  ASSUME GameType, ScreenInv, ProgressInv, DiscoveryInv, Reset
  PROVE  ProgressInv'
<1> DEFINE o == Snapshot(reducer, messages)
<1>1. /\ phase = "resetting" /\ phase' = "deciding" /\ current' = o /\ game' = game
      /\ discovery' = Observed(discovery, o) /\ total' = 0 /\ maxima' = Maxima([depth |-> 0, xl |-> 1], o.player)
      /\ past' = [past EXCEPT !.start = <<game.level, game.xl>>, !.shown = Shown]
  BY DEF Reset, Boundary
<1>2. /\ game.level \in Levels /\ game.level[2] \in Nat \ {0} /\ game.xl \in Nat \ {0}
  <2>1. game.level = Start
    BY <1>1 DEF ScreenInv
  <2> QED BY <2>1, LevelType, EpisodeAssumption
<1>3. maxima' = [depth |-> Larger(0, game.level[2]), xl |-> Larger(1, game.xl)]
  <2> DEFINE m == [depth |-> 0, xl |-> 1]
  <2>1. m.depth = 0 /\ m.xl = 1 /\ maxima' = Maxima(m, o.player)
    BY <1>1
  <2> HIDE DEF m
  <2> QED BY <1>1, <2>1, MaximaIs
<1>4. maxima' = [depth |-> game.level[2], xl |-> game.xl]
  BY <1>2, <1>3 DEF Larger
<1>5. discovery'.levels = {Named(game.level)}
  <2>1. discovery.levels = {}
    BY <1>1 DEF ProgressInv
  <2>2. Observed(discovery, o).levels = discovery.levels \union {Named(game.level)}
    BY <1>1, LevelsObserved
  <2> QED BY <1>1, <2>1, <2>2
<1>6. o.player["xl"] = game.xl
  BY <1>1, SnapshotPlayer
<1>7. past'.start = <<game.level, game.xl>>
  <2>1. PICK a, b : past = [start |-> a, shown |-> b]
    BY DEF DiscoveryInv
  <2> QED BY <1>1, <2>1
<1>8. Depths' = {game.level[2]}
  <2>1. Larger(game.level[2], 1) = game.level[2]
    BY <1>2 DEF Larger
  <2> QED BY <1>5, <2>1 DEF Depths, Named
<1> HIDE DEF o
<1> QED BY <1>1, <1>2, <1>4, <1>6, <1>7, <1>8 DEF ProgressInv

LEMMA StepsProgress ==
  ASSUME GameType, ScreenInv, ProgressInv, DiscoveryInv, Steps
  PROVE  ProgressInv'
<1> DEFINE o == Snapshot(reducer, messages)
           largest == Maxima(maxima, o.player)
           n == game.level[2]
<1>1. /\ phase = "stepping" /\ current' = o /\ game' = game
      /\ phase' = (IF outcome # None \/ Truncated(steps + 1) THEN "ended" ELSE "deciding")
      /\ discovery' = Observed(discovery, o) /\ maxima' = largest
      /\ total' = total + SparseReward(maxima, largest, outcome)
      /\ past' = [past EXCEPT !.shown = Shown]
  BY DEF Steps, Boundary
<1>2. game.level \in Levels /\ n \in Nat /\ game.xl \in Nat \ {0}
  BY LevelType
<1>3. /\ past.start[1] \in Levels /\ past.start[2] \in Nat /\ Depths \subseteq Nat \ {0}
      /\ past.start[1][2] # 0
      /\ maxima \in [depth : Depths, xl : Nat] /\ \A d \in Depths : d <= maxima.depth
      /\ maxima.xl <= game.xl
      /\ total = 3 * (maxima.depth - past.start[1][2]) + 10 * (maxima.xl - past.start[2])
  BY <1>1 DEF ProgressInv
<1>4. maxima' = [depth |-> Larger(maxima.depth, n), xl |-> Larger(maxima.xl, game.xl)] /\ largest = maxima'
  BY <1>1, MaximaIs
<1>5. maxima.depth \in Nat \ {0} /\ maxima.depth \in Depths /\ maxima.xl \in Nat
  BY <1>3
<1>6. Larger(maxima.xl, game.xl) = game.xl
  BY <1>2, <1>3, <1>5 DEF Larger
<1>7. discovery'.levels = discovery.levels \union {Named(game.level)}
  <2>1. Observed(discovery, o).levels = discovery.levels \union {Named(game.level)}
    BY <1>1, LevelsObserved
  <2> QED BY <1>1, <2>1
<1>8. Depths' = Depths \union {Larger(n, 1)}
  <2>1. Named(game.level)[2] = Larger(n, 1)
    BY DEF Named
  <2> QED BY <1>7, <2>1 DEF Depths
<1>9. o.player["xl"] = game.xl
  BY <1>1, SnapshotPlayer
<1>10. past'.start = past.start
  <2>1. PICK a, b : past = [start |-> a, shown |-> b]
    BY DEF DiscoveryInv
  <2> QED BY <1>1, <2>1
<1> HIDE DEF o, n, largest
<1> DEFINE D == Larger(maxima.depth, n)
<1>11. /\ D \in Depths' /\ D \in Nat /\ \A d \in Depths' : d <= D
       /\ Depths' \subseteq Nat \ {0} /\ maxima' = [depth |-> D, xl |-> game.xl]
  BY <1>2, <1>3, <1>4, <1>5, <1>6, <1>8 DEF Larger
<1> HIDE DEF D
<1>12. maxima'.depth = D /\ maxima'.xl = game.xl
  BY <1>11
<1>13. ASSUME phase' \in {"deciding", "stepping"}
       PROVE  total' = 3 * (D - past.start[1][2]) + 10 * (game.xl - past.start[2])
  <2>1. outcome = None
    BY <1>1, <1>13
  <2>2. SparseReward(maxima, largest, outcome) = 3 * (D - maxima.depth) + 10 * (game.xl - maxima.xl)
    <3>1. outcome # "won"
      BY <2>1, NoneAssumption
    <3>2. D - maxima.depth \in Int /\ game.xl - maxima.xl \in Int
      BY <1>2, <1>5, <1>11
    <3> QED BY <1>4, <1>12, <3>1, <3>2 DEF SparseReward
  <2>3. past.start[1][2] \in Nat
    <3>1. past.start[1] \in STRING \X Nat
      BY <1>3, EpisodeAssumption
    <3> QED BY <3>1
  <2> QED BY <1>1, <1>2, <1>3, <1>5, <1>11, <2>2, <2>3
<1>14. phase' \notin {"starting", "resetting"}
  BY <1>1
<1> QED BY <1>1, <1>2, <1>3, <1>9, <1>10, <1>11, <1>12, <1>13, <1>14 DEF ProgressInv

\* The messages of the game and a decision change nothing that is counted.
LEMMA NextProgress ==
  ASSUME PhaseInv, GameType, ScreenInv, ProgressInv, DiscoveryInv, [Next]_vars
  PROVE  ProgressInv'
<1>1. CASE Reset \/ Steps
  BY <1>1, ResetProgress, StepsProgress
<1>2. CASE Decides \/ UNCHANGED vars
  <2>1. /\ UNCHANGED <<current, maxima, total, discovery, past, game>>
        /\ phase' = phase \/ (phase = "deciding" /\ phase' = "stepping")
    BY <1>2 DEF Decides, vars, environment
  <2> QED BY <2>1 DEF ProgressInv, Depths
<1>3. CASE Joins
  <2>1. UNCHANGED <<discovery, past>> /\ phase = "starting" /\ phase' = "resetting"
    BY <1>3 DEF Joins
  <2> QED BY <2>1 DEF ProgressInv, Depths
<1>4. CASE Draws \/ Moves \/ Advances \/ Carries \/ Says \/ Layers \/ Modes \/ Dies \/ Exits
  <2>1. UNCHANGED <<current, maxima, total, discovery, past, phase>> /\ phase = "stepping"
    BY <1>4 DEF Draws, Moves, Advances, Carries, Says, Layers, Modes, Dies, Exits, Receiving,
                Sends, Unread, environment
  <2>2. game'.xl \in {game.xl, game.xl + 1} /\ game.xl \in Nat \ {0}
    <3>1. game.xl \in Nat \ {0}
      BY LevelType
    <3>2. CASE Draws
      BY <3>1, <3>2 DEF Draws, GameType
    <3>3. CASE Moves
      BY <3>1, <3>3 DEF Moves, GameType
    <3>4. CASE Advances \/ Carries \/ Modes \/ Dies
      BY <3>1, <3>4 DEF Advances, Carries, Modes, Dies, GameType
    <3>5. CASE Says \/ Layers \/ Exits
      BY <3>1, <3>5 DEF Says, Layers, Exits, GameType
    <3> QED BY <1>4, <3>2, <3>3, <3>4, <3>5
  <2>3. maxima.xl <= game.xl /\ maxima.xl \in Nat
    BY <2>1 DEF ProgressInv
  <2>4. maxima.xl <= game'.xl
    BY <2>2, <2>3
  <2> QED BY <2>1, <2>4 DEF ProgressInv, Depths
<1> QED BY <1>1, <1>2, <1>3, <1>4 DEF Next, Game

\* No two levels go by one name.
LEMMA NamedApart ==
  ASSUME NEW k \in Levels, NEW l \in Levels, Named(k) = Named(l)
  PROVE  k = l
<1>1. /\ k = <<k[1], k[2]>> /\ k[2] \in Nat /\ l = <<l[1], l[2]>> /\ l[2] \in Nat
  <2>1. k \in STRING \X Nat /\ l \in STRING \X Nat
    BY EpisodeAssumption
  <2> QED BY <2>1
<1>2. k[1] = l[1] /\ Larger(k[2], 1) = Larger(l[2], 1)
  BY DEF Named
<1>3. CASE k[2] = l[2]
  BY <1>1, <1>2, <1>3
<1>4. CASE k[2] # l[2]
  <2>1. (k[2] = 0 /\ l[2] = 1) \/ (k[2] = 1 /\ l[2] = 0)
    BY <1>1, <1>2, <1>4 DEF Larger
  <2>2. (l[2] = 0 => <<l[1], 1>> # k) /\ (k[2] = 0 => <<k[1], 1>> # l)
    BY EpisodeAssumption
  <2> QED BY <1>1, <1>2, <2>1, <2>2
<1> QED BY <1>3, <1>4

\* The cells of a level that were not shown before, and what they are worth.
LEMMA CreditAdded ==
  ASSUME NEW shown \in [Levels -> SUBSET Coordinates], IsFiniteSet(Credits(shown)),
         NEW level \in Levels, NEW M \in SUBSET Coordinates
  PROVE  LET new == {<<Named(level), at>> : at \in M} \ Met(shown)
             after == [shown EXCEPT ![level] = shown[level] \union M] IN
         /\ Met(after) = Met(shown) \union new
         /\ IsFiniteSet(Credits(after))
         /\ Cardinality(Credits(after)) = Cardinality(Credits(shown)) + Larger(level[2], 1) * Cardinality(new)
<1> DEFINE new == {<<Named(level), at>> : at \in M} \ Met(shown)
           after == [shown EXCEPT ![level] = shown[level] \union M]
           N == M \ shown[level]
           depth == Larger(level[2], 1)
           added == ({level} \X N) \X (1..depth)
<1>1. depth \in Nat \ {0}
  <2>1. level \in STRING \X Nat
    BY EpisodeAssumption
  <2>2. level[2] \in Nat
    BY <2>1
  <2> QED BY <2>2 DEF Larger
<1>2. new = {Named(level)} \X N
  <2>1. \A at \in M : <<Named(level), at>> \in Met(shown) <=> at \in shown[level]
    BY NamedApart DEF Met
  <2> QED BY <2>1
<1>3. /\ after \in [Levels -> SUBSET Coordinates] /\ after[level] = shown[level] \union N
      /\ \A l \in Levels : l # level => after[l] = shown[l]
  OBVIOUS
<1> HIDE DEF after
<1>4. Met(after) = Met(shown) \union ({Named(level)} \X N)
  <2>1. Met(after) \subseteq Met(shown) \union ({Named(level)} \X N)
    <3> SUFFICES ASSUME NEW l \in Levels, NEW at \in after[l]
                 PROVE  <<Named(l), at>> \in Met(shown) \union ({Named(level)} \X N)
      BY DEF Met
    <3> QED BY <1>3 DEF Met
  <2>2. Met(shown) \union ({Named(level)} \X N) \subseteq Met(after)
    <3>1. ASSUME NEW l \in Levels, NEW at \in shown[l] PROVE <<Named(l), at>> \in Met(after)
      <4>1. at \in after[l]
        BY <1>3
      <4> QED BY <4>1 DEF Met
    <3>2. ASSUME NEW at \in N PROVE <<Named(level), at>> \in Met(after)
      BY <1>3 DEF Met
    <3>3. Met(shown) \subseteq Met(after)
      BY <3>1 DEF Met
    <3> QED BY <3>2, <3>3
  <2> QED BY <2>1, <2>2
<1>5. Credits(after) = Credits(shown) \union added
  <2>1. Credits(after) \subseteq Credits(shown) \union added
    <3> SUFFICES ASSUME NEW l \in Levels, NEW at \in after[l], NEW k \in 1..Larger(l[2], 1)
                 PROVE  <<<<l, at>>, k>> \in Credits(shown) \union added
      BY DEF Credits
    <3>1. CASE at \in shown[l]
      BY <3>1 DEF Credits
    <3>2. CASE at \notin shown[l]
      <4>1. l = level /\ at \in N
        BY <1>3, <3>2
      <4> QED BY <4>1
    <3> QED BY <3>1, <3>2
  <2>2. Credits(shown) \subseteq Credits(after)
    <3> SUFFICES ASSUME NEW l \in Levels, NEW at \in shown[l], NEW k \in 1..Larger(l[2], 1)
                 PROVE  <<<<l, at>>, k>> \in Credits(after)
      BY DEF Credits
    <3>1. at \in after[l]
      BY <1>3
    <3> QED BY <3>1 DEF Credits
  <2>3. added \subseteq Credits(after)
    <3> SUFFICES ASSUME NEW at \in N, NEW k \in 1..depth PROVE <<<<level, at>>, k>> \in Credits(after)
      OBVIOUS
    <3>1. at \in after[level]
      BY <1>3
    <3> QED BY <3>1 DEF Credits
  <2> QED BY <2>1, <2>2, <2>3
<1>6. Credits(shown) \intersect added = {}
  <2> SUFFICES ASSUME NEW at \in N, NEW k \in 1..depth, <<<<level, at>>, k>> \in Credits(shown)
               PROVE  FALSE
    OBVIOUS
  <2>1. at \in shown[level]
    BY DEF Credits
  <2> QED BY <2>1
<1>7. IsFiniteSet(N) /\ IsFiniteSet({level}) /\ Cardinality({level}) = 1
  BY EpisodeAssumption, FS_Subset, FS_Singleton
<1>8. /\ IsFiniteSet({level} \X N) /\ Cardinality({level} \X N) \in Nat
      /\ Cardinality(new) = Cardinality({level} \X N)
  <2>1. IsFiniteSet({Named(level)}) /\ Cardinality({Named(level)}) = 1
    BY FS_Singleton
  <2>2. Cardinality({Named(level)} \X N) = Cardinality({level} \X N)
    <3> DEFINE a == {Named(level)}
               b == {level}
    <3>1. IsFiniteSet(a) /\ Cardinality(a) = 1 /\ IsFiniteSet(b) /\ Cardinality(b) = 1 /\ IsFiniteSet(N)
      BY <1>7, <2>1
    <3> HIDE DEF a, b, N
    <3>2. Cardinality(a \X N) = Cardinality(a) * Cardinality(N)
          /\ Cardinality(b \X N) = Cardinality(b) * Cardinality(N)
      BY <3>1, FS_Product
    <3> QED BY <3>1, <3>2 DEF a, b
  <2> QED BY <1>2, <1>7, <2>2, FS_Product, FS_CardinalityType
<1>9. IsFiniteSet(1..depth) /\ Cardinality(1..depth) = depth
  BY <1>1, FS_Interval
<1>10. IsFiniteSet(added) /\ Cardinality(added) = Cardinality({level} \X N) * depth
  <2> DEFINE a == {level} \X N
             b == 1..depth
  <2>1. IsFiniteSet(a) /\ IsFiniteSet(b) /\ Cardinality(b) = depth
    BY <1>8, <1>9
  <2> HIDE DEF a, b, depth
  <2>2. IsFiniteSet(a \X b) /\ Cardinality(a \X b) = Cardinality(a) * Cardinality(b)
    BY <2>1, FS_Product
  <2> QED BY <2>1, <2>2 DEF a, b
<1> HIDE DEF added, new, N, depth
<1>11. IsFiniteSet(Credits(after))
       /\ Cardinality(Credits(after)) = Cardinality(Credits(shown)) + Cardinality(added)
  <2>1. /\ IsFiniteSet(Credits(shown) \union added)
        /\ Cardinality(Credits(shown) \union added)
             = Cardinality(Credits(shown)) + Cardinality(added) - Cardinality(Credits(shown) \intersect added)
    BY <1>10, FS_Union
  <2>2. Cardinality(Credits(shown) \intersect added) = 0
    BY <1>6, FS_EmptySet
  <2>3. Cardinality(Credits(shown)) \in Nat /\ Cardinality(added) \in Nat
    BY <1>10, FS_CardinalityType
  <2> QED BY <1>5, <2>1, <2>2, <2>3
<1>12. Cardinality({level} \X N) * depth = depth * Cardinality({level} \X N)
  BY <1>1, <1>8
<1> QED BY <1>2, <1>4, <1>8, <1>10, <1>11, <1>12 DEF new, after, depth

LEMMA BoundaryDiscovery ==
  ASSUME GameType, ScreenInv, DiscoveryInv, phase # "starting",
         discovery' = Observed(discovery, Snapshot(reducer, messages)),
         past' = [past EXCEPT !.start = past'.start, !.shown = Shown]
  PROVE  DiscoveryInv'
<1> DEFINE M == DOMAIN game.maps[game.level]
           shown == past.shown
           new == {<<Named(game.level), at>> : at \in M} \ Met(shown)
           after == [shown EXCEPT ![game.level] = shown[game.level] \union M]
<1>1. game.level \in Levels /\ M \in SUBSET Coordinates
  <2>1. game.level \in Levels /\ game.maps[game.level] \in Maps
    BY DEF GameType
  <2> QED BY <2>1, MapShape
<1>2. shown \in [Levels -> SUBSET Coordinates] /\ IsFiniteSet(Credits(shown))
  BY DEF DiscoveryInv
<1>3. past' = [start |-> past'.start, shown |-> after]
  <2>1. PICK a, b : past = [start |-> a, shown |-> b]
    BY DEF DiscoveryInv
  <2>2. Shown = after
    BY DEF Shown
  <2> HIDE DEF after
  <2> QED BY <2>1, <2>2
<1> DEFINE c == discovery.cells \union new
           k == discovery.score + Larger(game.level[2], 1) * Cardinality(new)
           ls == discovery.levels \union {Named(game.level)}
<1>4. discovery' = [cells |-> c, levels |-> ls, score |-> k]
  <2>1. discovery.cells = Met(shown)
    BY DEF DiscoveryInv
  <2> QED BY <2>1, ObservedIs
<1>5. discovery'.cells = c /\ discovery'.score = k
  <2> HIDE DEF c, ls, k
  <2> QED BY <1>4
<1>6. /\ Met(after) = Met(shown) \union new /\ IsFiniteSet(Credits(after))
      /\ Cardinality(Credits(after)) = Cardinality(Credits(shown)) + Larger(game.level[2], 1) * Cardinality(new)
  <2> DEFINE level == game.level
  <2>1. level \in Levels
    BY <1>1
  <2> HIDE DEF level, M, shown
  <2>2. LET n == {<<Named(level), at>> : at \in M} \ Met(shown)
            f == [shown EXCEPT ![level] = shown[level] \union M] IN
        /\ Met(f) = Met(shown) \union n
        /\ IsFiniteSet(Credits(f))
        /\ Cardinality(Credits(f)) = Cardinality(Credits(shown)) + Larger(level[2], 1) * Cardinality(n)
    BY <1>1, <1>2, <2>1, CreditAdded
  <2> QED BY <2>2 DEF level
<1>7. after \in [Levels -> SUBSET Coordinates]
  BY <1>1, <1>2
<1>8. discovery'.cells = Met(after) /\ discovery'.score = Cardinality(Credits(after))
  <2>1. discovery.cells = Met(shown) /\ discovery.score = Cardinality(Credits(shown))
    BY DEF DiscoveryInv
  <2> HIDE DEF shown, new, after
  <2> QED BY <1>5, <1>6, <2>1
<1>9. past'.shown = after /\ past' = [start |-> past'.start, shown |-> past'.shown]
  <2> DEFINE a == past'.start
  <2> HIDE DEF a, after
  <2> QED BY <1>3 DEF a
<1> HIDE DEF after
<1> QED BY <1>6, <1>7, <1>8, <1>9 DEF DiscoveryInv

LEMMA NextDiscovery ==
  ASSUME PhaseInv, GameType, ScreenInv, DiscoveryInv, [Next]_vars
  PROVE  DiscoveryInv'
<1>1. CASE Reset \/ Steps
  <2>1. PICK a, b : past = [start |-> a, shown |-> b]
    BY DEF DiscoveryInv
  <2>2. \E w : past' = [past EXCEPT !.start = w, !.shown = Shown]
    <3>1. CASE Reset
      BY <3>1 DEF Reset
    <3>2. CASE Steps
      <4> DEFINE s == Shown
                 p == [past EXCEPT !.start = a]
      <4>1. past' = [past EXCEPT !.shown = s]
        BY <3>2 DEF Steps
      <4>2. p = past
        BY <2>1
      <4>3. past' = [p EXCEPT !.shown = s]
        BY <4>1, <4>2
      <4> HIDE DEF s
      <4> QED BY <4>3 DEF s
    <3> QED BY <1>1, <3>1, <3>2
  <2>3. past' = [past EXCEPT !.start = past'.start, !.shown = Shown]
    <3> DEFINE s == Shown
    <3> HIDE DEF s
    <3>1. PICK w : past' = [past EXCEPT !.start = w, !.shown = s]
      BY <2>2 DEF s
    <3>2. past' = [start |-> w, shown |-> s]
      BY <2>1, <3>1
    <3>3. past'.start = w
      BY <3>2
    <3> QED BY <3>1, <3>3 DEF s
  <2>4. phase # "starting" /\ discovery' = Observed(discovery, Snapshot(reducer, messages))
    BY <1>1 DEF Reset, Steps, Boundary
  <2> QED BY <2>3, <2>4, BoundaryDiscovery
<1>2. CASE ~ Reset /\ ~ Steps
  <2>1. UNCHANGED <<discovery, past>>
    BY <1>2 DEF Next, Game, Joins, Draws, Moves, Advances, Carries, Says, Layers, Modes, Dies, Exits,
                Sends, Unread, Decides, vars
  <2> QED BY <2>1 DEF DiscoveryInv
<1> QED BY <1>1, <1>2

CountedInv == EpisodeInv /\ GameType /\ ScreenInv /\ ProgressInv /\ DiscoveryInv

LEMMA Counted == Spec => []CountedInv
<1>1. Init => CountedInv
  BY InitInv, InitScreen, InitProgress DEF CountedInv
<1>2. CountedInv /\ [Next]_vars => CountedInv'
  BY NextInv, NextScreen, NextProgress, NextDiscovery DEF CountedInv, EpisodeInv
<1> QED BY <1>1, <1>2, PTL DEF Spec

\* The sparse rewards add up to the milestones reached, whatever way the episode
\* went up and down: no level and no experience is paid twice, and none is lost.
THEOREM ProgressSound == Spec => []RewardIsProgress
<1>1. CountedInv => RewardIsProgress
  <2> SUFFICES ASSUME CountedInv, phase \in {"deciding", "stepping"}
               PROVE  total = 3 * (Max(Depths) - past.start[1][2]) + 10 * (current.player["xl"] - past.start[2])
    BY DEF RewardIsProgress
  <2>1. /\ maxima.depth \in Depths /\ \A d \in Depths : d <= maxima.depth
        /\ Depths \subseteq Nat \ {0} /\ maxima.xl = current.player["xl"]
        /\ total = 3 * (maxima.depth - past.start[1][2]) + 10 * (maxima.xl - past.start[2])
    BY DEF CountedInv, ProgressInv
  <2>2. Max(Depths) = maxima.depth
    <3> DEFINE D == Depths
               most == Max(D)
    <3>1. /\ maxima.depth \in D /\ \A d \in D : d <= maxima.depth
          /\ D \subseteq Nat
      BY <2>1
    <3> HIDE DEF D
    <3>2. most \in D /\ \A d \in D : d <= most
      BY <3>1 DEF Max
    <3> HIDE DEF most
    <3>3. most \in Nat /\ maxima.depth \in Nat /\ most <= maxima.depth /\ maxima.depth <= most
      BY <3>1, <3>2
    <3>4. most = maxima.depth
      BY <3>3
    <3> QED BY <3>4 DEF most, D
  <2> QED BY <2>1, <2>2
<1> QED BY <1>1, Counted, PTL

\* The score is the depth of every cell the game has shown at a boundary, once, on
\* whatever levels and however often.
THEOREM DiscoverySound == Spec => []DiscoveryCountsOnce
<1>1. CountedInv => DiscoveryCountsOnce
  BY DEF CountedInv, DiscoveryInv, DiscoveryCountsOnce, Credits
<1> QED BY <1>1, Counted, PTL
===============================================================================
