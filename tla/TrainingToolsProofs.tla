------------------------- MODULE TrainingToolsProofs -------------------------
(* Proofs about the tools around a checkpoint, for any widths, catalogs,       *)
(* histories and numbers of steps; and about the replay cache they share, for  *)
(* any number of processes and of growing trajectories.                        *)
EXTENDS PolicyTraining, ReplayCache, TLAPS
-------------------------------------------------------------------------------
(* Parameters, labels and positions.                                           *)

Checkpoints == UNION {Models(config) : config \in Configs}
Heads == {"weight", "bias", "echo", "hidden", "value", "residual"}

\* Positions of a history whose slots are a catalog apart are within its columns, and
\* belong to one slot.
LEMMA SlotPosition ==
  ASSUME NEW width \in Nat, NEW slots \in Nat, NEW slot \in 0..slots - 1, NEW a \in 0..width - 1
  PROVE  slot * width + a \in 0..width * slots - 1
<1>1. slot * width \in Nat /\ width * slots \in Nat /\ (slot + 1) * width = slot * width + width
  OBVIOUS
<1>2. (slot + 1) * width <= slots * width
  OBVIOUS
<1>3. slots * width = width * slots
  OBVIOUS
<1> QED BY <1>1, <1>2, <1>3

LEMMA SlotUnique ==
  ASSUME NEW width \in Nat, NEW s \in Nat, NEW t \in Nat,
         NEW a \in 0..width - 1, NEW b \in 0..width - 1, s * width + a = t * width + b
  PROVE  s = t /\ a = b
<1>1. ASSUME NEW x \in Nat, NEW y \in Nat, x < y PROVE x * width + width <= y * width
  <2>1. PICK d \in Nat : y = x + 1 + d
    <3>1. y - x - 1 \in Nat /\ y = x + 1 + (y - x - 1)
      BY <1>1
    <3> QED BY <3>1
  <2>2. y * width = x * width + width + d * width /\ d * width >= 0
    BY <2>1
  <2>3. x * width \in Nat /\ d * width \in Nat
    OBVIOUS
  <2> QED BY <2>2, <2>3
<1>2. s * width \in Nat /\ t * width \in Nat
  OBVIOUS
<1>3. ~(s < t) /\ ~(t < s)
  BY <1>1, <1>2
<1>4. s = t
  BY <1>3
<1> QED BY <1>2, <1>4

LEMMA ConfigType ==
  ASSUME NEW c \in Configs
  PROVE  /\ c.actions \in Nat /\ c.spec \in Specs /\ c.history \in Nat /\ c.residual \in BOOLEAN
         /\ FeatureCount[c.spec] \in Nat /\ c.actions * c.history \in Nat /\ Inputs(c) \in Nat
         /\ c = [actions |-> c.actions, spec |-> c.spec, history |-> c.history,
                 residual |-> c.residual]
<1>1. c.actions \in Nat /\ c.spec \in Specs /\ c.history \in Nat /\ c.residual \in BOOLEAN
  <2>1. {ActionCount} \cup {m.config.actions : m \in Initial} \subseteq Nat
    BY ToolsAssumption, ModelAssumption
  <2>2. {0} \cup Lengths \cup {m.config.history : m \in Initial} \subseteq Nat
    <3>1. \A m \in Initial : m.config.history \in Nat
      BY ToolsAssumption
    <3>2. Lengths \subseteq Nat
      BY ToolsAssumption
    <3>3. {m.config.history : m \in Initial} \subseteq Nat
      BY <3>1
    <3>4. {0} \subseteq Nat
      OBVIOUS
    <3> QED BY <3>2, <3>3, <3>4, Zenon
  <2> QED BY <2>1, <2>2 DEF Configs
<1>2. FeatureCount[c.spec] \in Nat
  BY <1>1, ModelAssumption
<1>3. c.actions * c.history \in Nat
  BY <1>1
<1>4. c = [actions |-> c.actions, spec |-> c.spec, history |-> c.history, residual |-> c.residual]
  BY DEF Configs
<1> QED BY <1>1, <1>2, <1>3, <1>4 DEF Inputs

\* The parameters, tensor by tensor.
LEMMA UnitsAre ==
  ASSUME NEW c \in Configs
  PROVE  /\ \A i : <<"encoder", i>> \in Units(c) <=> i \in 0..Inputs(c) - 1
         /\ \A i : <<"weight", i>> \in Units(c) <=> i \in 0..c.actions - 1
         /\ \A i : <<"bias", i>> \in Units(c) <=> i \in 0..c.actions - 1
         /\ \A i : <<"echo", i>> \in Units(c) <=> i \in 0..FeatureCount[c.spec] - 1
         /\ \A i : <<"hidden", i>> \in Units(c) <=> i = 0
         /\ \A i : <<"value", i>> \in Units(c) <=> i = 0
         /\ \A i : <<"residual", i>> \in Units(c) <=> i = 0 /\ c.residual
         /\ \A u \in Units(c) : /\ u = <<u[1], u[2]>>
                                /\ u[1] \in Heads \cup {"encoder"} /\ u[2] \in Nat
<1>1. /\ c.residual \in BOOLEAN /\ Inputs(c) \in Nat /\ c.actions \in Nat
      /\ FeatureCount[c.spec] \in Nat
  BY ConfigType
<1>2. \A u \in Units(c) : u = <<u[1], u[2]>> /\ u[1] \in Heads \cup {"encoder"} /\ u[2] \in Nat
  BY <1>1 DEF Units, Heads
<1> QED BY <1>1, <1>2 DEF Units

\* The labels, and where each is kept.
LEMMA LabelsAre ==
  ASSUME NEW c \in Configs
  PROVE  \A l : l \in Labels(c) <=>
           \/ \E f \in 0..FeatureCount[c.spec] - 1 : l = <<"feature", f, 0>>
           \/ \E slot \in 0..c.history - 1, a \in 0..c.actions - 1 : l = <<"past", slot, a>>
           \/ \E t \in Heads, i \in Nat : <<t, i>> \in Units(c) /\ l = <<t, i, 0>>
<1>1. \A u \in Units(c) : u[1] # "encoder" =>
        u[1] \in Heads /\ u[2] \in Nat /\ <<u[1], u[2]>> \in Units(c)
  BY UnitsAre
<1>2. \A t \in Heads, i \in Nat : <<t, i>>[1] = t /\ <<t, i>>[2] = i /\ t # "encoder"
  BY DEF Heads
<1> DEFINE kept == {<<u[1], u[2], 0>> : u \in {v \in Units(c) : v[1] # "encoder"}}
<1>3. \A l : l \in kept <=> \E t \in Heads, i \in Nat : <<t, i>> \in Units(c) /\ l = <<t, i, 0>>
  <2>1. ASSUME NEW l \in kept
        PROVE  \E t \in Heads, i \in Nat : <<t, i>> \in Units(c) /\ l = <<t, i, 0>>
    BY <1>1
  <2>2. ASSUME NEW t \in Heads, NEW i \in Nat, <<t, i>> \in Units(c)
        PROVE  <<t, i, 0>> \in kept
    BY <1>2, <2>2
  <2> QED BY <2>1, <2>2
<1>4. \A l : l \in Labels(c) <=>
        \/ \E f \in 0..FeatureCount[c.spec] - 1 : l = <<"feature", f, 0>>
        \/ \E slot \in 0..c.history - 1, a \in 0..c.actions - 1 : l = <<"past", slot, a>>
        \/ l \in kept
  BY DEF Labels
<1> HIDE DEF kept
<1> QED BY <1>3, <1>4

LEMMA LabelForms ==
  ASSUME NEW c \in Configs
  PROVE  /\ \A f : <<"feature", f, 0>> \in Labels(c) <=> f \in 0..FeatureCount[c.spec] - 1
         /\ \A slot, a : <<"past", slot, a>> \in Labels(c)
                        <=> slot \in 0..c.history - 1 /\ a \in 0..c.actions - 1
         /\ \A t \in Heads, i \in Nat : <<t, i, 0>> \in Labels(c) <=> <<t, i>> \in Units(c)
<1>1. ASSUME NEW f
      PROVE  <<"feature", f, 0>> \in Labels(c) <=> f \in 0..FeatureCount[c.spec] - 1
  <2> DEFINE l == <<"feature", f, 0>>
  <2>1. \A t \in Heads, i \in Nat : l # <<t, i, 0>>
    BY DEF Heads
  <2>2. \A s, a : l # <<"past", s, a>>
    OBVIOUS
  <2>3. \A g : l = <<"feature", g, 0>> <=> f = g
    OBVIOUS
  <2> HIDE DEF l
  <2>4. l \in Labels(c) <=> \E g \in 0..FeatureCount[c.spec] - 1 : l = <<"feature", g, 0>>
    <3>1. ASSUME l \in Labels(c)
          PROVE  \E g \in 0..FeatureCount[c.spec] - 1 : l = <<"feature", g, 0>>
      <4>1. \/ \E g \in 0..FeatureCount[c.spec] - 1 : l = <<"feature", g, 0>>
            \/ \E s \in 0..c.history - 1, b \in 0..c.actions - 1 : l = <<"past", s, b>>
            \/ \E t \in Heads, i \in Nat : <<t, i>> \in Units(c) /\ l = <<t, i, 0>>
        BY <3>1, LabelsAre
      <4> QED BY <2>1, <2>2, <4>1, Zenon
    <3> QED BY <3>1, LabelsAre
  <2> QED BY <2>3, <2>4 DEF l
<1>2. ASSUME NEW slot, NEW a
      PROVE  <<"past", slot, a>> \in Labels(c)
               <=> slot \in 0..c.history - 1 /\ a \in 0..c.actions - 1
  <2> DEFINE l == <<"past", slot, a>>
  <2>1. \A t \in Heads, i \in Nat : l # <<t, i, 0>>
    BY DEF Heads
  <2>2. \A g : l # <<"feature", g, 0>>
    OBVIOUS
  <2>3. \A s, b : l = <<"past", s, b>> <=> slot = s /\ a = b
    OBVIOUS
  <2> HIDE DEF l
  <2>4. l \in Labels(c)
          <=> \E s \in 0..c.history - 1, b \in 0..c.actions - 1 : l = <<"past", s, b>>
    <3>1. ASSUME l \in Labels(c)
          PROVE  \E s \in 0..c.history - 1, b \in 0..c.actions - 1 : l = <<"past", s, b>>
      <4>1. \/ \E g \in 0..FeatureCount[c.spec] - 1 : l = <<"feature", g, 0>>
            \/ \E s \in 0..c.history - 1, b \in 0..c.actions - 1 : l = <<"past", s, b>>
            \/ \E t \in Heads, i \in Nat : <<t, i>> \in Units(c) /\ l = <<t, i, 0>>
        BY <3>1, LabelsAre
      <4> QED BY <2>1, <2>2, <4>1, Zenon
    <3> QED BY <3>1, LabelsAre
  <2> QED BY <2>3, <2>4 DEF l
<1>3. ASSUME NEW t \in Heads, NEW i \in Nat
      PROVE  <<t, i, 0>> \in Labels(c) <=> <<t, i>> \in Units(c)
  <2>1. \A g, b : <<t, i, 0>> # <<"feature", g, 0>> /\ <<t, i, 0>> # <<"past", g, b>>
    BY DEF Heads
  <2>2. \A s, b : <<t, i, 0>> = <<s, b, 0>> <=> t = s /\ i = b
    OBVIOUS
  <2> QED BY <2>1, <2>2, LabelsAre
<1> QED BY <1>1, <1>2, <1>3

LEMMA UnitOfIs ==
  ASSUME NEW c \in Configs
  PROVE  /\ \A f \in 0..FeatureCount[c.spec] - 1 :
              /\ UnitOf(c, <<"feature", f, 0>>) = <<"encoder", f>>
              /\ <<"encoder", f>> \in Units(c)
         /\ \A slot \in 0..c.history - 1, a \in 0..c.actions - 1 :
              LET i == FeatureCount[c.spec] + slot * c.actions + a IN
              /\ UnitOf(c, <<"past", slot, a>>) = <<"encoder", i>>
              /\ <<"encoder", i>> \in Units(c)
              /\ i \in Nat /\ i >= FeatureCount[c.spec]
         /\ \A t \in Heads, i \in Nat : UnitOf(c, <<t, i, 0>>) = <<t, i>>
<1>1. c.actions \in Nat /\ c.history \in Nat /\ FeatureCount[c.spec] \in Nat
      /\ c.actions * c.history \in Nat
  BY ConfigType
<1>2. ASSUME NEW f \in 0..FeatureCount[c.spec] - 1
      PROVE  UnitOf(c, <<"feature", f, 0>>) = <<"encoder", f>> /\ <<"encoder", f>> \in Units(c)
  <2>1. f \in 0..Inputs(c) - 1
    BY <1>1 DEF Inputs
  <2> QED BY <2>1, UnitsAre DEF UnitOf
<1>3. ASSUME NEW slot \in 0..c.history - 1, NEW a \in 0..c.actions - 1
      PROVE  LET i == FeatureCount[c.spec] + slot * c.actions + a IN
             /\ UnitOf(c, <<"past", slot, a>>) = <<"encoder", i>>
             /\ <<"encoder", i>> \in Units(c)
             /\ i \in Nat /\ i >= FeatureCount[c.spec]
  <2>1. slot * c.actions + a \in 0..c.actions * c.history - 1
    BY <1>1, SlotPosition
  <2>2. slot * c.actions \in Nat
    BY <1>1
  <2>3. FeatureCount[c.spec] + slot * c.actions + a \in 0..Inputs(c) - 1
    BY <1>1, <2>1, <2>2 DEF Inputs
  <2>4. FeatureCount[c.spec] + slot * c.actions + a >= FeatureCount[c.spec]
    BY <1>1, <2>1, <2>2
  <2>5. UnitOf(c, <<"past", slot, a>>) = <<"encoder", FeatureCount[c.spec] + slot * c.actions + a>>
    BY DEF UnitOf
  <2> QED BY <2>3, <2>4, <2>5, UnitsAre
<1>4. ASSUME NEW t \in Heads, NEW i \in Nat PROVE UnitOf(c, <<t, i, 0>>) = <<t, i>>
  BY DEF UnitOf, Heads
<1> QED BY <1>2, <1>3, <1>4

LEMMA LabelIsKept ==
  ASSUME NEW c \in Configs, NEW l \in Labels(c)
  PROVE  UnitOf(c, l) \in Units(c)
<1>1. CASE \E f \in 0..FeatureCount[c.spec] - 1 : l = <<"feature", f, 0>>
  BY <1>1, UnitOfIs
<1>2. CASE \E slot \in 0..c.history - 1, a \in 0..c.actions - 1 : l = <<"past", slot, a>>
  BY <1>2, UnitOfIs
<1>3. CASE \E t \in Heads, i \in Nat : <<t, i>> \in Units(c) /\ l = <<t, i, 0>>
  BY <1>3, UnitOfIs
<1> QED BY <1>1, <1>2, <1>3, LabelsAre
-------------------------------------------------------------------------------
(* What a migration promises.                                                 *)

LEMMA CheckpointIs ==
  ASSUME NEW m
  PROVE  m \in Checkpoints <=>
           /\ m.config \in Configs /\ m.w \in [Units(m.config) -> Tokens]
           /\ m = Built(m.config, m.w)
BY DEF Checkpoints, Models, Built

LEMMA BuiltIs ==
  ASSUME NEW c \in Configs, NEW values \in [Units(c) -> Tokens]
  PROVE  /\ Built(c, values) \in Checkpoints
         /\ Built(c, values).config = c /\ Built(c, values).w = values
BY CheckpointIs DEF Built

LEMMA NamedTokens == Zero \in Tokens /\ Low \in Tokens /\ Random \in Tokens
<1>1. ASSUME NEW name \in {"zero", "low", "random"} PROVE Token(name) \in Tokens
  <2>1. <<name, 0, 0>> \in Names \X Nat \X Nat
    BY DEF Names
  <2> QED BY <2>1 DEF Token, Tokens
<1> QED BY <1>1 DEF Zero, Low, Random

\* A model that has every parameter of an older one where its own configuration keeps
\* it, and the prescribed value elsewhere, extends what the older one means.
LEMMA ExtendsByUnits ==
  ASSUME NEW m \in Checkpoints, NEW n \in Checkpoints,
         FeatureCount[m.config.spec] <= FeatureCount[n.config.spec],
         m.config.actions <= n.config.actions, m.config.history <= n.config.history,
         m.config.residual => n.config.residual,
         \A f \in 0..FeatureCount[n.config.spec] - 1 :
           n.w[<<"encoder", f>>] = IF f < FeatureCount[m.config.spec] THEN m.w[<<"encoder", f>>]
                                   ELSE Zero,
         \A slot \in 0..n.config.history - 1, a \in 0..n.config.actions - 1 :
           n.w[<<"encoder", FeatureCount[n.config.spec] + slot * n.config.actions + a>>]
             = IF slot < m.config.history /\ a < m.config.actions
               THEN m.w[<<"encoder", FeatureCount[m.config.spec] + slot * m.config.actions + a>>]
               ELSE Zero,
         \A t \in Heads, i \in Nat :
           <<t, i>> \in Units(n.config) =>
             n.w[<<t, i>>] = IF <<t, i>> \in Units(m.config) THEN m.w[<<t, i>>]
                             ELSE IF t = "bias" THEN Low ELSE Zero
  PROVE  Labelled!Extends(Meaning(n), Meaning(m))
<1> DEFINE c == m.config
           d == n.config
           F == FeatureCount[c.spec]
           G == FeatureCount[d.spec]
<1>1. c \in Configs /\ d \in Configs
  BY CheckpointIs
<1>2. /\ F \in Nat /\ G \in Nat /\ c.actions \in Nat /\ d.actions \in Nat
      /\ c.history \in Nat /\ d.history \in Nat /\ F <= G
      /\ c.residual \in BOOLEAN /\ d.residual \in BOOLEAN
  BY <1>1, ConfigType
<1>3. /\ DOMAIN Meaning(m) = Labels(c) /\ DOMAIN Meaning(n) = Labels(d)
      /\ \A l \in Labels(c) : Meaning(m)[l] = m.w[UnitOf(c, l)]
      /\ \A l \in Labels(d) : Meaning(n)[l] = n.w[UnitOf(d, l)]
  BY DEF Meaning
<1>4. \A t \in Heads, i \in Nat : <<t, i>> \in Units(c) => <<t, i>> \in Units(d)
  <2>1. \A i \in Nat : /\ i \in 0..c.actions - 1 => i \in 0..d.actions - 1
                       /\ i \in 0..F - 1 => i \in 0..G - 1
    BY <1>2
  <2> QED BY <1>1, <1>2, <2>1, UnitsAre DEF Heads
<1>5. ASSUME NEW l \in Labels(d)
      PROVE  IF l \in Labels(c) THEN Meaning(n)[l] = Meaning(m)[l]
             ELSE l[1] \notin {"hidden", "value"} /\ Meaning(n)[l] = Labelled!Fresh(l)
  <2>1. CASE \E f \in 0..G - 1 : l = <<"feature", f, 0>>
    <3>1. PICK f \in 0..G - 1 : l = <<"feature", f, 0>>
      BY <2>1
    <3>2. Meaning(n)[l] = IF f < F THEN m.w[<<"encoder", f>>] ELSE Zero
      BY <1>1, <1>3, <3>1, UnitOfIs
    <3>3. CASE f < F
      <4>1. f \in 0..F - 1
        BY <1>2, <3>3
      <4>2. l \in Labels(c) /\ Meaning(m)[l] = m.w[<<"encoder", f>>]
        BY <1>1, <1>3, <3>1, <4>1, UnitOfIs, LabelsAre
      <4> QED BY <3>2, <3>3, <4>2
    <3>4. CASE ~(f < F)
      <4>1. ~(f \in 0..F - 1)
        BY <1>2, <3>4
      <4>2. l \notin Labels(c)
        BY <1>1, <3>1, <4>1, LabelForms
      <4>3. Labelled!Fresh(l) = Zero /\ l[1] \notin {"hidden", "value"}
        BY <3>1 DEF Labelled!Fresh
      <4> QED BY <3>2, <3>4, <4>2, <4>3
    <3> QED BY <3>3, <3>4
  <2>2. CASE \E slot \in 0..d.history - 1, a \in 0..d.actions - 1 : l = <<"past", slot, a>>
    <3>1. PICK slot \in 0..d.history - 1, a \in 0..d.actions - 1 : l = <<"past", slot, a>>
      BY <2>2
    <3> DEFINE i == G + slot * d.actions + a
               old == m.w[<<"encoder", F + slot * c.actions + a>>]
    <3>2. Meaning(n)[l] = IF slot < c.history /\ a < c.actions THEN old ELSE Zero
      <4>1. n.w[<<"encoder", i>>] = IF slot < c.history /\ a < c.actions THEN old ELSE Zero
        BY <3>1
      <4>2. UnitOf(d, <<"past", slot, a>>) = <<"encoder", i>>
        BY <3>1 DEF UnitOf
      <4> HIDE DEF i, old
      <4> QED BY <1>3, <3>1, <4>1, <4>2
    <3>3. CASE slot < c.history /\ a < c.actions
      <4>1. slot \in 0..c.history - 1 /\ a \in 0..c.actions - 1
        BY <1>2, <3>3
      <4>2. l \in Labels(c) /\ Meaning(m)[l] = m.w[<<"encoder", F + slot * c.actions + a>>]
        BY <1>1, <1>3, <3>1, <4>1, UnitOfIs, LabelsAre
      <4> QED BY <3>2, <3>3, <4>2
    <3>4. CASE ~(slot < c.history /\ a < c.actions)
      <4>1. ~(slot \in 0..c.history - 1 /\ a \in 0..c.actions - 1)
        BY <1>2, <3>4
      <4>2. l \notin Labels(c)
        BY <1>1, <3>1, <4>1, LabelForms
      <4>3. Labelled!Fresh(l) = Zero /\ l[1] \notin {"hidden", "value"}
        BY <3>1 DEF Labelled!Fresh
      <4> QED BY <3>2, <3>4, <4>2, <4>3
    <3> QED BY <3>3, <3>4
  <2>3. CASE \E t \in Heads, i \in Nat : <<t, i>> \in Units(d) /\ l = <<t, i, 0>>
    <3>1. PICK t \in Heads, i \in Nat : <<t, i>> \in Units(d) /\ l = <<t, i, 0>>
      BY <2>3
    <3>2. Meaning(n)[l] = IF <<t, i>> \in Units(c) THEN m.w[<<t, i>>]
                          ELSE IF t = "bias" THEN Low ELSE Zero
      BY <1>1, <1>3, <3>1, UnitOfIs
    <3>3. CASE <<t, i>> \in Units(c)
      <4>1. l \in Labels(c) /\ Meaning(m)[l] = m.w[<<t, i>>]
        BY <1>1, <1>3, <3>1, <3>3, UnitOfIs, LabelForms
      <4> QED BY <3>2, <3>3, <4>1
    <3>4. CASE <<t, i>> \notin Units(c)
      <4>1. l \notin Labels(c)
        BY <1>1, <3>1, <3>4, LabelForms
      <4>2. t \notin {"hidden", "value"}
        BY <1>1, <3>1, <3>4, UnitsAre
      <4>3. Labelled!Fresh(l) = IF t = "bias" THEN Low ELSE Zero
        BY <3>1 DEF Labelled!Fresh
      <4> QED BY <3>1, <3>2, <3>4, <4>1, <4>2, <4>3
    <3> QED BY <3>3, <3>4
  <2>4. \/ \E f \in 0..G - 1 : l = <<"feature", f, 0>>
        \/ \E slot \in 0..d.history - 1, a \in 0..d.actions - 1 : l = <<"past", slot, a>>
        \/ \E t \in Heads, i \in Nat : <<t, i>> \in Units(d) /\ l = <<t, i, 0>>
    BY <1>1, LabelsAre
  <2> QED BY <2>1, <2>2, <2>3, <2>4
<1>6. Labels(c) \subseteq Labels(d)
  <2>1. ASSUME NEW l \in Labels(c) PROVE l \in Labels(d)
    <3>1. CASE \E f \in 0..F - 1 : l = <<"feature", f, 0>>
      <4>1. PICK f \in 0..F - 1 : l = <<"feature", f, 0>>
        BY <3>1
      <4>2. f \in 0..G - 1
        BY <1>2
      <4> QED BY <1>1, <4>1, <4>2, LabelsAre
    <3>2. CASE \E slot \in 0..c.history - 1, a \in 0..c.actions - 1 : l = <<"past", slot, a>>
      <4>1. PICK slot \in 0..c.history - 1, a \in 0..c.actions - 1 : l = <<"past", slot, a>>
        BY <3>2
      <4>2. slot \in 0..d.history - 1 /\ a \in 0..d.actions - 1
        BY <1>2
      <4> QED BY <1>1, <4>1, <4>2, LabelsAre
    <3>3. CASE \E t \in Heads, i \in Nat : <<t, i>> \in Units(c) /\ l = <<t, i, 0>>
      BY <1>1, <1>4, <3>3, LabelsAre
    <3> QED BY <1>1, <3>1, <3>2, <3>3, LabelsAre
  <2> QED BY <2>1
<1> HIDE DEF c, d, F, G
<1> QED BY <1>3, <1>5, <1>6 DEF Labelled!Extends
LEMMA ExtendsItself == ASSUME NEW f PROVE Labelled!Extends(f, f)
BY DEF Labelled!Extends

LEMMA ExtendsThrough ==
  ASSUME NEW f, NEW g, NEW h, Labelled!Extends(g, f), Labelled!Extends(h, g)
  PROVE  Labelled!Extends(h, f)
BY DEF Labelled!Extends

\* align_feature_spec.
LEMMA AlignFeatureSpecExtends ==
  ASSUME NEW m \in Checkpoints, NEW spec \in Specs, m.config.spec <= spec
  PROVE  LET n == AlignFeatureSpec(m, spec) IN
         /\ n \in Checkpoints /\ n.config = [m.config EXCEPT !.spec = spec]
         /\ Labelled!Extends(Meaning(n), Meaning(m))
         /\ m.config.spec = spec => n = m
<1> DEFINE c == m.config
           d == [c EXCEPT !.spec = spec]
           old == FeatureCount[c.spec]
           new == FeatureCount[spec]
           Column(i) == IF i < old THEN m.w[<<"encoder", i>>]
                        ELSE IF i < new THEN Zero
                        ELSE m.w[<<"encoder", old + (i - new)>>]
           values == [u \in Units(d) |->
                        IF u[1] = "encoder" THEN Column(u[2])
                        ELSE IF u \in DOMAIN m.w THEN m.w[u]
                        ELSE IF u[1] = "echo" THEN Zero ELSE Random]
           n == AlignFeatureSpec(m, spec)
<1>1. CASE c.spec = spec
  <2>1. n = m
    BY <1>1, Zenon DEF AlignFeatureSpec
  <2>2. m.config = [m.config EXCEPT !.spec = spec]
    BY <1>1, CheckpointIs, ConfigType
  <2> QED BY <2>1, <2>2, ExtendsItself
<1>2. CASE c.spec # spec
  <2>1. n = Built(d, values)
    BY <1>2, Zenon DEF AlignFeatureSpec
  <2>2. /\ c \in Configs /\ m.w \in [Units(c) -> Tokens]
        /\ c.actions \in Nat /\ c.history \in Nat /\ c.spec \in Specs /\ old \in Nat
        /\ c.actions * c.history \in Nat
    BY CheckpointIs, ConfigType
  <2>3. /\ d \in Configs /\ d.spec = spec /\ d.actions = c.actions
        /\ d.history = c.history /\ d.residual = c.residual
    BY <2>2 DEF Configs
  <2>4. new \in Nat /\ old <= new
    BY <2>2, ModelAssumption
  <2>5. Inputs(c) = old + c.actions * c.history /\ Inputs(d) = new + c.actions * c.history
    BY <2>3 DEF Inputs
  <2> HIDE DEF c, d, old, new
  <2>6. \A i \in 0..Inputs(d) - 1 : Column(i) \in Tokens
    <3> SUFFICES ASSUME NEW i \in 0..Inputs(d) - 1 PROVE Column(i) \in Tokens
      OBVIOUS
    <3>1. CASE i < old
      <4>1. i \in 0..Inputs(c) - 1
        BY <2>2, <2>5, <3>1
      <4>2. m.w[<<"encoder", i>>] \in Tokens
        BY <2>2, <4>1, UnitsAre
      <4> QED BY <3>1, <4>2
    <3>2. CASE ~(i < old) /\ ~(i < new)
      <4>1. old + (i - new) \in 0..Inputs(c) - 1
        BY <2>2, <2>4, <2>5, <3>2
      <4>2. m.w[<<"encoder", old + (i - new)>>] \in Tokens
        BY <2>2, <4>1, UnitsAre
      <4> QED BY <3>2, <4>2
    <3>3. CASE ~(i < old) /\ i < new
      BY <3>3, NamedTokens
    <3> QED BY <3>1, <3>2, <3>3
  <2>7. \A i \in 0..Inputs(d) - 1 : values[<<"encoder", i>>] = Column(i)
    BY <2>3, UnitsAre
  <2>8. \A t \in Heads, i \in Nat : <<t, i>> \in Units(d) =>
          values[<<t, i>>] = IF <<t, i>> \in Units(c) THEN m.w[<<t, i>>]
                             ELSE IF t = "echo" THEN Zero ELSE Random
    BY <2>2 DEF Heads
  <2>9. values \in [Units(d) -> Tokens]
    <3>1. ASSUME NEW u \in Units(d) PROVE values[u] \in Tokens
      <4>1. u = <<u[1], u[2]>> /\ u[1] \in Heads \cup {"encoder"} /\ u[2] \in Nat
        BY <2>3, UnitsAre
      <4>2. CASE u[1] = "encoder"
        <5>1. u[2] \in 0..Inputs(d) - 1
          BY <2>3, <4>1, <4>2, UnitsAre
        <5> QED BY <2>6, <2>7, <4>1, <4>2, <5>1
      <4>3. CASE u[1] \in Heads
        BY <2>2, <4>3, NamedTokens DEF Heads
      <4> QED BY <4>1, <4>2, <4>3
    <3>2. values = [u \in Units(d) |-> values[u]]
      OBVIOUS
    <3> HIDE DEF values
    <3> QED BY <3>1, <3>2
  <2> HIDE DEF values, n
  <2>10. n \in Checkpoints /\ n.config = d /\ n.w = values
    BY <2>1, <2>3, <2>9, BuiltIs
  <2>11. \A f \in 0..new - 1 :
           values[<<"encoder", f>>] = IF f < old THEN m.w[<<"encoder", f>>] ELSE Zero
    <3>1. \A f \in 0..new - 1 : f \in 0..Inputs(d) - 1 /\ f < new
      BY <2>2, <2>4, <2>5
    <3> QED BY <2>7, <3>1
  <2>12. ASSUME NEW slot \in 0..c.history - 1, NEW a \in 0..c.actions - 1
         PROVE  values[<<"encoder", new + slot * c.actions + a>>]
                  = m.w[<<"encoder", old + slot * c.actions + a>>]
    <3> DEFINE p == slot * c.actions
    <3>1. p \in Nat /\ p + a \in 0..c.actions * c.history - 1
      BY <2>2, SlotPosition
    <3> HIDE DEF p
    <3>2. /\ new + p + a \in 0..Inputs(d) - 1
          /\ ~(new + p + a < old) /\ ~(new + p + a < new)
          /\ old + ((new + p + a) - new) = old + p + a
      BY <2>2, <2>4, <2>5, <3>1
    <3>3. values[<<"encoder", new + p + a>>] = m.w[<<"encoder", old + p + a>>]
      BY <2>7, <3>2
    <3> QED BY <3>3 DEF p
  <2>13. ASSUME NEW t \in Heads, NEW i \in Nat, <<t, i>> \in Units(d)
         PROVE  values[<<t, i>>] = IF <<t, i>> \in Units(c) THEN m.w[<<t, i>>]
                                   ELSE IF t = "bias" THEN Low ELSE Zero
    <3>1. CASE t = "echo"
      BY <2>8, <2>13, <3>1
    <3>2. CASE t # "echo"
      <4>1. <<t, i>> \in Units(c)
        BY <2>2, <2>3, <2>13, <3>2, UnitsAre DEF Heads
      <4> QED BY <2>8, <2>13, <3>2, <4>1
    <3> QED BY <3>1, <3>2
  <2>14. Labelled!Extends(Meaning(n), Meaning(m))
    <3>1. \A slot \in 0..c.history - 1, a \in 0..c.actions - 1 : slot < c.history /\ a < c.actions
      BY <2>2
    <3>2. /\ c.actions <= d.actions /\ c.history <= d.history
          /\ c.residual => d.residual
      BY <2>2, <2>3
    <3> QED BY <2>3, <2>4, <2>10, <2>11, <2>12, <2>13, <3>1, <3>2, ExtendsByUnits
            DEF c, old, new
  <2> QED BY <1>2, <2>10, <2>14 DEF n, d, c
<1> QED BY <1>1, <1>2

\* add_action_history.
LEMMA AddActionHistoryExtends ==
  ASSUME NEW m \in Checkpoints, NEW length \in Lengths, m.config.history \in {0, length}
  PROVE  LET n == AddActionHistory(m, length) IN
         /\ n \in Checkpoints /\ n.config = [m.config EXCEPT !.history = length]
         /\ Labelled!Extends(Meaning(n), Meaning(m))
         /\ m.config.history = length => n = m
<1> DEFINE c == m.config
           d == [c EXCEPT !.history = length]
           F == FeatureCount[c.spec]
           values == [u \in Units(d) |->
                        IF u \in DOMAIN m.w THEN m.w[u]
                        ELSE IF u[1] = "encoder" THEN Zero ELSE Random]
           n == AddActionHistory(m, length)
<1>1. CASE c.history = length
  <2>1. n = m
    BY <1>1, Zenon DEF AddActionHistory
  <2>2. m.config = [m.config EXCEPT !.history = length]
    BY <1>1, CheckpointIs, ConfigType
  <2> QED BY <2>1, <2>2, ExtendsItself
<1>2. CASE c.history # length
  <2>1. n = Built(d, values)
    BY <1>2, Zenon DEF AddActionHistory
  <2>2. /\ c \in Configs /\ m.w \in [Units(c) -> Tokens]
        /\ c.actions \in Nat /\ c.history = 0 /\ c.spec \in Specs /\ F \in Nat
        /\ length \in Nat /\ c.actions * 0 = 0
    BY <1>2, CheckpointIs, ConfigType, ToolsAssumption
  <2>3. /\ d \in Configs /\ d.history = length /\ d.actions = c.actions
        /\ d.spec = c.spec /\ d.residual = c.residual
    BY <2>2 DEF Configs
  <2>4. Inputs(c) = F /\ Inputs(d) \in Nat /\ Inputs(d) = F + c.actions * length
    BY <2>2, <2>3, ConfigType DEF Inputs
  <2>5. c.actions * length \in Nat
    BY <2>2
  <2> HIDE DEF c, d, F
  <2>6. \A i \in 0..Inputs(d) - 1 :
          values[<<"encoder", i>>] = IF i < F THEN m.w[<<"encoder", i>>] ELSE Zero
    <3>1. \A i \in 0..Inputs(d) - 1 : <<"encoder", i>> \in Units(c) <=> i < F
      <4>1. \A i \in 0..Inputs(d) - 1 : i \in 0..Inputs(c) - 1 <=> i < F
        BY <2>2, <2>4
      <4> QED BY <2>2, <4>1, UnitsAre
    <3> QED BY <2>2, <2>3, <3>1, UnitsAre
  <2>7. \A t \in Heads, i \in Nat : <<t, i>> \in Units(d) =>
          values[<<t, i>>] = IF <<t, i>> \in Units(c) THEN m.w[<<t, i>>] ELSE Random
    BY <2>2 DEF Heads
  <2>8. values \in [Units(d) -> Tokens]
    <3>1. \A u \in Units(d) : values[u] \in Tokens
      BY <2>2, NamedTokens
    <3>2. values = [u \in Units(d) |-> values[u]]
      OBVIOUS
    <3> HIDE DEF values
    <3> QED BY <3>1, <3>2
  <2> HIDE DEF values, n
  <2>9. n \in Checkpoints /\ n.config = d /\ n.w = values
    BY <2>1, <2>3, <2>8, BuiltIs
  <2>10. \A f \in 0..F - 1 :
           values[<<"encoder", f>>] = IF f < F THEN m.w[<<"encoder", f>>] ELSE Zero
    <3>1. \A f \in 0..F - 1 : f \in 0..Inputs(d) - 1
      BY <2>2, <2>4, <2>5
    <3> QED BY <2>6, <3>1
  <2>11. ASSUME NEW slot \in 0..length - 1, NEW a \in 0..c.actions - 1
         PROVE  values[<<"encoder", F + slot * c.actions + a>>] = Zero
    <3> DEFINE p == slot * c.actions
    <3>1. p \in Nat /\ p + a \in 0..c.actions * length - 1
      BY <2>2, SlotPosition
    <3> HIDE DEF p
    <3>2. F + p + a \in 0..Inputs(d) - 1 /\ ~(F + p + a < F)
      BY <2>2, <2>4, <2>5, <3>1
    <3>3. values[<<"encoder", F + p + a>>] = Zero
      BY <2>6, <3>2
    <3> QED BY <3>3 DEF p
  <2>12. ASSUME NEW t \in Heads, NEW i \in Nat, <<t, i>> \in Units(d)
         PROVE  values[<<t, i>>] = IF <<t, i>> \in Units(c) THEN m.w[<<t, i>>]
                                   ELSE IF t = "bias" THEN Low ELSE Zero
    <3>1. <<t, i>> \in Units(c)
      BY <2>2, <2>3, <2>12, UnitsAre DEF Heads
    <3> QED BY <2>7, <2>12, <3>1
  <2>13. Labelled!Extends(Meaning(n), Meaning(m))
    <3>1. \A slot : ~(slot \in 0..length - 1 /\ slot < c.history)
      BY <2>2
    <3>2. /\ c.actions <= d.actions /\ c.history <= d.history /\ F <= F
          /\ c.residual => d.residual
      BY <2>2, <2>3
    <3> QED BY <2>3, <2>9, <2>10, <2>11, <2>12, <3>1, <3>2, ExtendsByUnits
            DEF c, F
  <2> QED BY <1>2, <2>9, <2>13 DEF n, d, c
<1> QED BY <1>1, <1>2

\* enable_ability_residual, of a model that has none.
LEMMA EnableResidualExtends ==
  ASSUME NEW m \in Checkpoints, ~m.config.residual
  PROVE  LET n == EnableAbilityResidual(m) IN
         /\ n \in Checkpoints /\ n.config = [m.config EXCEPT !.residual = TRUE]
         /\ Labelled!Extends(Meaning(n), Meaning(m))
<1> DEFINE c == m.config
           d == [c EXCEPT !.residual = TRUE]
           F == FeatureCount[c.spec]
           values == [u \in Units(d) |-> IF u \in DOMAIN m.w THEN m.w[u] ELSE Zero]
           n == EnableAbilityResidual(m)
<1>1. n = Built(d, values)
  BY Zenon DEF EnableAbilityResidual
<1>2. /\ c \in Configs /\ m.w \in [Units(c) -> Tokens]
      /\ c.actions \in Nat /\ c.history \in Nat /\ c.spec \in Specs /\ F \in Nat
      /\ c.actions * c.history \in Nat
  BY CheckpointIs, ConfigType
<1>3. /\ d \in Configs /\ d.history = c.history /\ d.actions = c.actions
      /\ d.spec = c.spec /\ d.residual
  BY <1>2 DEF Configs
<1>4. Inputs(d) = Inputs(c) /\ Inputs(c) = F + c.actions * c.history /\ ~c.residual
  BY <1>3 DEF Inputs
<1> HIDE DEF c, d, F
<1>5. \A i \in 0..Inputs(c) - 1 : values[<<"encoder", i>>] = m.w[<<"encoder", i>>]
  BY <1>2, <1>3, <1>4, UnitsAre
<1>6. \A t \in Heads, i \in Nat : <<t, i>> \in Units(d) =>
        values[<<t, i>>] = IF <<t, i>> \in Units(c) THEN m.w[<<t, i>>] ELSE Zero
  BY <1>2
<1>7. values \in [Units(d) -> Tokens]
  <2>1. \A u \in Units(d) : values[u] \in Tokens
    BY <1>2, NamedTokens
  <2>2. values = [u \in Units(d) |-> values[u]]
    OBVIOUS
  <2> HIDE DEF values
  <2> QED BY <2>1, <2>2
<1> HIDE DEF values, n
<1>8. n \in Checkpoints /\ n.config = d /\ n.w = values
  BY <1>1, <1>3, <1>7, BuiltIs
<1>9. \A f \in 0..F - 1 :
        values[<<"encoder", f>>] = IF f < F THEN m.w[<<"encoder", f>>] ELSE Zero
  <2>1. \A f \in 0..F - 1 : f \in 0..Inputs(c) - 1 /\ f < F
    BY <1>2, <1>4
  <2> QED BY <1>5, <2>1
<1>10. ASSUME NEW slot \in 0..c.history - 1, NEW a \in 0..c.actions - 1
       PROVE  values[<<"encoder", F + slot * c.actions + a>>]
                = m.w[<<"encoder", F + slot * c.actions + a>>]
  <2> DEFINE p == slot * c.actions
  <2>1. p \in Nat /\ p + a \in 0..c.actions * c.history - 1
    BY <1>2, SlotPosition
  <2> HIDE DEF p
  <2>2. F + p + a \in 0..Inputs(c) - 1
    BY <1>2, <1>4, <2>1
  <2>3. values[<<"encoder", F + p + a>>] = m.w[<<"encoder", F + p + a>>]
    BY <1>5, <2>2
  <2> QED BY <2>3 DEF p
<1>11. ASSUME NEW t \in Heads, NEW i \in Nat, <<t, i>> \in Units(d)
       PROVE  values[<<t, i>>] = IF <<t, i>> \in Units(c) THEN m.w[<<t, i>>]
                                 ELSE IF t = "bias" THEN Low ELSE Zero
  <2>1. CASE t = "bias"
    <3>1. <<t, i>> \in Units(c)
      BY <1>2, <1>3, <1>11, <2>1, UnitsAre
    <3> QED BY <1>6, <1>11, <3>1
  <2>2. CASE t # "bias"
    BY <1>6, <1>11, <2>2
  <2> QED BY <2>1, <2>2
<1>12. Labelled!Extends(Meaning(n), Meaning(m))
  <2>1. \A slot \in 0..c.history - 1, a \in 0..c.actions - 1 : slot < c.history /\ a < c.actions
    BY <1>2
  <2>2. /\ c.actions <= d.actions /\ c.history <= d.history /\ F <= F
        /\ c.residual => d.residual
    BY <1>2, <1>3
  <2> QED BY <1>3, <1>8, <1>9, <1>10, <1>11, <2>1, <2>2, ExtendsByUnits DEF c, F
<1> QED BY <1>8, <1>12 DEF n, d, c

\* align_action_count.
LEMMA AlignActionCountExtends ==
  ASSUME NEW m \in Checkpoints, m.config.actions <= ActionCount
  PROVE  LET n == AlignActionCount(m, ActionCount) IN
         /\ n \in Checkpoints /\ n.config = [m.config EXCEPT !.actions = ActionCount]
         /\ Labelled!Extends(Meaning(n), Meaning(m))
         /\ m.config.actions = ActionCount => n = m
<1> DEFINE c == m.config
           d == [c EXCEPT !.actions = ActionCount]
           semantic == FeatureCount[c.spec]
           old == c.actions
           NewStart(slot) == semantic + slot * ActionCount
           OldStart(slot) == semantic + slot * old
           Slots(i) == {slot \in 0..c.history - 1 :
                          i \in NewStart(slot)..NewStart(slot) + old - 1}
           Column(i) ==
             IF i < semantic THEN m.w[<<"encoder", i>>]
             ELSE IF Slots(i) = {} THEN Zero
             ELSE LET slot == CHOOSE s \in Slots(i) : TRUE
                  IN m.w[<<"encoder", OldStart(slot) + (i - NewStart(slot))>>]
           values == [u \in Units(d) |->
             IF u[1] = "encoder" THEN Column(u[2])
             ELSE IF u \in DOMAIN m.w THEN m.w[u]
             ELSE CASE u[1] = "weight" -> Zero
                    [] u[1] = "bias" -> Low
                    [] OTHER -> Random]
           n == AlignActionCount(m, ActionCount)
<1>1. CASE c.actions = ActionCount
  <2>1. n = m
    BY <1>1, Zenon DEF AlignActionCount
  <2>2. m.config = [m.config EXCEPT !.actions = ActionCount]
    BY <1>1, CheckpointIs, ConfigType
  <2> QED BY <2>1, <2>2, ExtendsItself
<1>2. CASE c.actions # ActionCount
  <2>1. n = Built(d, values)
    BY <1>2, Zenon DEF AlignActionCount
  <2>2. /\ c \in Configs /\ m.w \in [Units(c) -> Tokens]
        /\ old \in Nat /\ c.history \in Nat /\ c.spec \in Specs /\ semantic \in Nat
        /\ old * c.history \in Nat /\ old <= ActionCount /\ ActionCount \in Nat
    BY CheckpointIs, ConfigType, ModelAssumption
  <2>3. /\ d \in Configs /\ d.history = c.history /\ d.actions = ActionCount
        /\ d.spec = c.spec /\ d.residual = c.residual
    BY <2>2 DEF Configs
  <2>4. /\ Inputs(c) = semantic + old * c.history
        /\ Inputs(d) = semantic + ActionCount * c.history
        /\ ActionCount * c.history \in Nat
    BY <2>2, <2>3 DEF Inputs
  <2> HIDE DEF c, d, semantic, old, Column
  <2>5. \A i \in 0..Inputs(d) - 1 : values[<<"encoder", i>>] = Column(i)
    BY <2>3, UnitsAre
  <2> USE DEF Column
  \* A position belongs to at most one slot, and to the position of the old slot.
  <2>6. ASSUME NEW i \in Int, NEW s \in Slots(i)
        PROVE  /\ s \in 0..c.history - 1 /\ i - NewStart(s) \in 0..old - 1
               /\ OldStart(s) + (i - NewStart(s)) \in 0..Inputs(c) - 1
    <3>1. s \in 0..c.history - 1 /\ s \in Nat /\ s * ActionCount \in Nat /\ s * old \in Nat
      BY <2>2
    <3> DEFINE p == s * ActionCount
               q == s * old
    <3>2. i \in NewStart(s)..NewStart(s) + old - 1
      OBVIOUS
    <3>3. i - (semantic + p) \in 0..old - 1
      <4> HIDE DEF p
      <4>1. p \in Nat
        BY <3>1 DEF p
      <4>2. i \in semantic + p..semantic + p + old - 1
        BY <3>2 DEF p
      <4> QED BY <2>2, <4>1, <4>2
    <3>4. q + (i - (semantic + p)) \in 0..old * c.history - 1
      BY <2>2, <3>1, <3>3, SlotPosition
    <3>5. semantic + q + (i - (semantic + p)) \in 0..Inputs(c) - 1
      <4>1. p \in Nat /\ q \in Nat
        BY <3>1
      <4> HIDE DEF p, q
      <4> QED BY <2>2, <2>4, <3>4, <4>1
    <3> QED BY <3>1, <3>3, <3>5
  <2> HIDE DEF NewStart, OldStart, Slots
  <2>7. \A i \in 0..Inputs(d) - 1 : Column(i) \in Tokens
    <3> SUFFICES ASSUME NEW i \in 0..Inputs(d) - 1 PROVE Column(i) \in Tokens
      OBVIOUS
    <3>1. CASE i < semantic
      <4>1. i \in 0..Inputs(c) - 1
        BY <2>2, <2>4, <3>1
      <4>2. m.w[<<"encoder", i>>] \in Tokens
        BY <2>2, <4>1, UnitsAre
      <4> QED BY <3>1, <4>2
    <3>2. CASE ~(i < semantic) /\ Slots(i) = {}
      BY <3>2, NamedTokens
    <3>3. CASE ~(i < semantic) /\ Slots(i) # {}
      <4> DEFINE s == CHOOSE t \in Slots(i) : TRUE
      <4>1. s \in Slots(i)
        BY <3>3
      <4> HIDE DEF s
      <4>2. OldStart(s) + (i - NewStart(s)) \in 0..Inputs(c) - 1
        BY <2>6, <4>1
      <4>3. m.w[<<"encoder", OldStart(s) + (i - NewStart(s))>>] \in Tokens
        BY <2>2, <4>2, UnitsAre
      <4> QED BY <3>3, <4>3 DEF s
    <3> QED BY <3>1, <3>2, <3>3
  <2>8. \A t \in Heads, i \in Nat : <<t, i>> \in Units(d) =>
          values[<<t, i>>] = IF <<t, i>> \in Units(c) THEN m.w[<<t, i>>]
                             ELSE IF t = "weight" THEN Zero
                             ELSE IF t = "bias" THEN Low ELSE Random
    BY <2>2 DEF Heads
  <2>9. values \in [Units(d) -> Tokens]
    <3>1. ASSUME NEW u \in Units(d) PROVE values[u] \in Tokens
      <4>1. u = <<u[1], u[2]>> /\ u[1] \in Heads \cup {"encoder"} /\ u[2] \in Nat
        BY <2>3, UnitsAre
      <4>2. CASE u[1] = "encoder"
        <5>1. u[2] \in 0..Inputs(d) - 1
          BY <2>3, <4>1, <4>2, UnitsAre
        <5>2. values[<<"encoder", u[2]>>] \in Tokens
          <6> HIDE DEF Column, values
          <6> QED BY <2>5, <2>7, <5>1
        <5> QED BY <4>1, <4>2, <5>2
      <4>3. CASE u[1] \in Heads
        <5>1. values[u] = IF u \in Units(c) THEN m.w[u]
                          ELSE IF u[1] = "weight" THEN Zero
                          ELSE IF u[1] = "bias" THEN Low ELSE Random
          BY <2>2, <4>3 DEF Heads
        <5> QED BY <2>2, <5>1, NamedTokens
      <4> QED BY <4>1, <4>2, <4>3
    <3>2. values = [u \in Units(d) |-> values[u]]
      OBVIOUS
    <3> HIDE DEF values
    <3> QED BY <3>1, <3>2
  <2> HIDE DEF values, n
  <2>10. n \in Checkpoints /\ n.config = d /\ n.w = values
    BY <2>1, <2>3, <2>9, BuiltIs
  <2>11. \A f \in 0..semantic - 1 :
           values[<<"encoder", f>>] = IF f < semantic THEN m.w[<<"encoder", f>>] ELSE Zero
    <3>1. \A f \in 0..semantic - 1 : f \in 0..Inputs(d) - 1 /\ f < semantic
      BY <2>2, <2>4
    <3> QED BY <2>5, <3>1
  <2>12. ASSUME NEW slot \in 0..c.history - 1, NEW a \in 0..ActionCount - 1
         PROVE  values[<<"encoder", semantic + slot * ActionCount + a>>]
                  = IF a < old THEN m.w[<<"encoder", semantic + slot * old + a>>] ELSE Zero
    <3> DEFINE p == slot * ActionCount
               i == semantic + p + a
    <3>1. p \in Nat /\ p + a \in 0..ActionCount * c.history - 1
      BY <2>2, SlotPosition
    <3>2. i \in 0..Inputs(d) - 1 /\ ~(i < semantic) /\ i \in Int
      <4> HIDE DEF p
      <4> QED BY <2>2, <2>4, <3>1
    <3>3. ASSUME NEW s \in Slots(i) PROVE s = slot /\ a < old
      <4> DEFINE b == i - NewStart(s)
                 q == s * ActionCount
      <4>1. s \in 0..c.history - 1 /\ b \in 0..old - 1 /\ s \in Nat /\ q \in Nat
        BY <2>2, <2>6, <3>2
      <4>2. b = (semantic + p + a) - (semantic + q)
        BY DEF NewStart
      <4>3. b \in 0..ActionCount - 1
        BY <2>2, <4>1
      <4>4. p + a = q + b
        <5> HIDE DEF p, q, b
        <5> QED BY <2>2, <3>1, <4>1, <4>2
      <4>5. slot = s /\ a = b
        <5> HIDE DEF b
        <5> QED BY <2>2, <4>1, <4>3, <4>4, SlotUnique
      <4>6. a = b /\ slot = s
        BY <4>5
      <4> HIDE DEF b
      <4> QED BY <2>2, <4>1, <4>6
    <3>4. a < old => slot \in Slots(i)
      <4>1. NewStart(slot) = semantic + p
        BY DEF NewStart
      <4>2. a < old => i \in semantic + p..semantic + p + old - 1
        <5> HIDE DEF p
        <5> QED BY <2>2, <3>1
      <4> QED BY <4>1, <4>2 DEF Slots
    <3>5. values[<<"encoder", i>>] = Column(i)
      BY <2>5, <3>2
    <3>6. CASE a < old
      <4> DEFINE s == CHOOSE t \in Slots(i) : TRUE
      <4>1. s = slot /\ Slots(i) # {}
        BY <3>3, <3>4, <3>6
      <4>2. Column(i) = m.w[<<"encoder", OldStart(s) + (i - NewStart(s))>>]
        BY <3>2, <4>1
      <4> HIDE DEF s
      <4>3. OldStart(s) + (i - NewStart(s)) = semantic + slot * old + a
        <5> DEFINE q == slot * old
        <5>1. q \in Nat
          BY <2>2
        <5>2. OldStart(s) = semantic + q /\ NewStart(s) = semantic + p
          BY <4>1 DEF OldStart, NewStart
        <5> HIDE DEF p, q
        <5>3. semantic + q + ((semantic + p + a) - (semantic + p)) = semantic + q + a
          BY <2>2, <3>1, <5>1
        <5>4. OldStart(s) + (i - NewStart(s)) = semantic + q + a
          BY <5>2, <5>3
        <5> QED BY <5>4 DEF q
      <4>4. Column(i) = m.w[<<"encoder", semantic + slot * old + a>>]
        BY <4>2, <4>3
      <4> QED BY <3>5, <3>6, <4>4
    <3>7. CASE ~(a < old)
      <4>1. Slots(i) = {}
        BY <3>3, <3>7
      <4>2. Column(i) = Zero
        BY <3>2, <4>1
      <4> QED BY <3>5, <3>7, <4>2
    <3> QED BY <3>6, <3>7
  <2>13. ASSUME NEW t \in Heads, NEW i \in Nat, <<t, i>> \in Units(d)
         PROVE  values[<<t, i>>] = IF <<t, i>> \in Units(c) THEN m.w[<<t, i>>]
                                   ELSE IF t = "bias" THEN Low ELSE Zero
    <3>1. CASE t \in {"weight", "bias"}
      BY <2>8, <2>13, <3>1
    <3>2. CASE t \notin {"weight", "bias"}
      <4>1. <<t, i>> \in Units(c)
        BY <2>2, <2>3, <2>13, <3>2, UnitsAre DEF Heads
      <4> QED BY <2>8, <2>13, <4>1
    <3> QED BY <3>1, <3>2
  <2>14. Labelled!Extends(Meaning(n), Meaning(m))
    <3>1. \A slot \in 0..c.history - 1 : slot < c.history
      BY <2>2
    <3>2. /\ old <= d.actions /\ c.history <= d.history /\ semantic <= semantic
          /\ c.residual => d.residual
      BY <2>2, <2>3
    <3>3. \A slot \in 0..d.history - 1, a \in 0..d.actions - 1 :
            n.w[<<"encoder", semantic + slot * d.actions + a>>]
              = IF slot < c.history /\ a < old
                THEN m.w[<<"encoder", semantic + slot * old + a>>] ELSE Zero
      BY <2>3, <2>10, <2>12, <3>1
    <3> QED BY <2>3, <2>10, <2>11, <2>13, <3>2, <3>3, ExtendsByUnits DEF c, semantic, old
  <2> QED BY <1>2, <2>10, <2>14 DEF n, d, c
<1> QED BY <1>1, <1>2
-------------------------------------------------------------------------------
(* A running tool.                                                             *)

Positions == (Heads \cup {"encoder"}) \X Nat
Jobs ==
  [kind : {"train", "probe", "residual", "migrate"},
   origin : Checkpoints, model : Checkpoints, baseline : Checkpoints,
   rows : SUBSET Nat, columns : {None} \cup SUBSET Nat, train_value : BOOLEAN, warmup : Nat,
   at : {"step", "save", "number"}, update : Nat, left : Int, moments : SUBSET Positions]

\* What tool j was started with: a model that extends the checkpoint, and rows and columns
\* within it.  The model keeps its configuration.
Started(j) ==
  /\ Valid(j.origin.config) /\ j.model.config = j.baseline.config
  /\ Labelled!Extends(Meaning(j.baseline), Meaning(j.origin))
  /\ j.baseline.config = j.origin.config => j.baseline = j.origin
  /\ j.kind # "migrate" =>
       j.baseline.config.actions = ActionCount /\ j.baseline.config.spec = CurrentSpec
  /\ j.kind \in {"train", "probe"} =>
       /\ j.rows \subseteq 0..ActionCount - 1
       /\ \/ j.columns = None
          \/ j.columns = Columns(j.origin.config.spec, CurrentSpec) \/ j.columns = {}
  /\ j.kind = "residual" => ~j.origin.config.residual /\ j.baseline.config.residual
  /\ j.kind \in {"residual", "migrate"} => j.rows = {} /\ j.columns = None
  /\ j.kind = "migrate" => j.model = j.baseline
  /\ j.train_value \/ j.at = "number" => j.kind = "train"

\* The parameters tool j owns.
MayMove(j, u) ==
  \/ u[1] \in {"weight", "bias"} /\ u[2] \in j.rows
  \/ u[1] = "value" /\ j.train_value
  \/ u[1] = "encoder" /\ j.columns # None /\ u[2] \in j.columns
  \/ u[1] = "residual" /\ j.kind = "residual"

Held(j) == j.kind # "train" \/ j.update < j.warmup

\* While it is held to them nothing else has moved, or has a moment that could move it.
Kept(j) ==
  /\ \A u \in Units(j.model.config) : j.model.w[u] = j.baseline.w[u] \/ MayMove(j, u)
  /\ \A u \in j.moments : MayMove(j, u)

\* A hidden layer never goes back, and has moved when an unrestricted update is saved.
Trained(j) ==
  LET steps == j.model.w[<<"hidden", 0>>].moved
      before == j.baseline.w[<<"hidden", 0>>].moved
  IN steps >= before /\ (~Held(j) /\ j.at # "step" => steps > before)

ToolTypes ==
  /\ files \in [Paths -> Checkpoints \cup {None}]
  /\ job \in Jobs \cup {NoJob} /\ jobs \in Nat
ToolInv ==
  /\ ToolTypes
  /\ job # NoJob => /\ Started(job) /\ (Held(job) => Kept(job))
                    /\ job.kind = "train" => Trained(job)

\* What a tool starts with.
LEMMA JobIs ==
  ASSUME NEW kind \in {"train", "probe", "residual", "migrate"}, NEW origin \in Checkpoints,
         NEW model \in Checkpoints
  PROVE  Job(kind, origin, model) \in Jobs
<1>1. Minibatches \in Int /\ {} \in SUBSET Nat /\ {} \in SUBSET Positions
      /\ None \in {None} \cup SUBSET Nat
  BY ToolsAssumption
<1> QED BY <1>1 DEF Jobs, Job

RowSets == SUBSET Nat
ColumnSets == {None} \cup SUBSET Nat
TrainingJob(origin, model, rows, columns, train_value, warmup) ==
  [Job("train", origin, model) EXCEPT !.rows = rows, !.columns = columns,
                                      !.train_value = train_value, !.warmup = warmup]
ProbeJob(origin, model, rows, columns) ==
  [Job("probe", origin, model) EXCEPT !.rows = rows, !.columns = columns]
SavingJob(kind, origin, model, left) ==
  [Job(kind, origin, model) EXCEPT !.at = "save", !.left = left]

LEMMA TrainingFields ==
  ASSUME NEW origin \in Checkpoints, NEW model \in Checkpoints, NEW rows \in RowSets,
         NEW columns \in ColumnSets, NEW train_value \in BOOLEAN,
         NEW warmup \in Nat
  PROVE  LET j == TrainingJob(origin, model, rows, columns, train_value, warmup) IN
         /\ j \in Jobs
         /\ j.kind = "train" /\ j.origin = origin /\ j.model = model /\ j.baseline = model
         /\ j.rows = rows /\ j.columns = columns /\ j.train_value = train_value
         /\ j.warmup = warmup /\ j.at = "step" /\ j.update = 0 /\ j.moments = {}
<1> DEFINE j == TrainingJob(origin, model, rows, columns, train_value, warmup)
<1>1. j \in Jobs
  <2> DEFINE k == Job("train", origin, model)
  <2>1. k \in Jobs
    BY JobIs
  <2> HIDE DEF k
  <2>2. [k EXCEPT !.rows = rows, !.columns = columns, !.train_value = train_value,
                  !.warmup = warmup] \in Jobs
    BY <2>1 DEF Jobs, RowSets, ColumnSets
  <2> QED BY <2>2 DEF k, TrainingJob
<1>2. /\ j.kind = "train" /\ j.origin = origin /\ j.model = model /\ j.baseline = model
      /\ j.rows = rows /\ j.columns = columns /\ j.train_value = train_value
      /\ j.warmup = warmup /\ j.at = "step" /\ j.update = 0 /\ j.moments = {}
  BY DEF Job, TrainingJob
<1> QED BY <1>1, <1>2

LEMMA ProbeFields ==
  ASSUME NEW origin \in Checkpoints, NEW model \in Checkpoints, NEW rows \in RowSets,
         NEW columns \in ColumnSets
  PROVE  LET j == ProbeJob(origin, model, rows, columns) IN
         /\ j \in Jobs
         /\ j.kind = "probe" /\ j.origin = origin /\ j.model = model /\ j.baseline = model
         /\ j.rows = rows /\ j.columns = columns /\ ~j.train_value
         /\ j.at = "step" /\ j.moments = {}
<1> DEFINE j == ProbeJob(origin, model, rows, columns)
<1>1. j \in Jobs
  <2> DEFINE k == Job("probe", origin, model)
  <2>1. k \in Jobs
    BY JobIs
  <2> HIDE DEF k
  <2>2. [k EXCEPT !.rows = rows, !.columns = columns] \in Jobs
    BY <2>1 DEF Jobs, RowSets, ColumnSets
  <2> QED BY <2>2 DEF k, ProbeJob
<1>2. /\ j.kind = "probe" /\ j.origin = origin /\ j.model = model /\ j.baseline = model
      /\ j.rows = rows /\ j.columns = columns /\ ~j.train_value
      /\ j.at = "step" /\ j.moments = {}
  BY DEF Job, ProbeJob
<1> QED BY <1>1, <1>2

LEMMA SavingFields ==
  ASSUME NEW kind \in {"residual", "migrate"}, NEW origin \in Checkpoints,
         NEW model \in Checkpoints, NEW left \in Int
  PROVE  LET j == SavingJob(kind, origin, model, left) IN
         /\ j \in Jobs
         /\ j.kind = kind /\ j.origin = origin /\ j.model = model /\ j.baseline = model
         /\ j.rows = {} /\ j.columns = None /\ ~j.train_value
         /\ j.at = "save" /\ j.moments = {}
<1> DEFINE j == SavingJob(kind, origin, model, left)
<1>1. j \in Jobs
  <2> DEFINE k == Job(kind, origin, model)
  <2>1. k \in Jobs
    BY JobIs
  <2> HIDE DEF k
  <2>2. [k EXCEPT !.at = "save", !.left = left] \in Jobs
    BY <2>1 DEF Jobs
  <2> QED BY <2>2 DEF k, SavingJob
<1>2. /\ j.kind = kind /\ j.origin = origin /\ j.model = model /\ j.baseline = model
      /\ j.rows = {} /\ j.columns = None /\ ~j.train_value
      /\ j.at = "save" /\ j.moments = {}
  BY DEF Job, SavingJob
<1> QED BY <1>1, <1>2

\* What a step of a tool leaves of it.
SameTool(k, j) ==
  /\ k.kind = j.kind /\ k.origin = j.origin /\ k.baseline = j.baseline
  /\ k.rows = j.rows /\ k.columns = j.columns /\ k.train_value = j.train_value
  /\ k.warmup = j.warmup

SteppedJob(j, model, moments, left, stage) ==
  [j EXCEPT !.model = model, !.moments = moments, !.left = left, !.at = stage]
ResidualJob(j, model, moments, stage) ==
  [j EXCEPT !.model = model, !.moments = moments, !.at = stage]
SavedJob(j, stage) == [j EXCEPT !.at = stage]
RepeatedJob(j, left, stage) == [j EXCEPT !.left = left, !.at = stage]
UpdatedJob(j, update) == [j EXCEPT !.update = update, !.at = "step", !.left = Minibatches]

LEMMA StepFields ==
  ASSUME NEW j \in Jobs, NEW model \in Checkpoints, NEW moments \in SUBSET Positions,
         NEW left \in Int, NEW stage \in {"step", "save", "number"}
  PROVE  LET k == SteppedJob(j, model, moments, left, stage) IN
         /\ k \in Jobs /\ SameTool(k, j) /\ k.update = j.update
         /\ k.model = model /\ k.moments = moments /\ k.at = stage
<1> DEFINE k == SteppedJob(j, model, moments, left, stage)
<1>1. k \in Jobs
  BY DEF Jobs, SteppedJob
<1>2. /\ k.kind = j.kind /\ k.origin = j.origin /\ k.baseline = j.baseline
      /\ k.rows = j.rows /\ k.columns = j.columns /\ k.train_value = j.train_value
      /\ k.warmup = j.warmup /\ k.update = j.update
      /\ k.model = model /\ k.moments = moments /\ k.at = stage
  BY DEF Jobs, SteppedJob
<1> QED BY <1>1, <1>2 DEF SameTool

LEMMA ResidualFields ==
  ASSUME NEW j \in Jobs, NEW model \in Checkpoints, NEW moments \in SUBSET Positions,
         NEW stage \in {"step", "save", "number"}
  PROVE  LET k == ResidualJob(j, model, moments, stage) IN
         /\ k \in Jobs /\ SameTool(k, j) /\ k.update = j.update
         /\ k.model = model /\ k.moments = moments /\ k.at = stage
<1> DEFINE k == ResidualJob(j, model, moments, stage)
<1>1. k \in Jobs
  BY DEF Jobs, ResidualJob
<1>2. /\ k.kind = j.kind /\ k.origin = j.origin /\ k.baseline = j.baseline
      /\ k.rows = j.rows /\ k.columns = j.columns /\ k.train_value = j.train_value
      /\ k.warmup = j.warmup /\ k.update = j.update
      /\ k.model = model /\ k.moments = moments /\ k.at = stage
  BY DEF Jobs, ResidualJob
<1> QED BY <1>1, <1>2 DEF SameTool

LEMMA SaveFields ==
  ASSUME NEW j \in Jobs, NEW stage \in {"step", "save", "number"}
  PROVE  LET k == SavedJob(j, stage) IN
         /\ k \in Jobs /\ SameTool(k, j) /\ k.update = j.update
         /\ k.model = j.model /\ k.moments = j.moments /\ k.at = stage
<1> DEFINE k == SavedJob(j, stage)
<1>1. k \in Jobs
  BY DEF Jobs, SavedJob
<1>2. /\ k.kind = j.kind /\ k.origin = j.origin /\ k.baseline = j.baseline
      /\ k.rows = j.rows /\ k.columns = j.columns /\ k.train_value = j.train_value
      /\ k.warmup = j.warmup /\ k.update = j.update
      /\ k.model = j.model /\ k.moments = j.moments /\ k.at = stage
  BY DEF Jobs, SavedJob
<1> QED BY <1>1, <1>2 DEF SameTool

LEMMA RepeatFields ==
  ASSUME NEW j \in Jobs, NEW left \in Int, NEW stage \in {"step", "save", "number"}
  PROVE  LET k == RepeatedJob(j, left, stage) IN
         /\ k \in Jobs /\ SameTool(k, j) /\ k.update = j.update
         /\ k.model = j.model /\ k.moments = j.moments /\ k.at = stage
<1> DEFINE k == RepeatedJob(j, left, stage)
<1>1. k \in Jobs
  BY DEF Jobs, RepeatedJob
<1>2. /\ k.kind = j.kind /\ k.origin = j.origin /\ k.baseline = j.baseline
      /\ k.rows = j.rows /\ k.columns = j.columns /\ k.train_value = j.train_value
      /\ k.warmup = j.warmup /\ k.update = j.update
      /\ k.model = j.model /\ k.moments = j.moments /\ k.at = stage
  BY DEF Jobs, RepeatedJob
<1> QED BY <1>1, <1>2 DEF SameTool

LEMMA UpdateFields ==
  ASSUME NEW j \in Jobs, NEW update \in Nat
  PROVE  LET k == UpdatedJob(j, update) IN
         /\ k \in Jobs /\ SameTool(k, j) /\ k.update = update
         /\ k.model = j.model /\ k.moments = j.moments /\ k.at = "step"
<1> DEFINE k == UpdatedJob(j, update)
<1>1. Minibatches \in Int
  BY ToolsAssumption
<1>2. k \in Jobs
  BY <1>1 DEF Jobs, UpdatedJob
<1>3. /\ k.kind = j.kind /\ k.origin = j.origin /\ k.baseline = j.baseline
      /\ k.rows = j.rows /\ k.columns = j.columns /\ k.train_value = j.train_value
      /\ k.warmup = j.warmup /\ k.update = update
      /\ k.model = j.model /\ k.moments = j.moments /\ k.at = "step"
  BY DEF Jobs, UpdatedJob
<1> QED BY <1>2, <1>3 DEF SameTool
-------------------------------------------------------------------------------
(* The optimizer.                                                              *)

LEMMA TokenMoves ==
  ASSUME NEW t \in Tokens
  PROVE  [t EXCEPT !.moved = @ + 1] \in Tokens /\ [t EXCEPT !.moved = @ + 1].moved = t.moved + 1
         /\ t.moved \in Nat
BY DEF Tokens

LEMMA MovedIs ==
  ASSUME NEW m \in Checkpoints, NEW tensors
  PROVE  /\ Moved(m, tensors) \in Checkpoints /\ Moved(m, tensors).config = m.config
         /\ \A u \in Units(m.config) :
              Moved(m, tensors).w[u] = IF u[1] \in tensors THEN [m.w[u] EXCEPT !.moved = @ + 1]
                                       ELSE m.w[u]
<1> DEFINE w == [u \in DOMAIN m.w |->
                   IF u[1] \in tensors THEN [m.w[u] EXCEPT !.moved = @ + 1] ELSE m.w[u]]
<1>1. m.config \in Configs /\ m.w \in [Units(m.config) -> Tokens] /\ m = Built(m.config, m.w)
  BY CheckpointIs
<1>2. \A u \in Units(m.config) :
        /\ w[u] = IF u[1] \in tensors THEN [m.w[u] EXCEPT !.moved = @ + 1] ELSE m.w[u]
        /\ w[u] \in Tokens
  BY <1>1, TokenMoves
<1>3. w \in [Units(m.config) -> Tokens]
  <2>1. w = [u \in Units(m.config) |-> w[u]]
    BY <1>1
  <2> HIDE DEF w
  <2> QED BY <1>2, <2>1
<1>4. Moved(m, tensors) = [m EXCEPT !.w = w]
  BY Zenon DEF Moved
<1> HIDE DEF w
<1>5. [m EXCEPT !.w = w] = Built(m.config, w)
  BY <1>1 DEF Built
<1> QED BY <1>1, <1>2, <1>3, <1>4, <1>5, BuiltIs

LEMMA RestoredIs ==
  ASSUME NEW m \in Checkpoints, NEW kept \in Checkpoints, kept.config = m.config, NEW frozen
  PROVE  LET r == RestoreWarmupParameters(m, frozen, kept) IN
         /\ r \in Checkpoints /\ r.config = m.config
         /\ \A u \in Units(m.config) : r.w[u] = IF u \in frozen THEN kept.w[u] ELSE m.w[u]
<1> DEFINE w == [u \in DOMAIN m.w |-> IF u \in frozen THEN kept.w[u] ELSE m.w[u]]
<1>1. /\ m.config \in Configs /\ m.w \in [Units(m.config) -> Tokens]
      /\ kept.w \in [Units(m.config) -> Tokens] /\ m = Built(m.config, m.w)
  BY CheckpointIs
<1>2. \A u \in Units(m.config) :
        w[u] = (IF u \in frozen THEN kept.w[u] ELSE m.w[u]) /\ w[u] \in Tokens
  BY <1>1
<1>3. w \in [Units(m.config) -> Tokens]
  <2>1. w = [u \in Units(m.config) |-> w[u]]
    BY <1>1
  <2> HIDE DEF w
  <2> QED BY <1>2, <2>1
<1>4. RestoreWarmupParameters(m, frozen, kept) = [m EXCEPT !.w = w]
  BY Zenon DEF RestoreWarmupParameters
<1> HIDE DEF w
<1>5. [m EXCEPT !.w = w] = Built(m.config, w)
  BY <1>1 DEF Built
<1> QED BY <1>1, <1>2, <1>3, <1>4, <1>5, BuiltIs

\* The parameters a selective step of tool j may change: what is not restored from the copy
\* has a gradient, and belongs to the tool.
LEMMA WarmupStepIs ==
  ASSUME NEW m \in Checkpoints, NEW kept \in Checkpoints, kept.config = m.config,
         NEW rows, NEW columns, NEW train_value \in BOOLEAN
  PROVE  LET r == WarmupStep(m, rows, columns, train_value, kept)
             Owned(u) == \/ u[1] \in {"weight", "bias"} /\ u[2] \in rows
                         \/ u[1] = "value" /\ train_value
                         \/ u[1] = "encoder" /\ columns # None /\ u[2] \in columns
         IN
         /\ r \in Checkpoints /\ r.config = m.config
         /\ \A u \in Units(m.config) : Owned(u) \/ r.w[u] = kept.w[u] \/ r.w[u] = m.w[u]
         /\ \A u \in Units(m.config) :
              u[1] \notin {"weight", "bias", "value", "encoder"} => r.w[u] = m.w[u]
         /\ \A u \in WarmupGradients(m, rows, columns, train_value) :
              u \in Units(m.config) /\ Owned(u)
<1> DEFINE tensors == RestrictWarmupGradients(columns, train_value)
           stepped == Moved(m, tensors)
           frozen == FrozenRows(m, rows) \cup FrozenColumns(m, columns)
           r == WarmupStep(m, rows, columns, train_value, kept)
           Owned(u) == \/ u[1] \in {"weight", "bias"} /\ u[2] \in rows
                       \/ u[1] = "value" /\ train_value
                       \/ u[1] = "encoder" /\ columns # None /\ u[2] \in columns
<1>1. DOMAIN m.w = Units(m.config)
  BY CheckpointIs
<1>2. \A u \in Units(m.config) : u[1] \in tensors => u \in frozen \/ Owned(u)
  BY <1>1 DEF RestrictWarmupGradients, FrozenRows, FrozenColumns
<1>3. \A u \in frozen : u[1] \in {"weight", "bias", "encoder"}
  BY DEF FrozenRows, FrozenColumns
<1>4. \A t \in tensors : t \in {"weight", "bias", "value", "encoder"}
  BY DEF RestrictWarmupGradients
<1>5. WarmupGradients(m, rows, columns, train_value)
        = {u \in Units(m.config) : u[1] \in tensors} \ frozen
  BY <1>1, Zenon DEF WarmupGradients
<1>6. r = RestoreWarmupParameters(stepped, frozen, kept)
  BY Zenon DEF WarmupStep
<1> HIDE DEF tensors, frozen, stepped, r, Owned
<1>7. /\ stepped \in Checkpoints /\ stepped.config = m.config
      /\ \A u \in Units(m.config) : u[1] \notin tensors => stepped.w[u] = m.w[u]
  <2>1. stepped = Moved(m, tensors)
    BY DEF stepped
  <2>2. Moved(m, tensors) \in Checkpoints /\ Moved(m, tensors).config = m.config
    BY MovedIs
  <2>3. \A u \in Units(m.config) :
          Moved(m, tensors).w[u] = IF u[1] \in tensors THEN [m.w[u] EXCEPT !.moved = @ + 1]
                                   ELSE m.w[u]
    BY MovedIs, SMTT(30)
  <2> QED BY <2>1, <2>2, <2>3
<1>8. /\ r \in Checkpoints /\ r.config = m.config
      /\ \A u \in Units(m.config) : r.w[u] = IF u \in frozen THEN kept.w[u] ELSE stepped.w[u]
  BY <1>6, <1>7, RestoredIs
<1>9. \A u \in Units(m.config) : Owned(u) \/ r.w[u] = kept.w[u] \/ r.w[u] = m.w[u]
  BY <1>2, <1>7, <1>8
<1>10. \A u \in Units(m.config) :
         u[1] \notin {"weight", "bias", "value", "encoder"} => r.w[u] = m.w[u]
  BY <1>3, <1>4, <1>7, <1>8
<1>11. \A u \in WarmupGradients(m, rows, columns, train_value) :
         u \in Units(m.config) /\ Owned(u)
  BY <1>2, <1>5
<1> QED BY <1>8, <1>9, <1>10, <1>11 DEF r, Owned
-------------------------------------------------------------------------------
(* The tools start.                                                            *)

LEMMA SpecOrder ==
  /\ CurrentSpec \in Specs /\ ActionCount \in Nat
  /\ \A s \in Specs : s \in Nat /\ s <= CurrentSpec /\ FeatureCount[s] \in Nat
<1>1. \A s \in Specs : s \in Nat
  BY ModelAssumption
<1>2. ASSUME NEW s \in Specs PROVE s <= CurrentSpec
  <2>1. s <= s
    BY <1>1
  <2> QED BY <2>1, ModelAssumption
<1> QED BY <1>1, <1>2, ModelAssumption

\* A checkpoint as it is loaded, extended to the catalog and to a specification.
LEMMA LoadedIs ==
  ASSUME NEW origin \in Checkpoints, Loads(origin), NEW spec \in Specs,
         origin.config.spec <= spec
  PROVE  LET n == AlignFeatureSpec(Restored(origin), spec) IN
         /\ n \in Checkpoints
         /\ n.config.actions = ActionCount /\ n.config.spec = spec
         /\ n.config.history = origin.config.history
         /\ n.config.residual = origin.config.residual
         /\ Labelled!Extends(Meaning(n), Meaning(origin))
         /\ n.config = origin.config => n = origin
<1> DEFINE r == AlignActionCount(origin, ActionCount)
           n == AlignFeatureSpec(r, spec)
<1>1. origin.config \in Configs
  BY CheckpointIs
<1>2. /\ r \in Checkpoints /\ r.config = [origin.config EXCEPT !.actions = ActionCount]
      /\ Labelled!Extends(Meaning(r), Meaning(origin))
      /\ origin.config.actions = ActionCount => r = origin
  BY AlignActionCountExtends DEF Loads
<1>3. r.config.spec = origin.config.spec /\ r.config.actions = ActionCount
      /\ r.config.history = origin.config.history /\ r.config.residual = origin.config.residual
  BY <1>1, <1>2 DEF Configs
<1>4. r.config \in Configs
  BY <1>2, CheckpointIs
<1> HIDE DEF r
<1>5. /\ n \in Checkpoints /\ n.config = [r.config EXCEPT !.spec = spec]
      /\ Labelled!Extends(Meaning(n), Meaning(r))
      /\ r.config.spec = spec => n = r
  BY <1>2, <1>3, AlignFeatureSpecExtends
<1>6. n.config.spec = spec /\ n.config.actions = r.config.actions
      /\ n.config.history = r.config.history /\ n.config.residual = r.config.residual
  BY <1>4, <1>5 DEF Configs
<1> HIDE DEF n
<1>7. Labelled!Extends(Meaning(n), Meaning(origin))
  BY <1>2, <1>5, ExtendsThrough
<1>8. n.config = origin.config => n = origin
  BY <1>2, <1>3, <1>5, <1>6
<1> QED BY <1>3, <1>5, <1>6, <1>7, <1>8 DEF n, r, Restored

\* A tool starts on the model it migrated, with nothing trained.
LEMMA JustStarted ==
  ASSUME NEW j \in Jobs, Started(j), j.model = j.baseline, j.moments = {},
         j.kind = "train" => j.at = "step"
  PROVE  /\ Held(j) => Kept(j)
         /\ j.kind = "train" => Trained(j)
<1>1. Kept(j)
  BY DEF Kept
<1>2. ASSUME j.kind = "train" PROVE Trained(j)
  <2> DEFINE before == j.baseline.w[<<"hidden", 0>>].moved
  <2>1. before \in Nat
    <3>1. j.baseline.config \in Configs /\ j.baseline.w \in [Units(j.baseline.config) -> Tokens]
      BY CheckpointIs DEF Jobs
    <3>2. j.baseline.w[<<"hidden", 0>>] \in Tokens
      BY <3>1, UnitsAre
    <3> QED BY <3>2, TokenMoves
  <2> QED BY <1>2, <2>1 DEF Trained
<1> QED BY <1>1, <1>2

LEMMA TrainingStarts ==
  ASSUME ToolTypes, NEW path \in Paths, NEW length \in Lengths \cup {None},
         NEW companions \in SUBSET Companions, NEW train_value \in BOOLEAN,
         NEW warmup \in 0..Updates, StartTraining(path, length, companions, train_value, warmup)
  PROVE  /\ job' \in Jobs /\ Started(job') /\ job'.model = job'.baseline
         /\ job'.kind = "train" /\ job'.at = "step" /\ job'.moments = {}
         /\ job'.origin = files[path] /\ files[path] # None
<1> DEFINE origin == files[path]
           wide == AlignFeatureSpec(Restored(origin), CurrentSpec)
           aligned == AlignActionCount(wide, ActionCount)
           model == IF length = None THEN aligned ELSE AddActionHistory(aligned, length)
           added == Columns(origin.config.spec, CurrentSpec)
           columns == IF added = {} THEN None ELSE added
           rows == (origin.config.actions..ActionCount - 1) \cup companions
<1>1. /\ Loads(origin) /\ Start([Job("train", origin, model) EXCEPT
            !.rows = rows, !.columns = columns, !.train_value = train_value, !.warmup = warmup])
      /\ length # None => aligned.config.history \in {0, length}
  BY Zenon DEF StartTraining
<1>2. origin \in Checkpoints /\ origin # None
  BY <1>1 DEF Loads, ToolTypes
<1>3. origin.config \in Configs /\ origin.config.spec \in Specs /\ origin.config.actions \in Nat
  BY <1>2, CheckpointIs, ConfigType
<1>4. CurrentSpec \in Specs /\ origin.config.spec <= CurrentSpec /\ ActionCount \in Nat
      /\ FeatureCount[origin.config.spec] \in Nat /\ FeatureCount[CurrentSpec] \in Nat
  BY <1>3, SpecOrder
<1> HIDE DEF origin
<1>5. /\ wide \in Checkpoints
      /\ wide.config.actions = ActionCount /\ wide.config.spec = CurrentSpec
      /\ Labelled!Extends(Meaning(wide), Meaning(origin))
      /\ wide.config = origin.config => wide = origin
  BY <1>1, <1>2, <1>4, LoadedIs
<1> HIDE DEF wide
<1>6. aligned = wide
  <2>1. wide.config.actions <= ActionCount
    BY <1>4, <1>5
  <2> QED BY <1>5, <2>1, AlignActionCountExtends
<1> HIDE DEF aligned
<1>7. /\ model \in Checkpoints
      /\ model.config.actions = ActionCount /\ model.config.spec = CurrentSpec
      /\ Labelled!Extends(Meaning(model), Meaning(origin))
      /\ model.config = origin.config => model = origin
  <2>1. CASE length = None
    BY <1>5, <1>6, <2>1
  <2>2. CASE length # None
    <3> DEFINE n == AddActionHistory(aligned, length)
    <3>1. length \in Lengths /\ aligned.config.history \in {0, length} /\ aligned \in Checkpoints
      BY <1>1, <1>5, <1>6, <2>2
    <3>2. /\ n \in Checkpoints /\ n.config = [aligned.config EXCEPT !.history = length]
          /\ Labelled!Extends(Meaning(n), Meaning(aligned))
          /\ aligned.config.history = length => n = aligned
      BY <3>1, AddActionHistoryExtends
    <3>3. aligned.config \in Configs
      BY <3>1, CheckpointIs
    <3>4. /\ n.config.actions = aligned.config.actions /\ n.config.spec = aligned.config.spec
          /\ n.config.history = length
          /\ n.config = aligned.config => aligned.config.history = length
      BY <3>2, <3>3 DEF Configs
    <3> HIDE DEF n
    <3>5. Labelled!Extends(Meaning(n), Meaning(origin))
      BY <1>5, <1>6, <3>2, ExtendsThrough
    <3>6. ASSUME n.config = origin.config PROVE n = origin
      <4>1. origin.config.actions = ActionCount /\ origin.config.spec = CurrentSpec
            /\ origin.config.history = length
        BY <1>5, <1>6, <3>4, <3>6
      <4>2. aligned.config.history = origin.config.history
            /\ aligned.config.residual = origin.config.residual
        BY <1>1, <1>2, <1>4, <1>6, LoadedIs DEF wide
      <4>3. aligned.config = origin.config
        BY <1>3, <1>5, <1>6, <3>3, <4>1, <4>2, ConfigType
      <4> QED BY <1>5, <1>6, <3>2, <4>1, <4>2, <4>3
    <3>7. model = n
      BY <2>2 DEF n
    <3> QED BY <1>5, <1>6, <3>2, <3>4, <3>5, <3>6, <3>7
  <2> QED BY <2>1, <2>2
<1>8. rows \in SUBSET Nat /\ rows \subseteq 0..ActionCount - 1
  <2>1. companions \subseteq 0..ActionCount - 1
    BY ToolsAssumption
  <2>2. origin.config.actions..ActionCount - 1 \subseteq 0..ActionCount - 1
    BY <1>3, <1>4
  <2>3. 0..ActionCount - 1 \subseteq Nat
    OBVIOUS
  <2> QED BY <2>1, <2>2, <2>3
<1>9. columns \in {None} \cup SUBSET Nat /\ (columns = None \/ columns = added)
  <2>1. added \in SUBSET Nat
    BY <1>4 DEF Columns
  <2> HIDE DEF added
  <2> QED BY <2>1
<1>10. warmup \in Nat
  BY ToolsAssumption
<1> HIDE DEF model, rows, columns, added
<1>11. job' = TrainingJob(origin, model, rows, columns, train_value, warmup)
  BY <1>1 DEF Start, TrainingJob
<1>12. /\ job' \in Jobs
       /\ job'.kind = "train" /\ job'.origin = origin /\ job'.model = model
       /\ job'.baseline = model /\ job'.rows = rows /\ job'.columns = columns
       /\ job'.at = "step" /\ job'.moments = {}
  <2> DEFINE t == TrainingJob(origin, model, rows, columns, train_value, warmup)
  <2>1. /\ t \in Jobs
        /\ t.kind = "train" /\ t.origin = origin /\ t.model = model
        /\ t.baseline = model /\ t.rows = rows /\ t.columns = columns
        /\ t.at = "step" /\ t.moments = {}
    <3>1. origin \in Checkpoints /\ model \in Checkpoints /\ rows \in RowSets
      BY <1>2, <1>7, <1>8 DEF RowSets
    <3>2. columns \in ColumnSets /\ train_value \in BOOLEAN /\ warmup \in Nat
      BY <1>9, <1>10 DEF ColumnSets
    <3> QED BY <3>1, <3>2, TrainingFields
  <2> HIDE DEF t
  <2>2. job' = t
    BY <1>11 DEF t
  <2> QED BY <2>1, <2>2
<1>13. Valid(origin.config)
  BY <1>1 DEF Loads
<1>14. Started(job')
  BY <1>7, <1>8, <1>9, <1>12, <1>13 DEF Started, added
<1> QED BY <1>2, <1>12, <1>14 DEF origin

LEMMA ProbeStarts ==
  ASSUME ToolTypes, NEW path \in Paths, NEW row_only \in BOOLEAN, StartProbe(path, row_only)
  PROVE  /\ job' \in Jobs /\ Started(job') /\ job'.model = job'.baseline
         /\ job'.kind = "probe" /\ job'.moments = {}
         /\ job'.origin = files[path] /\ files[path] # None
<1> DEFINE origin == files[path]
           model == AlignFeatureSpec(Restored(origin), CurrentSpec)
           added == Columns(origin.config.spec, CurrentSpec)
           columns == IF row_only THEN {} ELSE added
<1>1. /\ Loads(origin)
      /\ Start([Job("probe", origin, model) EXCEPT !.rows = ProbeRows, !.columns = columns])
  BY Zenon DEF StartProbe
<1>2. origin \in Checkpoints /\ origin # None
  BY <1>1 DEF Loads, ToolTypes
<1>3. origin.config \in Configs /\ origin.config.spec \in Specs
  BY <1>2, CheckpointIs, ConfigType
<1>4. CurrentSpec \in Specs /\ origin.config.spec <= CurrentSpec
      /\ FeatureCount[origin.config.spec] \in Nat /\ FeatureCount[CurrentSpec] \in Nat
  BY <1>3, SpecOrder
<1> HIDE DEF origin
<1>5. /\ model \in Checkpoints
      /\ model.config.actions = ActionCount /\ model.config.spec = CurrentSpec
      /\ Labelled!Extends(Meaning(model), Meaning(origin))
      /\ model.config = origin.config => model = origin
  BY <1>1, <1>2, <1>4, LoadedIs
<1>6. ProbeRows \in RowSets /\ ProbeRows \subseteq 0..ActionCount - 1
  <2>1. ProbeRows \subseteq 0..ActionCount - 1
    BY ToolsAssumption
  <2>2. 0..ActionCount - 1 \subseteq Nat
    OBVIOUS
  <2> QED BY <2>1, <2>2 DEF RowSets
<1>7. columns \in ColumnSets /\ (columns = {} \/ columns = added)
  <2>1. added \in SUBSET Nat
    BY <1>4 DEF Columns
  <2> HIDE DEF added
  <2> QED BY <2>1 DEF ColumnSets
<1> HIDE DEF model, columns, added
<1>8. job' = ProbeJob(origin, model, ProbeRows, columns)
  BY <1>1 DEF Start, ProbeJob
<1>9. /\ job' \in Jobs
      /\ job'.kind = "probe" /\ job'.origin = origin /\ job'.model = model
      /\ job'.baseline = model /\ job'.rows = ProbeRows /\ job'.columns = columns
      /\ ~job'.train_value /\ job'.at = "step" /\ job'.moments = {}
  BY <1>2, <1>5, <1>6, <1>7, <1>8, ProbeFields
<1>10. Valid(origin.config)
  BY <1>1 DEF Loads
<1>11. Started(job')
  BY <1>5, <1>6, <1>7, <1>9, <1>10 DEF Started, added
<1> QED BY <1>2, <1>9, <1>11 DEF origin

LEMMA ResidualStarts ==
  ASSUME ToolTypes, NEW path \in Paths, StartResidual(path)
  PROVE  /\ job' \in Jobs /\ Started(job') /\ job'.model = job'.baseline
         /\ job'.kind = "residual" /\ job'.moments = {}
         /\ job'.origin = files[path] /\ files[path] # None
<1> DEFINE origin == files[path]
           model == EnableAbilityResidual(origin)
<1>1. /\ Loads(origin)
      /\ origin.config = [actions |-> ActionCount, spec |-> CurrentSpec,
                          history |-> 0, residual |-> FALSE]
      /\ Start([Job("residual", origin, model) EXCEPT !.at = "save", !.left = Minibatches + 1])
  BY Zenon DEF StartResidual
<1>2. origin \in Checkpoints /\ origin # None
  BY <1>1 DEF Loads, ToolTypes
<1> HIDE DEF origin
<1>3. ~origin.config.residual
  BY <1>1
<1>4. /\ model \in Checkpoints /\ model.config = [origin.config EXCEPT !.residual = TRUE]
      /\ Labelled!Extends(Meaning(model), Meaning(origin))
  BY <1>2, <1>3, EnableResidualExtends
<1>5. /\ model.config.actions = ActionCount /\ model.config.spec = CurrentSpec
      /\ model.config.residual
  BY <1>1, <1>4
<1>6. model.config # origin.config
  BY <1>3, <1>5
<1>7. Minibatches + 1 \in Int
  BY ToolsAssumption
<1> HIDE DEF model
<1>8. job' = SavingJob("residual", origin, model, Minibatches + 1)
  BY <1>1 DEF Start, SavingJob
<1>9. /\ job' \in Jobs
      /\ job'.kind = "residual" /\ job'.origin = origin /\ job'.model = model
      /\ job'.baseline = model /\ job'.rows = {} /\ job'.columns = None
      /\ ~job'.train_value /\ job'.at = "save" /\ job'.moments = {}
  BY <1>2, <1>4, <1>7, <1>8, SavingFields
<1>10. Valid(origin.config)
  BY <1>1 DEF Loads
<1>11. Started(job')
  BY <1>3, <1>4, <1>5, <1>6, <1>9, <1>10 DEF Started
<1> QED BY <1>2, <1>9, <1>11 DEF origin

LEMMA MigrationStarts ==
  ASSUME ToolTypes, NEW path \in Paths, NEW spec \in Specs, StartMigration(path, spec)
  PROVE  /\ job' \in Jobs /\ Started(job') /\ job'.model = job'.baseline
         /\ job'.kind = "migrate" /\ job'.moments = {}
         /\ job'.origin = files[path] /\ files[path] # None
<1> DEFINE origin == files[path]
           model == AlignFeatureSpec(Restored(origin), spec)
<1>1. /\ Loads(origin) /\ origin.config.spec <= spec
      /\ Start([Job("migrate", origin, model) EXCEPT !.at = "save", !.left = 0])
  BY Zenon DEF StartMigration
<1>2. origin \in Checkpoints /\ origin # None
  BY <1>1 DEF Loads, ToolTypes
<1> HIDE DEF origin
<1>3. /\ model \in Checkpoints
      /\ Labelled!Extends(Meaning(model), Meaning(origin))
      /\ model.config = origin.config => model = origin
  BY <1>1, <1>2, LoadedIs
<1> HIDE DEF model
<1>4. job' = SavingJob("migrate", origin, model, 0)
  BY <1>1 DEF Start, SavingJob
<1>5. /\ job' \in Jobs
      /\ job'.kind = "migrate" /\ job'.origin = origin /\ job'.model = model
      /\ job'.baseline = model /\ job'.rows = {} /\ job'.columns = None
      /\ ~job'.train_value /\ job'.at = "save" /\ job'.moments = {}
  BY <1>2, <1>3, <1>4, SavingFields
<1>6. Valid(origin.config)
  BY <1>1 DEF Loads
<1>7. Started(job')
  BY <1>3, <1>5, <1>6 DEF Started
<1> QED BY <1>2, <1>5, <1>7 DEF origin
-------------------------------------------------------------------------------
(* The tools step.                                                             *)

\* The parameters of a tool's model and baseline.
LEMMA ModelsOf ==
  ASSUME NEW j \in Jobs
  PROVE  /\ j.model \in Checkpoints /\ j.model.config \in Configs
         /\ j.model.w \in [Units(j.model.config) -> Tokens]
         /\ j.baseline \in Checkpoints /\ j.baseline.config \in Configs
         /\ j.baseline.w \in [Units(j.baseline.config) -> Tokens]
         /\ <<"hidden", 0>> \in Units(j.model.config)
         /\ <<"hidden", 0>> \in Units(j.baseline.config)
<1>1. j.model \in Checkpoints /\ j.baseline \in Checkpoints
  BY DEF Jobs
<1>2. j.model.config \in Configs /\ j.baseline.config \in Configs
  BY <1>1, CheckpointIs
<1> QED BY <1>1, <1>2, CheckpointIs, UnitsAre

\* A step keeps what the tool was started with.
LEMMA StartedKept ==
  ASSUME NEW j \in Jobs, NEW k \in Jobs, Started(j), SameTool(k, j),
         k.model.config = j.model.config,
         j.kind = "migrate" => k.model = j.model, k.at = "number" => j.kind = "train"
  PROVE  Started(k)
BY DEF Started, SameTool

LEMMA PositionsAre ==
  ASSUME NEW m \in Checkpoints PROVE Units(m.config) \subseteq Positions
<1>1. m.config \in Configs
  BY CheckpointIs
<1> QED BY <1>1, UnitsAre DEF Positions

\* The parameters a tool owns do not change while it runs.
LEMMA SameOwner ==
  ASSUME NEW j, NEW k, SameTool(k, j), NEW u
  PROVE  MayMove(k, u) <=> MayMove(j, u)
BY DEF SameTool, MayMove

LEMMA MinibatchKeeps ==
  ASSUME job \in Jobs, Started(job), Held(job) => Kept(job),
         job.kind = "train" => Trained(job), Minibatch
  PROVE  /\ job' \in Jobs /\ Started(job') /\ (Held(job') => Kept(job')) /\ Trained(job')
         /\ job'.model.config = job.model.config
<1> DEFINE all == {u[1] : u \in DOMAIN job.model.w}
           model == IF Warm THEN WarmupStep(job.model, job.rows, job.columns, job.train_value,
                                            job.model)
                    ELSE Moved(job.model, all)
           moments == job.moments \cup
             (IF Warm THEN WarmupGradients(job.model, job.rows, job.columns, job.train_value)
              ELSE DOMAIN job.model.w)
           stage == IF job.left = 1 THEN "save" ELSE "step"
           h == <<"hidden", 0>>
           m == job.model
<1>1. /\ job.kind = "train" /\ job.at = "step"
      /\ job' = [job EXCEPT !.model = model, !.moments = moments, !.left = job.left - 1,
                            !.at = stage]
  BY Zenon DEF Minibatch
<1>2. /\ m \in Checkpoints /\ m.config \in Configs /\ m.w \in [Units(m.config) -> Tokens]
      /\ h \in Units(m.config) /\ DOMAIN m.w = Units(m.config)
  BY ModelsOf
<1>3. job.left - 1 \in Int /\ stage \in {"step", "save", "number"} /\ stage # "number"
      /\ job.moments \subseteq Positions
      /\ job.train_value \in BOOLEAN
  BY DEF Jobs
<1>4. Held(job) <=> Warm
  BY <1>1 DEF Held, Warm
\* An unrestricted step moves everything, a selective one what the tool owns.
<1>5. CASE Warm
  <2> DEFINE g == WarmupGradients(m, job.rows, job.columns, job.train_value)
  <2>1. /\ model \in Checkpoints /\ model.config = m.config
        /\ \A u \in Units(m.config) :
             \/ u[1] \in {"weight", "bias"} /\ u[2] \in job.rows
             \/ u[1] = "value" /\ job.train_value
             \/ u[1] = "encoder" /\ job.columns # None /\ u[2] \in job.columns
             \/ model.w[u] = m.w[u]
        /\ \A u \in Units(m.config) :
             u[1] \notin {"weight", "bias", "value", "encoder"} => model.w[u] = m.w[u]
        /\ \A u \in g :
             /\ u \in Units(m.config)
             /\ \/ u[1] \in {"weight", "bias"} /\ u[2] \in job.rows
                \/ u[1] = "value" /\ job.train_value
                \/ u[1] = "encoder" /\ job.columns # None /\ u[2] \in job.columns
    BY <1>2, <1>3, <1>5, WarmupStepIs
  <2>2. moments = job.moments \cup g
    BY <1>5
  <2> HIDE DEF model, moments, g
  <2>3. moments \in SUBSET Positions
    BY <1>2, <1>3, <2>1, <2>2, PositionsAre
  <2> HIDE DEF stage
  <2>4. /\ job' \in Jobs /\ SameTool(job', job) /\ job'.update = job.update
        /\ job'.model = model /\ job'.moments = moments /\ job'.at = stage
    <3>1. job' = SteppedJob(job, model, moments, job.left - 1, stage)
      BY <1>1 DEF SteppedJob
    <3> QED BY <1>3, <2>1, <2>3, <3>1, StepFields
  <2>5. Started(job')
    BY <1>1, <1>3, <2>1, <2>4 DEF Started, SameTool
  <2>6. Kept(job)
    BY <1>4, <1>5
  <2>7. \A u \in Units(m.config) : model.w[u] = job.baseline.w[u] \/ MayMove(job, u)
    BY <2>1, <2>6 DEF Kept, MayMove
  <2>8. \A u \in moments : MayMove(job, u)
    BY <2>1, <2>2, <2>6 DEF Kept, MayMove
  <2>9. Kept(job')
    BY <2>1, <2>4, <2>7, <2>8, SameOwner DEF Kept, SameTool
  <2>10. model.w[h] = m.w[h]
    BY <1>2, <2>1
  <2>11. Held(job')
    BY <1>4, <1>5, <2>4 DEF Held, SameTool
  <2>12. Trained(job')
    BY <1>1, <2>4, <2>10, <2>11 DEF Trained, SameTool
  <2> QED BY <2>1, <2>4, <2>5, <2>9, <2>12
<1>6. CASE ~Warm
  <2>1. /\ model \in Checkpoints /\ model.config = m.config
        /\ \A u \in Units(m.config) :
             model.w[u] = IF u[1] \in all THEN [m.w[u] EXCEPT !.moved = @ + 1] ELSE m.w[u]
    BY <1>2, <1>6, MovedIs
  <2>2. h[1] \in all
    BY <1>2
  <2>3. moments = job.moments \cup Units(m.config)
    BY <1>2, <1>6
  <2> HIDE DEF model, moments, all
  <2>4. moments \in SUBSET Positions
    BY <1>2, <1>3, <2>3, PositionsAre
  <2> HIDE DEF stage
  <2>5. /\ job' \in Jobs /\ SameTool(job', job) /\ job'.update = job.update
        /\ job'.model = model /\ job'.moments = moments /\ job'.at = stage
    <3>1. job' = SteppedJob(job, model, moments, job.left - 1, stage)
      BY <1>1 DEF SteppedJob
    <3> QED BY <1>3, <2>1, <2>4, <3>1, StepFields
  <2>6. Started(job')
    BY <1>1, <1>3, <2>1, <2>5 DEF Started, SameTool
  <2>7. ~Held(job')
    BY <1>1, <1>4, <1>6, <2>5 DEF Held, SameTool
  <2>8. model.w[h].moved = m.w[h].moved + 1 /\ m.w[h].moved \in Nat
    BY <1>2, <2>1, <2>2, TokenMoves
  <2>9. job.baseline.w[h].moved \in Nat
    BY ModelsOf, TokenMoves
  <2>10. Trained(job')
    BY <1>1, <2>5, <2>8, <2>9 DEF Trained, SameTool
  <2> QED BY <2>1, <2>5, <2>6, <2>7, <2>10
<1> QED BY <1>5, <1>6

LEMMA SelectiveStepKeeps ==
  ASSUME job \in Jobs, Started(job), Held(job) => Kept(job), SelectiveStep
  PROVE  /\ job' \in Jobs /\ Started(job') /\ Kept(job') /\ job'.kind = "probe"
         /\ job'.model.config = job.model.config
<1> DEFINE m == job.model
           value == FALSE
           model == WarmupStep(m, job.rows, job.columns, value, job.baseline)
           g == WarmupGradients(m, job.rows, job.columns, value)
           moments == job.moments \cup g
<1>1. /\ job.kind = "probe"
      /\ job' = [job EXCEPT !.model = model, !.moments = moments, !.left = job.left - 1,
                            !.at = "save"]
  BY Zenon DEF SelectiveStep
<1>2. /\ m \in Checkpoints /\ job.baseline \in Checkpoints
      /\ job.baseline.config = m.config
  BY ModelsOf DEF Started
<1>3. job.left - 1 \in Int /\ job.moments \subseteq Positions
  BY DEF Jobs
<1>4. value \in BOOLEAN /\ ~value
  OBVIOUS
<1> HIDE DEF value
<1>5. /\ model \in Checkpoints /\ model.config = m.config
      /\ \A u \in Units(m.config) :
           \/ u[1] \in {"weight", "bias"} /\ u[2] \in job.rows
           \/ u[1] = "encoder" /\ job.columns # None /\ u[2] \in job.columns
           \/ model.w[u] = m.w[u] \/ model.w[u] = job.baseline.w[u]
      /\ \A u \in g :
           /\ u \in Units(m.config)
           /\ \/ u[1] \in {"weight", "bias"} /\ u[2] \in job.rows
              \/ u[1] = "encoder" /\ job.columns # None /\ u[2] \in job.columns
  <2>1. /\ model \in Checkpoints /\ model.config = m.config
        /\ \A u \in Units(m.config) :
             \/ \/ u[1] \in {"weight", "bias"} /\ u[2] \in job.rows
                \/ u[1] = "value" /\ value
                \/ u[1] = "encoder" /\ job.columns # None /\ u[2] \in job.columns
             \/ model.w[u] = job.baseline.w[u] \/ model.w[u] = m.w[u]
        /\ \A u \in g :
             /\ u \in Units(m.config)
             /\ \/ u[1] \in {"weight", "bias"} /\ u[2] \in job.rows
                \/ u[1] = "value" /\ value
                \/ u[1] = "encoder" /\ job.columns # None /\ u[2] \in job.columns
    <3> DEFINE kept == job.baseline
               rows == job.rows
               columns == job.columns
    <3>1. m \in Checkpoints /\ kept \in Checkpoints /\ kept.config = m.config
      BY <1>2
    <3> DEFINE r == WarmupStep(m, rows, columns, value, kept)
               gs == WarmupGradients(m, rows, columns, value)
    <3> HIDE DEF m, kept, rows, columns
    <3>2. r \in Checkpoints /\ r.config = m.config
      BY <1>4, <3>1, WarmupStepIs
    <3>3. \A u \in Units(m.config) :
             \/ \/ u[1] \in {"weight", "bias"} /\ u[2] \in rows
                \/ u[1] = "value" /\ value
                \/ u[1] = "encoder" /\ columns # None /\ u[2] \in columns
             \/ r.w[u] = kept.w[u] \/ r.w[u] = m.w[u]
      BY <1>4, <3>1, WarmupStepIs
    <3>4. \A u \in gs :
             /\ u \in Units(m.config)
             /\ \/ u[1] \in {"weight", "bias"} /\ u[2] \in rows
                \/ u[1] = "value" /\ value
                \/ u[1] = "encoder" /\ columns # None /\ u[2] \in columns
      BY <1>4, <3>1, WarmupStepIs
    <3>5. model = r /\ g = gs
      BY DEF m, kept, rows, columns
    <3> HIDE DEF r, gs, model, g
    <3> QED BY <3>2, <3>3, <3>4, <3>5 DEF kept, rows, columns
  <2> HIDE DEF model, g
  <2> QED BY <1>4, <2>1
<1> HIDE DEF model, g
<1>6. moments \in SUBSET Positions
  BY <1>2, <1>3, <1>5, PositionsAre
<1>7. Kept(job)
  BY <1>1 DEF Held
<1>8. \A u \in Units(m.config) : model.w[u] = job.baseline.w[u] \/ MayMove(job, u)
  BY <1>5, <1>7 DEF Kept, MayMove
<1>9. \A u \in moments : MayMove(job, u)
  BY <1>5, <1>7 DEF Kept, MayMove
<1> HIDE DEF moments
<1>10. /\ job' \in Jobs /\ SameTool(job', job) /\ job'.update = job.update
       /\ job'.model = model /\ job'.moments = moments /\ job'.at = "save"
  <2>1. job' = SteppedJob(job, model, moments, job.left - 1, "save")
    BY <1>1 DEF SteppedJob
  <2>2. "save" \in {"step", "save", "number"}
    OBVIOUS
  <2> QED BY <1>3, <1>5, <1>6, <2>1, <2>2, StepFields
<1>11. Started(job')
  BY <1>1, <1>5, <1>10 DEF Started, SameTool
<1>12. Kept(job')
  BY <1>5, <1>8, <1>9, <1>10, SameOwner DEF Kept, SameTool
<1> QED BY <1>1, <1>5, <1>10, <1>11, <1>12 DEF SameTool

LEMMA ResidualStepKeeps ==
  ASSUME job \in Jobs, Started(job), Held(job) => Kept(job), ResidualStep
  PROVE  /\ job' \in Jobs /\ Started(job') /\ Kept(job') /\ job'.kind = "residual"
         /\ job'.model.config = job.model.config
<1> DEFINE m == job.model
           tensors == {"residual"}
           model == Moved(m, tensors)
           moments == job.moments \cup {<<"residual", 0>>}
<1>1. /\ job.kind = "residual"
      /\ job' = [job EXCEPT !.model = model, !.moments = moments, !.at = "save"]
  BY Zenon DEF ResidualStep
<1>2. m \in Checkpoints /\ job.moments \subseteq Positions
  BY ModelsOf DEF Jobs
<1> HIDE DEF tensors
<1>3. /\ model \in Checkpoints /\ model.config = m.config
      /\ \A u \in Units(m.config) :
           model.w[u] = IF u[1] \in tensors THEN [m.w[u] EXCEPT !.moved = @ + 1]
                        ELSE m.w[u]
  <2>1. m \in Checkpoints
    BY <1>2
  <2> HIDE DEF m
  <2>2. model \in Checkpoints /\ model.config = m.config
    BY <2>1, MovedIs
  <2>3. \A u \in Units(m.config) :
           model.w[u] = IF u[1] \in tensors THEN [m.w[u] EXCEPT !.moved = @ + 1] ELSE m.w[u]
    BY <2>1, MovedIs
  <2> QED BY <2>2, <2>3
<1> HIDE DEF model
<1>4. moments \in SUBSET Positions
  BY <1>2 DEF Positions, Heads
<1>5. Kept(job)
  BY <1>1 DEF Held
<1>6. \A u \in Units(m.config) : model.w[u] = job.baseline.w[u] \/ MayMove(job, u)
  BY <1>1, <1>3, <1>5 DEF Kept, MayMove, tensors
<1>7. \A u \in moments : MayMove(job, u)
  BY <1>1, <1>5 DEF Kept, MayMove
<1> HIDE DEF moments
<1>8. /\ job' \in Jobs /\ SameTool(job', job) /\ job'.update = job.update
      /\ job'.model = model /\ job'.moments = moments /\ job'.at = "save"
  <2>1. job' = ResidualJob(job, model, moments, "save")
    BY <1>1 DEF ResidualJob
  <2>2. "save" \in {"step", "save", "number"}
    OBVIOUS
  <2> QED BY <1>3, <1>4, <2>1, <2>2, ResidualFields
<1>9. Started(job')
  BY <1>1, <1>3, <1>8 DEF Started, SameTool
<1>10. Kept(job')
  BY <1>3, <1>6, <1>7, <1>8, SameOwner DEF Kept, SameTool
<1> QED BY <1>1, <1>3, <1>8, <1>9, <1>10 DEF SameTool

\* A tool that has saved goes on with the model it saved.
LEMMA SavedKeeps ==
  ASSUME NEW j \in Jobs, NEW k \in Jobs, Started(j), Held(j) => Kept(j),
         j.kind = "train" => Trained(j), SameTool(k, j), k.model = j.model,
         k.moments = j.moments, k.at = "number" => j.kind = "train" /\ j.at = "save",
         k.update = j.update \/ (k.update = j.update + 1 /\ k.at = "step"),
         j.at = "step" => k.at = "step"
  PROVE  /\ Started(k) /\ (Held(k) => Kept(k)) /\ (k.kind = "train" => Trained(k))
<1>1. Started(k)
  BY StartedKept
<1>2. j.update \in Nat /\ j.warmup \in Nat
  BY DEF Jobs
<1>3. Held(k) => Held(j)
  BY <1>2 DEF Held, SameTool
<1>4. Held(k) => Kept(k)
  BY <1>3, SameOwner DEF Kept, SameTool
<1>5. j.model.w[<<"hidden", 0>>].moved \in Nat /\ j.baseline.w[<<"hidden", 0>>].moved \in Nat
  BY ModelsOf, TokenMoves
<1>6. k.at # "step" => (Held(k) <=> Held(j))
  BY <1>2 DEF Held, SameTool
<1>7. k.kind = "train" => Trained(k)
  BY <1>5, <1>6 DEF Trained, SameTool
<1> QED BY <1>1, <1>4, <1>7
-------------------------------------------------------------------------------
(* The tools.                                                                  *)

\* What a step does to the checkpoints and to the model the running tool holds.
Opens(p) ==
  /\ job = NoJob /\ UNCHANGED files /\ files[p] # None
  /\ job' \in Jobs /\ Started(job') /\ job'.origin = files[p] /\ job'.model = job'.baseline
Learns ==
  /\ job \in Jobs /\ job' \in Jobs /\ UNCHANGED files
  /\ job'.model.config = job.model.config
Saves(p) ==
  /\ job \in Jobs /\ files' = [files EXCEPT ![p] = job.model]
  /\ job.kind = "train" => job.at # "step"
  /\ job' = NoJob \/ (job' \in Jobs /\ job'.model = job.model)
Closes == job \in Jobs /\ job' = NoJob /\ UNCHANGED files

LEMMA NoJobIs == NoJob \notin Jobs
BY DEF NoJob, Jobs

LEMMA FilesKept ==
  ASSUME ToolTypes, NEW p \in Paths, Saves(p)
  PROVE  files' \in [Paths -> Checkpoints \cup {None}]
<1>1. job.model \in Checkpoints
  BY DEF Saves, Jobs
<1> QED BY <1>1 DEF ToolTypes, Saves

LEMMA InitToolInv == Init => ToolInv
<1> SUFFICES ASSUME Init PROVE ToolInv
  OBVIOUS
<1>1. PICK m \in Initial : files = [p \in Paths |-> IF p = "initial" THEN m ELSE None]
  BY DEF Init
<1>2. m \in Checkpoints
  BY ToolsAssumption DEF Checkpoints
<1>3. job = NoJob /\ jobs = 0
  BY DEF Init
<1> QED BY <1>1, <1>2, <1>3 DEF ToolInv, ToolTypes

\* The tools' state, whatever the tool.
ToolState(k) == Started(k) /\ (Held(k) => Kept(k)) /\ (k.kind = "train" => Trained(k))

LEMMA SaveOutputSaves ==
  ASSUME ToolInv, SaveOutput
  PROVE  Saves("output") /\ job' \in Jobs /\ ToolState(job')
<1>1. /\ job \in Jobs /\ Started(job) /\ (Held(job) => Kept(job))
      /\ job.kind = "train" /\ job.at = "save" /\ Trained(job)
      /\ files' = [files EXCEPT !["output"] = job.model]
  BY DEF ToolInv, ToolTypes, SaveOutput, Saved
<1>2. job' = SavedJob(job, "number")
  BY DEF SaveOutput, SavedJob
<1>3. "number" \in {"step", "save", "number"}
  OBVIOUS
<1>4. /\ job' \in Jobs /\ SameTool(job', job) /\ job'.update = job.update
      /\ job'.model = job.model /\ job'.moments = job.moments /\ job'.at = "number"
  BY <1>1, <1>2, <1>3, SaveFields
<1>5. ToolState(job')
  BY <1>1, <1>4, SavedKeeps DEF ToolState
<1> QED BY <1>1, <1>4, <1>5 DEF Saves

LEMMA SaveUpdateSaves ==
  ASSUME ToolInv, SaveUpdate
  PROVE  Saves("update") /\ (job' = NoJob \/ (job' \in Jobs /\ ToolState(job')))
<1>1. /\ job \in Jobs /\ Started(job) /\ (Held(job) => Kept(job))
      /\ job.at = "number" /\ (job.kind = "train" => Trained(job))
      /\ files' = [files EXCEPT !["update"] = job.model]
  BY DEF ToolInv, ToolTypes, SaveUpdate, Saved
<1>2. CASE job' = NoJob
  BY <1>1, <1>2 DEF Saves
<1>3. CASE job' # NoJob
  <2>1. job.update + 1 \in Nat
    BY <1>1 DEF Jobs
  <2>2. job' = UpdatedJob(job, job.update + 1)
    BY <1>3 DEF SaveUpdate, UpdatedJob
  <2>3. /\ job' \in Jobs /\ SameTool(job', job) /\ job'.update = job.update + 1
        /\ job'.model = job.model /\ job'.moments = job.moments /\ job'.at = "step"
    BY <1>1, <2>1, <2>2, UpdateFields
  <2>4. ToolState(job')
    BY <1>1, <2>3, SavedKeeps DEF ToolState
  <2> QED BY <1>1, <2>3, <2>4 DEF Saves
<1> QED BY <1>2, <1>3

LEMMA SaveProbeSaves ==
  ASSUME ToolInv, SaveProbe
  PROVE  Saves("probe") /\ (job' = NoJob \/ (job' \in Jobs /\ ToolState(job')))
<1>1. /\ job \in Jobs /\ Started(job) /\ (Held(job) => Kept(job))
      /\ job.kind = "probe"
      /\ files' = [files EXCEPT !["probe"] = job.model]
  BY DEF ToolInv, ToolTypes, SaveProbe, Saved
<1>2. CASE job' = NoJob
  BY <1>1, <1>2 DEF Saves
<1>3. CASE job' # NoJob
  <2>1. "step" \in {"step", "save", "number"}
    OBVIOUS
  <2>2. job' = SavedJob(job, "step")
    BY <1>3 DEF SaveProbe, SavedJob
  <2>3. /\ job' \in Jobs /\ SameTool(job', job) /\ job'.update = job.update
        /\ job'.model = job.model /\ job'.moments = job.moments /\ job'.at = "step"
    BY <1>1, <2>1, <2>2, SaveFields
  <2>4. ToolState(job')
    BY <1>1, <2>3, SavedKeeps DEF ToolState
  <2> QED BY <1>1, <2>3, <2>4 DEF Saves
<1> QED BY <1>2, <1>3

LEMMA SaveResidualSaves ==
  ASSUME ToolInv, SaveResidual
  PROVE  \/ Closes
         \/ Saves("residual") /\ (job' = NoJob \/ (job' \in Jobs /\ ToolState(job')))
<1>1. /\ job \in Jobs /\ Started(job) /\ (Held(job) => Kept(job))
      /\ job.kind = "residual"
  BY DEF ToolInv, ToolTypes, SaveResidual
<1>2. CASE ~BaseExact
  BY <1>1, <1>2 DEF SaveResidual, Closes
<1>3. CASE BaseExact
  <2>1. files' = [files EXCEPT !["residual"] = job.model]
    BY <1>3 DEF SaveResidual
  <2>2. CASE job' = NoJob
    BY <1>1, <2>1, <2>2 DEF Saves
  <2>3. CASE job' # NoJob
    <3>1. "step" \in {"step", "save", "number"} /\ job.left - 1 \in Int
      BY <1>1 DEF Jobs
    <3>2. job' = RepeatedJob(job, job.left - 1, "step")
      BY <1>3, <2>3 DEF SaveResidual, RepeatedJob
    <3>3. /\ job' \in Jobs /\ SameTool(job', job) /\ job'.update = job.update
          /\ job'.model = job.model /\ job'.moments = job.moments /\ job'.at = "step"
      BY <1>1, <3>1, <3>2, RepeatFields
    <3>4. ToolState(job')
      BY <1>1, <3>3, SavedKeeps DEF ToolState
    <3> QED BY <1>1, <2>1, <3>3, <3>4 DEF Saves
  <2> QED BY <2>2, <2>3
<1> QED BY <1>2, <1>3

LEMMA SaveMigrationSaves ==
  ASSUME ToolInv, SaveMigration
  PROVE  Saves("migrated") /\ job' = NoJob
BY DEF ToolInv, ToolTypes, SaveMigration, Saved, Saves

Moves ==
  \/ \E p \in Paths : Opens(p) \/ Saves(p)
  \/ Learns \/ Closes \/ UNCHANGED vars

\* A tool that has started keeps its promises.
LEMMA OpenKeeps ==
  ASSUME ToolInv, NEW p \in Paths, Opens(p), job'.moments = {},
         job'.kind = "train" => job'.at = "step", jobs' \in Nat
  PROVE  ToolInv'
<1>1. files' = files /\ job' \in Jobs /\ Started(job') /\ job'.model = job'.baseline
  BY DEF Opens
<1>2. (Held(job') => Kept(job')) /\ (job'.kind = "train" => Trained(job'))
  BY <1>1, JustStarted
<1> QED BY <1>1, <1>2 DEF ToolInv, ToolTypes

LEMMA SaveKeeps ==
  ASSUME ToolInv, NEW p \in Paths, Saves(p), jobs' = jobs,
         job' = NoJob \/ (job' \in Jobs /\ ToolState(job'))
  PROVE  ToolInv'
<1>1. files' \in [Paths -> Checkpoints \cup {None}]
  BY FilesKept DEF ToolInv
<1> QED BY <1>1 DEF ToolInv, ToolTypes, ToolState

LEMMA LearnKeeps ==
  ASSUME ToolInv, Learns, jobs' = jobs, ToolState(job')
  PROVE  ToolInv'
BY DEF ToolInv, ToolTypes, ToolState, Learns

\* Every step keeps the invariant, and does one thing to the checkpoints.
LEMMA NextToolInv ==
  ASSUME ToolInv, [Next]_vars PROVE ToolInv' /\ Moves
<1>1. CASE UNCHANGED vars
  BY <1>1 DEF vars, ToolInv, ToolTypes, Moves, Started, Held, Kept, Trained, MayMove
<1>2. ASSUME NEW p \in Paths, NEW length \in Lengths \cup {None},
             NEW companions \in SUBSET Companions, NEW train_value \in BOOLEAN,
             NEW warmup \in 0..Updates,
             StartTraining(p, length, companions, train_value, warmup)
      PROVE  ToolInv' /\ Moves
  <2>1. job = NoJob /\ files' = files /\ jobs' = jobs + 1
    BY <1>2 DEF StartTraining, MayStart, Start
  <2>2. Opens(p) /\ job'.moments = {} /\ job'.at = "step"
    BY <1>2, <2>1, TrainingStarts DEF Opens, ToolInv
  <2>3. ToolInv'
    BY <2>1, <2>2, OpenKeeps DEF ToolInv, ToolTypes
  <2> QED BY <2>2, <2>3 DEF Moves
<1>3. ASSUME NEW p \in Paths, NEW row_only \in BOOLEAN, StartProbe(p, row_only)
      PROVE  ToolInv' /\ Moves
  <2>1. job = NoJob /\ files' = files /\ jobs' = jobs + 1
    BY <1>3 DEF StartProbe, MayStart, Start
  <2>2. Opens(p) /\ job'.moments = {} /\ job'.kind = "probe"
    BY <1>3, <2>1, ProbeStarts DEF Opens, ToolInv
  <2>3. ToolInv'
    BY <2>1, <2>2, OpenKeeps DEF ToolInv, ToolTypes
  <2> QED BY <2>2, <2>3 DEF Moves
<1>4. ASSUME NEW p \in Paths, StartResidual(p)
      PROVE  ToolInv' /\ Moves
  <2>1. job = NoJob /\ files' = files /\ jobs' = jobs + 1
    BY <1>4 DEF StartResidual, MayStart, Start
  <2>2. Opens(p) /\ job'.moments = {} /\ job'.kind = "residual"
    BY <1>4, <2>1, ResidualStarts DEF Opens, ToolInv
  <2>3. ToolInv'
    BY <2>1, <2>2, OpenKeeps DEF ToolInv, ToolTypes
  <2> QED BY <2>2, <2>3 DEF Moves
<1>5. ASSUME NEW p \in Paths, NEW spec \in Specs, StartMigration(p, spec)
      PROVE  ToolInv' /\ Moves
  <2>1. job = NoJob /\ files' = files /\ jobs' = jobs + 1
    BY <1>5 DEF StartMigration, MayStart, Start
  <2>2. Opens(p) /\ job'.moments = {} /\ job'.kind = "migrate"
    BY <1>5, <2>1, MigrationStarts DEF Opens, ToolInv
  <2>3. ToolInv'
    BY <2>1, <2>2, OpenKeeps DEF ToolInv, ToolTypes
  <2> QED BY <2>2, <2>3 DEF Moves
<1>6. CASE Minibatch
  <2>1. /\ job \in Jobs /\ Started(job) /\ (Held(job) => Kept(job))
        /\ job.kind = "train" => Trained(job)
        /\ files' = files /\ jobs' = jobs
    BY <1>6 DEF Minibatch, ToolInv, ToolTypes
  <2>2. ToolState(job') /\ Learns
    BY <1>6, <2>1, MinibatchKeeps DEF ToolState, Learns
  <2> QED BY <2>1, <2>2, LearnKeeps DEF Moves
<1>7. CASE SelectiveStep
  <2>1. /\ job \in Jobs /\ Started(job) /\ (Held(job) => Kept(job))
        /\ files' = files /\ jobs' = jobs
    BY <1>7 DEF SelectiveStep, ToolInv, ToolTypes
  <2>2. ToolState(job') /\ Learns
    BY <1>7, <2>1, SelectiveStepKeeps DEF ToolState, Learns
  <2> QED BY <2>1, <2>2, LearnKeeps DEF Moves
<1>8. CASE ResidualStep
  <2>1. /\ job \in Jobs /\ Started(job) /\ (Held(job) => Kept(job))
        /\ files' = files /\ jobs' = jobs
    BY <1>8 DEF ResidualStep, ToolInv, ToolTypes
  <2>2. ToolState(job') /\ Learns
    BY <1>8, <2>1, ResidualStepKeeps DEF ToolState, Learns
  <2> QED BY <2>1, <2>2, LearnKeeps DEF Moves
<1>9. CASE SaveOutput
  <2>1. jobs' = jobs /\ "output" \in Paths
    BY <1>9 DEF SaveOutput, Saved, Paths
  <2> QED BY <1>9, <2>1, SaveOutputSaves, SaveKeeps DEF Moves
<1>10. CASE SaveUpdate
  <2>1. jobs' = jobs /\ "update" \in Paths
    BY <1>10 DEF SaveUpdate, Saved, Paths
  <2> QED BY <1>10, <2>1, SaveUpdateSaves, SaveKeeps DEF Moves
<1>11. CASE SaveProbe
  <2>1. jobs' = jobs /\ "probe" \in Paths
    BY <1>11 DEF SaveProbe, Saved, Paths
  <2> QED BY <1>11, <2>1, SaveProbeSaves, SaveKeeps DEF Moves
<1>12. CASE SaveResidual
  <2>1. jobs' = jobs /\ "residual" \in Paths
    BY <1>12 DEF SaveResidual, Paths
  <2>2. CASE Closes
    BY <2>1, <2>2 DEF Closes, Moves, ToolInv, ToolTypes
  <2>3. CASE ~Closes
    BY <1>12, <2>1, <2>3, SaveResidualSaves, SaveKeeps DEF Moves
  <2> QED BY <2>2, <2>3
<1>13. CASE SaveMigration
  <2>1. jobs' = jobs /\ "migrated" \in Paths
    BY <1>13 DEF SaveMigration, Saved, Paths
  <2> QED BY <1>13, <2>1, SaveMigrationSaves, SaveKeeps DEF Moves
<1>14. CASE Killed
  <2>1. job \in Jobs /\ job' = NoJob /\ files' = files /\ jobs' = jobs
    BY <1>14 DEF Killed, ToolInv, ToolTypes
  <2> QED BY <2>1 DEF Closes, Moves, ToolInv, ToolTypes
<1> QED BY <1>1, <1>2, <1>3, <1>4, <1>5, <1>6, <1>7, <1>8, <1>9, <1>10, <1>11, <1>12, <1>13,
           <1>14 DEF Next

LEMMA Tools == Spec => []ToolInv
<1>1. ToolInv /\ [Next]_vars => ToolInv'
  BY NextToolInv
<1> QED BY <1>1, InitToolInv, PTL DEF Spec
-------------------------------------------------------------------------------
(* What the tools promise.                                                     *)

LEMMA MeaningIs ==
  ASSUME NEW m \in Checkpoints
  PROVE  /\ Meaning(m) \in [Labels(m.config) -> Tokens] /\ DOMAIN Meaning(m) = Labels(m.config)
         /\ \A l \in Labels(m.config) : Meaning(m)[l] = m.w[UnitOf(m.config, l)]
         /\ m # None /\ Meaning(m) # None
<1>1. m.config \in Configs /\ m.w \in [Units(m.config) -> Tokens] /\ m \in Models(m.config)
  <2>1. PICK config \in Configs : m \in Models(config)
    BY DEF Checkpoints
  <2> QED BY <2>1 DEF Models
<1>2. \A l \in Labels(m.config) : m.w[UnitOf(m.config, l)] \in Tokens
  BY <1>1, LabelIsKept
<1>3. Meaning(m) \in [Labels(m.config) -> Tokens]
  BY <1>2 DEF Meaning
<1>4. m # None /\ Meaning(m) # None
  BY <1>1, <1>3, ToolsAssumption
<1> QED BY <1>3, <1>4 DEF Meaning

\* Nothing a checkpoint knew is kept where a tool that does not own it may move it.
LEMMA OwnedLabels ==
  ASSUME NEW j \in Jobs, Started(j), NEW l \in Labels(j.origin.config),
         MayMove(j, UnitOf(j.model.config, l))
  PROVE  \/ l[1] \in {"weight", "bias"} /\ l[2] \in j.rows
         \/ l[1] = "value" /\ j.train_value
<1> DEFINE o == j.origin.config
           c == j.model.config
           u == UnitOf(c, l)
<1>1. o \in Configs /\ o.spec \in Specs /\ c \in Configs
  BY CheckpointIs, ConfigType DEF Jobs
<1>2. l \in Labels(c)
  BY DEF Started, Meaning, Labelled!Extends
<1>3. FeatureCount[o.spec] \in Nat /\ FeatureCount[CurrentSpec] \in Nat
  BY <1>1, SpecOrder
<1>4. ASSUME NEW i \in Nat, u = <<"encoder", i>>
      PROVE  /\ j.columns = Columns(o.spec, CurrentSpec) /\ c.spec = CurrentSpec
             /\ i >= FeatureCount[o.spec] /\ i < FeatureCount[CurrentSpec]
  <2>1. j.columns # None /\ i \in j.columns
    BY <1>4 DEF MayMove
  <2>2. j.kind \in {"train", "probe"}
    BY <2>1 DEF Started, Jobs
  <2>3. j.columns = Columns(o.spec, CurrentSpec) /\ c.spec = CurrentSpec
    BY <2>1, <2>2 DEF Started
  <2>4. i \in FeatureCount[o.spec]..FeatureCount[CurrentSpec] - 1
    BY <2>1, <2>3 DEF Columns
  <2> QED BY <1>3, <2>3, <2>4
<1> HIDE DEF o, c
<1>5. CASE \E f \in 0..FeatureCount[o.spec] - 1 : l = <<"feature", f, 0>>
  <2>1. PICK f \in 0..FeatureCount[o.spec] - 1 : l = <<"feature", f, 0>>
    BY <1>5
  <2>2. u = <<"encoder", f>>
    BY <2>1 DEF UnitOf
  <2> QED BY <1>3, <1>4, <2>2
<1>6. CASE \E slot \in 0..o.history - 1, a \in 0..o.actions - 1 : l = <<"past", slot, a>>
  <2>1. PICK slot \in 0..o.history - 1, a \in 0..o.actions - 1 : l = <<"past", slot, a>>
    BY <1>6
  <2>2. slot \in 0..c.history - 1 /\ a \in 0..c.actions - 1
    BY <1>1, <1>2, <2>1, LabelForms
  <2> DEFINE i == FeatureCount[c.spec] + slot * c.actions + a
  <2>3. u = <<"encoder", i>>
    BY <2>1 DEF UnitOf
  <2>4. i \in Nat /\ i >= FeatureCount[c.spec]
    BY <1>1, <2>2, UnitOfIs
  <2> HIDE DEF i
  <2> QED BY <1>3, <1>4, <2>3, <2>4
<1>7. CASE \E t \in Heads, i \in Nat : <<t, i>> \in Units(o) /\ l = <<t, i, 0>>
  <2>1. PICK t \in Heads, i \in Nat : <<t, i>> \in Units(o) /\ l = <<t, i, 0>>
    BY <1>7
  <2>2. u = <<t, i>>
    BY <1>1, <2>1, UnitOfIs
  <2>3. ~(t = "residual" /\ j.kind = "residual")
    <3>1. j.kind = "residual" => ~o.residual
      BY DEF Started, o
    <3> QED BY <1>1, <2>1, <3>1, UnitsAre
  <2>4. MayMove(j, <<t, i>>)
    BY <2>2 DEF c
  <2>5. \/ t \in {"weight", "bias"} /\ i \in j.rows
        \/ t = "value" /\ j.train_value
    BY <2>3, <2>4 DEF MayMove, Heads
  <2> QED BY <2>1, <2>5
<1> QED BY <1>1, <1>5, <1>6, <1>7, LabelsAre DEF o

\* What no tool in the run owns is in its model as it was on disk, and has no moment.
THEOREM PolicyKept == Spec => []UnownedKept
<1>1. ToolInv => UnownedKept
  <2> SUFFICES ASSUME ToolInv, job # NoJob, Selective PROVE
        /\ \A l \in Labels(job.origin.config) :
             ~Owns(l) => Meaning(job.model)[l] = Meaning(job.origin)[l]
        /\ \A u \in job.moments :
             \/ Owns(u)
             \/ u[1] = "encoder" /\ u[2] \in job.columns
             \/ u[1] = "residual" /\ job.kind = "residual"
    BY DEF UnownedKept
  <2>1. job \in Jobs /\ Started(job) /\ Kept(job)
    BY DEF ToolInv, ToolTypes, Selective, Warm, Held
  <2>2. ASSUME NEW l \in Labels(job.origin.config), ~Owns(l)
        PROVE  Meaning(job.model)[l] = Meaning(job.origin)[l]
    <3> DEFINE c == job.model.config
    <3>1. /\ job.model \in Checkpoints /\ job.baseline \in Checkpoints /\ c \in Configs
          /\ job.origin \in Checkpoints /\ job.baseline.config = c
      BY <2>1, ModelsOf DEF Started, Jobs
    <3>2. l \in Labels(c) /\ Meaning(job.baseline)[l] = Meaning(job.origin)[l]
      BY <2>1, <3>1, MeaningIs DEF Started, Labelled!Extends
    <3>3. ~MayMove(job, UnitOf(c, l))
      BY <2>1, <2>2, OwnedLabels DEF Owns
    <3>4. UnitOf(c, l) \in Units(c)
      BY <3>1, <3>2, LabelIsKept
    <3>5. job.model.w[UnitOf(c, l)] = job.baseline.w[UnitOf(c, l)]
      BY <2>1, <3>3, <3>4 DEF Kept
    <3> QED BY <3>1, <3>2, <3>5, MeaningIs
  <2>3. ASSUME NEW u \in job.moments
        PROVE  \/ Owns(u)
               \/ u[1] = "encoder" /\ u[2] \in job.columns
               \/ u[1] = "residual" /\ job.kind = "residual"
    BY <2>1, <2>3 DEF Kept, MayMove, Owns
  <2> QED BY <2>2, <2>3
<1> QED BY <1>1, Tools, PTL

\* The audit of what a tool saved, against the checkpoint it was held to.
LEMMA AuditIs ==
  ASSUME ToolInv, NEW p \in Paths, Saves(p), NEW reference,
         reference = IF job.kind = "residual" THEN job.baseline ELSE job.origin,
         job.model.config = reference.config
  PROVE  Audited(job.model, reference, job.rows, job.train_value, job.kind = "residual")
           <=> Selective
<1>1. /\ job \in Jobs /\ Started(job) /\ (Held(job) => Kept(job))
      /\ job.kind = "train" => Trained(job) /\ job.at # "step"
  BY NoJobIs DEF ToolInv, ToolTypes, Saves
<1>2. /\ job.model \in Checkpoints /\ job.baseline \in Checkpoints
      /\ job.origin \in Checkpoints /\ job.model.config = job.baseline.config
  BY <1>1 DEF Jobs, Started
\* The checkpoint is the copy the tool keeps.
<1>3. reference = job.baseline
  BY <1>1, <1>2 DEF Started
<1> DEFINE c == job.model.config
           h == <<"hidden", 0>>
<1>4. /\ DOMAIN job.model.w = Units(c) /\ DOMAIN job.baseline.w = Units(c)
      /\ h \in Units(c) /\ c \in Configs
  BY <1>1, <1>2, ModelsOf
<1>5. Held(job) <=> Selective
  BY DEF Held, Selective, Warm
<1>6. \A u : u \in Changed(job.model, job.baseline)
               <=> u \in Units(c) /\ job.model.w[u] # job.baseline.w[u]
  BY <1>4 DEF Changed
<1>7. ASSUME Held(job)
      PROVE  Audited(job.model, job.baseline, job.rows, job.train_value, job.kind = "residual")
  <2>1. Valid(c)
    <3>1. CASE job.kind = "residual"
      <4>1. c.actions = ActionCount /\ c.spec = CurrentSpec
        BY <1>1, <1>2, <3>1 DEF Started
      <4>2. ResidualSpec \in Int /\ CurrentSpec \in Nat /\ CurrentSpec >= ResidualSpec
            /\ ActionCount >= ActionCount
        <5>1. CurrentSpec \in Nat /\ ActionCount \in Nat
          BY SpecOrder
        <5>2. ResidualSpec \in 0..CurrentSpec
          BY ModelAssumption
        <5> QED BY <5>1, <5>2
      <4> QED BY <4>1, <4>2 DEF Valid
    <3>2. CASE job.kind # "residual"
      BY <1>1, <3>2 DEF Started
    <3> QED BY <3>1, <3>2
  <2>2. Readable(job.model) /\ Readable(job.baseline)
    BY <1>2, <2>1, MeaningIs DEF Readable
  <2>3. job.kind = "residual" => c.residual
    BY <1>1, <1>2 DEF Started
  <2>4. job.rows \subseteq 0..c.actions - 1
    <3>1. job.kind \in {"train", "probe", "residual", "migrate"}
      BY <1>1 DEF Jobs
    <3> QED BY <1>1, <1>2, <3>1 DEF Started
  <2>5. ASSUME NEW u \in Changed(job.model, job.baseline)
        PROVE  \/ u[1] \in {"weight", "bias"} /\ u[2] \in job.rows
               \/ u[1] = "value" /\ job.train_value
               \/ u[1] = "residual" /\ job.kind = "residual"
    <3>1. MayMove(job, u)
      BY <1>1, <1>6, <1>7, <2>5 DEF Kept
    <3>2. ~(job.columns # None /\ u[2] \in job.columns)
      <4> SUFFICES ASSUME job.columns # None, u[2] \in job.columns PROVE FALSE
        OBVIOUS
      <4>1. job.kind \in {"train", "probe"}
        BY <1>1 DEF Started, Jobs
      <4>2. job.columns = Columns(job.origin.config.spec, CurrentSpec)
        BY <1>1, <4>1 DEF Started
      <4>3. job.origin.config.spec = CurrentSpec
        BY <1>1, <1>2, <4>1 DEF Started
      <4>4. FeatureCount[CurrentSpec] \in Nat
        BY SpecOrder
      <4>5. u[2] \in FeatureCount[CurrentSpec]..FeatureCount[CurrentSpec] - 1
        BY <4>2, <4>3 DEF Columns
      <4> QED BY <4>4, <4>5
    <3> QED BY <3>1, <3>2 DEF MayMove
  <2> QED BY <1>2, <2>2, <2>3, <2>4, <2>5 DEF Audited, OwnershipPassed
<1>8. ASSUME ~Held(job)
      PROVE  ~Audited(job.model, job.baseline, job.rows, job.train_value,
                      job.kind = "residual")
  <2>1. job.kind = "train" /\ Trained(job) /\ job.at # "step"
    BY <1>1, <1>8 DEF Held
  <2>2. job.model.w[h].moved > job.baseline.w[h].moved
    BY <1>8, <2>1 DEF Trained
  <2>3. job.model.w[h].moved \in Nat /\ job.baseline.w[h].moved \in Nat
    BY <1>1, ModelsOf, TokenMoves
  <2>4. h \in Changed(job.model, job.baseline)
    BY <1>4, <1>6, <2>2, <2>3
  <2> QED BY <2>4 DEF Audited, OwnershipPassed
<1> QED BY <1>3, <1>5, <1>7, <1>8

\* What the probes verify before they go on never fails: the restored parameters are exact.
THEOREM ProbesExact ==
  Spec => [](job # NoJob => /\ job.kind = "probe" => UnownedExact
                            /\ job.kind = "residual" => BaseExact)
<1>1. ASSUME ToolInv, job # NoJob
      PROVE  /\ job.kind = "probe" => UnownedExact
             /\ job.kind = "residual" => BaseExact
  <2>1. job \in Jobs /\ Started(job) /\ (Held(job) => Kept(job))
    BY <1>1 DEF ToolInv, ToolTypes
  <2>2. DOMAIN job.model.w = Units(job.model.config)
    BY <2>1, ModelsOf
  <2>3. ASSUME job.kind # "train", NEW u \in Changed(job.model, job.baseline)
        PROVE  MayMove(job, u) /\ ~job.train_value
    BY <2>1, <2>2, <2>3 DEF Changed, Kept, Held, Started
  <2>4. job.kind = "residual" => job.rows = {} /\ job.columns = None
    BY <2>1 DEF Started
  <2> QED BY <2>3, <2>4 DEF MayMove, UnownedExact, BaseExact
<1> QED BY <1>1, Tools, PTL

\* A saved checkpoint passes the audit exactly when its tool was held to what it owns.
THEOREM AuditSound == Spec => AuditTellsOwnership
<1> DEFINE Audits == \A p \in Paths : files'[p] # files[p] =>
                       LET reference == IF job.kind = "residual" THEN job.baseline
                                        ELSE job.origin
                       IN files'[p].config = reference.config =>
                            (Audited(files'[p], reference, job.rows, job.train_value,
                                     job.kind = "residual")
                             <=> Selective)
<1>1. ToolInv /\ [Next]_vars => [Audits]_vars
  <2> SUFFICES ASSUME ToolInv, [Next]_vars, NEW p \in Paths, files'[p] # files[p],
                      NEW reference,
                      reference = IF job.kind = "residual" THEN job.baseline ELSE job.origin,
                      files'[p].config = reference.config
               PROVE  Audited(files'[p], reference, job.rows, job.train_value,
                              job.kind = "residual")
                        <=> Selective
    OBVIOUS
  <2>1. files \in [Paths -> Checkpoints \cup {None}]
    BY DEF ToolInv, ToolTypes
  <2>2. PICK q \in Paths : Saves(q)
    BY NextToolInv DEF Moves, Opens, Learns, Closes, vars
  <2>3. Saves(p) /\ files'[p] = job.model
    BY <2>1, <2>2 DEF Saves
  <2> QED BY <2>3, AuditIs
<1>2. Spec => [][Audits]_vars
  BY <1>1, Tools, PTL DEF Spec
<1> QED BY <1>2 DEF AuditTellsOwnership

\* Label by label, the tools are those of the abstract specification.
THEOREM TrainingIsLabelled == Spec => LabelledSpec
<1> DEFINE known == [p \in Paths |-> IF files[p] = None THEN None ELSE Meaning(files[p])]
           held == IF job = NoJob THEN None ELSE Meaning(job.model)
<1>1. Init => Labelled!Init
  BY DEF Init, Labelled!Init
<1>2. ASSUME ToolInv, [Next]_vars
      PROVE  Labelled!Next \/ (known' = known /\ held' = held)
  <2>1. ToolInv' /\ Moves
    BY <1>2, NextToolInv
  <2>2. /\ \A p \in Paths : files[p] = None \/ files[p] \in Checkpoints
        /\ files \in [Paths -> Checkpoints \cup {None}]
    BY <1>2 DEF ToolInv, ToolTypes
  <2>3. CASE UNCHANGED vars
    BY <2>3 DEF vars
  <2>4. ASSUME NEW p \in Paths, Opens(p) PROVE Labelled!Open(p)
    <3>1. /\ held = None /\ known' = known /\ known[p] = Meaning(files[p])
          /\ known[p] # None
      BY <2>2, <2>4, MeaningIs DEF Opens
    <3>2. held' = Meaning(job'.model) /\ held' # None
      BY <2>4, NoJobIs, MeaningIs DEF Opens, Jobs
    <3>3. Labelled!Extends(held', known[p])
      BY <2>4, <3>1, <3>2 DEF Opens, Started
    <3> QED BY <3>1, <3>2, <3>3 DEF Labelled!Open
  <2>5. ASSUME NEW p \in Paths, Saves(p) PROVE Labelled!Save(p)
    <3>1. held = Meaning(job.model) /\ held # None /\ job.model \in Checkpoints
      BY <2>5, NoJobIs, MeaningIs DEF Saves, Jobs
    <3>2. known' = [known EXCEPT ![p] = held]
      BY <2>2, <2>5, <3>1, MeaningIs DEF Saves
    <3>3. held' \in {held, None}
      BY <2>5, <3>1 DEF Saves
    <3> QED BY <3>1, <3>2, <3>3 DEF Labelled!Save
  <2>6. CASE Learns
    <3>1. held = Meaning(job.model) /\ held # None
      BY <2>6, NoJobIs, MeaningIs DEF Learns, Jobs
    <3>2. held' = Meaning(job'.model) /\ held' # None
      BY <2>6, NoJobIs, MeaningIs DEF Learns, Jobs
    <3>3. DOMAIN held' = DOMAIN held
      BY <2>6, <3>1, <3>2 DEF Learns, Meaning
    <3>4. known' = known
      BY <2>6 DEF Learns
    <3> QED BY <3>1, <3>2, <3>3, <3>4 DEF Labelled!Learn, Labelled!Next
  <2>7. CASE Closes
    <3>1. held # None /\ held' = None /\ known' = known
      BY <2>7, NoJobIs, MeaningIs DEF Closes, Jobs
    <3> QED BY <3>1 DEF Labelled!Close, Labelled!Next
  <2> QED BY <2>1, <2>3, <2>4, <2>5, <2>6, <2>7 DEF Moves, Labelled!Next
<1>3. ToolInv /\ [Next]_vars => [Labelled!Next]_<<known, held>>
  BY <1>2
<1> QED BY <1>1, <1>3, Tools, PTL DEF Spec, LabelledSpec, Labelled!Spec
-------------------------------------------------------------------------------
(* The replay cache.                                                           *)

\* What was read before is contained in what was read after, and in what is on
\* the disk.
ReadsGrow(p) ==
  /\ pc[p] = "keying" => \A t \in Trajectories : t < at[p] => key[p].of[t] <= content[t]
  /\ pc[p] = "building" =>
       \A t \in Trajectories :
         /\ key[p].of[t] <= content[t]
         /\ t < at[p] => key[p].of[t] <= replay[p][t] /\ replay[p][t] <= content[t]
  /\ pc[p] = "rekeying" =>
       \A t \in Trajectories :
         /\ key[p].of[t] <= replay[p][t] /\ replay[p][t] <= content[t]
         /\ t < at[p] => replay[p][t] <= again[p].of[t]

ReplayOfKey(p) ==
  /\ pc[p] = "writing" => replay[p] = key[p].of
  /\ hit[p] => pc[p] = "done" /\ replay[p] = key[p].of

Local(p) == ReadsGrow(p) /\ ReplayOfKey(p)

ReplayInv == Types /\ OneEntryPerKey /\ CachedMatchesKey /\ \A p \in Processes : Local(p)

LEMMA ContentsUpdate ==
  ASSUME NEW c \in Contents, NEW t \in Trajectories, NEW v \in 0..MaxContent
  PROVE  [c EXCEPT ![t] = v] \in Contents
BY DEF Contents

LEMMA KeyUpdate ==
  ASSUME NEW k \in Keys, NEW v \in Versions, NEW c \in Contents
  PROVE  /\ [k EXCEPT !.version = v] \in Keys
         /\ [k EXCEPT !.of = c] \in Keys
         /\ k.of \in Contents /\ k.version \in Versions
BY DEF Keys

\* The types are kept by every step.
LEMMA TypesKept == ASSUME Types, [CacheNext]_cachevars PROVE Types'
<1> USE CacheAssumption DEF Types
<1>1. CASE Appends
  <2>1. PICK t \in Trajectories :
          content[t] < MaxContent /\ content' = [content EXCEPT ![t] = @ + 1]
    BY <1>1 DEF Appends
  <2>2. content[t] \in 0..MaxContent
    BY DEF Contents
  <2>3. content[t] + 1 \in 0..MaxContent
    BY <2>1, <2>2
  <2> QED BY <1>1, <2>1, <2>3, ContentsUpdate DEF Appends, locals
<1>2. CASE Edits BY <1>2 DEF Edits, locals, Versions
<1>3. ASSUME NEW p \in Processes, Prepares(p) PROVE Types'
  <2>1. CASE Imports(p) BY <2>1 DEF Imports, disk, Steps
  <2>2. CASE DigestSources(p)
    <3>1. [key[p] EXCEPT !.version = version] \in Keys
      BY KeyUpdate
    <3>2. key' = [key EXCEPT ![p] = [key[p] EXCEPT !.version = version]]
      BY <2>2 DEF DigestSources
    <3>3. key' \in [Processes -> Keys]
      BY <3>1, <3>2
    <3> QED BY <2>2, <3>3 DEF DigestSources, disk, Steps
  <2>3. CASE Digest(p)
    <3>1. content[at[p]] \in 0..MaxContent /\ at[p] + 1 \in 1..(N + 1)
      BY <2>3 DEF Digest, Contents, Trajectories
    <3>2. [key[p].of EXCEPT ![at[p]] = content[at[p]]] \in Contents
      BY <2>3, <3>1, KeyUpdate, ContentsUpdate DEF Digest
    <3>3. [key[p] EXCEPT !.of = [key[p].of EXCEPT ![at[p]] = content[at[p]]]] \in Keys
      BY <3>2, KeyUpdate
    <3>4. key' = [key EXCEPT ![p] =
                    [key[p] EXCEPT !.of = [key[p].of EXCEPT ![at[p]] = content[at[p]]]]]
      BY <2>3 DEF Digest
    <3>5. key' \in [Processes -> Keys]
      BY <3>3, <3>4
    <3> QED BY <2>3, <3>1, <3>5 DEF Digest, disk
  <2>6. CASE Build(p)
    <3>1. content[at[p]] \in 0..MaxContent /\ at[p] + 1 \in 1..(N + 1)
      BY <2>6 DEF Build, Contents, Trajectories
    <3>2. [replay[p] EXCEPT ![at[p]] = content[at[p]]] \in Contents
      BY <2>6, <3>1, ContentsUpdate DEF Build
    <3>3. replay' = [replay EXCEPT ![p] = [replay[p] EXCEPT ![at[p]] = content[at[p]]]]
      BY <2>6 DEF Build
    <3>4. replay' \in [Processes -> Contents]
      BY <3>2, <3>3
    <3> QED BY <2>6, <3>1, <3>4 DEF Build, disk
  <2>7. CASE Rekey(p)
    <3>1. [again[p] EXCEPT !.version = version] \in Keys
      BY KeyUpdate
    <3>2. again' = [again EXCEPT ![p] = [again[p] EXCEPT !.version = version]]
      BY <2>7 DEF Rekey
    <3>3. again' \in [Processes -> Keys]
      BY <3>1, <3>2
    <3> QED BY <2>7, <3>3 DEF Rekey, disk, Steps
  <2>8. CASE DigestAgain(p)
    <3>1. content[at[p]] \in 0..MaxContent /\ at[p] + 1 \in 1..(N + 1)
      BY <2>8 DEF DigestAgain, Contents, Trajectories
    <3>2. [again[p].of EXCEPT ![at[p]] = content[at[p]]] \in Contents
      BY <2>8, <3>1, KeyUpdate, ContentsUpdate DEF DigestAgain
    <3>3. [again[p] EXCEPT !.of = [again[p].of EXCEPT ![at[p]] = content[at[p]]]] \in Keys
      BY <3>2, KeyUpdate
    <3>4. again' = [again EXCEPT ![p] =
                      [again[p] EXCEPT !.of = [again[p].of EXCEPT ![at[p]] = content[at[p]]]]]
      BY <2>8 DEF DigestAgain
    <3>5. again' \in [Processes -> Keys]
      BY <3>3, <3>4
    <3> QED BY <2>8, <3>1, <3>5 DEF DigestAgain, disk
  <2>4. CASE Hit(p) BY <2>4 DEF Hit, disk, Steps, Entries
  <2>5. CASE Miss(p) BY <2>5 DEF Miss, disk, Steps
  <2>9. CASE Compare(p) BY <2>9 DEF Compare, disk, Steps
  <2>10. CASE Install(p) BY <2>10 DEF Install, disk, Steps, Entries
  <2>11. CASE InstallFails(p) BY <2>11 DEF InstallFails, disk, Steps
  <2>12. CASE Fails(p) BY <2>12 DEF Fails, disk, Steps
  <2> QED BY <1>3, <2>1, <2>2, <2>3, <2>4, <2>5, <2>6, <2>7, <2>8, <2>9, <2>10, <2>11,
             <2>12 DEF Prepares
<1>4. CASE UNCHANGED cachevars BY <1>4 DEF cachevars, disk, locals
<1> QED BY <1>1, <1>2, <1>3, <1>4 DEF CacheNext

\* What one process reads, and what it compares.
LEMMA ReadsCompared ==
  ASSUME NEW a \in Contents, NEW b \in Contents,
         \A t \in Trajectories : a[t] <= b[t] /\ b[t] <= a[t]
  PROVE  a = b
<1>1. \A t \in Trajectories : a[t] \in Int /\ b[t] \in Int
  BY CacheAssumption DEF Contents
<1>2. \A t \in Trajectories : a[t] = b[t]
  BY <1>1
<1> QED BY <1>2 DEF Contents

\* A process that does nothing keeps what it knows while contents grow.
LEMMA LocalStable ==
  ASSUME Types, NEW q \in Processes, Local(q),
         pc'[q] = pc[q], at'[q] = at[q], key'[q] = key[q], replay'[q] = replay[q],
         again'[q] = again[q], hit'[q] = hit[q],
         content' \in Contents, \A t \in Trajectories : content[t] <= content'[t]
  PROVE  Local(q)'
<1>1. \A t \in Trajectories :
        /\ content[t] \in Int /\ content'[t] \in Int
        /\ key[q].of[t] \in Int /\ replay[q][t] \in Int
  BY CacheAssumption DEF Types, Contents, Keys
<1>2. ReadsGrow(q)'
  BY <1>1 DEF Local, ReadsGrow
<1>3. ReplayOfKey(q)'
  BY DEF Local, ReplayOfKey
<1> QED BY <1>2, <1>3 DEF Local

\* A process keeps what it knows through its own step.
LEMMA LocalKept ==
  ASSUME ReplayInv, Types', NEW p \in Processes, Prepares(p)
  PROVE  Local(p)'
<1> USE CacheAssumption DEF ReplayInv
<1> DEFINE Ints(f) == \A t \in Trajectories : f[t] \in Int
<1>1. Ints(content) /\ Ints(key[p].of) /\ Ints(replay[p]) /\ Ints(again[p].of)
  BY DEF Types, Contents, Keys
<1>2. at[p] \in Int /\ \A t \in Trajectories : t \in Int
  BY DEF Types, Trajectories
<1>3. CASE Imports(p)
  BY <1>3 DEF Imports, Local, ReadsGrow, ReplayOfKey, Types
<1>4. CASE DigestSources(p)
  <2>1. at'[p] = 1 /\ pc'[p] = "keying" /\ hit'[p] = hit[p] /\ ~hit[p]
    BY <1>4 DEF DigestSources, Types, Local, ReplayOfKey
  <2>2. \A t \in Trajectories : ~(t < 1)
    BY DEF Trajectories
  <2> QED BY <2>1, <2>2 DEF Local, ReadsGrow, ReplayOfKey
<1>5. CASE Digest(p)
  <2>1. /\ pc'[p] = "keying" /\ at'[p] = at[p] + 1 /\ content' = content
        /\ ~hit[p] /\ hit' = hit /\ at[p] \in Trajectories /\ pc[p] = "keying"
    BY <1>5 DEF Digest, Types, Local, ReplayOfKey, disk
  <2>2. \A t \in Trajectories :
          key'[p].of[t] = IF t = at[p] THEN content[t] ELSE key[p].of[t]
    <3>1. key' = [key EXCEPT ![p] =
                    [key[p] EXCEPT !.of = [key[p].of EXCEPT ![at[p]] = content[at[p]]]]]
      BY <1>5 DEF Digest
    <3>2. key'[p].of = [key[p].of EXCEPT ![at[p]] = content[at[p]]]
      BY <3>1 DEF Types, Keys
    <3> QED BY <3>2 DEF Types, Keys, Contents
  <2>3. \A t \in Trajectories : t < at'[p] => key'[p].of[t] <= content'[t]
    BY <1>1, <1>2, <2>1, <2>2 DEF Local, ReadsGrow
  <2> QED BY <2>1, <2>3 DEF Local, ReadsGrow, ReplayOfKey
<1>6. CASE Hit(p)
  <2>1. PICK e \in cache : e.key = key[p] /\ replay' = [replay EXCEPT ![p] = e.of]
    BY <1>6 DEF Hit
  <2>2. e.of = key[p].of
    BY <2>1 DEF CachedMatchesKey
  <2>3. replay'[p] = key'[p].of
    BY <1>6, <2>1, <2>2 DEF Hit, Types
  <2>4. pc'[p] = "done"
    BY <1>6 DEF Hit, Types
  <2> QED BY <2>3, <2>4 DEF Local, ReadsGrow, ReplayOfKey
<1>7. CASE Miss(p)
  <2>1. /\ pc'[p] = "building" /\ at'[p] = 1 /\ pc[p] = "keying" /\ at[p] = N + 1
        /\ content' = content /\ key' = key /\ replay' = replay /\ hit' = hit /\ ~hit[p]
    BY <1>7 DEF Miss, Types, disk, Local, ReplayOfKey
  <2>2. \A t \in Trajectories : t < N + 1 /\ ~(t < 1)
    BY DEF Trajectories
  <2> QED BY <2>1, <2>2 DEF Local, ReadsGrow, ReplayOfKey
<1>8. CASE Build(p)
  <2>1. /\ pc'[p] = "building" /\ at'[p] = at[p] + 1 /\ content' = content /\ key' = key
        /\ ~hit[p] /\ hit' = hit /\ at[p] \in Trajectories /\ pc[p] = "building"
    BY <1>8 DEF Build, Types, Local, ReplayOfKey, disk
  <2>2. \A t \in Trajectories :
          replay'[p][t] = IF t = at[p] THEN content[t] ELSE replay[p][t]
    BY <1>8 DEF Build, Types, Contents
  <2>3. ReadsGrow(p)'
    BY <1>1, <1>2, <2>1, <2>2 DEF Local, ReadsGrow
  <2> QED BY <2>1, <2>3 DEF Local, ReplayOfKey
<1>9. CASE Rekey(p)
  <2>1. /\ pc'[p] = "rekeying" /\ at'[p] = 1 /\ pc[p] = "building" /\ at[p] = N + 1
        /\ content' = content /\ key' = key /\ replay' = replay /\ hit' = hit /\ ~hit[p]
    BY <1>9 DEF Rekey, Types, disk, Local, ReplayOfKey
  <2>2. \A t \in Trajectories : t < N + 1 /\ ~(t < 1)
    BY DEF Trajectories
  <2> QED BY <2>1, <2>2 DEF Local, ReadsGrow, ReplayOfKey
<1>10. CASE DigestAgain(p)
  <2>1. /\ pc'[p] = "rekeying" /\ at'[p] = at[p] + 1 /\ content' = content /\ key' = key
        /\ ~hit[p] /\ hit' = hit /\ at[p] \in Trajectories /\ pc[p] = "rekeying"
        /\ replay' = replay
    BY <1>10 DEF DigestAgain, Types, Local, ReplayOfKey, disk
  <2>2. \A t \in Trajectories :
          again'[p].of[t] = IF t = at[p] THEN content[t] ELSE again[p].of[t]
    <3>1. again' = [again EXCEPT ![p] =
                      [again[p] EXCEPT !.of = [again[p].of EXCEPT ![at[p]] = content[at[p]]]]]
      BY <1>10 DEF DigestAgain
    <3>2. again'[p].of = [again[p].of EXCEPT ![at[p]] = content[at[p]]]
      BY <3>1 DEF Types, Keys
    <3> QED BY <3>2 DEF Types, Keys, Contents
  <2>3. ReadsGrow(p)'
    BY <1>1, <1>2, <2>1, <2>2 DEF Local, ReadsGrow
  <2> QED BY <2>1, <2>3 DEF Local, ReplayOfKey
<1>11. CASE Compare(p)
  <2>1. /\ pc'[p] = (IF again[p] = key[p] THEN "writing" ELSE "done")
        /\ pc[p] = "rekeying" /\ at[p] = N + 1
        /\ key' = key /\ replay' = replay /\ hit' = hit /\ ~hit[p]
    BY <1>11 DEF Compare, Types, Local, ReplayOfKey
  <2>2. ASSUME again[p] = key[p] PROVE replay[p] = key[p].of
    <3>1. \A t \in Trajectories :
            key[p].of[t] <= replay[p][t] /\ replay[p][t] <= key[p].of[t]
      <4>1. \A t \in Trajectories : t < N + 1
        BY DEF Trajectories
      <4> QED BY <2>1, <2>2, <4>1 DEF Local, ReadsGrow
    <3>2. key[p].of \in Contents /\ replay[p] \in Contents
      BY DEF Types, Keys
    <3> QED BY <3>1, <3>2, ReadsCompared
  <2> QED BY <2>1, <2>2 DEF Local, ReadsGrow, ReplayOfKey
<1>12. CASE Install(p)
  BY <1>12 DEF Install, Local, ReadsGrow, ReplayOfKey, Types
<1>13. CASE InstallFails(p)
  BY <1>13 DEF InstallFails, Local, ReadsGrow, ReplayOfKey, Types
<1>14. CASE Fails(p)
  BY <1>14 DEF Fails, Local, ReadsGrow, ReplayOfKey, Types
<1> QED BY <1>3, <1>4, <1>5, <1>6, <1>7, <1>8, <1>9, <1>10, <1>11, <1>12, <1>13, <1>14
        DEF Prepares

\* Only an install changes the cache, with a replay that was compared.
LEMMA CacheKept == ASSUME ReplayInv, [CacheNext]_cachevars PROVE OneEntryPerKey' /\ CachedMatchesKey'
<1>1. CASE UNCHANGED cache
  BY <1>1 DEF ReplayInv, CachedMatchesKey, OneEntryPerKey
<1>2. ASSUME NEW p \in Processes, Install(p) PROVE OneEntryPerKey' /\ CachedMatchesKey'
  <2>1. replay[p] = key[p].of
    BY <1>2 DEF ReplayInv, Local, ReplayOfKey, Install
  <2> QED BY <1>2, <2>1 DEF ReplayInv, CachedMatchesKey, OneEntryPerKey, Install
<1>3. ASSUME NEW p \in Processes, Prepares(p), ~Install(p) PROVE UNCHANGED cache
  BY <1>3 DEF Prepares, Imports, DigestSources, Digest, Hit, Miss, Build, Rekey, DigestAgain,
              Compare, InstallFails, Fails, disk
<1> QED BY <1>1, <1>2, <1>3 DEF CacheNext, Appends, Edits, cachevars, disk

LEMMA InitReplayInv == CacheInit => ReplayInv
<1> SUFFICES ASSUME CacheInit PROVE ReplayInv
  OBVIOUS
<1> USE CacheAssumption DEF CacheInit
<1>1. NoContents \in Contents
  BY DEF NoContents, Contents
<1>2. Types
  BY <1>1 DEF Types, Versions, Keys, NoKey, Steps
<1>3. OneEntryPerKey /\ CachedMatchesKey
  BY DEF OneEntryPerKey, CachedMatchesKey
<1>4. \A p \in Processes : Local(p)
  BY DEF Local, ReadsGrow, ReplayOfKey
<1> QED BY <1>2, <1>3, <1>4 DEF ReplayInv

LEMMA NextReplayInv == ReplayInv /\ [CacheNext]_cachevars => ReplayInv'
<1> SUFFICES ASSUME ReplayInv, [CacheNext]_cachevars PROVE ReplayInv'
  OBVIOUS
<1>1. Types'
  BY TypesKept DEF ReplayInv
<1>2. OneEntryPerKey' /\ CachedMatchesKey'
  BY CacheKept
<1>3. ASSUME NEW q \in Processes PROVE Local(q)'
  <2>1. CASE UNCHANGED cachevars
    BY <2>1 DEF ReplayInv, cachevars, locals, disk, Local, ReadsGrow, ReplayOfKey
  <2>2. CASE Edits
    BY <2>2 DEF Edits, ReplayInv, locals, Local, ReadsGrow, ReplayOfKey
  <2>3. CASE Appends
    <3>1. \A t \in Trajectories : content[t] \in Int /\ content[t] <= content'[t]
      BY <2>3, CacheAssumption DEF Appends, ReplayInv, Types, Contents
    <3> QED BY <1>1, <2>3, <3>1, LocalStable DEF Appends, ReplayInv, Types, locals
  <2>4. ASSUME NEW p \in Processes, Prepares(p) PROVE Local(q)'
    <3>1. CASE p = q
      BY <1>1, <2>4, <3>1, LocalKept
    <3>2. CASE p # q
      <4>1. /\ pc'[q] = pc[q] /\ at'[q] = at[q] /\ key'[q] = key[q]
            /\ replay'[q] = replay[q] /\ again'[q] = again[q] /\ hit'[q] = hit[q]
            /\ content' = content
        BY <2>4, <3>2 DEF ReplayInv, Types, Prepares, Imports, DigestSources, Digest, Hit, Miss,
             Build, Rekey, DigestAgain, Compare, Install, InstallFails, Fails, disk
      <4>2. \A t \in Trajectories : content[t] <= content'[t]
        BY <4>1, CacheAssumption DEF ReplayInv, Types, Contents
      <4> QED BY <1>1, <4>1, <4>2, LocalStable DEF ReplayInv, Types
    <3> QED BY <3>1, <3>2
  <2> QED BY <2>1, <2>2, <2>3, <2>4 DEF CacheNext
<1> QED BY <1>1, <1>2, <1>3 DEF ReplayInv

\* Types, and at most one entry per key.
THEOREM TypeCorrect == CacheSpec => []TypeOK
<1>1. ReplayInv => TypeOK
  BY DEF ReplayInv, TypeOK
<1> QED BY <1>1, InitReplayInv, NextReplayInv, PTL DEF CacheSpec

\* An entry holds the replay of the contents its key digests, however the
\* trajectories grow and the processes interleave.
THEOREM CacheSound == CacheSpec => []CachedMatchesKey
<1>1. ReplayInv => CachedMatchesKey
  BY DEF ReplayInv
<1> QED BY <1>1, InitReplayInv, NextReplayInv, PTL DEF CacheSpec

\* A hit returns the replay of the trajectories the process keyed.
THEOREM HitSound == CacheSpec => []HitIsOwnInputs
<1>1. ReplayInv => HitIsOwnInputs
  BY DEF ReplayInv, Local, ReplayOfKey, HitIsOwnInputs
<1> QED BY <1>1, InitReplayInv, NextReplayInv, PTL DEF CacheSpec
===============================================================================
