----------------------------- MODULE PolicyModel -----------------------------
(* The parameters of SemanticActorCritic as the migrations of learned.py and  *)
(* the selective optimizer steps of ppo.py move them.  A parameter is a       *)
(* position of a tensor, <<tensor, index>>; what it holds is a token: where   *)
(* the value was learned, and how many optimizer steps have moved it since.   *)
(* The hidden layers and the value head are one parameter each, a column of   *)
(* the first layer, a row of a head one each.                                 *)
EXTENDS Integers

CONSTANTS Specs,        \* the supported feature specifications
          FeatureCount, \* the width of each: [Specs -> Nat]
          CurrentSpec,  \* FEATURE_SPEC_VERSION
          ActionCount,  \* ACTION_COUNT
          ResidualSpec, \* the oldest specification a residual can read
          None

ASSUME ModelAssumption ==
  /\ Specs \subseteq Nat /\ CurrentSpec \in Specs /\ ResidualSpec \in 0..CurrentSpec
  /\ ActionCount \in Nat
  /\ FeatureCount \in [Specs -> Nat]
  /\ \A s, t \in Specs : s <= t => FeatureCount[s] <= FeatureCount[t] /\ t <= CurrentSpec

\* ModelConfig; the residual is there in a valid configuration only.
Valid(config) ==
  config.residual => config.spec >= ResidualSpec /\ config.actions >= ActionCount

Inputs(config) == FeatureCount[config.spec] + config.actions * config.history

Units(config) ==
  {<<"encoder", i>> : i \in 0..Inputs(config) - 1}
    \cup {<<"weight", a>> : a \in 0..config.actions - 1}
    \cup {<<"bias", a>> : a \in 0..config.actions - 1}
    \cup {<<"echo", f>> : f \in 0..FeatureCount[config.spec] - 1}
    \cup {<<"hidden", 0>>, <<"value", 0>>}
    \cup (IF config.residual THEN {<<"residual", 0>>} ELSE {})

Token(name) == [of |-> <<name, 0, 0>>, moved |-> 0]
Zero == Token("zero")
Low == Token("low")          \* the bias -10 of an appended action
Random == Token("random")    \* what the layers of a new model hold

Names == {"zero", "low", "random", "feature", "past", "weight", "bias", "echo", "hidden",
          "value", "residual"}
Tokens == [of : Names \X Nat \X Nat, moved : Nat]

\* A new model, with what its parameters hold.
Built(config, values) == [config |-> config, w |-> values]
Models(config) == [config : {config}, w : [Units(config) -> Tokens]]
-------------------------------------------------------------------------------
(* The migrations.  Each builds a new model and copies the old parameters into *)
(* it, position by position.                                                   *)

AddActionHistory(model, length) ==
  LET config == [model.config EXCEPT !.history = length]
      values == [u \in Units(config) |->
        IF u \in DOMAIN model.w THEN model.w[u]
        ELSE IF u[1] = "encoder" THEN Zero ELSE Random]
  IN IF model.config.history = length THEN model ELSE Built(config, values)

AlignFeatureSpec(model, spec) ==
  LET config == [model.config EXCEPT !.spec = spec]
      old == FeatureCount[model.config.spec]
      new == FeatureCount[spec]
      Column(i) == IF i < old THEN model.w[<<"encoder", i>>]
                   ELSE IF i < new THEN Zero
                   ELSE model.w[<<"encoder", old + (i - new)>>]
      values == [u \in Units(config) |->
        IF u[1] = "encoder" THEN Column(u[2])
        ELSE IF u \in DOMAIN model.w THEN model.w[u]
        ELSE IF u[1] = "echo" THEN Zero ELSE Random]
  IN IF model.config.spec = spec THEN model ELSE Built(config, values)

\* Faulty variant: the old columns are copied as one block.
AlignActionCountAsBlock(model, count) ==
  LET config == [model.config EXCEPT !.actions = count]
      values == [u \in Units(config) |->
        IF u \in DOMAIN model.w THEN model.w[u]
        ELSE IF u[1] = "bias" THEN Low ELSE Zero]
  IN IF model.config.actions = count THEN model ELSE Built(config, values)

AlignActionCount(model, count) ==
  LET config == [model.config EXCEPT !.actions = count]
      semantic == FeatureCount[model.config.spec]
      old == model.config.actions
      NewStart(slot) == semantic + slot * count
      OldStart(slot) == semantic + slot * old
      Slots(i) == {slot \in 0..model.config.history - 1 :
                     i \in NewStart(slot)..NewStart(slot) + old - 1}
      Column(i) ==
        IF i < semantic THEN model.w[<<"encoder", i>>]
        ELSE IF Slots(i) = {} THEN Zero
        ELSE LET slot == CHOOSE s \in Slots(i) : TRUE
             IN model.w[<<"encoder", OldStart(slot) + (i - NewStart(slot))>>]
      values == [u \in Units(config) |->
        IF u[1] = "encoder" THEN Column(u[2])
        ELSE IF u \in DOMAIN model.w THEN model.w[u]
        ELSE CASE u[1] = "weight" -> Zero
               [] u[1] = "bias" -> Low
               [] OTHER -> Random]
  IN IF model.config.actions = count THEN model ELSE Built(config, values)

\* An existing residual is kept.
EnableAbilityResidual(model) ==
  LET config == [model.config EXCEPT !.residual = TRUE]
      values == [u \in Units(config) |->
        IF u \in DOMAIN model.w THEN model.w[u] ELSE Zero]
  IN Built(config, values)
-------------------------------------------------------------------------------
(* What a model means: the parameter of a feature, of an action remembered in a *)
(* slot, of an action's logit, wherever its tensor keeps it.                    *)

Labels(config) ==
  {<<"feature", f, 0>> : f \in 0..FeatureCount[config.spec] - 1}
    \cup {<<"past", slot, a>> : slot \in 0..config.history - 1,
                                a \in 0..config.actions - 1}
    \cup {<<u[1], u[2], 0>> : u \in {v \in Units(config) : v[1] # "encoder"}}

\* Features come first, then the history, slot by slot, newest first.
UnitOf(config, label) ==
  CASE label[1] = "feature" -> <<"encoder", label[2]>>
    [] label[1] = "past" ->
         <<"encoder", FeatureCount[config.spec] + label[2] * config.actions + label[3]>>
    [] OTHER -> <<label[1], label[2]>>

Meaning(model) ==
  [l \in Labels(model.config) |-> model.w[UnitOf(model.config, l)]]
-------------------------------------------------------------------------------
(* The optimizer.                                                             *)

\* A step moves every parameter of a tensor that has a gradient: where the
\* gradient is zero, by the decay of AdamW.
Moved(model, tensors) ==
  [model EXCEPT !.w = [u \in DOMAIN model.w |->
     IF u[1] \in tensors THEN [model.w[u] EXCEPT !.moved = @ + 1] ELSE model.w[u]]]

\* Faulty variant: the value head is always left in the warmup.
RestrictKeepingValue(columns, train_value) ==
  {"weight", "bias", "value"} \cup (IF columns = None THEN {} ELSE {"encoder"})

\* The tensors that keep a gradient in a warmup.
RestrictWarmupGradients(columns, train_value) ==
  {"weight", "bias"} \cup (IF train_value THEN {"value"} ELSE {})
                     \cup (IF columns = None THEN {} ELSE {"encoder"})

\* Faulty variant: only the weights of the frozen rows are restored, not their biases.
FrozenWeights(model, rows) ==
  {u \in DOMAIN model.w : u[1] = "weight" /\ u[2] \notin rows}

FrozenRows(model, rows) ==
  {u \in DOMAIN model.w : u[1] \in {"weight", "bias"} /\ u[2] \notin rows}
FrozenColumns(model, columns) ==
  {u \in DOMAIN model.w : columns # None /\ u[1] = "encoder" /\ u[2] \notin columns}

\* The parameters whose gradient is not zeroed: their moments accumulate.
WarmupGradients(model, rows, columns, train_value) ==
  {u \in DOMAIN model.w : u[1] \in RestrictWarmupGradients(columns, train_value)}
    \ (FrozenRows(model, rows) \cup FrozenColumns(model, columns))

RestoreWarmupParameters(stepped, frozen, kept) ==
  [stepped EXCEPT !.w = [u \in DOMAIN stepped.w |->
     IF u \in frozen THEN kept.w[u] ELSE stepped.w[u]]]

\* One selective step: restrict, step, restore from a copy.
WarmupStep(model, rows, columns, train_value, kept) ==
  RestoreWarmupParameters(
    Moved(model, RestrictWarmupGradients(columns, train_value)),
    FrozenRows(model, rows) \cup FrozenColumns(model, columns), kept)
-------------------------------------------------------------------------------
(* The audit of a checkpoint against another, with an ownership contract.     *)

Changed(current, reference) ==
  {u \in DOMAIN current.w \cap DOMAIN reference.w : current.w[u] # reference.w[u]}

OwnershipPassed(current, reference, rows, value_head, ability_residual) ==
  /\ current.config = reference.config
  /\ ability_residual => current.config.residual
  /\ rows \subseteq 0..current.config.actions - 1
  /\ \A u \in Changed(current, reference) :
       \/ u[1] \in {"weight", "bias"} /\ u[2] \in rows
       \/ u[1] = "value" /\ value_head
       \/ u[1] = "residual" /\ ability_residual

\* load_checkpoint_contents: a file whose configuration is not valid is refused.
Readable(file) == file # None /\ Valid(file.config)

\* audit_checkpoint, with the rows that were allowed.
Audited(file, reference, rows, value_head, ability_residual) ==
  /\ Readable(file) /\ Readable(reference)
  /\ OwnershipPassed(file, reference, rows, value_head, ability_residual)
===============================================================================
