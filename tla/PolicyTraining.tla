--------------------------- MODULE PolicyTraining ---------------------------
(* The tools that read a checkpoint, migrate its model, train some of its      *)
(* parameters and write checkpoints for the next tool: train_ppo, run_probe,   *)
(* run_residual_probe and migrate_features.  One tool runs at a time, and may  *)
(* be killed between any two of its steps.                                     *)
EXTENDS PolicyModel

CONSTANTS Initial,      \* the checkpoints a project may start from
          Lengths,      \* the action_history_length train_ppo may be given
          Companions,   \* the menu keys and kinds it may be told to train
          ProbeRows,    \* the rows of the ability menu
          Updates,      \* config.updates
          Minibatches,  \* minibatches of one update, over all its epochs
          MaxJobs       \* bound: tools started

\* The configurations a checkpoint can have.
Configs == [actions : {ActionCount} \cup {m.config.actions : m \in Initial}, spec : Specs,
            history : {0} \cup Lengths \cup {m.config.history : m \in Initial},
            residual : BOOLEAN]

\* What holds of the checkpoints the tools start from and of the rows they are told to train.
ASSUME ToolsAssumption ==
  /\ Lengths \subseteq Nat /\ Updates \in Nat \ {0} /\ Minibatches \in Nat \ {0}
  /\ Companions \cup ProbeRows \subseteq 0..ActionCount - 1
  /\ \A m \in Initial : m.config.actions \in Nat /\ m.config.history \in Nat
  /\ \A m \in Initial : m \in Models(m.config) /\ m.config \in Configs
  /\ \A config \in Configs : None \notin Models(config) \cup [Labels(config) -> Tokens]

VARIABLES files,  \* the checkpoints on disk: path -> model, or None
          job,    \* the tool that runs, or NoJob
          jobs    \* tools started

vars == <<files, job, jobs>>

NoJob == [kind |-> "none"]
Paths == {"initial", "output", "update", "probe", "residual", "migrated"}
Init ==
  /\ \E m \in Initial : files = [p \in Paths |-> IF p = "initial" THEN m ELSE None]
  /\ job = NoJob /\ jobs = 0
-------------------------------------------------------------------------------
\* LearnedPolicy: a configuration is validated as it was saved, and the action
\* catalog, which cannot shrink, is extended on load.
Loads(file) == file # None /\ Valid(file.config) /\ file.config.actions <= ActionCount
Restored(file) == AlignActionCount(file, ActionCount)

\* A tool keeps its model, a copy of it (baseline), the checkpoint it was given
\* as it was read (origin), what it may train, and how far it has come.
Job(kind, origin, model) ==
  [kind |-> kind, origin |-> origin, model |-> model, baseline |-> model,
   rows |-> {}, columns |-> None, train_value |-> FALSE, warmup |-> 0,
   at |-> "step", update |-> 0, left |-> Minibatches, moments |-> {}]

Start(new) == job' = new /\ jobs' = jobs + 1 /\ UNCHANGED files

MayStart == job = NoJob /\ jobs < MaxJobs

Columns(from, to) == FeatureCount[from]..FeatureCount[to] - 1

\* train_ppo.  What was established is counted on the checkpoint, before it is
\* extended; a history can be added, not resized.
StartTraining(path, length, companions, train_value, warmup) ==
  LET origin == files[path]
      aligned == AlignActionCount(
                   AlignFeatureSpec(Restored(origin), CurrentSpec), ActionCount)
      model == IF length = None THEN aligned ELSE AddActionHistory(aligned, length)
      columns == Columns(origin.config.spec, CurrentSpec)
  IN /\ MayStart /\ Loads(origin)
     /\ length # None => aligned.config.history \in {0, length}
     /\ Start([Job("train", origin, model) EXCEPT
                 !.rows = (origin.config.actions..ActionCount - 1) \cup companions,
                 !.columns = IF columns = {} THEN None ELSE columns,
                 !.train_value = train_value, !.warmup = warmup])

\* run_probe, which needs a checkpoint without history.
StartProbe(path, row_only) ==
  LET origin == files[path]
  IN /\ MayStart /\ Loads(origin)
     /\ origin.config.history = 0
     /\ row_only => /\ origin.config.spec = CurrentSpec
                    /\ origin.config.actions = ActionCount
     /\ Start([Job("probe", origin,
                   AlignFeatureSpec(Restored(origin), CurrentSpec)) EXCEPT
                 !.rows = ProbeRows,
                 !.columns = IF row_only THEN {}
                             ELSE Columns(origin.config.spec, CurrentSpec)])

\* run_residual_probe, which needs a current checkpoint without history or
\* residual, and saves the model before it trains it.
StartResidual(path) ==
  LET origin == files[path]
  IN /\ MayStart /\ Loads(origin)
     /\ origin.config = [actions |-> ActionCount, spec |-> CurrentSpec,
                         history |-> 0, residual |-> FALSE]
     /\ Start([Job("residual", origin, EnableAbilityResidual(origin)) EXCEPT
                 !.at = "save", !.left = Minibatches + 1])

\* migrate_features, to a path that must not exist; it trains nothing.
StartMigration(path, spec) ==
  LET origin == files[path]
  IN /\ MayStart /\ Loads(origin)
     /\ files["migrated"] = None /\ origin.config.spec <= spec
     /\ Start([Job("migrate", origin, AlignFeatureSpec(Restored(origin), spec)) EXCEPT
                 !.at = "save", !.left = 0])
-------------------------------------------------------------------------------
Warm == job.update < job.warmup

\* One minibatch of _ppo_update.
Minibatch ==
  /\ job # NoJob /\ job.kind = "train" /\ job.at = "step"
  /\ job' = [job EXCEPT
       !.model = IF Warm
                 THEN WarmupStep(@, job.rows, job.columns, job.train_value, @)
                 ELSE Moved(@, {u[1] : u \in DOMAIN @.w}),
       !.moments = @ \cup
         (IF Warm THEN WarmupGradients(job.model, job.rows, job.columns, job.train_value)
          ELSE DOMAIN job.model.w),
       !.left = @ - 1,
       !.at = IF job.left = 1 THEN "save" ELSE "step"]
  /\ UNCHANGED <<files, jobs>>

\* selective_step: restored from the copy of the start.
SelectiveStep ==
  /\ job # NoJob /\ job.kind = "probe" /\ job.at = "step"
  /\ job' = [job EXCEPT
       !.model = WarmupStep(@, job.rows, job.columns, FALSE, job.baseline),
       !.moments = @ \cup WarmupGradients(job.model, job.rows, job.columns, FALSE),
       !.left = @ - 1, !.at = "save"]
  /\ UNCHANGED <<files, jobs>>

\* residual_step: Adam over the residual alone; nothing else requires a gradient.
ResidualStep ==
  /\ job # NoJob /\ job.kind = "residual" /\ job.at = "step"
  /\ job' = [job EXCEPT !.model = Moved(@, {"residual"}),
                        !.moments = @ \cup {<<"residual", 0>>},
                        !.at = "save"]
  /\ UNCHANGED <<files, jobs>>

\* unowned_parameters_exact and base_tensors_exact.
UnownedExact ==
  \A u \in Changed(job.model, job.baseline) :
    \/ u[1] \in {"weight", "bias"} /\ u[2] \in job.rows
    \/ u[1] = "encoder" /\ u[2] \in job.columns
BaseExact == \A u \in Changed(job.model, job.baseline) : u[1] = "residual"

Saved(path) == files' = [files EXCEPT ![path] = job.model] /\ UNCHANGED jobs

\* save_checkpoint replaces the file in one step.  Training writes its output, then
\* the numbered copy of the update.
SaveOutput ==
  /\ job # NoJob /\ job.kind = "train" /\ job.at = "save"
  /\ Saved("output") /\ job' = [job EXCEPT !.at = "number"]
SaveUpdate ==
  /\ job # NoJob /\ job.at = "number"
  /\ Saved("update")
  /\ job' = IF job.update + 1 = Updates THEN NoJob
            ELSE [job EXCEPT !.update = @ + 1, !.at = "step", !.left = Minibatches]

\* run_probe saves what it has and stops when a parameter it does not own moved.
SaveProbe ==
  /\ job # NoJob /\ job.kind = "probe" /\ job.at = "save"
  /\ Saved("probe")
  /\ job' = IF UnownedExact /\ job.left > 0 THEN [job EXCEPT !.at = "step"] ELSE NoJob

\* run_residual_probe raises before it saves such a model.
SaveResidual ==
  /\ job # NoJob /\ job.kind = "residual" /\ job.at = "save"
  /\ files' = IF BaseExact THEN [files EXCEPT !["residual"] = job.model] ELSE files
  /\ job' = IF BaseExact /\ job.left > 1
            THEN [job EXCEPT !.left = @ - 1, !.at = "step"] ELSE NoJob
  /\ UNCHANGED jobs

SaveMigration ==
  /\ job # NoJob /\ job.kind = "migrate" /\ Saved("migrated") /\ job' = NoJob

Killed == job # NoJob /\ job' = NoJob /\ UNCHANGED <<files, jobs>>

Next ==
  \/ \E p \in Paths, length \in Lengths \cup {None}, companions \in SUBSET Companions,
        train_value \in BOOLEAN, warmup \in 0..Updates :
       StartTraining(p, length, companions, train_value, warmup)
  \/ \E p \in Paths, row_only \in BOOLEAN : StartProbe(p, row_only)
  \/ \E p \in Paths : StartResidual(p)
  \/ \E p \in Paths, spec \in Specs : StartMigration(p, spec)
  \/ Minibatch \/ SelectiveStep \/ ResidualStep
  \/ SaveOutput \/ SaveUpdate \/ SaveProbe \/ SaveResidual \/ SaveMigration
  \/ Killed

Spec == Init /\ [][Next]_vars
-------------------------------------------------------------------------------
(* Properties.                                                                *)

Selective == job.kind # "train" \/ Warm

Owns(label) ==
  \/ label[1] \in {"weight", "bias"} /\ label[2] \in job.rows
  \/ label[1] = "value" /\ job.train_value

\* Whatever migrations a tool makes before, and however many minibatches it has
\* run: while only some parameters may be trained, everything else the checkpoint
\* on disk knew is in the model bit for bit, and the optimizer holds no moment of
\* it that could move it later (_restrict_warmup_gradients,
\* _restore_warmup_parameters and the established counts of train_ppo).
UnownedKept ==
  job # NoJob /\ Selective =>
    /\ \A l \in Labels(job.origin.config) :
         ~Owns(l) => Meaning(job.model)[l] = Meaning(job.origin)[l]
    /\ \A u \in job.moments :
         \/ Owns(u)
         \/ u[1] = "encoder" /\ u[2] \in job.columns
         \/ u[1] = "residual" /\ job.kind = "residual"

\* The audit of a saved checkpoint against the one its tool started from, with the
\* rows, value head and residual the tool was given, passes exactly when the tool
\* was held to them (compare_checkpoints, train_ppo, the two probes).
AuditTellsOwnership ==
  [][\A p \in Paths : files'[p] # files[p] =>
       LET reference == IF job.kind = "residual" THEN job.baseline ELSE job.origin
       IN files'[p].config = reference.config =>
            (Audited(files'[p], reference, job.rows, job.train_value,
                     job.kind = "residual")
             <=> Selective)]_vars

\* What the checkpoints mean, label by label: every load, migration, step and save
\* of every tool is one of the abstract specification, which knows no positions.
Labelled == INSTANCE LabelledPolicy WITH
  files <- [p \in Paths |-> IF files[p] = None THEN None ELSE Meaning(files[p])],
  held <- IF job = NoJob THEN None ELSE Meaning(job.model)
LabelledSpec == Labelled!Spec
===============================================================================
