------------------------------ MODULE StaticCache ------------------------------
(* StaticDataCache: prepare_game_cache plays one game to let it build its      *)
(* databases and maps, and exports them under the identity of the tree they    *)
(* were built from; workers load the snapshot and copy it into the saves of    *)
(* the game they start.  Several of both run at once, the tree is rebuilt and  *)
(* the snapshot is damaged or removed at any time.                             *)
EXTENDS IdentityValidator, Sequences

CONSTANTS None  \* no snapshot, no file

Bootstraps == Processes \ Workers

\* The members of a snapshot, folder by folder; one of each stands for all.
Members == <<"db", "des">>
Folders == {"db", "des"}

\* A member is what it was built from, or something else.
Damaged == [p \in Parts |-> MaxVersion + 1]
Files == Identities \union {Damaged, None}
NoFiles == [f \in Folders |-> None]
\* The manifest, and what a StaticDataCache holds of it.
Manifests == [identity : Identities, digest : [Folders -> Files]]
Snapshots == [manifest : Manifests, files : [Folders -> Files]]

VARIABLES snapshot,  \* the output directory
          pc,        \* where each process is
          stage,     \* which validation it is in
          at,        \* the member it handles next
          cache,     \* the StaticDataCache a worker has loaded
          staged,    \* the temporary directory of a process
          saves,     \* the static files of its game's saves
          source,    \* the identity a bootstrap's game was started with
          ran        \* the binary that game runs

control == <<pc, stage, at>>
game == <<saves, source, ran>>
validation == <<tree, validator, since, seen>>
vars == <<validation, snapshot, control, cache, staged, game>>

Init ==
  /\ ValidatorInit
  /\ snapshot = None
  /\ pc = [p \in Processes |-> "idle"]
  /\ stage = [p \in Processes |-> "none"]
  /\ at = [p \in Processes |-> 1]
  /\ cache = [w \in Workers |-> None]
  /\ staged = [p \in Processes |-> NoFiles]
  /\ saves = [p \in Processes |-> NoFiles]
  /\ source = [b \in Bootstraps |-> NoIdentity]
  /\ ran = [b \in Bootstraps |-> 0]

To(p, next) == pc' = [pc EXCEPT ![p] = next] /\ UNCHANGED <<stage, at>>
\* The next member, or the next step after the last one.
Advances(p, next) ==
  IF at[p] < Len(Members)
    THEN at' = [at EXCEPT ![p] = @ + 1] /\ UNCHANGED <<pc, stage>>
    ELSE at' = [at EXCEPT ![p] = 1] /\ pc' = [pc EXCEPT ![p] = next] /\ UNCHANGED stage
\* A validation in the process itself begins.
Identifies(p, which) ==
  /\ pc' = [pc EXCEPT ![p] = "data"]
  /\ stage' = [stage EXCEPT ![p] = which]
  /\ since' = [since EXCEPT ![p] = tree]
  /\ UNCHANGED <<tree, validator, seen, at>>

Damages ==
  /\ snapshot # None
  /\ \E f \in Folders :
       snapshot.files[f] # Damaged /\ snapshot' = [snapshot EXCEPT !.files[f] = Damaged]
  /\ UNCHANGED <<validation, control, cache, staged, game>>

Removes ==
  /\ snapshot # None
  /\ snapshot' = None
  /\ UNCHANGED <<validation, control, cache, staged, game>>
-------------------------------------------------------------------------------
(* static_data_identity, for both.                                            *)

ReadsData(p) ==
  /\ pc[p] = "data" /\ Reads(p, "data") /\ To(p, "binary")
  /\ UNCHANGED <<validator, snapshot, cache, staged, game>>

ReadsBinary(p) ==
  /\ pc[p] = "binary" /\ Reads(p, "binary") /\ To(p, "compare")
  /\ UNCHANGED <<validator, snapshot, cache, staged, game>>

\* A check that fails, a missing or unreadable file, a game that does not start or
\* stop: the temporary directory is removed.  (What a killed process leaves is
\* under no name anybody reads.)
Fails(p) ==
  /\ pc[p] \notin {"idle", "asking", "ready", "done", "raised"}
  /\ pc' = [pc EXCEPT ![p] = "raised"] /\ stage' = [stage EXCEPT ![p] = "none"]
  /\ at' = [at EXCEPT ![p] = 1]
  /\ staged' = [staged EXCEPT ![p] = NoFiles]
  /\ UNCHANGED <<validation, snapshot, cache, game>>
-------------------------------------------------------------------------------
(* prepare_game_cache.                                                        *)

Begins(b) ==
  /\ pc[b] = "idle" /\ snapshot = None
  /\ Identifies(b, "source")
  /\ UNCHANGED <<snapshot, cache, staged, game>>

Records(b) ==
  /\ pc[b] = "compare" /\ stage[b] = "source"
  /\ source' = [source EXCEPT ![b] = seen[b]]
  /\ To(b, "spawning")
  /\ UNCHANGED <<validation, snapshot, cache, staged, saves, ran>>

Spawns(b) ==
  /\ pc[b] = "spawning"
  /\ ran' = [ran EXCEPT ![b] = tree["binary"]]
  /\ To(b, "building")
  /\ UNCHANGED <<validation, snapshot, cache, staged, saves, source>>

\* The game builds its databases and maps from the data it finds.
Builds(b) ==
  /\ pc[b] = "building"
  /\ saves' = [saves EXCEPT ![b][Members[at[b]]] =
                  [p \in Parts |-> IF p = "data" THEN tree["data"] ELSE ran[b]]]
  /\ Advances(b, "closed")
  /\ UNCHANGED <<validation, snapshot, cache, staged, source, ran>>

\* The game is closed; capture refuses a directory that exists.
Exports(b) ==
  /\ pc[b] = "closed" /\ snapshot = None
  /\ Identifies(b, "capture")
  /\ UNCHANGED <<snapshot, cache, staged, game>>

\* Faulty variant: the identity the game was started with is not asked for.
StagesWhatItSees(b) ==
  /\ pc[b] = "compare" /\ stage[b] = "capture"
  /\ source' = [source EXCEPT ![b] = seen[b]]
  /\ staged' = [staged EXCEPT ![b] = saves[b]]
  /\ Identifies(b, "recheck")
  /\ UNCHANGED <<snapshot, cache, saves, ran>>

Stages(b) ==
  /\ pc[b] = "compare" /\ stage[b] = "capture" /\ seen[b] = source[b]
  /\ staged' = [staged EXCEPT ![b] = saves[b]]
  /\ Identifies(b, "recheck")
  /\ UNCHANGED <<snapshot, cache, game>>

\* The rename fails when another process has installed its snapshot.
Installs(b) ==
  /\ pc[b] = "compare" /\ stage[b] = "recheck" /\ seen[b] = source[b]
  /\ snapshot = None
  /\ snapshot' = [manifest |-> [identity |-> source[b], digest |-> staged[b]], files |-> staged[b]]
  /\ To(b, "done")
  /\ UNCHANGED <<validation, cache, staged, game>>
-------------------------------------------------------------------------------
(* load and populate.                                                         *)

Loads(w) ==
  /\ pc[w] = "idle" /\ snapshot # None
  /\ cache' = [cache EXCEPT ![w] = snapshot.manifest]
  /\ Identifies(w, "load")
  /\ UNCHANGED <<snapshot, staged, game>>

Populates(w) ==
  /\ pc[w] = "loaded"
  /\ Identifies(w, "populate")
  /\ UNCHANGED <<snapshot, cache, staged, game>>

\* populate with an identity_validator.
PopulatesExternally(w) ==
  /\ pc[w] = "loaded"
  /\ Asks(w)
  /\ pc' = [pc EXCEPT ![w] = "asking"] /\ stage' = [stage EXCEPT ![w] = "populate"]
  /\ UNCHANGED <<at, snapshot, cache, staged, game>>

Hears(w) ==
  /\ pc[w] = "asking" /\ request[w] \in {"returned", "raised"}
  /\ To(w, IF request[w] = "returned" THEN "compare" ELSE "raised")
  /\ UNCHANGED <<validation, snapshot, cache, staged, game>>

Matches(w) ==
  /\ w \in Workers /\ pc[w] = "compare" /\ seen[w] = cache[w].identity
  /\ To(w, "members")
  /\ UNCHANGED <<validation, snapshot, cache, staged, game>>

Intact(w, f) == snapshot # None /\ snapshot.files[f] = cache[w].digest[f]

Verifies(w) ==
  /\ pc[w] = "members" /\ Intact(w, Members[at[w]])
  /\ Advances(w, IF stage[w] = "load" THEN "loaded" ELSE "copying")
  /\ UNCHANGED <<validation, snapshot, cache, staged, game>>

\* Faulty variant: a copy is not verified, its source has been.
CopiesUnverified(w) ==
  /\ pc[w] = "copying" /\ snapshot # None
  /\ LET f == Members[at[w]] IN staged' = [staged EXCEPT ![w][f] = snapshot.files[f]]
  /\ Advances(w, "renaming")
  /\ UNCHANGED <<validation, snapshot, cache, game>>

\* A member is copied and the copy verified.
Copies(w) ==
  /\ pc[w] = "copying"
  /\ LET f == Members[at[w]] IN
       Intact(w, f) /\ staged' = [staged EXCEPT ![w][f] = snapshot.files[f]]
  /\ Advances(w, "renaming")
  /\ UNCHANGED <<validation, snapshot, cache, game>>

\* The saves are the game's own and new: nothing is there to be overwritten.
Renames(w) ==
  /\ pc[w] = "renaming"
  /\ LET f == Members[at[w]] IN saves' = [saves EXCEPT ![w][f] = staged[w][f]]
  /\ Advances(w, "ready")
  /\ UNCHANGED <<validation, snapshot, cache, staged, source, ran>>
-------------------------------------------------------------------------------
Bootstrap(b) ==
  \/ Begins(b) \/ Records(b) \/ Spawns(b) \/ Builds(b) \/ Exports(b) \/ Stages(b) \/ Installs(b)
Worker(w) ==
  \/ Loads(w) \/ Populates(w) \/ PopulatesExternally(w) \/ Hears(w)
  \/ Matches(w) \/ Verifies(w) \/ Copies(w) \/ Renames(w)
Requests(w) == (Waits(w) \/ Helper(w)) /\ UNCHANGED <<snapshot, control, cache, staged, game>>
Rebuild == Rebuilds /\ UNCHANGED <<snapshot, control, cache, staged, game>>

Next ==
  \/ Rebuild \/ Damages \/ Removes
  \/ \E p \in Processes : ReadsData(p) \/ ReadsBinary(p) \/ Fails(p)
  \/ \E b \in Bootstraps : Bootstrap(b)
  \/ \E w \in Workers : Worker(w) \/ Requests(w)

\* A thread runs and time passes; helpers, games and the disk owe nothing.
Fairness ==
  \A w \in Workers : WF_vars(Waits(w) /\ UNCHANGED <<snapshot, control, cache, staged, game>>)

Spec == Init /\ [][Next]_vars /\ Fairness
-------------------------------------------------------------------------------
(* Properties.                                                                *)

\* Whenever the tree is rebuilt (between the identity, the start of the game, its
\* reads and the capture), a snapshot is never installed under the identity of
\* another tree than the one its members were built from.
SnapshotOfItsIdentity ==
  snapshot # None => \A f \in Folders : snapshot.manifest.digest[f] = snapshot.manifest.identity

\* "A verified snapshot": a game is started only on both folders of it, built from
\* the tree that was there since its preparation began, whatever happened to the
\* snapshot after it was loaded, validated or half copied.
GameStartsOnItsTree ==
  \A w \in Workers : pc[w] = "ready" =>
    \A f \in Folders : saves[w][f] = cache[w].identity /\ \A p \in Parts : since[w][p] <= saves[w][f][p]
===============================================================================
