--------------------------- MODULE StaticCacheProofs ---------------------------
(* For any number of bootstraps, workers, permits and rebuilds: no permit is   *)
(* lost or made, a snapshot is installed only under the identity of the tree   *)
(* its members were built from, and a game starts only on such members.  A     *)
(* tree only moves forward, so what was read before and after a build and is   *)
(* the same was there during it.                                               *)
EXTENDS StaticCache, FiniteSetTheorems, TLAPS

Steps == {"idle", "data", "binary", "compare", "spawning", "building", "closed", "done",
          "loaded", "asking", "members", "copying", "renaming", "ready", "raised"}
Validations == {"none", "source", "capture", "recheck", "load", "populate"}
Active == {"queued", "acquired", "hashing", "hashed", "answered"}
Answers == Active \union {"none", "returned", "raised"}

Types ==
  /\ tree \in Identities
  /\ permits \in Int
  /\ request \in [Workers -> Answers] /\ expired \in [Workers -> BOOLEAN]
  /\ since \in [Processes -> Identities] /\ seen \in [Processes -> Identities]
  /\ snapshot # None => snapshot \in Snapshots
  /\ pc \in [Processes -> Steps] /\ stage \in [Processes -> Validations]
  /\ at \in [Processes -> 1..2]
  /\ cache \in [Workers -> Manifests \union {None}]
  /\ staged \in [Processes -> [Folders -> Files]] /\ saves \in [Processes -> [Folders -> Files]]
  /\ source \in [Bootstraps -> Identities] /\ ran \in [Bootstraps -> 0..MaxVersion]

\* Every identity that was read is one the tree has had.
Earlier(i, j) == \A p \in Parts : i[p] <= j[p]
Past ==
  /\ \A q \in Processes : Earlier(since[q], tree) /\ Earlier(seen[q], tree)
  /\ \A b \in Bootstraps : Earlier(source[b], tree) /\ ran[b] <= tree["binary"]

\* The members a process has gone through in its present step.
Handled(p) == {Members[i] : i \in 1..(at[p] - 1)}

\* What a validation has read, it has read since it began.
ReadSince(q, parts) == \A p \in parts : since[q][p] <= seen[q][p]
Fresh(q) ==
  /\ pc[q] = "binary" => ReadSince(q, {"data"})
  /\ pc[q] = "compare" => ReadSince(q, Parts)
Requested(w) ==
  /\ request[w] \in Active => pc[w] = "asking" /\ stage[w] = "populate"
  /\ pc[w] = "asking" => request[w] \notin {"none"} /\ stage[w] = "populate"
  /\ request[w] = "hashed" => ReadSince(w, {"data"})
  /\ pc[w] = "asking" /\ request[w] \in {"answered", "returned"} => ReadSince(w, Parts)

\* The game of a bootstrap: its binary, and the members it has built, are no older
\* than the source and no newer than the tree.
Building(b) == pc[b] \in {"building", "closed"} \/ stage[b] = "capture"
BuiltFrom(b, f) ==
  /\ saves[b][f] \in Identities
  /\ source[b]["data"] <= saves[b][f]["data"] /\ saves[b][f]["data"] <= tree["data"]
  /\ saves[b][f]["binary"] = ran[b]
Built(b) ==
  /\ pc[b] # "building" => at[b] = 1
  /\ Building(b) => source[b]["binary"] <= ran[b]
  /\ pc[b] = "building" => \A f \in Handled(b) : BuiltFrom(b, f)
  /\ pc[b] = "closed" \/ stage[b] = "capture" => \A f \in Folders : BuiltFrom(b, f)
\* The second reading is no older than what was built.
Captured(b) ==
  stage[b] = "capture" =>
    /\ pc[b] \in {"data", "binary", "compare"}
    /\ pc[b] \in {"binary", "compare"} => \A f \in Folders : saves[b][f]["data"] <= seen[b]["data"]
    /\ pc[b] = "compare" => ran[b] <= seen[b]["binary"]
Staged(b) ==
  stage[b] = "recheck" => \A f \in Folders : staged[b][f] = source[b]

\* What a worker has loaded, copied and handed to its game.
OfItsIdentity(m) == \A f \in Folders : m.digest[f] = m.identity
Loaded(w) == pc[w] # "idle" => cache[w] \in Manifests /\ OfItsIdentity(cache[w])
Populating(w) == pc[w] \in {"copying", "renaming", "ready"}
Populated(w) ==
  /\ pc[w] \in {"data", "binary", "compare", "members"} => stage[w] \in {"load", "populate"}
  /\ Populating(w) => stage[w] = "populate"
  /\ Populating(w) \/ (pc[w] = "members" /\ stage[w] = "populate")
       => Earlier(since[w], cache[w].identity)
  /\ pc[w] = "copying" => \A f \in Handled(w) : staged[w][f] = cache[w].identity
  /\ pc[w] = "renaming" =>
       /\ \A f \in Folders : staged[w][f] = cache[w].identity
       /\ \A f \in Handled(w) : saves[w][f] = cache[w].identity
  /\ pc[w] = "ready" => \A f \in Folders : saves[w][f] = cache[w].identity

OfBootstrap(b) == Built(b) /\ Captured(b) /\ Staged(b)
OfWorker(w) == Requested(w) /\ Loaded(w) /\ Populated(w)

IInv ==
  /\ Types /\ Past /\ SnapshotOfItsIdentity
  /\ \A q \in Processes : Fresh(q)
  /\ \A b \in Bootstraps : OfBootstrap(b)
  /\ \A w \in Workers : OfWorker(w)

\* The permits alone.
PermitInv ==
  /\ permits \in Nat /\ request \in [Workers -> Answers]
  /\ IsFiniteSet(Holding) /\ permits + Cardinality(Holding) = MaxConcurrency
-------------------------------------------------------------------------------
(* Permits.                                                                   *)

LEMMA HoldingGrows ==
  ASSUME PermitInv, NEW w \in Workers, w \notin Holding, permits \in Nat \ {0},
         permits' = permits - 1, request' \in [Workers -> Answers],
         Holding' = Holding \union {w}
  PROVE  PermitInv'
<1>1. IsFiniteSet(Holding') /\ Cardinality(Holding') = Cardinality(Holding) + 1
  BY FS_AddElement DEF PermitInv
<1>2. Cardinality(Holding) \in Nat
  BY FS_CardinalityType DEF PermitInv
<1> QED BY <1>1, <1>2, ValidatorAssumption DEF PermitInv

LEMMA HoldingShrinks ==
  ASSUME PermitInv, NEW w \in Workers, w \in Holding,
         permits' = permits + 1, request' \in [Workers -> Answers],
         Holding' = Holding \ {w}
  PROVE  PermitInv'
<1>1. IsFiniteSet(Holding') /\ Cardinality(Holding') = Cardinality(Holding) - 1
  BY FS_RemoveElement DEF PermitInv
<1>2. Cardinality(Holding) \in Nat
  BY FS_CardinalityType DEF PermitInv
<1> QED BY <1>1, <1>2, ValidatorAssumption DEF PermitInv

\* A request that ends gives its permit back.
LEMMA ReleasesKeep ==
  ASSUME PermitInv, NEW w \in Workers, NEW how \in {"raised", "returned"},
         request[w] \in {"acquired", "hashing", "hashed", "answered"}, Releases(w, how)
  PROVE  PermitInv'
<1>1. request' = [request EXCEPT ![w] = how] /\ permits' = permits + 1
  BY DEF Releases, Goes
<1>2. request' \in [Workers -> Answers]
  BY <1>1 DEF PermitInv, Answers, Active
<1>3. w \in Holding /\ Holding' = Holding \ {w}
  BY <1>1 DEF PermitInv, Holding
<1> QED BY <1>1, <1>2, <1>3, HoldingShrinks

LEMMA PermitsKept == ASSUME PermitInv, [Next]_vars PROVE PermitInv'
<1>1. CASE UNCHANGED <<permits, request>>
  BY <1>1 DEF PermitInv, Holding
<1>2. ASSUME NEW w \in Workers, Waits(w) PROVE PermitInv'
  <2>1. CASE Acquires(w)
    <3>1. request' \in [Workers -> Answers]
      BY <2>1 DEF Acquires, Goes, PermitInv, Answers, Active
    <3>2. w \notin Holding /\ Holding' = Holding \union {w}
      BY <2>1 DEF Acquires, Goes, PermitInv, Holding
    <3>3. permits \in Nat \ {0} /\ permits' = permits - 1
      BY <2>1 DEF Acquires, PermitInv
    <3> QED BY <3>1, <3>2, <3>3, HoldingGrows
  <2>2. CASE QueueTimesOut(w) \/ Launches(w) \/ Expires(w)
    <3>1. request' \in [Workers -> Answers] /\ Holding' = Holding /\ permits' = permits
      BY <2>2 DEF QueueTimesOut, Launches, Expires, Goes, Keeps, PermitInv, Holding, Answers, Active
    <3> QED BY <3>1 DEF PermitInv
  <2>3. CASE DeadlinePassed(w) \/ HelperTimesOut(w) \/ Returns(w)
    BY <2>3, ReleasesKeep DEF DeadlinePassed, HelperTimesOut, Returns
  <2> QED BY <1>2, <2>1, <2>2, <2>3 DEF Waits
<1>3. ASSUME NEW w \in Workers, Helper(w) PROVE PermitInv'
  <2>1. CASE HashesData(w) \/ HashesBinary(w)
    <3>1. request' \in [Workers -> Answers] /\ Holding' = Holding /\ permits' = permits
      BY <2>1 DEF HashesData, HashesBinary, Goes, Keeps, PermitInv, Holding, Answers, Active
    <3> QED BY <3>1 DEF PermitInv
  <2>2. CASE HelperFails(w)
    BY <2>2, ReleasesKeep DEF HelperFails
  <2> QED BY <1>3, <2>1, <2>2 DEF Helper
<1>4. ASSUME NEW w \in Workers, Asks(w) PROVE PermitInv'
  <2>1. request' \in [Workers -> Answers] /\ Holding' = Holding /\ permits' = permits
    BY <1>4 DEF Asks, Goes, PermitInv, Holding, Answers, Active
  <2> QED BY <2>1 DEF PermitInv
<1>5. ASSUME NEW w \in Workers, Worker(w), ~PopulatesExternally(w)
      PROVE  UNCHANGED <<permits, request>>
  BY <1>5 DEF Worker, Loads, Populates, Hears, Matches, Verifies, Copies, Renames, Identifies,
              validation, validator
<1>6. ASSUME NEW b \in Bootstraps, Bootstrap(b) PROVE UNCHANGED <<permits, request>>
  BY <1>6 DEF Bootstrap, Begins, Records, Spawns, Builds, Exports, Stages, Installs, Identifies,
              validation, validator
<1>7. ASSUME NEW p \in Processes, ReadsData(p) \/ ReadsBinary(p) \/ Fails(p)
      PROVE  UNCHANGED <<permits, request>>
  BY <1>7 DEF ReadsData, ReadsBinary, Fails, validation, validator
<1>8. ASSUME Rebuild \/ Damages \/ Removes PROVE UNCHANGED <<permits, request>>
  BY <1>8 DEF Rebuild, Rebuilds, Damages, Removes, validation, validator
<1>9. CASE UNCHANGED vars
  BY <1>1, <1>9 DEF vars, validation, validator
<1> QED BY <1>1, <1>2, <1>3, <1>4, <1>5, <1>6, <1>7, <1>8, <1>9
        DEF Next, Worker, Requests, PopulatesExternally

\* However requests end, their permits come back exactly once.
THEOREM PermitsAreConserved == Spec => []PermitsConserved
<1>1. Init => PermitInv
  <2> SUFFICES ASSUME Init PROVE PermitInv
    OBVIOUS
  <2>1. Holding = {}
    BY DEF Init, ValidatorInit, Holding
  <2>2. permits = MaxConcurrency /\ request \in [Workers -> Answers]
    BY DEF Init, ValidatorInit, Answers, Active
  <2> QED BY <2>1, <2>2, FS_EmptySet, ValidatorAssumption DEF PermitInv
<1>2. PermitInv => PermitsConserved
  BY DEF PermitInv, PermitsConserved
<1> QED BY <1>1, <1>2, PermitsKept, PTL DEF Spec
-------------------------------------------------------------------------------
(* Types.                                                                     *)

LEMMA MembersAre ==
  /\ Len(Members) = 2 /\ Members[1] = "db" /\ Members[2] = "des"
  /\ \A i \in 1..2 : Members[i] \in Folders
BY DEF Members, Folders

LEMMA HandledAre ==
  ASSUME Types, NEW p \in Processes
  PROVE  /\ at[p] \in {1, 2} /\ Handled(p) \subseteq Folders /\ Members[at[p]] \in Folders
         /\ at[p] = 1 => Handled(p) = {}
         /\ at[p] = 2 => Handled(p) = {"db"} /\ Members[at[p]] = "des"
<1>1. at[p] \in {1, 2}
  BY DEF Types
<1>2. CASE at[p] = 1
  <2>1. Handled(p) = {}
    BY <1>2 DEF Handled
  <2> QED BY <1>2, <2>1, MembersAre
<1>3. CASE at[p] = 2
  <2>1. 1..(at[p] - 1) = {1}
    BY <1>3
  <2>2. Handled(p) = {"db"}
    BY <2>1, MembersAre DEF Handled
  <2> QED BY <1>3, <2>2, MembersAre DEF Folders
<1> QED BY <1>1, <1>2, <1>3

LEMMA ReadsTyped ==
  ASSUME Types, NEW q \in Processes, NEW p \in Parts, Reads(q, p)
  PROVE  /\ seen' \in [Processes -> Identities]
         /\ seen'[q] = [seen[q] EXCEPT ![p] = tree[p]]
         /\ \A r \in Processes \ {q} : seen'[r] = seen[r]
<1>1. seen[q] \in Identities /\ tree[p] \in 0..MaxVersion
  BY DEF Types, Identities
<1>2. [seen[q] EXCEPT ![p] = tree[p]] \in Identities
  BY <1>1 DEF Identities
<1>3. seen' = [seen EXCEPT ![q] = [seen[q] EXCEPT ![p] = tree[p]]]
  BY DEF Reads
<1> QED BY <1>2, <1>3 DEF Types

LEMMA AdvancesTyped ==
  ASSUME Types, NEW p \in Processes, NEW next \in Steps, Advances(p, next)
  PROVE  /\ at' \in [Processes -> 1..2] /\ pc' \in [Processes -> Steps]
         /\ stage' = stage
         /\ at[p] = 1 => at'[p] = 2 /\ pc' = pc
         /\ at[p] = 2 => at'[p] = 1 /\ pc' = [pc EXCEPT ![p] = next]
<1>1. at[p] \in 1..2 /\ Len(Members) = 2
  BY MembersAre DEF Types
<1>2. CASE at[p] = 1
  <2>1. at' = [at EXCEPT ![p] = at[p] + 1] /\ pc' = pc /\ stage' = stage
    BY <1>1, <1>2 DEF Advances
  <2> QED BY <1>2, <2>1 DEF Types
<1>3. CASE at[p] = 2
  <2>1. at' = [at EXCEPT ![p] = 1] /\ pc' = [pc EXCEPT ![p] = next] /\ stage' = stage
    BY <1>1, <1>3 DEF Advances
  <2> QED BY <1>3, <2>1 DEF Types
<1> QED BY <1>1, <1>2, <1>3

LEMMA IdentifiesTyped ==
  ASSUME Types, NEW p \in Processes, NEW which \in Validations, Identifies(p, which)
  PROVE  /\ since' \in [Processes -> Identities]
         /\ pc' \in [Processes -> Steps] /\ stage' \in [Processes -> Validations]
BY DEF Identifies, Types, Steps

LEMMA WaitsTyped ==
  ASSUME Types, NEW w \in Workers, Waits(w) \/ HelperFails(w)
  PROVE  /\ request' \in [Workers -> Answers] /\ expired' \in [Workers -> BOOLEAN]
         /\ permits' \in Int /\ UNCHANGED <<tree, since, seen>>
<1>1. ASSUME NEW how \in {"raised", "returned"}, Releases(w, how)
      PROVE  /\ request' \in [Workers -> Answers] /\ expired' \in [Workers -> BOOLEAN]
             /\ permits' \in Int /\ UNCHANGED <<tree, since, seen>>
  BY <1>1 DEF Releases, Goes, Types, Answers, Active
<1>2. CASE Acquires(w)
  BY <1>2 DEF Acquires, Goes, Types, Answers, Active
<1>3. CASE QueueTimesOut(w) \/ Launches(w) \/ Expires(w)
  BY <1>3 DEF QueueTimesOut, Launches, Expires, Goes, Keeps, Types, Answers, Active
<1>4. CASE DeadlinePassed(w) \/ HelperTimesOut(w) \/ Returns(w) \/ HelperFails(w)
  BY <1>1, <1>4 DEF DeadlinePassed, HelperTimesOut, Returns, HelperFails
<1> QED BY <1>2, <1>3, <1>4 DEF Waits

LEMMA RequestsTyped == ASSUME Types, NEW w \in Workers, Requests(w) PROVE Types'
<1> USE DEF Requests, control, game
<1>1. CASE Waits(w) \/ HelperFails(w)
  BY <1>1, WaitsTyped DEF Types
<1>2. CASE HashesData(w)
  <2>1. Reads(w, "data") /\ Goes(w, "hashed") /\ Keeps
    BY <1>2 DEF HashesData
  <2>2. w \in Processes /\ "data" \in Parts
    BY ValidatorAssumption DEF Parts
  <2>3. request' \in [Workers -> Answers] /\ permits' = permits /\ expired' = expired
    BY <2>1 DEF Goes, Keeps, Types, Answers, Active
  <2> QED BY <2>1, <2>2, <2>3, ReadsTyped DEF Types, Reads
<1>3. CASE HashesBinary(w)
  <2>1. Reads(w, "binary") /\ Goes(w, "answered") /\ Keeps
    BY <1>3 DEF HashesBinary
  <2>2. w \in Processes /\ "binary" \in Parts
    BY ValidatorAssumption DEF Parts
  <2>3. request' \in [Workers -> Answers] /\ permits' = permits /\ expired' = expired
    BY <2>1 DEF Goes, Keeps, Types, Answers, Active
  <2> QED BY <2>1, <2>2, <2>3, ReadsTyped DEF Types, Reads
<1> QED BY <1>1, <1>2, <1>3 DEF Helper

LEMMA BootstrapTyped == ASSUME Types, NEW b \in Bootstraps, Bootstrap(b) PROVE Types'
<1> USE DEF validation, validator, control, game
<1>p. b \in Processes
  BY DEF Bootstraps
<1>1. CASE Begins(b)
  BY <1>1, <1>p, IdentifiesTyped DEF Begins, Types, Validations, Identifies
<1>2. CASE Records(b)
  BY <1>2, <1>p DEF Records, To, Types, Steps
<1>3. CASE Spawns(b)
  <2>1. tree["binary"] \in 0..MaxVersion
    BY DEF Types, Identities, Parts
  <2> QED BY <1>3, <1>p, <2>1 DEF Spawns, To, Types, Steps
<1>4. CASE Builds(b)
  <2>1. [p \in Parts |-> IF p = "data" THEN tree["data"] ELSE ran[b]] \in Files
    BY DEF Types, Identities, Parts, Files
  <2>2. Members[at[b]] \in Folders
    BY <1>p, MembersAre DEF Types
  <2>3. [saves[b] EXCEPT ![Members[at[b]]] =
           [p \in Parts |-> IF p = "data" THEN tree["data"] ELSE ran[b]]] \in [Folders -> Files]
    BY <1>p, <2>1, <2>2 DEF Types
  <2>4. saves' \in [Processes -> [Folders -> Files]]
    BY <1>4, <2>3 DEF Builds, Types
  <2>5. Advances(b, "closed") /\ "closed" \in Steps
    BY <1>4 DEF Builds, Steps
  <2> QED BY <1>4, <1>p, <2>4, <2>5, AdvancesTyped DEF Builds, Types
<1>5. CASE Exports(b)
  BY <1>5, <1>p, IdentifiesTyped DEF Exports, Types, Validations, Identifies
<1>6. CASE Stages(b)
  <2>1. Identifies(b, "recheck") /\ staged' \in [Processes -> [Folders -> Files]]
    BY <1>6, <1>p DEF Stages, Types
  <2> QED BY <1>6, <1>p, <2>1, IdentifiesTyped DEF Stages, Types, Validations, Identifies
<1>7. CASE Installs(b)
  <2>1. source[b] \in Identities /\ staged[b] \in [Folders -> Files]
    BY <1>p DEF Types
  <2>2. snapshot' \in Snapshots
    BY <1>7, <2>1 DEF Installs, Snapshots, Manifests
  <2> QED BY <1>7, <1>p, <2>2 DEF Installs, To, Types, Steps
<1> QED BY <1>1, <1>2, <1>3, <1>4, <1>5, <1>6, <1>7 DEF Bootstrap

LEMMA WorkerTyped == ASSUME Types, NEW w \in Workers, Worker(w) PROVE Types'
<1> USE DEF validation, validator, control, game
<1>p. w \in Processes
  BY ValidatorAssumption
<1>1. CASE Loads(w)
  <2>1. snapshot.manifest \in Manifests
    BY <1>1 DEF Loads, Types, Snapshots
  <2>2. cache' \in [Workers -> Manifests \union {None}]
    BY <1>1, <2>1 DEF Loads, Types
  <2> QED BY <1>1, <1>p, <2>2, IdentifiesTyped DEF Loads, Types, Validations, Identifies
<1>2. CASE Populates(w)
  BY <1>2, <1>p, IdentifiesTyped DEF Populates, Types, Validations, Identifies
<1>3. CASE PopulatesExternally(w)
  BY <1>3, <1>p DEF PopulatesExternally, Asks, Goes, Types, Steps, Validations, Answers, Active
<1>4. CASE Hears(w)
  BY <1>4, <1>p DEF Hears, To, Types, Steps
<1>5. CASE Matches(w)
  BY <1>5, <1>p DEF Matches, To, Types, Steps
<1>6. CASE Verifies(w)
  <2>1. PICK next \in Steps : Advances(w, next)
    BY <1>6 DEF Verifies, Steps
  <2> QED BY <1>6, <1>p, <2>1, AdvancesTyped DEF Verifies, Types
<1>7. CASE Copies(w)
  <2>1. Members[at[w]] \in Folders
    BY <1>p, MembersAre DEF Types
  <2>2. snapshot # None /\ snapshot.files[Members[at[w]]] \in Files
    BY <1>7, <2>1 DEF Copies, Intact, Types, Snapshots
  <2>3. [staged[w] EXCEPT ![Members[at[w]]] = snapshot.files[Members[at[w]]]]
          \in [Folders -> Files]
    BY <1>p, <2>1, <2>2 DEF Types
  <2>4. staged' \in [Processes -> [Folders -> Files]]
    BY <1>7, <2>3 DEF Copies, Types
  <2>5. Advances(w, "renaming") /\ "renaming" \in Steps
    BY <1>7 DEF Copies, Steps
  <2> QED BY <1>7, <1>p, <2>4, <2>5, AdvancesTyped DEF Copies, Types
<1>8. CASE Renames(w)
  <2>1. Members[at[w]] \in Folders
    BY <1>p, MembersAre DEF Types
  <2>2. [saves[w] EXCEPT ![Members[at[w]]] = staged[w][Members[at[w]]]] \in [Folders -> Files]
    BY <1>p, <2>1 DEF Types
  <2>3. saves' \in [Processes -> [Folders -> Files]]
    BY <1>8, <2>2 DEF Renames, Types
  <2>4. Advances(w, "ready") /\ "ready" \in Steps
    BY <1>8 DEF Renames, Steps
  <2> QED BY <1>8, <1>p, <2>3, <2>4, AdvancesTyped DEF Renames, Types
<1> QED BY <1>1, <1>2, <1>3, <1>4, <1>5, <1>6, <1>7, <1>8 DEF Worker

LEMMA TypesKept == ASSUME Types, [Next]_vars PROVE Types'
<1> USE DEF validation, validator, control, game
<1>1. CASE Rebuild
  <2>1. PICK p \in Parts : tree[p] < MaxVersion /\ tree' = [tree EXCEPT ![p] = @ + 1]
    BY <1>1 DEF Rebuild, Rebuilds
  <2>2. tree' \in Identities
    BY <2>1, ValidatorAssumption DEF Types, Identities
  <2> QED BY <1>1, <2>2 DEF Rebuild, Rebuilds, Types
<1>2. CASE Damages
  <2>1. PICK f \in Folders : snapshot' = [snapshot EXCEPT !.files[f] = Damaged]
    BY <1>2 DEF Damages
  <2>2. snapshot \in Snapshots
    BY <1>2 DEF Damages, Types
  <2>3. [snapshot.files EXCEPT ![f] = Damaged] \in [Folders -> Files]
    BY <2>2 DEF Snapshots, Files
  <2>4. snapshot' = [snapshot EXCEPT !.files = [snapshot.files EXCEPT ![f] = Damaged]]
    BY <2>1
  <2>5. snapshot' \in Snapshots
    BY <2>2, <2>3, <2>4 DEF Snapshots
  <2> QED BY <1>2, <2>5 DEF Damages, Types
<1>3. CASE Removes
  BY <1>3 DEF Removes, Types
<1>4. ASSUME NEW p \in Processes, ReadsData(p) PROVE Types'
  BY <1>4, ReadsTyped DEF ReadsData, To, Types, Parts, Reads, Steps
<1>5. ASSUME NEW p \in Processes, ReadsBinary(p) PROVE Types'
  BY <1>5, ReadsTyped DEF ReadsBinary, To, Types, Parts, Reads, Steps
<1>6. ASSUME NEW p \in Processes, Fails(p) PROVE Types'
  <2>1. NoFiles \in [Folders -> Files]
    BY DEF NoFiles, Files
  <2> QED BY <1>6, <2>1 DEF Fails, Types, Steps, Validations
<1>7. CASE UNCHANGED vars
  BY <1>7 DEF vars, Types
<1> QED BY <1>1, <1>2, <1>3, <1>4, <1>5, <1>6, <1>7, BootstrapTyped, WorkerTyped, RequestsTyped
        DEF Next
-------------------------------------------------------------------------------
(* The tree moves forward, and what is read of it stays behind.               *)

LEMMA Numbers ==
  ASSUME NEW i \in Identities, NEW p \in Parts
  PROVE  i[p] \in Int
BY ValidatorAssumption DEF Identities

LEMMA EarlierIsAnOrder ==
  ASSUME NEW i \in Identities, NEW j \in Identities, NEW k \in Identities
  PROVE  /\ Earlier(i, i)
         /\ Earlier(i, j) /\ Earlier(j, k) => Earlier(i, k)
         /\ Earlier(i, j) /\ Earlier(j, i) => i = j
<1>1. \A p \in Parts : i[p] \in Int /\ j[p] \in Int /\ k[p] \in Int
  BY Numbers
<1>2. Earlier(i, j) /\ Earlier(j, i) => \A p \in Parts : i[p] = j[p]
  BY <1>1 DEF Earlier
<1>3. (\A p \in Parts : i[p] = j[p]) => i = j
  BY DEF Identities
<1> QED BY <1>1, <1>2, <1>3 DEF Earlier

LEMMA TreeForward == ASSUME Types, [Next]_vars PROVE Earlier(tree, tree')
<1> USE DEF validation, validator
<1>1. CASE Rebuild
  <2>1. PICK p \in Parts : tree' = [tree EXCEPT ![p] = @ + 1]
    BY <1>1 DEF Rebuild, Rebuilds
  <2>2. \A r \in Parts : tree[r] \in Int /\ tree'[r] = IF r = p THEN tree[r] + 1 ELSE tree[r]
    BY <2>1, Numbers DEF Types, Identities
  <2> QED BY <2>2 DEF Earlier
<1>2. CASE tree' = tree
  BY <1>2, EarlierIsAnOrder DEF Types
<1>3. ASSUME NEW p \in Processes, ReadsData(p) \/ ReadsBinary(p) \/ Fails(p) PROVE tree' = tree
  BY <1>3 DEF ReadsData, ReadsBinary, Fails, Reads
<1>4. ASSUME NEW b \in Bootstraps, Bootstrap(b) PROVE tree' = tree
  BY <1>4 DEF Bootstrap, Begins, Records, Spawns, Builds, Exports, Stages, Installs, Identifies
<1>5. ASSUME NEW w \in Workers, Worker(w) PROVE tree' = tree
  BY <1>5 DEF Worker, Loads, Populates, PopulatesExternally, Asks, Hears, Matches, Verifies,
              Copies, Renames, Identifies
<1>6. ASSUME NEW w \in Workers, Requests(w) PROVE tree' = tree
  BY <1>6, WaitsTyped DEF Requests, Helper, HashesData, HashesBinary, Reads
<1>7. Damages \/ Removes \/ UNCHANGED vars => tree' = tree
  BY DEF Damages, Removes, vars
<1> QED BY <1>1, <1>2, <1>3, <1>4, <1>5, <1>6, <1>7 DEF Next

\* What a step leaves of one process.
SameFor(q) ==
  /\ pc'[q] = pc[q] /\ stage'[q] = stage[q] /\ at'[q] = at[q]
  /\ since'[q] = since[q] /\ seen'[q] = seen[q]
  /\ staged'[q] = staged[q] /\ saves'[q] = saves[q]
  /\ q \in Workers => request'[q] = request[q] /\ cache'[q] = cache[q]
  /\ q \in Bootstraps => source'[q] = source[q] /\ ran'[q] = ran[q]

Own(q) ==
  \/ ReadsData(q) \/ ReadsBinary(q) \/ Fails(q)
  \/ q \in Bootstraps /\ Bootstrap(q)
  \/ q \in Workers /\ (Worker(q) \/ Requests(q))

LEMMA OthersKept ==
  ASSUME Types, [Next]_vars, NEW q \in Processes
  PROVE  SameFor(q) \/ Own(q)
<1> USE DEF validation, validator, control, game, SameFor
<1>1. ASSUME NEW p \in Processes \ {q}, ReadsData(p) \/ ReadsBinary(p) PROVE SameFor(q)
  <2>1. seen'[q] = seen[q]
    BY <1>1, ReadsTyped DEF ReadsData, ReadsBinary, Parts
  <2> QED BY <1>1, <2>1 DEF ReadsData, ReadsBinary, Reads, To, Types
<1>2. ASSUME NEW p \in Processes \ {q}, Fails(p) PROVE SameFor(q)
  BY <1>2 DEF Fails, Types
<1>3. ASSUME NEW b \in Bootstraps \ {q}, Bootstrap(b) PROVE SameFor(q)
  <2>1. CASE Begins(b) \/ Exports(b) \/ Stages(b)
    BY <1>3, <2>1 DEF Begins, Exports, Stages, Identifies, Types, Bootstraps
  <2>2. CASE Records(b) \/ Spawns(b) \/ Installs(b)
    BY <1>3, <2>2 DEF Records, Spawns, Installs, To, Types, Bootstraps
  <2>3. CASE Builds(b)
    BY <1>3, <2>3 DEF Builds, Advances, Types, Bootstraps
  <2> QED BY <1>3, <2>1, <2>2, <2>3 DEF Bootstrap
<1>4. ASSUME NEW w \in Workers \ {q}, Worker(w) PROVE SameFor(q)
  <2>p. w \in Processes
    BY ValidatorAssumption
  <2>1. CASE Loads(w) \/ Populates(w)
    BY <1>4, <2>1, <2>p DEF Loads, Populates, Identifies, Types
  <2>2. CASE PopulatesExternally(w)
    BY <1>4, <2>2, <2>p DEF PopulatesExternally, Asks, Goes, Types
  <2>3. CASE Hears(w) \/ Matches(w)
    BY <1>4, <2>3, <2>p DEF Hears, Matches, To, Types
  <2>4. CASE Verifies(w) \/ Copies(w) \/ Renames(w)
    BY <1>4, <2>4, <2>p DEF Verifies, Copies, Renames, Advances, Types
  <2> QED BY <1>4, <2>1, <2>2, <2>3, <2>4 DEF Worker
<1>5. ASSUME NEW w \in Workers \ {q}, Requests(w) PROVE SameFor(q)
  <2>p. w \in Processes
    BY ValidatorAssumption
  <2>1. ASSUME NEW how, Releases(w, how)
        PROVE  since' = since /\ seen' = seen /\ (q \in Workers => request'[q] = request[q])
    BY <1>5, <2>1 DEF Releases, Goes, Types
  <2>2. CASE Waits(w) \/ HelperFails(w)
    <3>1. since' = since /\ seen' = seen /\ (q \in Workers => request'[q] = request[q])
      BY <1>5, <2>1, <2>2 DEF Waits, HelperFails, Acquires, QueueTimesOut, DeadlinePassed,
         Launches, HelperTimesOut, Returns, Expires, Goes, Types
    <3> QED BY <1>5, <3>1 DEF Requests
  <2>3. CASE HashesData(w) \/ HashesBinary(w)
    <3>1. seen'[q] = seen[q] /\ since' = since
      BY <1>5, <2>3, <2>p, ReadsTyped DEF HashesData, HashesBinary, Parts, Reads
    <3>2. q \in Workers => request'[q] = request[q]
      BY <1>5, <2>3 DEF HashesData, HashesBinary, Goes, Types
    <3> QED BY <1>5, <3>1, <3>2 DEF Requests
  <2> QED BY <1>5, <2>2, <2>3 DEF Requests, Helper
<1>6. Rebuild \/ Damages \/ Removes \/ UNCHANGED vars => SameFor(q)
  BY DEF Rebuild, Rebuilds, Damages, Removes, vars
<1> QED BY <1>1, <1>2, <1>3, <1>4, <1>5, <1>6 DEF Next, Own
\* What a step of its own gives a process: a reading is of the tree as it is.
Observed(q) ==
  /\ since'[q] = since[q] \/ since'[q] = tree
  /\ \A p \in Parts : seen'[q][p] = seen[q][p] \/ seen'[q][p] = tree[p]
  /\ q \in Bootstraps =>
       /\ source'[q] = source[q] \/ source'[q] = seen[q]
       /\ ran'[q] = ran[q] \/ ran'[q] = tree["binary"]

LEMMA OwnObserves ==
  ASSUME Types, NEW q \in Processes, Own(q)
  PROVE  Observed(q)
<1> USE DEF validation, validator, control, game, Observed
<1>1. ASSUME NEW p \in Parts, Reads(q, p) PROVE \A r \in Parts : seen'[q][r] \in {seen[q][r], tree[r]}
  <2>1. seen'[q] = [seen[q] EXCEPT ![p] = tree[p]] /\ seen[q] \in Identities
    BY <1>1, ReadsTyped DEF Types
  <2> QED BY <2>1 DEF Identities
<1>2. CASE ReadsData(q) \/ ReadsBinary(q)
  BY <1>1, <1>2 DEF ReadsData, ReadsBinary, Reads, Parts
<1>3. CASE Fails(q)
  BY <1>3 DEF Fails
<1>4. CASE q \in Bootstraps /\ Bootstrap(q)
  BY <1>4 DEF Bootstrap, Begins, Records, Spawns, Builds, Exports, Stages, Installs, Identifies,
              Types
<1>5. CASE q \in Workers /\ Worker(q)
  BY <1>5 DEF Worker, Loads, Populates, PopulatesExternally, Asks, Hears, Matches, Verifies,
              Copies, Renames, Identifies, Types
<1>6. CASE q \in Workers /\ Requests(q)
  <2>1. CASE Waits(q) \/ HelperFails(q)
    BY <1>6, <2>1, WaitsTyped DEF Requests
  <2>2. CASE HashesData(q) \/ HashesBinary(q)
    BY <1>1, <1>6, <2>2 DEF Requests, HashesData, HashesBinary, Reads, Parts
  <2> QED BY <1>6, <2>1, <2>2 DEF Requests, Helper
<1> QED BY <1>2, <1>3, <1>4, <1>5, <1>6 DEF Own

LEMMA PastKept == ASSUME Types, Past, [Next]_vars PROVE Past'
<1>1. Types' /\ Earlier(tree, tree')
  BY TypesKept, TreeForward
<1>2. \A p \in Parts : tree[p] \in Int /\ tree'[p] \in Int /\ tree[p] <= tree'[p]
  BY <1>1, Numbers DEF Types, Earlier
<1>3. ASSUME NEW q \in Processes
      PROVE  /\ \A p \in Parts : since'[q][p] <= tree'[p] /\ seen'[q][p] <= tree'[p]
             /\ q \in Bootstraps =>
                  ran'[q] <= tree'["binary"] /\ \A p \in Parts : source'[q][p] <= tree'[p]
  <2>1. Observed(q)
    <3>1. CASE SameFor(q)
      BY <3>1 DEF SameFor, Observed
    <3> QED BY <3>1, OthersKept, OwnObserves
  <2>2. \A p \in Parts :
          /\ since[q][p] \in Int /\ seen[q][p] \in Int
          /\ since[q][p] <= tree[p] /\ seen[q][p] <= tree[p]
    BY Numbers DEF Past, Earlier, Types
  <2>3. ASSUME q \in Bootstraps
        PROVE  /\ ran[q] \in Int /\ ran[q] <= tree["binary"]
               /\ \A p \in Parts : source[q][p] \in Int /\ source[q][p] <= tree[p]
    BY <2>3, Numbers DEF Past, Earlier, Types
  <2>4. \A p \in Parts : since'[q][p] <= tree'[p] /\ seen'[q][p] <= tree'[p]
    BY <1>2, <2>1, <2>2 DEF Observed
  <2>5. ASSUME q \in Bootstraps PROVE \A p \in Parts : source'[q][p] <= tree'[p]
    BY <1>2, <2>1, <2>2, <2>3, <2>5 DEF Observed
  <2>6. ASSUME q \in Bootstraps PROVE ran'[q] <= tree'["binary"]
    BY <1>2, <2>1, <2>3, <2>6 DEF Observed, Parts
  <2> QED BY <2>4, <2>5, <2>6
<1> QED BY <1>3 DEF Past, Earlier, Bootstraps
-------------------------------------------------------------------------------
(* What other processes and rebuilds leave of a process.                      *)

LEMMA FreshStable ==
  ASSUME NEW q \in Processes, Fresh(q), SameFor(q)
  PROVE  Fresh(q)'
BY DEF Fresh, ReadSince, SameFor

LEMMA WorkerStable ==
  ASSUME NEW w \in Workers, OfWorker(w), SameFor(w)
  PROVE  OfWorker(w)'
<1>1. Requested(w)'
  BY DEF OfWorker, Requested, ReadSince, SameFor
<1>2. Loaded(w)'
  BY DEF OfWorker, Loaded, OfItsIdentity, SameFor
<1>3. Populated(w)'
  BY DEF OfWorker, Populated, Populating, Earlier, Handled, SameFor
<1> QED BY <1>1, <1>2, <1>3 DEF OfWorker

LEMMA BuiltFromStable ==
  ASSUME Types, Types', Earlier(tree, tree'), NEW b \in Bootstraps, NEW f \in Folders,
         BuiltFrom(b, f), saves'[b][f] = saves[b][f],
         source'[b] = source[b], ran'[b] = ran[b]
  PROVE  BuiltFrom(b, f)'
<1>1. tree["data"] \in Int /\ tree'["data"] \in Int /\ tree["data"] <= tree'["data"]
  BY Numbers DEF Types, Earlier, Parts
<1>2. saves[b][f]["data"] \in Int
  BY Numbers DEF BuiltFrom, Parts
<1> QED BY <1>1, <1>2 DEF BuiltFrom

LEMMA BootstrapStable ==
  ASSUME Types, Types', Earlier(tree, tree'), NEW b \in Bootstraps, OfBootstrap(b), SameFor(b)
  PROVE  OfBootstrap(b)'
<1>0. /\ pc'[b] = pc[b] /\ stage'[b] = stage[b] /\ at'[b] = at[b] /\ Handled(b)' = Handled(b)
      /\ seen'[b] = seen[b] /\ staged'[b] = staged[b] /\ saves'[b] = saves[b]
      /\ source'[b] = source[b] /\ ran'[b] = ran[b]
  BY DEF SameFor, Handled
<1>1. \A f \in Folders : BuiltFrom(b, f) => BuiltFrom(b, f)'
  BY <1>0, BuiltFromStable
<1>2. Handled(b) \subseteq Folders
  BY HandledAre DEF Bootstraps
<1>3. Built(b)'
  BY <1>0, <1>1, <1>2 DEF OfBootstrap, Built, Building
<1>4. Captured(b)' /\ Staged(b)'
  BY <1>0 DEF OfBootstrap, Captured, Staged
<1> QED BY <1>3, <1>4 DEF OfBootstrap
-------------------------------------------------------------------------------
(* The steps of a process of its own.                                         *)

\* Going through the members ends when all are handled.
LEMMA AdvancesHandles ==
  ASSUME Types, NEW p \in Processes, NEW next \in Steps, Advances(p, next)
  PROVE  \/ /\ pc'[p] = pc[p]
            /\ \A f \in Handled(p)' : f \in Handled(p) \/ f = Members[at[p]]
         \/ /\ pc'[p] = next /\ Handled(p)' = {} /\ at'[p] = 1
            /\ \A f \in Folders : f \in Handled(p) \/ f = Members[at[p]]
<1>1. at'[p] = 1 => Handled(p)' = {}
  BY DEF Handled
<1>2. at'[p] = 2 => Handled(p)' = {"db"}
  <2> SUFFICES ASSUME at'[p] = 2 PROVE Handled(p)' = {"db"}
    OBVIOUS
  <2>1. 1..(at'[p] - 1) = {1}
    OBVIOUS
  <2> QED BY <2>1, MembersAre DEF Handled
<1>3. CASE at[p] = 1
  BY <1>2, <1>3, MembersAre, AdvancesTyped
<1>4. CASE at[p] = 2
  <2>1. pc'[p] = next /\ at'[p] = 1
    BY <1>4, AdvancesTyped DEF Types
  <2> QED BY <1>1, <1>4, <2>1, HandledAre DEF Folders
<1> QED BY <1>3, <1>4, HandledAre

\* The two readings of a process, in itself or in its helper.
LEMMA ReadsFresh ==
  ASSUME Types, Past, NEW q \in Processes
  PROVE  /\ Reads(q, "data") => ReadSince(q, {"data"})'
         /\ Reads(q, "binary") /\ ReadSince(q, {"data"}) => ReadSince(q, Parts)'
<1>1. \A p \in Parts : since[q][p] \in Int /\ seen[q][p] \in Int /\ since[q][p] <= tree[p]
  BY Numbers DEF Types, Past, Earlier
<1>2. ASSUME NEW p \in Parts, Reads(q, p)
      PROVE  /\ since'[q] = since[q] /\ seen'[q][p] = tree[p]
             /\ \A r \in Parts \ {p} : seen'[q][r] = seen[q][r]
  <2>1. seen'[q] = [seen[q] EXCEPT ![p] = tree[p]] /\ seen[q] \in Identities
    BY <1>2, ReadsTyped DEF Types
  <2> QED BY <1>2, <2>1 DEF Identities, Reads
<1>3. Reads(q, "data") => ReadSince(q, {"data"})'
  BY <1>1, <1>2 DEF ReadSince, Parts
<1>4. Reads(q, "binary") /\ ReadSince(q, {"data"}) => ReadSince(q, Parts)'
  BY <1>1, <1>2 DEF ReadSince, Parts
<1> QED BY <1>3, <1>4

LEMMA FreshKept ==
  ASSUME IInv, [Next]_vars, NEW q \in Processes, Own(q)
  PROVE  Fresh(q)'
<1> USE DEF IInv
<1>1. CASE ReadsData(q)
  <2>1. pc'[q] = "binary" /\ Reads(q, "data")
    BY <1>1 DEF ReadsData, To, Types
  <2> QED BY <2>1, ReadsFresh DEF Fresh
<1>2. CASE ReadsBinary(q)
  <2>1. pc[q] = "binary" /\ pc'[q] = "compare" /\ Reads(q, "binary")
    BY <1>2 DEF ReadsBinary, To, Types
  <2> QED BY <2>1, ReadsFresh DEF Fresh
<1>3. CASE q \in Workers /\ Hears(q)
  <2>1. /\ pc[q] = "asking" /\ UNCHANGED <<since, seen>>
        /\ pc'[q] \in {"compare", "raised"} /\ (pc'[q] = "compare" => request[q] = "returned")
    BY <1>3 DEF Hears, To, Types, validation
  <2> QED BY <1>3, <2>1 DEF Fresh, OfWorker, Requested, ReadSince
<1>4. CASE q \in Workers /\ Requests(q)
  <2>1. pc' = pc /\ request[q] # "none"
    BY <1>4 DEF Requests, control, Waits, Helper, Acquires, QueueTimesOut, DeadlinePassed,
       Launches, HelperTimesOut, Returns, Expires, HashesData, HashesBinary, HelperFails
  <2>2. request[q] \in Active
    BY <1>4 DEF Requests, Waits, Helper, Acquires, QueueTimesOut, DeadlinePassed, Active,
       Launches, HelperTimesOut, Returns, Expires, HashesData, HashesBinary, HelperFails
  <2> QED BY <1>4, <2>1, <2>2 DEF Fresh, OfWorker, Requested
<1>5. CASE Fails(q) \/ (q \in Bootstraps /\ Bootstrap(q))
             \/ (q \in Workers /\ Worker(q) /\ ~Hears(q))
  <2>1. pc'[q] \notin {"binary", "compare"}
    <3>1. CASE Fails(q)
      BY <3>1 DEF Fails, Types
    <3>2. CASE q \in Bootstraps /\ Bootstrap(q)
      BY <3>2 DEF Bootstrap, Begins, Records, Spawns, Builds, Exports, Stages, Installs,
         Identifies, To, Advances, Types
    <3>3. CASE q \in Workers /\ Worker(q) /\ ~Hears(q)
      BY <3>3 DEF Worker, Loads, Populates, PopulatesExternally, Matches, Verifies, Copies,
         Renames, Identifies, To, Advances, Types
    <3> QED BY <1>5, <3>1, <3>2, <3>3
  <2> QED BY <2>1 DEF Fresh
<1> QED BY <1>1, <1>2, <1>3, <1>4, <1>5 DEF Own
LEMMA BootstrapReads ==
  ASSUME IInv, [Next]_vars, NEW b \in Bootstraps, ReadsData(b) \/ ReadsBinary(b)
  PROVE  OfBootstrap(b)'
<1> USE DEF IInv
<1>p. b \in Processes /\ OfBootstrap(b)
  BY DEF Bootstraps
<1>0. /\ stage'[b] = stage[b] /\ at'[b] = at[b] /\ tree' = tree
      /\ UNCHANGED <<staged, saves, source, ran>>
      /\ pc[b] \in {"data", "binary"} /\ pc'[b] = (IF pc[b] = "data" THEN "binary" ELSE "compare")
  BY <1>p DEF ReadsData, ReadsBinary, Reads, To, Types, game
<1>1. Built(b)'
  BY <1>p, <1>0 DEF OfBootstrap, Built, Building, BuiltFrom
<1>2. Staged(b)'
  BY <1>p, <1>0 DEF OfBootstrap, Staged
<1>3. Captured(b)'
  <2> SUFFICES ASSUME stage[b] = "capture" PROVE Captured(b)'
    BY <1>0 DEF Captured
  <2>1. CASE ReadsData(b)
    <3>1. seen'[b]["data"] = tree["data"] /\ pc'[b] = "binary"
      <4>1. seen'[b] = [seen[b] EXCEPT !["data"] = tree["data"]] /\ seen[b] \in Identities
        BY <1>p, <2>1, ReadsTyped DEF ReadsData, Parts, Types
      <4>2. pc'[b] = "binary"
        BY <1>p, <2>1 DEF ReadsData, To, Types
      <4> QED BY <4>1, <4>2 DEF Identities, Parts
    <3>2. \A f \in Folders : saves[b][f]["data"] <= tree["data"]
      BY <1>p DEF OfBootstrap, Built, BuiltFrom
    <3> QED BY <1>0, <3>1, <3>2 DEF Captured
  <2>2. CASE ReadsBinary(b)
    <3>1. /\ seen'[b]["data"] = seen[b]["data"] /\ seen'[b]["binary"] = tree["binary"]
          /\ pc[b] = "binary"
      <4>1. seen'[b] = [seen[b] EXCEPT !["binary"] = tree["binary"]] /\ seen[b] \in Identities
        BY <1>p, <2>2, ReadsTyped DEF ReadsBinary, Parts, Types
      <4> QED BY <2>2, <4>1 DEF ReadsBinary, Identities, Parts
    <3>2. ran[b] <= tree["binary"]
      BY DEF Past
    <3> QED BY <1>p, <1>0, <3>1, <3>2 DEF OfBootstrap, Captured
  <2> QED BY <2>1, <2>2
<1> QED BY <1>1, <1>2, <1>3 DEF OfBootstrap

\* What is captured between two equal readings is of the tree that was read.
LEMMA CapturedIsSource ==
  ASSUME IInv, NEW b \in Bootstraps, stage[b] = "capture", pc[b] = "compare",
         seen[b] = source[b], NEW f \in Folders
  PROVE  saves[b][f] = source[b]
<1> USE DEF IInv
<1>p. b \in Processes /\ OfBootstrap(b)
  BY DEF Bootstraps
<1>1. /\ saves[b][f] \in Identities /\ source[b] \in Identities
      /\ source[b]["data"] <= saves[b][f]["data"] /\ saves[b][f]["data"] <= seen[b]["data"]
      /\ saves[b][f]["binary"] = ran[b]
      /\ source[b]["binary"] <= ran[b] /\ ran[b] <= seen[b]["binary"]
  BY <1>p DEF OfBootstrap, Built, Building, BuiltFrom, Captured, Types
<1>2. /\ source[b]["data"] \in Int /\ source[b]["binary"] \in Int
      /\ saves[b][f]["data"] \in Int /\ saves[b][f]["binary"] \in Int
  BY <1>1, Numbers DEF Parts
<1>3. Earlier(saves[b][f], source[b]) /\ Earlier(source[b], saves[b][f])
  BY <1>1, <1>2 DEF Earlier, Parts
<1> QED BY <1>1, <1>3, EarlierIsAnOrder

LEMMA BootstrapSteps ==
  ASSUME IInv, [Next]_vars, NEW b \in Bootstraps, Bootstrap(b)
  PROVE  OfBootstrap(b)'
<1> USE DEF IInv, validation, validator, game
<1>p. b \in Processes /\ OfBootstrap(b)
  BY DEF Bootstraps
<1>1. CASE Begins(b)
  <2>1. pc'[b] = "data" /\ stage'[b] = "source" /\ at'[b] = at[b] /\ at[b] = 1
    BY <1>p, <1>1 DEF Begins, Identifies, Types, OfBootstrap, Built
  <2> QED BY <2>1 DEF OfBootstrap, Built, Building, Captured, Staged
<1>2. CASE Records(b)
  <2>1. pc'[b] = "spawning" /\ stage'[b] = "source" /\ at'[b] = at[b] /\ at[b] = 1
    BY <1>p, <1>2 DEF Records, To, Types, OfBootstrap, Built
  <2> QED BY <2>1 DEF OfBootstrap, Built, Building, Captured, Staged
<1>3. CASE Spawns(b)
  <2>1. /\ pc'[b] = "building" /\ stage'[b] = stage[b] /\ at'[b] = 1 /\ ran'[b] = tree["binary"]
        /\ UNCHANGED <<tree, seen, staged, saves, source>> /\ pc[b] = "spawning"
    BY <1>p, <1>3 DEF Spawns, To, Types, OfBootstrap, Built
  <2>2. stage[b] # "capture"
    BY <1>p, <2>1 DEF OfBootstrap, Captured
  <2>3. source[b]["binary"] <= tree["binary"] /\ Handled(b)' = {}
    BY <2>1 DEF Past, Earlier, Parts, Handled
  <2> QED BY <1>p, <2>1, <2>2, <2>3 DEF OfBootstrap, Built, Building, Captured, Staged
<1>4. CASE Builds(b)
  <2> DEFINE m == Members[at[b]]
             new == [p \in Parts |-> IF p = "data" THEN tree["data"] ELSE ran[b]]
  <2>1. /\ UNCHANGED <<tree, seen, staged, source, ran>> /\ pc[b] = "building"
        /\ stage'[b] = stage[b] /\ Advances(b, "closed") /\ "closed" \in Steps
        /\ saves' = [saves EXCEPT ![b] = [saves[b] EXCEPT ![m] = new]]
    BY <1>p, <1>4, AdvancesTyped DEF Builds, Advances, Steps
  <2>2. stage[b] # "capture"
    BY <1>p, <2>1 DEF OfBootstrap, Captured
  <2>3. \A f \in Folders : saves'[b][f] = IF f = m THEN new ELSE saves[b][f]
    BY <1>p, <2>1 DEF Types
  <2>4. new \in Identities /\ new["data"] = tree["data"] /\ new["binary"] = ran[b]
    BY DEF Types, Identities, Parts
  <2>5. source[b]["data"] <= tree["data"] /\ tree["data"] \in Int
    BY Numbers DEF Past, Earlier, Parts, Types
  <2>6. ASSUME NEW f \in Folders, f = m PROVE BuiltFrom(b, f)'
    <3>1. saves'[b][f] = new
      BY <2>3, <2>6
    <3> HIDE DEF new
    <3> QED BY <2>1, <2>4, <2>5, <3>1 DEF BuiltFrom
  <2>7. \A f \in Handled(b) : f \in Folders /\ BuiltFrom(b, f)
    BY <1>p, <2>1, HandledAre DEF OfBootstrap, Built
  <2>8. ASSUME NEW f \in Folders, f \in Handled(b) \/ f = m PROVE BuiltFrom(b, f)'
    <3>1. CASE f # m
      <4>1. BuiltFrom(b, f) /\ saves'[b][f] = saves[b][f]
        BY <2>3, <2>7, <2>8, <3>1
      <4> QED BY <2>1, <4>1 DEF BuiltFrom
    <3> QED BY <2>6, <3>1
  <2>9. source[b]["binary"] <= ran[b]
    BY <1>p, <2>1 DEF OfBootstrap, Built, Building
  <2>10. CASE /\ pc'[b] = pc[b]
              /\ \A f \in Handled(b)' : f \in Handled(b) \/ f = m
    BY <1>p, <2>1, <2>2, <2>7, <2>8, <2>9, <2>10, HandledAre
       DEF OfBootstrap, Built, Building, Captured, Staged
  <2>11. CASE /\ pc'[b] = "closed" /\ Handled(b)' = {} /\ at'[b] = 1
              /\ \A f \in Folders : f \in Handled(b) \/ f = m
    BY <1>p, <2>1, <2>2, <2>8, <2>9, <2>11 DEF OfBootstrap, Built, Building, Captured, Staged
  <2> QED BY <1>p, <2>1, <2>10, <2>11, AdvancesHandles
<1>5. CASE Exports(b)
  <2>1. /\ pc'[b] = "data" /\ stage'[b] = "capture" /\ at'[b] = at[b] /\ at[b] = 1
        /\ pc[b] = "closed" /\ UNCHANGED <<tree, seen, staged, saves, source, ran>>
    BY <1>p, <1>5 DEF Exports, Identifies, Types, OfBootstrap, Built
  <2> QED BY <1>p, <2>1 DEF OfBootstrap, Built, Building, BuiltFrom, Captured, Staged
<1>6. CASE Stages(b)
  <2>1. /\ pc'[b] = "data" /\ stage'[b] = "recheck" /\ at'[b] = at[b] /\ at[b] = 1
        /\ staged'[b] = saves[b] /\ UNCHANGED <<source>>
        /\ stage[b] = "capture" /\ pc[b] = "compare" /\ seen[b] = source[b]
    BY <1>p, <1>6 DEF Stages, Identifies, Types, OfBootstrap, Built
  <2>2. \A f \in Folders : staged'[b][f] = source[b]
    BY <2>1, CapturedIsSource
  <2> QED BY <2>1, <2>2 DEF OfBootstrap, Built, Building, Captured, Staged
<1>7. CASE Installs(b)
  <2>1. /\ pc'[b] = "done" /\ stage'[b] = "recheck" /\ stage[b] = "recheck"
        /\ at'[b] = at[b] /\ at[b] = 1 /\ UNCHANGED <<staged, source>>
    BY <1>p, <1>7 DEF Installs, To, Types, OfBootstrap, Built
  <2> QED BY <1>p, <2>1 DEF OfBootstrap, Built, Building, Captured, Staged
<1> QED BY <1>1, <1>2, <1>3, <1>4, <1>5, <1>6, <1>7 DEF Bootstrap

LEMMA BootstrapKept ==
  ASSUME IInv, [Next]_vars, NEW b \in Bootstraps, Own(b)
  PROVE  OfBootstrap(b)'
<1>1. CASE Fails(b)
  <2>1. pc'[b] = "raised" /\ stage'[b] = "none" /\ at'[b] = 1
    BY <1>1 DEF Fails, IInv, Types, Bootstraps
  <2> QED BY <2>1 DEF OfBootstrap, Built, Building, Captured, Staged
<1>2. b \notin Workers
  BY DEF Bootstraps
<1> QED BY <1>1, <1>2, BootstrapReads, BootstrapSteps DEF Own
\* Only the loading thread itself or, while it asks, its helper moves a worker.
LEMMA WorkerReads ==
  ASSUME IInv, [Next]_vars, NEW w \in Workers, ReadsData(w) \/ ReadsBinary(w) \/ Fails(w)
  PROVE  OfWorker(w)'
<1> USE DEF IInv, validation, validator, game
<1>p. w \in Processes /\ OfWorker(w)
  BY ValidatorAssumption
<1>1. CASE ReadsData(w) \/ ReadsBinary(w)
  <2>1. /\ pc[w] \in {"data", "binary"} /\ pc'[w] \in {"binary", "compare"}
        /\ stage'[w] = stage[w] /\ UNCHANGED <<request, cache>>
    BY <1>p, <1>1 DEF ReadsData, ReadsBinary, To, Types
  <2>2. request[w] \notin Active
    BY <1>p, <2>1 DEF OfWorker, Requested
  <2> QED BY <1>p, <2>1, <2>2 DEF OfWorker, Requested, Loaded, OfItsIdentity, Populated,
          Populating, Active
<1>2. CASE Fails(w)
  <2>1. /\ pc[w] \notin {"idle", "asking"} /\ pc'[w] = "raised" /\ UNCHANGED <<request, cache>>
    BY <1>p, <1>2 DEF Fails, Types
  <2>2. request[w] \notin Active
    BY <1>p, <2>1 DEF OfWorker, Requested
  <2> QED BY <1>p, <2>1, <2>2 DEF OfWorker, Requested, Loaded, OfItsIdentity, Populated,
          Populating, Active
<1> QED BY <1>1, <1>2

LEMMA WorkerAsks ==
  ASSUME IInv, [Next]_vars, NEW w \in Workers, Requests(w)
  PROVE  OfWorker(w)'
<1> USE DEF IInv, control, game
<1>p. w \in Processes /\ OfWorker(w) /\ Types
  BY ValidatorAssumption
<1>0. UNCHANGED <<snapshot, pc, stage, at, cache, staged, saves>> /\ request[w] \in Active
  BY DEF Requests, Waits, Helper, Acquires, QueueTimesOut, DeadlinePassed, Active,
     Launches, HelperTimesOut, Returns, Expires, HashesData, HashesBinary, HelperFails
<1>1. pc[w] = "asking" /\ stage[w] = "populate"
  BY <1>p, <1>0 DEF OfWorker, Requested
<1>2. Loaded(w)' /\ Populated(w)'
  BY <1>p, <1>0, <1>1 DEF OfWorker, Loaded, OfItsIdentity, Populated, Populating
<1>3. Requested(w)'
  <2>1. CASE Waits(w) \/ HelperFails(w)
    <3>1. UNCHANGED <<since, seen>>
      BY <1>p, <2>1, WaitsTyped
    <3>2. /\ request'[w] # "none"
          /\ request'[w] = "hashed" => request[w] = "hashed"
          /\ request'[w] \in {"answered", "returned"} => request[w] = "answered"
      BY <1>p, <2>1 DEF Types, Waits, HelperFails, Acquires, QueueTimesOut, DeadlinePassed,
         Launches, HelperTimesOut, Returns, Expires, Releases, Goes
    <3> QED BY <1>p, <1>0, <1>1, <3>1, <3>2 DEF OfWorker, Requested, ReadSince
  <2>2. CASE HashesData(w)
    <3>1. request'[w] = "hashed" /\ Reads(w, "data")
      BY <1>p, <2>2 DEF HashesData, Goes, Types
    <3>2. ReadSince(w, {"data"})'
      BY <1>p, <3>1, ReadsFresh
    <3> QED BY <1>0, <1>1, <3>1, <3>2 DEF Requested
  <2>3. CASE HashesBinary(w)
    <3>1. request'[w] = "answered" /\ request[w] = "hashed" /\ Reads(w, "binary")
      BY <1>p, <2>3 DEF HashesBinary, Goes, Types
    <3>2. ReadSince(w, Parts)'
      BY <1>p, <3>1, ReadsFresh DEF OfWorker, Requested
    <3> QED BY <1>0, <1>1, <3>1, <3>2 DEF Requested
  <2> QED BY <2>1, <2>2, <2>3 DEF Requests, Helper
<1> QED BY <1>2, <1>3 DEF OfWorker

LEMMA WorkerSteps ==
  ASSUME IInv, [Next]_vars, NEW w \in Workers, Worker(w)
  PROVE  OfWorker(w)'
<1> USE DEF IInv, validation, validator, game
<1>p. w \in Processes /\ OfWorker(w) /\ Types
  BY ValidatorAssumption
<1>i. pc[w] # "asking" => request[w] \notin Active
  BY <1>p DEF OfWorker, Requested
<1>1. CASE Loads(w)
  <2>1. /\ pc'[w] = "data" /\ stage'[w] = "load" /\ request' = request /\ pc[w] = "idle"
        /\ snapshot # None /\ cache'[w] = snapshot.manifest
    BY <1>p, <1>1 DEF Loads, Identifies, Types
  <2>2. snapshot.manifest \in Manifests /\ OfItsIdentity(snapshot.manifest)
    BY <1>p, <2>1 DEF Types, Snapshots, SnapshotOfItsIdentity, OfItsIdentity
  <2> QED BY <1>i, <2>1, <2>2 DEF OfWorker, Requested, Loaded, OfItsIdentity, Populated,
          Populating, Active
<1>2. CASE Populates(w)
  <2>1. /\ pc'[w] = "data" /\ stage'[w] = "populate" /\ request' = request /\ pc[w] = "loaded"
        /\ cache' = cache
    BY <1>p, <1>2 DEF Populates, Identifies, Types
  <2> QED BY <1>p, <1>i, <2>1 DEF OfWorker, Requested, Loaded, OfItsIdentity, Populated,
          Populating, Active
<1>3. CASE PopulatesExternally(w)
  <2>1. /\ pc'[w] = "asking" /\ stage'[w] = "populate" /\ request'[w] = "queued"
        /\ pc[w] = "loaded" /\ cache' = cache
    BY <1>p, <1>3 DEF PopulatesExternally, Asks, Goes, Types
  <2> QED BY <1>p, <2>1 DEF OfWorker, Requested, Loaded, OfItsIdentity, Populated,
          Populating, Active
<1>4. CASE Hears(w)
  <2>1. /\ pc'[w] \in {"compare", "raised"} /\ stage'[w] = stage[w] /\ pc[w] = "asking"
        /\ request[w] \in {"returned", "raised"} /\ UNCHANGED <<request, cache>>
    BY <1>p, <1>4 DEF Hears, To, Types
  <2>2. stage[w] = "populate"
    BY <1>p, <2>1 DEF OfWorker, Requested
  <2> QED BY <1>p, <2>1, <2>2 DEF OfWorker, Requested, Loaded, OfItsIdentity, Populated,
          Populating, Active
<1>5. CASE Matches(w)
  <2>1. /\ pc'[w] = "members" /\ stage'[w] = stage[w] /\ pc[w] = "compare"
        /\ UNCHANGED <<request, cache, since>> /\ seen[w] = cache[w].identity
    BY <1>p, <1>5 DEF Matches, To, Types
  <2>2. Earlier(since[w], cache[w].identity)
    BY <1>p, <2>1 DEF Fresh, ReadSince, Earlier
  <2> QED BY <1>p, <1>i, <2>1, <2>2 DEF OfWorker, Requested, Loaded, OfItsIdentity, Populated,
          Populating, Earlier, Active
<1>6. CASE Verifies(w)
  <2>1. PICK next \in {"loaded", "copying"} :
          Advances(w, next) /\ next = IF stage[w] = "load" THEN "loaded" ELSE "copying"
    BY <1>6 DEF Verifies
  <2>2. next \in Steps
    BY <2>1 DEF Steps
  <2>3. /\ pc[w] = "members" /\ stage' = stage /\ UNCHANGED <<request, cache, since>>
    BY <1>p, <1>6, <2>1, <2>2, AdvancesTyped DEF Verifies
  <2>4. pc'[w] = "members" \/ (pc'[w] = next /\ Handled(w)' = {})
    BY <1>p, <2>1, <2>2, <2>3, AdvancesHandles
  <2>5. pc'[w] = "copying" => stage[w] = "populate"
    BY <1>p, <2>1, <2>3, <2>4 DEF OfWorker, Populated
  <2> QED BY <1>p, <1>i, <2>1, <2>3, <2>4, <2>5 DEF OfWorker, Requested, Loaded, OfItsIdentity,
          Populated, Populating, Earlier, Active
<1>7. CASE Copies(w)
  <2> DEFINE m == Members[at[w]]
  <2>1. /\ pc[w] = "copying" /\ Advances(w, "renaming") /\ "renaming" \in Steps
        /\ UNCHANGED <<request, cache, since>> /\ snapshot.files[m] = cache[w].digest[m]
        /\ staged' = [staged EXCEPT ![w] = [staged[w] EXCEPT ![m] = snapshot.files[m]]]
    BY <1>7 DEF Copies, Intact, Steps
  <2>2. m \in Folders /\ stage' = stage
    BY <1>p, <2>1, HandledAre, AdvancesTyped
  <2>3. cache[w].digest[m] = cache[w].identity
    BY <1>p, <2>1, <2>2 DEF OfWorker, Loaded, OfItsIdentity
  <2>4. \A f \in Folders :
          staged'[w][f] = IF f = m THEN cache[w].identity ELSE staged[w][f]
    BY <1>p, <2>1, <2>3 DEF Types
  <2>5. \A f \in Folders : f \in Handled(w) \/ f = m => staged'[w][f] = cache[w].identity
    BY <1>p, <2>1, <2>4 DEF OfWorker, Populated
  <2>6. /\ Handled(w) \subseteq Folders
        /\ \/ pc'[w] = pc[w] /\ \A f \in Handled(w)' : f \in Handled(w) \/ f = m
           \/ /\ pc'[w] = "renaming" /\ Handled(w)' = {}
              /\ \A f \in Folders : f \in Handled(w) \/ f = m
    BY <1>p, <2>1, HandledAre, AdvancesHandles
  <2>7. Populated(w)'
    BY <1>p, <2>1, <2>2, <2>5, <2>6 DEF OfWorker, Populated, Populating, Earlier
  <2> QED BY <1>p, <1>i, <2>1, <2>6, <2>7 DEF OfWorker, Requested, Loaded, OfItsIdentity, Active
<1>8. CASE Renames(w)
  <2> DEFINE m == Members[at[w]]
  <2>1. /\ pc[w] = "renaming" /\ Advances(w, "ready") /\ "ready" \in Steps
        /\ UNCHANGED <<request, cache, since, staged>>
        /\ saves' = [saves EXCEPT ![w] = [saves[w] EXCEPT ![m] = staged[w][m]]]
    BY <1>8 DEF Renames, Steps
  <2>2. m \in Folders /\ stage' = stage
    BY <1>p, <2>1, HandledAre, AdvancesTyped
  <2>3. \A f \in Folders : staged[w][f] = cache[w].identity
    BY <1>p, <2>1 DEF OfWorker, Populated
  <2>4. \A f \in Folders :
          saves'[w][f] = IF f = m THEN cache[w].identity ELSE saves[w][f]
    BY <1>p, <2>1, <2>2, <2>3 DEF Types
  <2>5. \A f \in Folders : f \in Handled(w) \/ f = m => saves'[w][f] = cache[w].identity
    BY <1>p, <2>1, <2>4 DEF OfWorker, Populated
  <2>6. /\ Handled(w) \subseteq Folders
        /\ \/ pc'[w] = pc[w] /\ \A f \in Handled(w)' : f \in Handled(w) \/ f = m
           \/ /\ pc'[w] = "ready" /\ Handled(w)' = {}
              /\ \A f \in Folders : f \in Handled(w) \/ f = m
    BY <1>p, <2>1, HandledAre, AdvancesHandles
  <2>7. Populated(w)'
    BY <1>p, <2>1, <2>2, <2>3, <2>5, <2>6 DEF OfWorker, Populated, Populating, Earlier
  <2> QED BY <1>p, <1>i, <2>1, <2>6, <2>7 DEF OfWorker, Requested, Loaded, OfItsIdentity, Active
<1> QED BY <1>1, <1>2, <1>3, <1>4, <1>5, <1>6, <1>7, <1>8 DEF Worker

LEMMA WorkerKept ==
  ASSUME IInv, [Next]_vars, NEW w \in Workers, Own(w)
  PROVE  OfWorker(w)'
<1>1. w \notin Bootstraps
  BY DEF Bootstraps
<1> QED BY <1>1, WorkerReads, WorkerAsks, WorkerSteps DEF Own

\* What is installed was staged, and is what the source was.
LEMMA SnapshotKept == ASSUME IInv, [Next]_vars PROVE SnapshotOfItsIdentity'
<1> USE DEF IInv, validation, game
<1>1. CASE UNCHANGED snapshot
  BY <1>1 DEF SnapshotOfItsIdentity
<1>2. CASE Damages
  <2>1. snapshot \in Snapshots /\ snapshot # None
    BY <1>2 DEF Damages, Types
  <2>2. snapshot'.manifest = snapshot.manifest
    BY <1>2, <2>1 DEF Damages, Snapshots
  <2> QED BY <2>1, <2>2 DEF SnapshotOfItsIdentity
<1>3. CASE Removes
  BY <1>3 DEF Removes, SnapshotOfItsIdentity
<1>4. ASSUME NEW b \in Bootstraps, Installs(b) PROVE SnapshotOfItsIdentity'
  <2>1. \A f \in Folders : staged[b][f] = source[b]
    BY <1>4 DEF Installs, OfBootstrap, Staged
  <2>2. /\ snapshot'.manifest.identity = source[b]
        /\ snapshot'.manifest.digest = staged[b]
    BY <1>4 DEF Installs
  <2> QED BY <2>1, <2>2 DEF SnapshotOfItsIdentity
<1>5. ASSUME NEW b \in Bootstraps, Bootstrap(b), ~Installs(b) PROVE UNCHANGED snapshot
  BY <1>5 DEF Bootstrap, Begins, Records, Spawns, Builds, Exports, Stages
<1>6. ASSUME NEW w \in Workers, Worker(w) \/ Requests(w) PROVE UNCHANGED snapshot
  BY <1>6 DEF Worker, Requests, Loads, Populates, PopulatesExternally, Hears, Matches, Verifies,
              Copies, Renames
<1>7. ASSUME NEW p \in Processes, ReadsData(p) \/ ReadsBinary(p) \/ Fails(p)
      PROVE  UNCHANGED snapshot
  BY <1>7 DEF ReadsData, ReadsBinary, Fails
<1>8. Rebuild \/ UNCHANGED vars => UNCHANGED snapshot
  BY DEF Rebuild, vars
<1> QED BY <1>1, <1>2, <1>3, <1>4, <1>5, <1>6, <1>7, <1>8 DEF Next
-------------------------------------------------------------------------------
LEMMA InitIInv == Init => IInv
<1> SUFFICES ASSUME Init PROVE IInv
  OBVIOUS
<1> USE DEF Init, ValidatorInit
<1>1. NoIdentity \in Identities /\ NoFiles \in [Folders -> Files]
  BY ValidatorAssumption DEF NoIdentity, Identities, NoFiles, Files
<1>2. Types
  BY <1>1, ValidatorAssumption DEF Types, Steps, Validations, Answers, Active
<1>3. Past
  <2>1. Earlier(NoIdentity, NoIdentity) /\ 0 <= NoIdentity["binary"]
    BY DEF Earlier, NoIdentity, Parts
  <2> QED BY <2>1 DEF Past
<1>4. SnapshotOfItsIdentity
  BY DEF SnapshotOfItsIdentity
<1>5. \A q \in Processes : Fresh(q)
  BY DEF Fresh
<1>6. \A b \in Bootstraps : OfBootstrap(b)
  BY DEF Bootstraps, OfBootstrap, Built, Building, Captured, Staged
<1>7. ASSUME NEW w \in Workers PROVE OfWorker(w)
  <2>1. pc[w] = "idle" /\ request[w] = "none"
    BY ValidatorAssumption
  <2> QED BY <2>1 DEF OfWorker, Requested, Loaded, Populated, Populating, Active
<1> QED BY <1>2, <1>3, <1>4, <1>5, <1>6, <1>7 DEF IInv

LEMMA NextIInv == IInv /\ [Next]_vars => IInv'
<1> SUFFICES ASSUME IInv, [Next]_vars PROVE IInv'
  OBVIOUS
<1>1. Types' /\ Past' /\ SnapshotOfItsIdentity' /\ Earlier(tree, tree')
  BY TypesKept, PastKept, SnapshotKept, TreeForward DEF IInv
<1>2. \A q \in Processes : Fresh(q)'
  BY OthersKept, FreshStable, FreshKept DEF IInv
<1>3. ASSUME NEW b \in Bootstraps PROVE OfBootstrap(b)'
  <2>1. b \in Processes
    BY DEF Bootstraps
  <2> QED BY <1>1, <2>1, OthersKept, BootstrapStable, BootstrapKept DEF IInv
<1>4. ASSUME NEW w \in Workers PROVE OfWorker(w)'
  <2>1. w \in Processes
    BY ValidatorAssumption
  <2> QED BY <2>1, OthersKept, WorkerStable, WorkerKept DEF IInv
<1> QED BY <1>1, <1>2, <1>3, <1>4 DEF IInv

\* What every reading, build, copy and request keeps is an invariant.
LEMMA SpecIInv == Spec => []IInv
<1> QED BY InitIInv, NextIInv, PTL DEF Spec

\* A snapshot is never installed under the identity of another tree than the one
\* its members were built from, however the tree is rebuilt meanwhile.
THEOREM SnapshotSound == Spec => []SnapshotOfItsIdentity
<1>1. IInv => SnapshotOfItsIdentity
  BY DEF IInv
<1> QED BY <1>1, SpecIInv, PTL

\* A game is started only on members of the identity its worker loaded, of a tree
\* that was there since its preparation began.
THEOREM StartSound == Spec => []GameStartsOnItsTree
<1>1. IInv => GameStartsOnItsTree
  BY DEF IInv, OfWorker, Populated, Populating, Earlier, GameStartsOnItsTree
<1> QED BY <1>1, SpecIInv, PTL
===============================================================================
