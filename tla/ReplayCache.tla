------------------------------ MODULE ReplayCache ------------------------------
(* prepare_imitation_replay: processes key the trajectories by their contents, *)
(* read the entry of that key, or build the replay, key the trajectories again *)
(* and install it when the key is still the same.  The trajectories and the    *)
(* sources are read one file after the other, while other processes append to  *)
(* the former and a developer edits the latter.                                *)
EXTENDS Integers

CONSTANTS Processes,   \* the processes that prepare a replay
          N,           \* how many trajectories there are
          MaxContent,  \* bound: appends to one trajectory
          MaxVersion   \* bound: edits of the sources

ASSUME CacheAssumption == N \in Nat /\ MaxContent \in Nat /\ MaxVersion \in Nat

Trajectories == 1..N
\* A trajectory only grows (its writer creates it and appends), so how far it has
\* grown names its content.
Contents == [Trajectories -> 0..MaxContent]
NoContents == [t \in Trajectories |-> 0]
Versions == 0..MaxVersion
\* What a key digests: the sources and every trajectory, in order.
Keys == [version : Versions, of : Contents]
\* An entry: its key, the trajectories it was built from, the code that built it.
Entries == [key : Keys, of : Contents, by : Versions]
NoKey == [version |-> 0, of |-> NoContents]

VARIABLES content,   \* the trajectories on disk
          version,   \* the sources on disk
          cache,     \* the entries of the cache directory
          pc,        \* where each process is in prepare_imitation_replay
          loaded,    \* the sources it imported
          at,        \* the trajectory it reads next
          key,       \* its key
          replay,    \* the trajectories its replay is built from
          again,     \* the key it computes after building
          hit        \* its replay came from the cache

disk == <<content, version, cache>>
locals == <<pc, loaded, at, key, replay, again, hit>>
cachevars == <<disk, locals>>

CacheInit ==
  /\ content = NoContents /\ version = 0 /\ cache = {}
  /\ pc = [p \in Processes |-> "idle"]
  /\ loaded = [p \in Processes |-> 0]
  /\ at = [p \in Processes |-> 1]
  /\ key = [p \in Processes |-> NoKey]
  /\ replay = [p \in Processes |-> NoContents]
  /\ again = [p \in Processes |-> NoKey]
  /\ hit = [p \in Processes |-> FALSE]
-------------------------------------------------------------------------------
(* The environment.                                                           *)

Appends ==
  /\ \E t \in Trajectories :
       content[t] < MaxContent /\ content' = [content EXCEPT ![t] = @ + 1]
  /\ UNCHANGED <<version, cache, locals>>

Edits ==
  /\ version < MaxVersion
  /\ version' = version + 1
  /\ UNCHANGED <<content, cache, locals>>
-------------------------------------------------------------------------------
(* One process.                                                               *)

\* The modules are imported when the process starts; the sources are digested
\* from the disk, first of all.
Imports(p) ==
  /\ pc[p] = "idle"
  /\ loaded' = [loaded EXCEPT ![p] = version]
  /\ pc' = [pc EXCEPT ![p] = "imported"]
  /\ UNCHANGED <<disk, at, key, replay, again, hit>>

DigestSources(p) ==
  /\ pc[p] = "imported"
  /\ key' = [key EXCEPT ![p].version = version]
  /\ at' = [at EXCEPT ![p] = 1]
  /\ pc' = [pc EXCEPT ![p] = "keying"]
  /\ UNCHANGED <<disk, loaded, replay, again, hit>>

Digest(p) ==
  /\ pc[p] = "keying" /\ at[p] \in Trajectories
  /\ key' = [key EXCEPT ![p].of[at[p]] = content[at[p]]]
  /\ at' = [at EXCEPT ![p] = @ + 1]
  /\ UNCHANGED <<disk, pc, loaded, replay, again, hit>>

\* Faulty variant: the trajectories are not part of the key.
HitOfVersion(p) ==
  /\ pc[p] = "keying" /\ at[p] = N + 1
  /\ \E e \in cache : e.key.version = key[p].version /\ replay' = [replay EXCEPT ![p] = e.of]
  /\ hit' = [hit EXCEPT ![p] = TRUE]
  /\ pc' = [pc EXCEPT ![p] = "done"]
  /\ UNCHANGED <<disk, loaded, at, key, again>>

\* _read_cache accepts the entry of this key ...
Hit(p) ==
  /\ pc[p] = "keying" /\ at[p] = N + 1
  /\ \E e \in cache : e.key = key[p] /\ replay' = [replay EXCEPT ![p] = e.of]
  /\ hit' = [hit EXCEPT ![p] = TRUE]
  /\ pc' = [pc EXCEPT ![p] = "done"]
  /\ UNCHANGED <<disk, loaded, at, key, again>>

\* ... or there is none, or it cannot be read.
Miss(p) ==
  /\ pc[p] = "keying" /\ at[p] = N + 1
  /\ at' = [at EXCEPT ![p] = 1]
  /\ pc' = [pc EXCEPT ![p] = "building"]
  /\ UNCHANGED <<disk, loaded, key, replay, again, hit>>

\* load_imitation_replay_episode.
Build(p) ==
  /\ pc[p] = "building" /\ at[p] \in Trajectories
  /\ replay' = [replay EXCEPT ![p][at[p]] = content[at[p]]]
  /\ at' = [at EXCEPT ![p] = @ + 1]
  /\ UNCHANGED <<disk, pc, loaded, key, again, hit>>

\* Faulty variant: the key is not computed again.
RekeyTrusted(p) ==
  /\ pc[p] = "building" /\ at[p] = N + 1
  /\ again' = [again EXCEPT ![p] = key[p]]
  /\ at' = [at EXCEPT ![p] = N + 1]
  /\ pc' = [pc EXCEPT ![p] = "rekeying"]
  /\ UNCHANGED <<disk, loaded, key, replay, hit>>

Rekey(p) ==
  /\ pc[p] = "building" /\ at[p] = N + 1
  /\ again' = [again EXCEPT ![p].version = version]
  /\ at' = [at EXCEPT ![p] = 1]
  /\ pc' = [pc EXCEPT ![p] = "rekeying"]
  /\ UNCHANGED <<disk, loaded, key, replay, hit>>

DigestAgain(p) ==
  /\ pc[p] = "rekeying" /\ at[p] \in Trajectories
  /\ again' = [again EXCEPT ![p].of[at[p]] = content[at[p]]]
  /\ at' = [at EXCEPT ![p] = @ + 1]
  /\ UNCHANGED <<disk, pc, loaded, key, replay, hit>>

\* "Do not install under a stale key if a producer changed a trajectory."
Compare(p) ==
  /\ pc[p] = "rekeying" /\ at[p] = N + 1
  /\ pc' = [pc EXCEPT ![p] = IF again[p] = key[p] THEN "writing" ELSE "done"]
  /\ UNCHANGED <<disk, loaded, at, key, replay, again, hit>>

\* _write_cache: the temporary file replaces the entry of its key in one step ...
Install(p) ==
  /\ pc[p] = "writing"
  /\ cache' = {e \in cache : e.key # key[p]}
                \union {[key |-> key[p], of |-> replay[p], by |-> loaded[p]]}
  /\ pc' = [pc EXCEPT ![p] = "done"]
  /\ UNCHANGED <<content, version, loaded, at, key, replay, again, hit>>

\* ... or an OSError is ignored.
InstallFails(p) ==
  /\ pc[p] = "writing"
  /\ pc' = [pc EXCEPT ![p] = "done"]
  /\ UNCHANGED <<disk, loaded, at, key, replay, again, hit>>

\* A trajectory cannot be read, or the process is killed; what it wrote to its
\* temporary file is under no key.
Fails(p) ==
  /\ pc[p] \in {"imported", "keying", "building", "rekeying", "writing"}
  /\ pc' = [pc EXCEPT ![p] = "failed"]
  /\ UNCHANGED <<disk, loaded, at, key, replay, again, hit>>

Prepares(p) ==
  \/ Imports(p) \/ DigestSources(p) \/ Digest(p) \/ Hit(p) \/ Miss(p) \/ Build(p)
  \/ Rekey(p) \/ DigestAgain(p) \/ Compare(p) \/ Install(p) \/ InstallFails(p) \/ Fails(p)

CacheNext == Appends \/ Edits \/ \E p \in Processes : Prepares(p)

CacheSpec == CacheInit /\ [][CacheNext]_cachevars
-------------------------------------------------------------------------------
(* Properties.                                                                *)

Steps == {"idle", "imported", "keying", "building", "rekeying", "writing", "done", "failed"}

Types ==
  /\ content \in Contents /\ version \in Versions
  /\ cache \subseteq Entries
  /\ pc \in [Processes -> Steps]
  /\ loaded \in [Processes -> Versions]
  /\ at \in [Processes -> 1..(N + 1)]
  /\ key \in [Processes -> Keys] /\ again \in [Processes -> Keys]
  /\ replay \in [Processes -> Contents]
  /\ hit \in [Processes -> BOOLEAN]

OneEntryPerKey == \A e, f \in cache : e.key = f.key => e = f

TypeOK == Types /\ OneEntryPerKey

\* Whatever is appended while a replay is keyed, built and keyed again, an entry
\* is found only under the key of the very contents it was built from.
CachedMatchesKey == \A e \in cache : e.of = e.key.of

\* A replay read from the cache is the one of the trajectories the process keyed,
\* although another process built it.
HitIsOwnInputs == \A p \in Processes : pc[p] = "done" /\ hit[p] => replay[p] = key[p].of

===============================================================================
