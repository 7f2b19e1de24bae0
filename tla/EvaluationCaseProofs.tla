------------------------- MODULE EvaluationCaseProofs -------------------------
(* For any owners, number of episodes, levels and games, whatever raises at   *)
(* any call and whenever a process dies: a worker can reach every game that   *)
(* runs, and what is recorded is the game of the attempt that started.  The   *)
(* invariant follows an attempt from its construction to its close: what is   *)
(* open belongs to the handle its owner holds.                                *)
(*   And for any levels, finite or not in number, and anything the game does:  *)
(* the step a policy takes from its search begins a shortest way, and what it *)
(* decides is offered.  The search is followed as it runs (Wave): what it has *)
(* reached can be walked to, what waits in its queue is in the order of the   *)
(* distance, and what it has not reached is no nearer than what waits.        *)
(*   Last, the teacher's loops: after each of its keys either time passes, or  *)
(* the screen is one of a few (Stalled) on which it knows better, but for the  *)
(* refusals it does not remember.                                             *)
EXTENDS EvaluationCase, FiniteSetTheorems, NaturalsInduction, WellFoundedInduction, TLAPS

Attempting == {"preparing", "spawning", "connecting", "attaching", "observing", "recording"}

\* A worker holds everything that is open; before the game starts, nothing is.
WorkerOwns ==
  IsWorker =>
    /\ alive \subseteq {proc} /\ logs \subseteq {game} /\ transports \subseteq {game}
    /\ pc \in {"idle", "failed", "released", "constructing", "preparing"}
         => alive = {} /\ logs = {} /\ transports = {}
    /\ pc = "spawning" => alive = {}

\* The trajectory that is open is its owner's; an evaluation opens it before its game
\* and a worker after it.
WriterOwned ==
  /\ writers \subseteq {writer}
  /\ pc \in {"idle", "failed", "released", "constructing"} => writers = {}
  /\ pc \in Attempting =>
       IF IsWorker THEN writers = {} ELSE writer = env /\ writers = {env}

\* The environment, the game and the process of an attempt carry its name, each from
\* the call that makes it.
OfAttempt ==
  /\ pc \in Attempting \union {"playing"} => env = <<episode, attempt>>
  /\ pc \in (Attempting \ {"preparing"}) \union {"playing"} => game = env
  /\ pc \in (Attempting \ {"preparing", "spawning"}) \union {"playing"} => proc = env
  /\ pc = "playing" /\ Records => writer = env /\ writers = {env}

LifecycleInv == owner \in Owners /\ WorkerOwns /\ WriterOwned /\ OfAttempt
-------------------------------------------------------------------------------
(* The closes.                                                                *)

\* A close that succeeds leaves nothing of a worker's open, and no trajectory.
LEMMA ClosedIsEmpty ==
  ASSUME WorkerOwns, WriterOwned, EnvCloses
  PROVE  /\ writers' = {}
         /\ IsWorker => alive' = {} /\ logs' = {} /\ transports' = {}
<1> QED BY DEF WorkerOwns, WriterOwned, EnvCloses, WriterCloses, GameCloses

\* One that does not leaves the process with its handle.
LEMMA StaysHeld ==
  ASSUME WorkerOwns, WriterOwned, EnvStays
  PROVE  /\ writers' = {} /\ proc' = proc
         /\ IsWorker => alive' \subseteq {proc} /\ logs' \subseteq {game'} /\ transports' \subseteq {game'}
<1> QED BY DEF WorkerOwns, WriterOwned, EnvStays, WriterCloses, GameStaysAfterKill

LEMMA DroppedIsEmpty ==
  ASSUME WriterOwned, Drop
  PROVE  writers' = {}
<1> QED BY DEF WriterOwned, Drop
-------------------------------------------------------------------------------
(* Every step preserves the invariant.                                        *)

LEMMA BeginLInv == ASSUME LifecycleInv, BeginEpisode PROVE LifecycleInv'
<1> USE DEF LifecycleInv, BeginEpisode, held, resources
<1>1. WorkerOwns'
  BY DEF WorkerOwns, IsWorker
<1>2. WriterOwned' /\ OfAttempt'
  BY DEF WriterOwned, OfAttempt, Attempting
<1> QED BY <1>1, <1>2

LEMMA ConstructLInv == ASSUME LifecycleInv, Construct PROVE LifecycleInv'
<1> USE DEF LifecycleInv, Construct
<1>1. WorkerOwns'
  BY DEF WorkerOwns, IsWorker
<1>2. WriterOwned'
  BY DEF WriterOwned, Attempting, IsWorker
<1>3. OfAttempt'
  BY DEF OfAttempt, Attempting
<1> QED BY <1>1, <1>2, <1>3

LEMMA PrepareLInv == ASSUME LifecycleInv, Prepare PROVE LifecycleInv'
<1> USE DEF LifecycleInv, Prepare, Goes, Raises
<1>1. WorkerOwns'
  BY DEF WorkerOwns, IsWorker
<1>2. WriterOwned'
  BY DEF WriterOwned, Attempting, IsWorker
<1>3. OfAttempt'
  BY DEF OfAttempt, Attempting
<1> QED BY <1>1, <1>2, <1>3

LEMMA SpawnLInv == ASSUME LifecycleInv, Spawn PROVE LifecycleInv'
<1> USE DEF LifecycleInv, Spawn, Goes, Raises
<1>1. WorkerOwns'
  BY DEF WorkerOwns, IsWorker
<1>2. WriterOwned'
  BY DEF WriterOwned, Attempting, IsWorker
<1>3. OfAttempt'
  BY DEF OfAttempt, Attempting
<1> QED BY <1>1, <1>2, <1>3

LEMMA MakeTransportLInv == ASSUME LifecycleInv, MakeTransport PROVE LifecycleInv'
<1> USE DEF LifecycleInv, MakeTransport, Goes, Raises, held
<1>1. WorkerOwns'
  BY DEF WorkerOwns, IsWorker
<1>2. WriterOwned'
  BY DEF WriterOwned, Attempting, IsWorker
<1>3. OfAttempt'
  BY DEF OfAttempt, Attempting
<1> QED BY <1>1, <1>2, <1>3

LEMMA AttachLInv == ASSUME LifecycleInv, Attach PROVE LifecycleInv'
<1> USE DEF LifecycleInv, Attach, Goes, Raises
<1>1. CASE Goes("observing") /\ UNCHANGED <<held, resources>>
  <2> USE <1>1 DEF held, resources
  <2>1. WorkerOwns'
    BY DEF WorkerOwns, IsWorker
  <2>2. WriterOwned' /\ OfAttempt'
    BY DEF WriterOwned, Attempting, IsWorker, OfAttempt, Records
  <2> QED BY <2>1, <2>2
<1>2. CASE pc' = "raised" /\ GameCloses /\ UNCHANGED <<env, game, writer, writers>>
  <2> USE <1>2 DEF GameCloses
  <2>1. WorkerOwns'
    BY DEF WorkerOwns, IsWorker
  <2>2. WriterOwned' /\ OfAttempt'
    BY DEF WriterOwned, Attempting, IsWorker, OfAttempt
  <2> QED BY <2>1, <2>2
<1>3. CASE pc' = "raised" /\ GameStaysAfterKill /\ UNCHANGED <<env, writer, writers>>
  <2> USE <1>3 DEF GameStaysAfterKill
  <2>1. WorkerOwns'
    BY DEF WorkerOwns, IsWorker
  <2>2. WriterOwned' /\ OfAttempt'
    BY DEF WriterOwned, Attempting, IsWorker, OfAttempt
  <2> QED BY <2>1, <2>2
<1> QED BY <1>1, <1>2, <1>3

LEMMA ObserveLInv == ASSUME LifecycleInv, Observe PROVE LifecycleInv'
<1> USE DEF LifecycleInv, Observe, Goes, Raises, held, resources
<1>1. WorkerOwns'
  BY DEF WorkerOwns, IsWorker
<1>2. WriterOwned'
  BY DEF WriterOwned, Attempting, IsWorker
<1>3. OfAttempt'
  BY LifecycleAssumption DEF OfAttempt, Attempting, Records, IsWorker
<1> QED BY <1>1, <1>2, <1>3

LEMMA RecordLInv == ASSUME LifecycleInv, Record PROVE LifecycleInv'
<1> USE DEF LifecycleInv, Record, Goes, Raises
<1>1. WorkerOwns'
  BY DEF WorkerOwns, IsWorker
<1>2. WriterOwned'
  BY DEF WriterOwned, Attempting, IsWorker
<1>3. OfAttempt'
  BY DEF OfAttempt, WriterOwned, Attempting, Records, IsWorker
<1> QED BY <1>1, <1>2, <1>3

\* After a close the next attempt, the next episode, the failure or the end of training
\* finds nothing open; after one that raised a worker still holds its process.
LEMMA CloseLInv ==
  ASSUME LifecycleInv, UNCHANGED owner,
         \/ EnvCloses /\ pc' \in {"constructing", "idle", "failed", "released"}
         \/ IsWorker /\ EnvStays /\ pc' \in {"broken", "unreleased"}
         \/ ~IsWorker /\ Drop /\ pc' = "failed"
  PROVE  LifecycleInv'
<1>1. WorkerOwns /\ WriterOwned
  BY DEF LifecycleInv
<1>2. CASE EnvCloses /\ pc' \in {"constructing", "idle", "failed", "released"}
  BY <1>1, <1>2, ClosedIsEmpty
     DEF LifecycleInv, WorkerOwns, WriterOwned, OfAttempt, Attempting, IsWorker
<1>3. CASE IsWorker /\ EnvStays /\ pc' \in {"broken", "unreleased"}
  BY <1>1, <1>3, StaysHeld
     DEF LifecycleInv, WorkerOwns, WriterOwned, OfAttempt, Attempting, IsWorker
<1>4. CASE ~IsWorker /\ Drop /\ pc' = "failed"
  BY <1>1, <1>4, DroppedIsEmpty
     DEF LifecycleInv, WorkerOwns, WriterOwned, OfAttempt, Attempting, IsWorker
<1> QED BY <1>2, <1>3, <1>4

LEMMA HandlersLInv ==
  ASSUME LifecycleInv, HandleTimeout \/ HandlerRaises \/ HandleOther \/ EpisodeEnds \/ Release
  PROVE  LifecycleInv'
<1> USE DEF KilledAndDropped
<1>1. CASE HandleTimeout
  BY <1>1, CloseLInv DEF HandleTimeout, Retry
<1>2. CASE HandlerRaises
  BY <1>2, CloseLInv DEF HandlerRaises
<1>3. CASE HandleOther
  BY <1>3, CloseLInv DEF HandleOther
<1>4. CASE EpisodeEnds
  BY <1>4, CloseLInv DEF EpisodeEnds
<1>5. CASE Release
  BY <1>5, CloseLInv DEF Release
<1> QED BY <1>1, <1>2, <1>3, <1>4, <1>5

LEMMA StepRaisesLInv == ASSUME LifecycleInv, StepRaises PROVE LifecycleInv'
<1> USE DEF LifecycleInv, StepRaises, held, resources
<1>1. WorkerOwns'
  BY DEF WorkerOwns, IsWorker
<1>2. WriterOwned' /\ OfAttempt'
  BY DEF WriterOwned, Attempting, OfAttempt
<1> QED BY <1>1, <1>2

LEMMA DiesLInv == ASSUME LifecycleInv, Dies PROVE LifecycleInv'
<1> USE DEF LifecycleInv, Dies, held
<1>1. WorkerOwns'
  BY DEF WorkerOwns, IsWorker
<1>2. WriterOwned' /\ OfAttempt'
  BY DEF WriterOwned, Attempting, OfAttempt, IsWorker, Records
<1> QED BY <1>1, <1>2

LEMMA LifecycleStep == ASSUME LifecycleInv, [Next]_vars PROVE LifecycleInv'
<1>1. CASE Next
  BY <1>1, BeginLInv, ConstructLInv, PrepareLInv, SpawnLInv, MakeTransportLInv, AttachLInv,
     ObserveLInv, RecordLInv, HandlersLInv, StepRaisesLInv, DiesLInv DEF Next, Start
<1>2. CASE UNCHANGED vars
  BY <1>2 DEF vars, held, resources, LifecycleInv, WorkerOwns, WriterOwned, OfAttempt,
     IsWorker, Records
<1> QED BY <1>1, <1>2

\* A case takes the steps of the life cycle; while its game is played, only the game
\* and the policy move.
LEMMA CaseIsLifecycle == [CaseNext]_allvars => [Next]_vars
<1> SUFFICES ASSUME [CaseNext]_allvars PROVE [Next]_vars
  OBVIOUS
<1>1. CASE CaseNext
  BY <1>1 DEF CaseNext, CaseStarts, Plays, CaseEnds, Elsewhere, Next
<1>2. CASE UNCHANGED allvars
  BY <1>2 DEF allvars
<1> QED BY <1>1, <1>2

LEMMA CaseLifecycleInv == CaseSpec => []LifecycleInv
<1>1. CaseInit => LifecycleInv
  BY DEF CaseInit, Init, LifecycleInv, WorkerOwns, WriterOwned, OfAttempt, Attempting
<1>2. LifecycleInv /\ [CaseNext]_allvars => LifecycleInv'
  BY LifecycleStep, CaseIsLifecycle
<1> QED BY <1>1, <1>2, PTL DEF CaseSpec

\* Whatever ManagedGame.start, a step or a close raises, a worker's later close finds
\* the process; and between two games nothing of a worker's is open.
THEOREM WorkerSound == CaseSpec => []WorkerHoldsItsGame
<1>1. LifecycleInv => WorkerHoldsItsGame
  BY DEF LifecycleInv, WorkerOwns, WriterOwned, WorkerHoldsItsGame
<1> QED BY <1>1, CaseLifecycleInv, PTL

\* "Each transient startup attempt its own trajectory and game directory": a game that
\* is played and the trajectory that records it are those of the attempt that started.
THEOREM RecordingSound == CaseSpec => []RecordsItsOwnGame
<1>1. LifecycleInv => RecordsItsOwnGame
  BY DEF LifecycleInv, OfAttempt, RecordsItsOwnGame, Attempting
<1> QED BY <1>1, CaseLifecycleInv, PTL
-------------------------------------------------------------------------------
(* Recursion over the natural numbers.                                        *)

\* Induction over the natural numbers, for a set instead of a predicate.
LEMMA SetInduction ==
  ASSUME NEW T, 0 \in T, \A n \in Nat : n \in T => n + 1 \in T
  PROVE  Nat \subseteq T
<1> SUFFICES ASSUME Nat \ T # {} PROVE FALSE
  OBVIOUS
<1> DEFINE R == OpToRel(<, Nat)
<1>1. IsWellFoundedOn(R, Nat)
  BY NatLessThanWellFounded
<1>2. PICK x \in Nat \ T : \A y \in Nat \ T : ~(<<y, x>> \in R)
  <2> HIDE DEF R
  <2> QED BY <1>1, WFMin
<1>3. \A y \in Nat : <<y, x>> \in R <=> y < x
  BY DEF OpToRel
<1>4. x # 0 /\ x - 1 \in Nat /\ x - 1 < x
  OBVIOUS
<1>5. x - 1 \in T
  BY <1>2, <1>3, <1>4
<1> QED BY <1>4, <1>5

\* The values of a recursion, the step given as a function.
Upto(f, m, X, start, G) ==
  f \in [0..m -> X] /\ f[0] = start /\ \A n \in 0..(m - 1) : f[n + 1] = G[<<n, f[n]>>]

LEMMA UptoExists ==
  ASSUME NEW X, NEW start \in X, NEW G \in [Nat \X X -> X]
  PROVE  \A m \in Nat : \E f : Upto(f, m, X, start, G)
<1> DEFINE T == {m \in Nat : \E f : Upto(f, m, X, start, G)}
<1>1. 0 \in T
  <2> DEFINE f == [i \in 0..0 |-> start]
  <2>1. Upto(f, 0, X, start, G)
    BY DEF Upto
  <2> HIDE DEF f
  <2> QED BY <2>1
<1>2. ASSUME NEW m \in Nat, m \in T PROVE m + 1 \in T
  <2>1. PICK f : Upto(f, m, X, start, G)
    BY <1>2
  <2> DEFINE g == [i \in 0..(m + 1) |-> IF i = m + 1 THEN G[<<m, f[m]>>] ELSE f[i]]
  <2>2. f \in [0..m -> X] /\ f[0] = start /\ \A n \in 0..(m - 1) : f[n + 1] = G[<<n, f[n]>>]
    BY <2>1 DEF Upto
  <2>3. G[<<m, f[m]>>] \in X
    BY <2>2
  <2>4. g \in [0..(m + 1) -> X] /\ g[0] = start
    BY <2>2, <2>3
  <2>5. \A n \in 0..((m + 1) - 1) : g[n + 1] = G[<<n, g[n]>>]
    <3> TAKE n \in 0..((m + 1) - 1)
    <3>1. CASE n = m
      <4>1. g[n + 1] = G[<<m, f[m]>>] /\ g[n] = f[m]
        BY <3>1
      <4> QED BY <3>1, <4>1
    <3>2. CASE n # m
      <4>1. n \in 0..(m - 1) /\ g[n + 1] = f[n + 1] /\ g[n] = f[n]
        BY <3>2
      <4> QED BY <2>2, <4>1
    <3> QED BY <3>1, <3>2
  <2>6. Upto(g, m + 1, X, start, G)
    BY <2>4, <2>5 DEF Upto
  <2> HIDE DEF g
  <2> QED BY <2>6
<1> HIDE DEF T
<1>3. Nat \subseteq T
  BY <1>1, <1>2, SetInduction
<1> QED BY <1>3 DEF T

LEMMA UptoUnique ==
  ASSUME NEW X, NEW start, NEW G, NEW m \in Nat, NEW k \in Nat, m <= k, NEW f, NEW g,
         Upto(f, m, X, start, G), Upto(g, k, X, start, G)
  PROVE  \A n \in 0..m : f[n] = g[n]
<1> DEFINE T == {n \in Nat : n <= m => f[n] = g[n]}
<1>1. 0 \in T
  BY DEF Upto
<1>2. ASSUME NEW n \in Nat, n \in T PROVE n + 1 \in T
  <2> SUFFICES ASSUME n + 1 <= m PROVE f[n + 1] = g[n + 1]
    OBVIOUS
  <2>1. n \in 0..(m - 1) /\ n \in 0..(k - 1) /\ f[n] = g[n]
    BY <1>2
  <2> QED BY <2>1 DEF Upto
<1> HIDE DEF T
<1>3. Nat \subseteq T
  BY <1>1, <1>2, SetInduction
<1> QED BY <1>3 DEF T

Recurs(X, start, G) == start \in X /\ G \in [Nat \X X -> X]
Values(f, X, start, G) == f \in [Nat -> X] /\ f[0] = start /\ \A n \in Nat : f[n + 1] = G[<<n, f[n]>>]

LEMMA Recursion ==
  ASSUME NEW X, NEW start, NEW G, Recurs(X, start, G)
  PROVE  \E f : Values(f, X, start, G)
<1> DEFINE F(m) == CHOOSE f : Upto(f, m, X, start, G)
           f == [m \in Nat |-> F(m)[m]]
<1>1. \A m \in Nat : Upto(F(m), m, X, start, G)
  BY UptoExists DEF Recurs
<1> HIDE DEF F
<1>2. f \in [Nat -> X] /\ f[0] = start
  BY <1>1 DEF Upto
<1>3. ASSUME NEW n \in Nat PROVE f[n + 1] = G[<<n, f[n]>>]
  <2>1. F(n)[n] = F(n + 1)[n]
    <3> DEFINE a == F(n)
               b == F(n + 1)
               l == n + 1
    <3>1. l \in Nat /\ n <= l /\ n \in 0..n /\ Upto(a, n, X, start, G) /\ Upto(b, l, X, start, G)
      BY <1>1
    <3> HIDE DEF a, b, l
    <3>2. \A i \in 0..n : a[i] = b[i]
      BY <3>1, UptoUnique
    <3>3. a[n] = b[n]
      BY <3>1, <3>2
    <3> QED BY <3>3 DEF a, b, l
  <2>2. F(n + 1)[n + 1] = G[<<n, F(n + 1)[n]>>]
    BY <1>1 DEF Upto
  <2> QED BY <2>1, <2>2
<1> HIDE DEF f
<1>4. Values(f, X, start, G)
  BY <1>2, <1>3 DEF Values
<1> QED BY <1>4
-------------------------------------------------------------------------------
(* The breadth-first search: one point is expanded.                           *)

\* The eight neighbours of a point are different points, each a neighbour of the other.
LEMMA AdjacentIs ==
  ASSUME NEW at \in Int \X Int
  PROVE  /\ Adjacent(at) \in [1..8 -> Int \X Int]
         /\ \A i, j \in 1..8 : Adjacent(at)[i] = Adjacent(at)[j] => i = j
         /\ Around(at) = {Adjacent(at)[i] : i \in 1..8}
         /\ Around(at) \subseteq Int \X Int
<1>1. at[1] \in Int /\ at[2] \in Int
  OBVIOUS
<1>2. \A i \in 1..8 : _NEIGHBORS[i][1] \in Int /\ _NEIGHBORS[i][2] \in Int
  BY DEF _NEIGHBORS
<1>3. \A i \in 1..8 : Adjacent(at)[i] = <<at[1] + _NEIGHBORS[i][1], at[2] + _NEIGHBORS[i][2]>>
  BY DEF Adjacent
<1>4. Adjacent(at) \in [1..8 -> Int \X Int]
  BY <1>1, <1>2 DEF Adjacent
<1>5. \A i, j \in 1..8 : _NEIGHBORS[i][1] = _NEIGHBORS[j][1] /\ _NEIGHBORS[i][2] = _NEIGHBORS[j][2] => i = j
  BY DEF _NEIGHBORS
<1>6. ASSUME NEW i \in 1..8, NEW j \in 1..8, Adjacent(at)[i] = Adjacent(at)[j] PROVE i = j
  <2>1. /\ at[1] + _NEIGHBORS[i][1] = at[1] + _NEIGHBORS[j][1]
        /\ at[2] + _NEIGHBORS[i][2] = at[2] + _NEIGHBORS[j][2]
    BY <1>3, <1>6
  <2>2. \A x, y, z \in Int : x + y = x + z => y = z
    OBVIOUS
  <2>3. _NEIGHBORS[i][1] = _NEIGHBORS[j][1] /\ _NEIGHBORS[i][2] = _NEIGHBORS[j][2]
    BY <1>1, <1>2, <2>1, <2>2
  <2> QED BY <1>5, <2>3
<1>7. Around(at) = {Adjacent(at)[i] : i \in 1..8}
  BY <1>4 DEF Around, ToSet
<1> QED BY <1>4, <1>6, <1>7

LEMMA AroundSymmetric ==
  ASSUME NEW p \in Int \X Int, NEW q \in Int \X Int, q \in Around(p)
  PROVE  p \in Around(q)
<1>1. PICK i \in 1..8 : q = Adjacent(p)[i]
  BY AdjacentIs
<1>2. \E j \in 1..8 : _NEIGHBORS[j][1] = -_NEIGHBORS[i][1] /\ _NEIGHBORS[j][2] = -_NEIGHBORS[i][2]
  <2>1. CASE i <= 4
    <3>1. _NEIGHBORS[i + 4][1] = -_NEIGHBORS[i][1] /\ _NEIGHBORS[i + 4][2] = -_NEIGHBORS[i][2]
      BY <2>1 DEF _NEIGHBORS
    <3> QED BY <2>1, <3>1
  <2>2. CASE i > 4
    <3>1. _NEIGHBORS[i - 4][1] = -_NEIGHBORS[i][1] /\ _NEIGHBORS[i - 4][2] = -_NEIGHBORS[i][2]
      BY <2>2 DEF _NEIGHBORS
    <3> QED BY <2>2, <3>1
  <2> QED BY <2>1, <2>2
<1>3. PICK j \in 1..8 : _NEIGHBORS[j][1] = -_NEIGHBORS[i][1] /\ _NEIGHBORS[j][2] = -_NEIGHBORS[i][2]
  BY <1>2
<1>4. _NEIGHBORS[i][1] \in Int /\ _NEIGHBORS[i][2] \in Int
  BY DEF _NEIGHBORS
<1>5. q = <<p[1] + _NEIGHBORS[i][1], p[2] + _NEIGHBORS[i][2]>>
  BY <1>1 DEF Adjacent
<1>6. Adjacent(q)[j] = <<q[1] + _NEIGHBORS[j][1], q[2] + _NEIGHBORS[j][2]>>
  BY DEF Adjacent
<1>7. Adjacent(q)[j] = p
  <2>1. p = <<p[1], p[2]>> /\ p[1] \in Int /\ p[2] \in Int
    OBVIOUS
  <2>2. q[1] = p[1] + _NEIGHBORS[i][1] /\ q[2] = p[2] + _NEIGHBORS[i][2]
    BY <1>5
  <2>3. q[1] + _NEIGHBORS[j][1] = p[1] /\ q[2] + _NEIGHBORS[j][2] = p[2]
    BY <1>3, <1>4, <2>1, <2>2
  <2> QED BY <1>6, <2>1, <2>3
<1> QED BY <1>7, AdjacentIs

LEMMA FreshIs ==
  ASSUME NEW at \in Int \X Int, NEW wanted
  PROVE  /\ Fresh(at, wanted) \in Seq(wanted)
         /\ ToSet(Fresh(at, wanted)) = Around(at) \intersect wanted
         /\ IsFiniteSet(ToSet(Fresh(at, wanted)))
         /\ Cardinality(ToSet(Fresh(at, wanted))) = Len(Fresh(at, wanted))
<1> DEFINE a == Adjacent(at)
           X == Seq(wanted)
           G == [x \in Nat \X X |-> IF a[x[1] + 1] \in wanted THEN Append(x[2], a[x[1] + 1]) ELSE x[2]]
           Is(f) == f = [i \in Nat |-> IF i = 0 THEN <<>>
                                       ELSE LET s == f[i - 1] IN
                                            IF a[i] \in wanted THEN Append(s, a[i]) ELSE s]
           fresh == CHOOSE f : Is(f)
<1>1. \E f : Is(f)
  <2>1. <<>> \in X
    OBVIOUS
  <2>2. G \in [Nat \X X -> X]
    OBVIOUS
  <2>3. PICK f : f \in [Nat -> X] /\ f[0] = <<>> /\ \A n \in Nat : f[n + 1] = G[<<n, f[n]>>]
    <3> HIDE DEF X, G
    <3>1. Recurs(X, <<>>, G)
      BY <2>1, <2>2 DEF Recurs
    <3>2. \E f : Values(f, X, <<>>, G)
      BY <3>1, Recursion
    <3> QED BY <3>2 DEF Values
  <2>4. ASSUME NEW i \in Nat, i # 0
        PROVE  f[i] = IF a[i] \in wanted THEN Append(f[i - 1], a[i]) ELSE f[i - 1]
    <3>1. i - 1 \in Nat /\ (i - 1) + 1 = i /\ f[i - 1] \in X
      BY <2>3, <2>4
    <3>2. f[i] = G[<<i - 1, f[i - 1]>>]
      <4> HIDE DEF X, G
      <4> QED BY <2>3, <3>1
    <3> HIDE DEF X, a
    <3> QED BY <3>1, <3>2
  <2>5. f = [i \in Nat |-> f[i]]
    BY <2>3
  <2>6. Is(f)
    <3> HIDE DEF X, G, a
    <3> QED BY <2>3, <2>4, <2>5
  <2> QED BY <2>6
<1>2. Is(fresh)
  <2> HIDE DEF Is
  <2> QED BY <1>1
<1>3. Fresh(at, wanted) = fresh[8]
  BY DEF Fresh
<1> HIDE DEF fresh
<1>4. fresh[0] = <<>> /\ \A n \in Nat : fresh[n + 1] = IF a[n + 1] \in wanted THEN Append(fresh[n], a[n + 1]) ELSE fresh[n]
  <2> HIDE DEF a
  <2>1. \A i \in Nat : fresh[i] = IF i = 0 THEN <<>> ELSE IF a[i] \in wanted THEN Append(fresh[i - 1], a[i]) ELSE fresh[i - 1]
    BY <1>2
  <2> QED BY <2>1
<1> HIDE DEF Is, X, G
<1> DEFINE Met(n) == {a[i] : i \in 1..n} \intersect wanted
           Good(n) == /\ fresh[n] \in Seq(wanted) /\ ToSet(fresh[n]) = Met(n)
                      /\ IsFiniteSet(Met(n)) /\ Cardinality(Met(n)) = Len(fresh[n])
           T == {n \in Nat : n <= 8 => Good(n)}
<1>5. 0 \in T
  <2>1. Met(0) = {} /\ ToSet(<<>>) = {}
    BY DEF ToSet
  <2>2. IsFiniteSet({}) /\ Cardinality({}) = 0
    BY FS_EmptySet
  <2>3. fresh[0] = <<>> /\ <<>> \in Seq(wanted) /\ Len(<<>>) = 0
    BY <1>4
  <2> HIDE DEF Met
  <2>4. Good(0)
    BY <2>1, <2>2, <2>3
  <2> QED BY <2>4
<1>6. ASSUME NEW n \in Nat, n \in T PROVE n + 1 \in T
  <2> SUFFICES ASSUME n + 1 <= 8 PROVE Good(n + 1)
    OBVIOUS
  <2>1. Good(n) /\ n + 1 \in 1..8
    BY <1>6
  <2> DEFINE p == a[n + 1]
  <2>2. {a[i] : i \in 1..(n + 1)} = {a[i] : i \in 1..n} \union {p}
    OBVIOUS
  <2>3. p \notin {a[i] : i \in 1..n}
    <3>1. \A i \in 1..n : i \in 1..8 /\ i # n + 1
      BY <2>1
    <3> QED BY <2>1, <3>1, AdjacentIs
  <2>4. fresh[n + 1] = IF p \in wanted THEN Append(fresh[n], p) ELSE fresh[n]
    BY <1>4
  <2> HIDE DEF a, p
  <2>5. CASE p \in wanted
    <3>1. Met(n + 1) = Met(n) \union {p} /\ p \notin Met(n)
      BY <2>2, <2>3, <2>5
    <3>2. IsFiniteSet(Met(n + 1)) /\ Cardinality(Met(n + 1)) = Cardinality(Met(n)) + 1
      <4> DEFINE S == Met(n)
                 U == Met(n + 1)
      <4>1. IsFiniteSet(S) /\ U = S \union {p} /\ p \notin S
        BY <2>1, <3>1
      <4> HIDE DEF S, U
      <4>2. IsFiniteSet(U) /\ Cardinality(U) = Cardinality(S) + 1
        BY <4>1, FS_AddElement
      <4> QED BY <4>2 DEF S, U
    <3>3. /\ Append(fresh[n], p) \in Seq(wanted) /\ Len(Append(fresh[n], p)) = Len(fresh[n]) + 1
          /\ ToSet(Append(fresh[n], p)) = ToSet(fresh[n]) \union {p}
      <4> DEFINE s == fresh[n]
                 t == Append(s, p)
      <4>1. s \in Seq(wanted)
        BY <2>1
      <4> HIDE DEF s
      <4>2. t \in Seq(wanted) /\ Len(t) = Len(s) + 1 /\ DOMAIN t = 1..(Len(s) + 1) /\ DOMAIN s = 1..Len(s)
            /\ Len(s) \in Nat /\ t[Len(s) + 1] = p /\ \A i \in 1..Len(s) : t[i] = s[i]
        BY <2>5, <4>1
      <4> HIDE DEF t
      <4>3. {t[i] : i \in DOMAIN t} = {s[i] : i \in DOMAIN s} \union {p}
        BY <4>2
      <4> QED BY <4>2, <4>3 DEF s, t, ToSet
    <3> HIDE DEF Met
    <3> QED BY <2>1, <2>4, <2>5, <3>1, <3>2, <3>3
  <2>6. CASE p \notin wanted
    <3>1. Met(n + 1) = Met(n)
      BY <2>2, <2>6
    <3> HIDE DEF Met
    <3> QED BY <2>1, <2>4, <2>6, <3>1
  <2> QED BY <2>5, <2>6
<1> HIDE DEF T
<1>7. 8 \in T
  <2>1. Nat \subseteq T
    BY <1>5, <1>6, SetInduction
  <2> QED BY <2>1
<1>8. Good(8)
  BY <1>7 DEF T
<1>9. Met(8) = Around(at) \intersect wanted
  BY AdjacentIs
<1> QED BY <1>3, <1>8, <1>9
\* The points a step further away.
LEMMA WithinIs ==
  ASSUME NEW goals, NEW open
  PROVE  /\ Within(goals, open, 0) = open \intersect goals
         /\ \A n \in Nat : /\ Within(goals, open, n) \subseteq open
                           /\ Within(goals, open, n + 1) =
                                {p \in open : \/ p \in Within(goals, open, n)
                                              \/ Around(p) \intersect Within(goals, open, n) # {}}
<1> DEFINE X == SUBSET open
           Nearer(near) == {p \in open : p \in near \/ Around(p) \intersect near # {}}
           start == {p \in open : p \in goals}
           G == [x \in Nat \X X |-> Nearer(x[2])]
           Is(f) == f = [k \in Nat |-> IF k = 0 THEN {p \in open : p \in goals}
                                       ELSE LET near == f[k - 1] IN
                                            {p \in open : p \in near \/ Around(p) \intersect near # {}}]
           ball == CHOOSE f : Is(f)
<1>1. \E f : Is(f)
  <2>1. Recurs(X, start, G)
    <3>1. start \in X /\ \A near \in X : Nearer(near) \in X
      OBVIOUS
    <3> HIDE DEF X, Nearer, start
    <3> QED BY <3>1 DEF Recurs
  <2>2. PICK f : Values(f, X, start, G)
    <3> HIDE DEF X, G, start
    <3> QED BY <2>1, Recursion
  <2>3. f \in [Nat -> X] /\ f[0] = start /\ \A n \in Nat : f[n + 1] = Nearer(f[n])
    <3> HIDE DEF X, Nearer, start
    <3> QED BY <2>2 DEF Values
  <2>4. ASSUME NEW i \in Nat, i # 0 PROVE f[i] = Nearer(f[i - 1])
    <3>1. i - 1 \in Nat /\ (i - 1) + 1 = i
      BY <2>4
    <3> HIDE DEF Nearer
    <3> QED BY <2>3, <3>1
  <2>5. f = [i \in Nat |-> f[i]]
    <3> HIDE DEF X
    <3> QED BY <2>3
  <2>6. Is(f)
    <3>1. f = [i \in Nat |-> IF i = 0 THEN start ELSE Nearer(f[i - 1])]
      <4> HIDE DEF start, Nearer, X
      <4> QED BY <2>3, <2>4, <2>5
    <3> QED BY <3>1
  <2> QED BY <2>6
<1>2. Is(ball)
  <2> HIDE DEF Is
  <2> QED BY <1>1
<1>3. \A n : Within(goals, open, n) = ball[n]
  BY DEF Within
<1> HIDE DEF ball
<1>4. ball[0] = start /\ \A n \in Nat : ball[n + 1] = Nearer(ball[n])
  <2>1. \A i \in Nat : ball[i] = IF i = 0 THEN start ELSE Nearer(ball[i - 1])
    BY <1>2
  <2> HIDE DEF Nearer, start, Is
  <2> QED BY <2>1
<1>5. \A n \in Nat : ball[n] \subseteq open
  <2>1. \A n \in Nat : n = 0 \/ (n - 1 \in Nat /\ (n - 1) + 1 = n)
    OBVIOUS
  <2>2. \A near : Nearer(near) \subseteq open
    OBVIOUS
  <2>3. start \subseteq open
    OBVIOUS
  <2> HIDE DEF Nearer, start, Is
  <2>4. ASSUME NEW n \in Nat PROVE ball[n] \subseteq open
    <3>1. CASE n = 0
      BY <1>4, <2>3, <3>1
    <3>2. CASE n # 0
      <4>1. ball[n] = Nearer(ball[n - 1])
        BY <1>4, <2>1, <3>2
      <4> QED BY <2>2, <4>1
    <3> QED BY <3>1, <3>2
  <2> QED BY <2>4
<1> QED BY <1>3, <1>4, <1>5

LEMMA WithinPrior ==
  ASSUME NEW goals, NEW open, NEW n \in Nat, NEW p \in Within(goals, open, n + 1)
  PROVE  p \in Within(goals, open, n) \/ \E r \in Around(p) : r \in Within(goals, open, n)
<1> DEFINE near == Within(goals, open, n)
<1>1. Within(goals, open, n + 1) = {q \in open : q \in near \/ Around(q) \intersect near # {}}
  BY WithinIs
<1> HIDE DEF near
<1>2. p \in near \/ \E r \in Around(p) : r \in near
  BY <1>1
<1> QED BY <1>2 DEF near

LEMMA WithinNext ==
  ASSUME NEW goals, NEW open, NEW n \in Nat, NEW p \in open,
         p \in Within(goals, open, n) \/ Around(p) \intersect Within(goals, open, n) # {}
  PROVE  p \in Within(goals, open, n + 1)
<1> DEFINE near == Within(goals, open, n)
<1>1. Within(goals, open, n + 1) = {q \in open : q \in near \/ Around(q) \intersect near # {}}
  BY WithinIs
<1>2. p \in near \/ Around(p) \intersect near # {}
  OBVIOUS
<1> HIDE DEF near
<1> QED BY <1>1, <1>2

\* The points that have entered the queue, and where from.
SearchType(start, open) ==
  [queue : Seq(open \union {start}),
   from : UNION {[D -> open \union {start, Nil}] : D \in SUBSET (open \union {start})}]

FirstOf(start) == [queue |-> <<start>>, from |-> [p \in {start} |-> Nil]]
NextOf(s, start, goals, open) == IF Stopped(s, start, goals) THEN s ELSE Expanded(s, open)

LEMMA ExpandedType ==
  ASSUME NEW open, NEW start, open \union {start} \subseteq Int \X Int, NEW s \in SearchType(start, open),
         s.queue # <<>>
  PROVE  /\ Expanded(s, open) \in SearchType(start, open)
         /\ Head(s.queue) \in open \union {start}
<1> DEFINE P == open \union {start}
           at == Head(s.queue)
           new == Fresh(at, open \ DOMAIN s.from)
           from == From(s.from, at, new)
           queue == Tail(s.queue) \o new
<1>1. s.queue \in Seq(P) /\ s.from \in UNION {[D -> P \union {Nil}] : D \in SUBSET P}
  BY DEF SearchType
<1>2. PICK D \in SUBSET P : s.from \in [D -> P \union {Nil}]
  BY <1>1
<1>3. at \in P
  BY <1>1
<1>4. new \in Seq(open \ D) /\ ToSet(new) \subseteq open
  <2> HIDE DEF P
  <2>1. at \in Int \X Int
    BY <1>3 DEF P
  <2>2. DOMAIN s.from = D
    BY <1>2
  <2> HIDE DEF at
  <2> QED BY <2>1, <2>2, FreshIs
<1>5. new \in Seq(P)
  <2> HIDE DEF new
  <2> QED BY <1>4
<1>6. queue \in Seq(P)
  <2>1. Tail(s.queue) \in Seq(P)
    BY <1>1
  <2> HIDE DEF new, P
  <2> QED BY <1>5, <2>1
<1>7. from \in [D \union ToSet(new) -> P \union {Nil}] /\ D \union ToSet(new) \in SUBSET P
  <2> HIDE DEF at, new
  <2> QED BY <1>2, <1>3, <1>4 DEF From
<1>8. Expanded(s, open) = [queue |-> queue, from |-> from]
  BY DEF Expanded
<1>9. from \in UNION {[E -> P \union {Nil}] : E \in SUBSET P}
  <2> HIDE DEF from, P
  <2> QED BY <1>7
<1> HIDE DEF queue, from, at, new
<1>10. P \union {Nil} = open \union {start, Nil}
  OBVIOUS
<1> QED BY <1>3, <1>6, <1>8, <1>9, <1>10 DEF SearchType

LEMMA SearchedIs ==
  ASSUME NEW open, NEW start, NEW goals, open \union {start} \subseteq Int \X Int
  PROVE  \E f : /\ f[0] = FirstOf(start)
                /\ \A n \in Nat : f[n + 1] = NextOf(f[n], start, goals, open)
                /\ Searched(start, goals, open) = f[Cardinality(open) + 1]
<1> DEFINE X == SearchType(start, open)
           first == FirstOf(start)
           G == [x \in Nat \X X |-> NextOf(x[2], start, goals, open)]
           Is(f) == f = [n \in Nat |-> IF n = 0 THEN [queue |-> <<start>>, from |-> [p \in {start} |-> Nil]]
                                       ELSE LET s == f[n - 1] IN
                                            IF Stopped(s, start, goals) THEN s ELSE Expanded(s, open)]
           search == CHOOSE f : Is(f)
<1>1. \E f : Is(f)
  <2>1. Recurs(X, first, G)
    <3>1. first \in X
      <4>1. <<start>> \in Seq(open \union {start})
        OBVIOUS
      <4>2. [p \in {start} |-> Nil] \in [{start} -> open \union {start, Nil}] /\ {start} \in SUBSET (open \union {start})
        OBVIOUS
      <4> QED BY <4>1, <4>2 DEF SearchType, FirstOf
    <3>2. \A s \in X : NextOf(s, start, goals, open) \in X
      BY ExpandedType DEF NextOf, Stopped
    <3> HIDE DEF X, first
    <3> QED BY <3>1, <3>2 DEF Recurs
  <2>2. PICK f : Values(f, X, first, G)
    <3> HIDE DEF X, G, first
    <3> QED BY <2>1, Recursion
  <2>3. f \in [Nat -> X] /\ f[0] = first /\ \A n \in Nat : f[n + 1] = NextOf(f[n], start, goals, open)
    <3> HIDE DEF X, first
    <3> QED BY <2>2 DEF Values
  <2>4. ASSUME NEW i \in Nat, i # 0 PROVE f[i] = NextOf(f[i - 1], start, goals, open)
    <3>1. i - 1 \in Nat /\ (i - 1) + 1 = i
      BY <2>4
    <3> QED BY <2>3, <3>1
  <2>5. f = [i \in Nat |-> f[i]]
    <3> HIDE DEF X
    <3> QED BY <2>3
  <2>6. Is(f)
    <3>1. f = [i \in Nat |-> IF i = 0 THEN first ELSE NextOf(f[i - 1], start, goals, open)]
      <4> HIDE DEF first, X
      <4> QED BY <2>3, <2>4, <2>5
    <3> QED BY <3>1 DEF FirstOf, NextOf
  <2> QED BY <2>6
<1>2. Is(search)
  <2> HIDE DEF Is
  <2> QED BY <1>1
<1>3. Searched(start, goals, open) = search[Cardinality(open) + 1]
  BY DEF Searched
<1> HIDE DEF search
<1>4. search[0] = first /\ \A n \in Nat : search[n + 1] = NextOf(search[n], start, goals, open)
  <2>1. \A i \in Nat : search[i] = IF i = 0 THEN first ELSE NextOf(search[i - 1], start, goals, open)
    BY <1>2 DEF FirstOf, NextOf
  <2> HIDE DEF first, Is
  <2> QED BY <2>1
<1> QED BY <1>3, <1>4

\* The points of the way back.
Retraces(f, from, start, point) ==
  /\ f \in [Nat -> DOMAIN from \ {start}] /\ f[0] = point
  /\ \A n \in Nat : f[n + 1] = IF from[f[n]] = start THEN f[n] ELSE from[f[n]]
  /\ Back(from, start, point) = f[Cardinality(DOMAIN from)]

LEMMA BackIs ==
  ASSUME NEW from, NEW start, NEW point \in DOMAIN from \ {start},
         \A p \in DOMAIN from \ {start} : from[p] \in DOMAIN from
  PROVE  \E f : Retraces(f, from, start, point)
<1> DEFINE X == DOMAIN from \ {start}
           Prior(p) == IF from[p] = start THEN p ELSE from[p]
           G == [x \in Nat \X X |-> Prior(x[2])]
           Is(f) == f = [n \in Nat |-> IF n = 0 THEN point
                                       ELSE LET p == f[n - 1] IN IF from[p] = start THEN p ELSE from[p]]
           back == CHOOSE f : Is(f)
<1>1. \E f : Is(f)
  <2>1. Recurs(X, point, G)
    <3>1. \A p \in X : Prior(p) \in X
      OBVIOUS
    <3> HIDE DEF Prior
    <3>2. point \in X
      OBVIOUS
    <3> HIDE DEF X
    <3> QED BY <3>1, <3>2 DEF Recurs
  <2>2. PICK f : Values(f, X, point, G)
    <3> HIDE DEF X, G
    <3> QED BY <2>1, Recursion
  <2>3. f \in [Nat -> X] /\ f[0] = point /\ \A n \in Nat : f[n + 1] = Prior(f[n])
    <3> HIDE DEF X, Prior
    <3> QED BY <2>2 DEF Values
  <2>4. ASSUME NEW i \in Nat, i # 0 PROVE f[i] = Prior(f[i - 1])
    <3>1. i - 1 \in Nat /\ (i - 1) + 1 = i
      BY <2>4
    <3> HIDE DEF Prior
    <3> QED BY <2>3, <3>1
  <2>5. f = [i \in Nat |-> f[i]]
    <3> HIDE DEF X
    <3> QED BY <2>3
  <2>6. Is(f)
    <3>1. f = [i \in Nat |-> IF i = 0 THEN point ELSE Prior(f[i - 1])]
      <4> HIDE DEF Prior, X
      <4> QED BY <2>3, <2>4, <2>5
    <3> QED BY <3>1
  <2> QED BY <2>6
<1>2. Is(back)
  <2> HIDE DEF Is
  <2> QED BY <1>1
<1>3. Back(from, start, point) = back[Cardinality(DOMAIN from)]
  BY DEF Back
<1> HIDE DEF back
<1>4. \A i \in Nat : back[i] = IF i = 0 THEN point ELSE Prior(back[i - 1])
  BY <1>2
<1>5. back[0] = point /\ \A n \in Nat : back[n + 1] = Prior(back[n])
  <2>1. \A n \in Nat : n + 1 \in Nat /\ n + 1 # 0 /\ (n + 1) - 1 = n
    OBVIOUS
  <2> HIDE DEF Prior, Is, X
  <2>2. \A n \in Nat : back[n + 1] = Prior(back[n])
    BY <1>4, <2>1
  <2> QED BY <1>4, <2>2
<1>6. \A n \in Nat : back[n] \in X
  <2> DEFINE T == {n \in Nat : back[n] \in X}
  <2>1. 0 \in T
    BY <1>5
  <2>2. \A n \in Nat : n \in T => n + 1 \in T
    BY <1>5
  <2> HIDE DEF T
  <2>3. Nat \subseteq T
    BY <2>1, <2>2, SetInduction
  <2> QED BY <2>3 DEF T
<1>7. back \in [Nat -> X]
  <2>1. back = [n \in Nat |-> back[n]]
    BY <1>2, <1>4
  <2> HIDE DEF X, Is
  <2> QED BY <1>6, <2>1
<1>8. Retraces(back, from, start, point)
  BY <1>3, <1>5, <1>7 DEF Retraces
<1> QED BY <1>8
-------------------------------------------------------------------------------
(* Breadth first: the points found lie in the order of their distances.       *)

\* Every point found has a way to the start, one step shorter for each point back.
Traced(from, d, n, start, open) ==
  /\ start \in DOMAIN from /\ DOMAIN from \subseteq open \union {start}
  /\ d \in [DOMAIN from -> 0..n] /\ d[start] = 0
  /\ \A p \in DOMAIN from \ {start} :
       from[p] \in DOMAIN from /\ p \in Around(from[p]) /\ d[p] = d[from[p]] + 1

\* The queue is sorted by distance and spans two of them at most.
Sorted(queue, d) ==
  \A i, j \in DOMAIN queue : i <= j => d[queue[i]] <= d[queue[j]] /\ d[queue[j]] <= d[queue[i]] + 1

\* A point that has left the queue is no goal, its neighbours are found, and none that
\* waits is nearer.
Left(p, queue, from, d, goals, open) ==
  /\ p \notin goals
  /\ \A c \in Around(p) \intersect open : c \in DOMAIN from /\ d[c] <= d[p] + 1
  /\ \A i \in DOMAIN queue : d[p] <= d[queue[i]]

Waits(p, queue) == \E i \in DOMAIN queue : queue[i] = p

\* n points have left the queue.
Wave(s, d, n, start, goals, open) ==
  /\ s.queue \in Seq(DOMAIN s.from)
  /\ IsFiniteSet(DOMAIN s.from) /\ Cardinality(DOMAIN s.from) = n + Len(s.queue)
  /\ Traced(s.from, d, n, start, open)
  /\ Sorted(s.queue, d)
  /\ \A p \in DOMAIN s.from : Waits(p, s.queue) \/ Left(p, s.queue, s.from, d, goals, open)

LEMMA WaveStarts ==
  ASSUME NEW start, NEW goals, NEW open
  PROVE  Wave(FirstOf(start), [p \in {start} |-> 0], 0, start, goals, open)
<1> DEFINE s == FirstOf(start)
           d == [p \in {start} |-> 0]
<1>1. s.queue = <<start>> /\ s.from = [p \in {start} |-> Nil] /\ DOMAIN s.from = {start}
  BY DEF FirstOf
<1>2. IsFiniteSet({start}) /\ Cardinality({start}) = 1
  BY FS_Singleton
<1>3. <<start>> \in Seq({start}) /\ Len(<<start>>) = 1 /\ DOMAIN <<start>> = {1} /\ <<start>>[1] = start
  OBVIOUS
<1>4. Traced(s.from, d, 0, start, open)
  BY <1>1 DEF Traced
<1>5. Sorted(s.queue, d)
  <2>1. d[start] = 0
    OBVIOUS
  <2> HIDE DEF s, d
  <2> QED BY <1>1, <1>3, <2>1 DEF Sorted
<1>6. \A p \in DOMAIN s.from : Waits(p, s.queue)
  <2> HIDE DEF s
  <2> QED BY <1>1, <1>3 DEF Waits
<1> HIDE DEF s, d
<1>7. Cardinality(DOMAIN s.from) = 0 + Len(s.queue) /\ s.queue \in Seq(DOMAIN s.from) /\ IsFiniteSet(DOMAIN s.from)
  BY <1>1, <1>2, <1>3
<1>8. Wave(s, d, 0, start, goals, open)
  BY <1>4, <1>5, <1>6, <1>7 DEF Wave
<1> QED BY <1>8 DEF s, d

LEMMA WaveGrows ==
  ASSUME NEW start, NEW goals, NEW open, open \union {start} \subseteq Int \X Int, start \notin goals,
         NEW n \in Nat, NEW s, NEW d, Wave(s, d, n, start, goals, open), ~Stopped(s, start, goals)
  PROVE  \E e : Wave(Expanded(s, open), e, n + 1, start, goals, open)
<1> DEFINE queue == s.queue
           from == s.from
           D == DOMAIN from
           at == Head(queue)
           wanted == open \ D
           new == Fresh(at, wanted)
           N == ToSet(new)
           queue2 == Tail(queue) \o new
           from2 == From(from, at, new)
           D2 == D \union N
           e == [p \in D2 |-> IF p \in D THEN d[p] ELSE d[at] + 1]
<1>1. /\ queue \in Seq(D) /\ IsFiniteSet(D) /\ Cardinality(D) = n + Len(queue)
      /\ Traced(from, d, n, start, open) /\ Sorted(queue, d)
      /\ \A p \in D : Waits(p, queue) \/ Left(p, queue, from, d, goals, open)
  BY DEF Wave
<1>2. queue # <<>> /\ (at = start \/ at \notin goals)
  BY DEF Stopped
<1>3. at = queue[1] /\ at \in D /\ Len(queue) \in Nat \ {0} /\ 1 \in DOMAIN queue /\ DOMAIN queue = 1..Len(queue)
  <2> HIDE DEF queue, D
  <2> QED BY <1>1, <1>2
<1>4. D \subseteq open \union {start} /\ start \in D /\ d \in [D -> 0..n] /\ d[start] = 0
      /\ \A p \in D \ {start} : from[p] \in D /\ p \in Around(from[p]) /\ d[p] = d[from[p]] + 1
  BY <1>1 DEF Traced
<1>5. at \in Int \X Int
  <2> HIDE DEF at, D
  <2> QED BY <1>3, <1>4
<1>6. new \in Seq(wanted) /\ N = Around(at) \intersect wanted /\ IsFiniteSet(N) /\ Cardinality(N) = Len(new)
  <2> HIDE DEF at, wanted
  <2> QED BY <1>5, FreshIs
<1>7. Expanded(s, open) = [queue |-> queue2, from |-> from2]
  BY DEF Expanded
<1>8. DOMAIN from2 = D2 /\ \A p \in D2 : from2[p] = IF p \in N THEN at ELSE from[p]
  BY <1>6 DEF From
<1>9. N \intersect D = {} /\ N \subseteq open
  BY <1>6
<1>10. \A i \in DOMAIN new : new[i] \in N
  BY DEF ToSet
<1>11. \A p \in N : \E i \in DOMAIN new : new[i] = p
  BY DEF ToSet
<1>12. Len(new) \in Nat /\ DOMAIN new = 1..Len(new)
  <2> HIDE DEF new, wanted
  <2> QED BY <1>6
<1> HIDE DEF N, new, at, from, queue, wanted
<1>13. queue2 \in Seq(D2) /\ Len(queue2) = (Len(queue) - 1) + Len(new) /\ DOMAIN queue2 = 1..Len(queue2)
       /\ \A i \in DOMAIN queue2 : queue2[i] = IF i <= Len(queue) - 1 THEN queue[i + 1] ELSE new[i - (Len(queue) - 1)]
  <2>1. Tail(queue) \in Seq(D2) /\ Len(Tail(queue)) = Len(queue) - 1
        /\ \A i \in 1..(Len(queue) - 1) : Tail(queue)[i] = queue[i + 1]
    <3> HIDE DEF D
    <3> QED BY <1>1, <1>2
  <2>2. new \in Seq(D2)
    <3> HIDE DEF D
    <3>1. \A i \in 1..Len(new) : new[i] \in D2
      BY <1>10, <1>12
    <3>2. new = [i \in 1..Len(new) |-> new[i]]
      <4>1. new \in Seq(wanted)
        BY <1>6
      <4>2. new = [i \in DOMAIN new |-> new[i]] /\ DOMAIN new = 1..Len(new)
        BY <4>1
      <4> QED BY <4>2
    <3> HIDE DEF D2
    <3>3. new \in [1..Len(new) -> D2]
      BY <3>1, <3>2
    <3> QED BY <1>12, <3>3
  <2> HIDE DEF D2
  <2> QED BY <1>3, <1>12, <2>1, <2>2
<1>14. IsFiniteSet(D2) /\ Cardinality(D2) = (n + 1) + Len(queue2)
  <2>1. IsFiniteSet(D2) /\ Cardinality(D2) = Cardinality(D) + Cardinality(N) - Cardinality(D \intersect N)
    <3> HIDE DEF D
    <3> QED BY <1>1, <1>6, FS_Union
  <2>2. Cardinality(D \intersect N) = 0
    <3>1. D \intersect N = {}
      BY <1>9
    <3> HIDE DEF D
    <3> QED BY <3>1, FS_EmptySet
  <2>3. Cardinality(D2) = Cardinality(D) + Cardinality(N)
    <3> HIDE DEF D, D2
    <3>1. Cardinality(D) \in Nat /\ Cardinality(N) \in Nat
      BY <1>1, <1>6, FS_CardinalityType
    <3> QED BY <2>1, <2>2, <3>1
  <2> HIDE DEF D, D2, queue2
  <2>4. Cardinality(D) = n + Len(queue) /\ Cardinality(N) = Len(new)
        /\ Len(queue2) = (Len(queue) - 1) + Len(new) /\ Len(queue) \in Nat /\ Len(new) \in Nat
    BY <1>1, <1>3, <1>6, <1>12, <1>13
  <2> QED BY <2>1, <2>3, <2>4
<1>15. /\ e \in [D2 -> 0..(n + 1)] /\ \A p \in D : e[p] = d[p] /\ p \in D2
       /\ \A p \in N : e[p] = d[at] + 1 /\ p \in D2 /\ p \notin D
  <2> HIDE DEF D
  <2>1. \A p \in D : d[p] \in 0..n /\ d[p] + 1 \in 0..(n + 1) /\ d[p] \in 0..(n + 1)
    BY <1>4
  <2> QED BY <1>3, <1>9, <2>1
<1> HIDE DEF e
<1>16. Traced(from2, e, n + 1, start, open)
  <2>1. start \in D2 /\ D2 \subseteq open \union {start} /\ e[start] = 0
    <3> HIDE DEF D
    <3> QED BY <1>4, <1>9, <1>15
  <2>2. ASSUME NEW p \in D2 \ {start}
        PROVE  from2[p] \in D2 /\ p \in Around(from2[p]) /\ e[p] = e[from2[p]] + 1
    <3>1. CASE p \in N
      <4>1. from2[p] = at /\ p \in Around(at)
        BY <1>6, <1>8, <3>1
      <4> HIDE DEF D, D2, from2
      <4> QED BY <1>3, <1>15, <3>1, <4>1
    <3>2. CASE p \notin N
      <4>1. p \in D /\ from2[p] = from[p]
        BY <1>8, <3>2
      <4> HIDE DEF D, D2, from2
      <4> QED BY <1>4, <1>15, <4>1
    <3> QED BY <3>1, <3>2
  <2> HIDE DEF D2, from2
  <2> QED BY <1>8, <1>15, <2>1, <2>2 DEF Traced
<1>17. ASSUME NEW i \in DOMAIN queue2
       PROVE  /\ queue2[i] \in D2 /\ d[at] <= e[queue2[i]] /\ e[queue2[i]] <= d[at] + 1
              /\ i > Len(queue) - 1 => e[queue2[i]] = d[at] + 1
  <2>1. d[at] \in Nat
    BY <1>3, <1>4
  <2>2. CASE i <= Len(queue) - 1
    <3>1. i + 1 \in DOMAIN queue /\ queue2[i] = queue[i + 1] /\ 1 <= i + 1 /\ i \in Nat
      <4> HIDE DEF queue2
      <4> QED BY <1>3, <1>12, <1>13, <2>2
    <3>2. queue[i + 1] \in D
      <4> HIDE DEF D
      <4> QED BY <1>1, <1>3, <3>1
    <3>3. d[at] <= d[queue[i + 1]] /\ d[queue[i + 1]] <= d[at] + 1
      BY <1>1, <1>3, <3>1 DEF Sorted
    <3> HIDE DEF queue2, D, D2
    <3> QED BY <1>15, <2>2, <3>1, <3>2, <3>3, <1>3
  <2>3. CASE i > Len(queue) - 1
    <3>1. i - (Len(queue) - 1) \in DOMAIN new /\ queue2[i] = new[i - (Len(queue) - 1)]
      <4> HIDE DEF queue2
      <4> QED BY <1>3, <1>12, <1>13, <2>3
    <3> HIDE DEF queue2, D, D2
    <3>2. queue2[i] \in N
      BY <1>10, <3>1
    <3> QED BY <1>15, <2>1, <3>2
  <2>4. i \in Int /\ Len(queue) \in Int
    <3> HIDE DEF queue2
    <3> QED BY <1>3, <1>12, <1>13
  <2> QED BY <2>2, <2>3, <2>4
<1>18. Sorted(queue2, e)
  <2> SUFFICES ASSUME NEW i \in DOMAIN queue2, NEW j \in DOMAIN queue2, i <= j
               PROVE  e[queue2[i]] <= e[queue2[j]] /\ e[queue2[j]] <= e[queue2[i]] + 1
    BY DEF Sorted
  <2> HIDE DEF queue2, D2
  <2>1. d[at] \in Nat /\ e[queue2[i]] \in Nat /\ e[queue2[j]] \in Nat /\ i \in Nat /\ j \in Nat
    <3> HIDE DEF D
    <3> QED BY <1>3, <1>4, <1>12, <1>13, <1>15, <1>17
  <2>2. e[queue2[j]] <= e[queue2[i]] + 1
    BY <1>17, <2>1
  <2>3. CASE j > Len(queue) - 1
    BY <1>17, <2>1, <2>2, <2>3
  <2>4. CASE ~(j > Len(queue) - 1)
    <3>1. i + 1 \in DOMAIN queue /\ j + 1 \in DOMAIN queue /\ i + 1 <= j + 1
          /\ queue2[i] = queue[i + 1] /\ queue2[j] = queue[j + 1]
      BY <1>3, <1>12, <1>13, <2>1, <2>4
    <3>2. d[queue[i + 1]] <= d[queue[j + 1]]
      BY <1>1, <3>1 DEF Sorted
    <3>3. queue[i + 1] \in D /\ queue[j + 1] \in D
      <4> HIDE DEF D
      <4> QED BY <1>1, <1>3, <3>1
    <3> HIDE DEF D
    <3> QED BY <1>15, <2>2, <3>1, <3>2, <3>3
  <2> QED BY <2>3, <2>4
<1>19. \A c \in Around(at) \intersect open : c \in D2 /\ e[c] <= d[at] + 1
  <2> SUFFICES ASSUME NEW c \in Around(at) \intersect open PROVE c \in D2 /\ e[c] <= d[at] + 1
    OBVIOUS
  <2>0. d[at] \in Nat
    BY <1>3, <1>4
  <2>1. CASE c \in D
    <3>1. d[c] \in Nat
      BY <1>4, <2>1
    <3>2. CASE Waits(c, queue)
      <4>1. PICK i \in DOMAIN queue : queue[i] = c
        BY <3>2 DEF Waits
      <4>2. d[c] <= d[at] + 1
        BY <1>1, <1>3, <4>1 DEF Sorted
      <4> HIDE DEF D, D2
      <4> QED BY <1>15, <2>1, <4>2
    <3>3. CASE Left(c, queue, from, d, goals, open)
      <4>1. d[c] <= d[at]
        BY <1>3, <3>3 DEF Left
      <4> HIDE DEF D, D2
      <4> QED BY <1>15, <2>0, <2>1, <3>1, <4>1
    <3> QED BY <1>1, <2>1, <3>2, <3>3
  <2>2. CASE c \notin D
    <3>1. c \in N
      BY <1>6, <2>2 DEF wanted
    <3> HIDE DEF D, D2
    <3> QED BY <1>15, <2>0, <3>1
  <2> QED BY <2>1, <2>2
<1>20. ASSUME NEW p \in D2 PROVE Waits(p, queue2) \/ Left(p, queue2, from2, e, goals, open)
  <2>0. d[at] \in Nat
    BY <1>3, <1>4
  <2>1. CASE p \in N
    <3>1. PICK i \in DOMAIN new : new[i] = p
      BY <1>11, <2>1
    <3>2. i + (Len(queue) - 1) \in DOMAIN queue2 /\ queue2[i + (Len(queue) - 1)] = p
      <4> HIDE DEF queue2
      <4>1. i \in 1..Len(new)
        BY <1>12
      <4>2. i + (Len(queue) - 1) \in DOMAIN queue2 /\ ~(i + (Len(queue) - 1) <= Len(queue) - 1)
            /\ (i + (Len(queue) - 1)) - (Len(queue) - 1) = i
        BY <1>3, <1>12, <1>13, <4>1
      <4> QED BY <1>13, <3>1, <4>2
    <3> QED BY <3>2 DEF Waits
  <2>2. CASE p = at
    <3>1. p \notin goals
      BY <1>2, <2>2
    <3>2. e[p] = d[at]
      BY <1>3, <1>15, <2>2
    <3>3. \A i \in DOMAIN queue2 : e[p] <= e[queue2[i]]
      BY <1>17, <3>2
    <3> HIDE DEF D2, D, queue2
    <3>4. \A c \in Around(p) \intersect open : c \in DOMAIN from2 /\ e[c] <= e[p] + 1
      BY <1>8, <1>19, <2>2, <3>2
    <3> QED BY <3>1, <3>3, <3>4 DEF Left
  <2>3. CASE p \notin N /\ p # at /\ Waits(p, queue)
    <3>1. PICK i \in DOMAIN queue : queue[i] = p
      BY <2>3 DEF Waits
    <3>2. i # 1 /\ i \in 1..Len(queue)
      BY <1>3, <2>3, <3>1
    <3>3. i - 1 \in DOMAIN queue2 /\ queue2[i - 1] = p
      <4> HIDE DEF queue2
      <4> QED BY <1>3, <1>12, <1>13, <3>1, <3>2
    <3> QED BY <3>3 DEF Waits
  <2>4. CASE p \notin N /\ ~Waits(p, queue)
    <3>1. p \in D /\ Left(p, queue, from, d, goals, open)
      BY <1>1, <2>4
    <3>2. p \notin goals /\ d[p] <= d[at]
          /\ \A c \in Around(p) \intersect open : c \in D /\ d[c] <= d[p] + 1
      BY <1>3, <3>1 DEF Left
    <3>3. e[p] = d[p] /\ d[p] \in Nat
      BY <1>4, <1>15, <3>1
    <3> HIDE DEF D2, D
    <3>4. \A i \in DOMAIN queue2 : e[p] <= e[queue2[i]]
      <4>1. \A i \in DOMAIN queue2 : e[queue2[i]] \in Nat /\ d[at] <= e[queue2[i]]
        BY <1>15, <1>17
      <4> HIDE DEF queue2
      <4> QED BY <2>0, <3>2, <3>3, <4>1
    <3>5. \A c \in Around(p) \intersect open : c \in DOMAIN from2 /\ e[c] <= e[p] + 1
      BY <1>8, <1>15, <3>2, <3>3
    <3> QED BY <3>2, <3>4, <3>5 DEF Left
  <2> QED BY <2>1, <2>2, <2>3, <2>4
<1> HIDE DEF D, D2, queue2, from2
<1>21. Wave([queue |-> queue2, from |-> from2], e, n + 1, start, goals, open)
  <2> DEFINE t == [queue |-> queue2, from |-> from2]
  <2>1. t.queue = queue2 /\ t.from = from2
    OBVIOUS
  <2> HIDE DEF t
  <2>2. Wave(t, e, n + 1, start, goals, open)
    BY <1>8, <1>13, <1>14, <1>16, <1>18, <1>20, <2>1 DEF Wave
  <2> QED BY <2>2 DEF t
<1> QED BY <1>7, <1>21
\* The search stops by itself before its bound.
LEMMA SearchEnds ==
  ASSUME NEW start, NEW goals, NEW open, open \union {start} \subseteq Int \X Int, IsFiniteSet(open),
         start \notin goals
  PROVE  \E n \in 0..(Cardinality(open) + 1) : \E d :
           /\ Wave(Searched(start, goals, open), d, n, start, goals, open)
           /\ Stopped(Searched(start, goals, open), start, goals)
<1>1. PICK f : /\ f[0] = FirstOf(start)
               /\ \A n \in Nat : f[n + 1] = NextOf(f[n], start, goals, open)
               /\ Searched(start, goals, open) = f[Cardinality(open) + 1]
  BY SearchedIs
<1> DEFINE N == Cardinality(open) + 1
           W(s, d, n) == Wave(s, d, n, start, goals, open)
           T == {m \in Nat : \E n \in 0..m : \E d : W(f[m], d, n) /\ (n = m \/ Stopped(f[m], start, goals))}
<1>2. 0 \in T
  <2>1. W(f[0], [p \in {start} |-> 0], 0)
    BY <1>1, WaveStarts
  <2> HIDE DEF W
  <2> QED BY <2>1
<1>3. ASSUME NEW m \in Nat, m \in T PROVE m + 1 \in T
  <2>0. PICK n \in 0..m : \E d : W(f[m], d, n) /\ (n = m \/ Stopped(f[m], start, goals))
    BY <1>3
  <2>1. PICK d : W(f[m], d, n) /\ (n = m \/ Stopped(f[m], start, goals))
    BY <2>0
  <2>2. f[m + 1] = NextOf(f[m], start, goals, open)
    BY <1>1
  <2>3. CASE Stopped(f[m], start, goals)
    <3>1. f[m + 1] = f[m] /\ n \in 0..(m + 1)
      BY <2>2, <2>3 DEF NextOf
    <3> HIDE DEF W
    <3> QED BY <2>1, <2>3, <3>1
  <2>4. CASE ~Stopped(f[m], start, goals)
    <3>1. n = m /\ f[m + 1] = Expanded(f[m], open)
      BY <2>1, <2>2, <2>4 DEF NextOf
    <3> DEFINE s == f[m]
    <3>2. Wave(s, d, m, start, goals, open) /\ ~Stopped(s, start, goals)
      BY <2>1, <2>4, <3>1
    <3> HIDE DEF s
    <3>3. \E e : Wave(Expanded(s, open), e, m + 1, start, goals, open)
      BY <3>2, WaveGrows
    <3>4. PICK e : W(f[m + 1], e, m + 1)
      BY <3>1, <3>3 DEF s
    <3>5. m + 1 \in 0..(m + 1)
      OBVIOUS
    <3> HIDE DEF W
    <3> QED BY <3>4, <3>5
  <2> QED BY <2>3, <2>4
<1> HIDE DEF T
<1>4. N \in Nat
  BY FS_CardinalityType
<1> HIDE DEF N
<1>5. N \in T
  BY <1>2, <1>3, <1>4, SetInduction
<1>9. PICK n \in 0..N : \E d : W(f[N], d, n) /\ (n = N \/ Stopped(f[N], start, goals))
  BY <1>5 DEF T
<1>6. PICK d : W(f[N], d, n) /\ (n = N \/ Stopped(f[N], start, goals))
  BY <1>9
<1>7. Stopped(f[N], start, goals)
  <2> SUFFICES ASSUME n = N PROVE f[N].queue = <<>>
    BY <1>6 DEF Stopped
  <2> DEFINE D == DOMAIN f[N].from
             queue == f[N].queue
  <2>1. Cardinality(D) = N + Len(queue) /\ queue \in Seq(D)
    BY <1>6 DEF Wave
  <2>2. D \subseteq open \union {start}
    BY <1>6 DEF Wave, Traced
  <2> HIDE DEF D, queue
  <2>3. Cardinality(D) <= N
    <3> DEFINE P == open \union {start}
    <3>1. IsFiniteSet(P) /\ Cardinality(P) <= N
      <4>1. Cardinality(open) \in Nat
        BY FS_CardinalityType
      <4>2. IsFiniteSet(P) /\ Cardinality(P) = IF start \in open THEN Cardinality(open) ELSE Cardinality(open) + 1
        BY FS_AddElement
      <4> QED BY <4>1, <4>2 DEF N
    <3>2. D \in SUBSET P
      BY <2>2
    <3> HIDE DEF P
    <3>3. Cardinality(D) <= Cardinality(P) /\ IsFiniteSet(D)
      BY <3>1, <3>2, FS_Subset
    <3>4. Cardinality(D) \in Nat /\ Cardinality(P) \in Nat
      BY <3>1, <3>3, FS_CardinalityType
    <3> QED BY <1>4, <3>1, <3>3, <3>4
  <2>4. Len(queue) = 0
    <3>1. Len(queue) \in Nat
      BY <2>1
    <3> QED BY <1>4, <2>1, <2>3, <3>1
  <2>5. queue = <<>>
    BY <2>1, <2>4
  <2> QED BY <2>5 DEF queue
<1>8. Searched(start, goals, open) = f[N]
  BY <1>1 DEF N
<1> QED BY <1>6, <1>7, <1>8 DEF N

\* No point found is nearer to a goal than where the search stops.
LEMMA NoneNearer ==
  ASSUME NEW start, NEW goals, NEW open, NEW n \in Nat, NEW s, NEW d,
         Wave(s, d, n, start, goals, open),
         NEW m \in Nat, NEW p \in DOMAIN s.from, p \in Within(goals, open, m)
  PROVE  s.queue # <<>> /\ d[p] + m >= d[Head(s.queue)]
<1> DEFINE queue == s.queue
           D == DOMAIN s.from
           Far(k) == \A q \in D : q \in Within(goals, open, k)
                                    => queue # <<>> /\ d[q] + k >= d[Head(queue)]
           T == {k \in Nat : Far(k)}
<1>1. /\ queue \in Seq(D) /\ d \in [D -> 0..n] /\ Sorted(queue, d)
      /\ \A q \in D : Waits(q, queue) \/ Left(q, queue, s.from, d, goals, open)
  BY DEF Wave, Traced
<1>2. ASSUME queue # <<>>
      PROVE  /\ 1 \in DOMAIN queue /\ queue[1] = Head(queue) /\ Head(queue) \in D
             /\ \A i \in DOMAIN queue : 1 <= i
  <2> HIDE DEF queue, D
  <2> QED BY <1>1, <1>2
<1>3. ASSUME NEW q \in D, Waits(q, queue) PROVE queue # <<>> /\ d[q] >= d[Head(queue)]
  <2>1. PICK i \in DOMAIN queue : queue[i] = q
    BY <1>3 DEF Waits
  <2>2. queue # <<>>
    <3> HIDE DEF queue, D
    <3> QED BY <1>1, <2>1
  <2>3. d[Head(queue)] <= d[q]
    BY <1>1, <1>2, <2>1, <2>2 DEF Sorted
  <2>4. d[Head(queue)] \in Int /\ d[q] \in Int
    <3> HIDE DEF queue, D
    <3> QED BY <1>1, <1>2, <2>2
  <2> QED BY <2>2, <2>3, <2>4
<1>4. \A q \in D : d[q] \in Nat
  BY <1>1
<1> HIDE DEF queue, D
<1>5. 0 \in T
  <2> SUFFICES ASSUME NEW q \in D, q \in Within(goals, open, 0)
               PROVE  queue # <<>> /\ d[q] + 0 >= d[Head(queue)]
    OBVIOUS
  <2>1. q \in goals
    BY WithinIs
  <2>2. Waits(q, queue)
    BY <1>1, <2>1 DEF Left
  <2>3. queue # <<>> /\ d[q] >= d[Head(queue)]
    BY <1>3, <2>2
  <2> QED BY <1>4, <2>3
<1>6. ASSUME NEW k \in Nat, k \in T PROVE k + 1 \in T
  <2> SUFFICES ASSUME NEW q \in D, q \in Within(goals, open, k + 1)
               PROVE  queue # <<>> /\ d[q] + (k + 1) >= d[Head(queue)]
    OBVIOUS
  <2>1. q \in Within(goals, open, k) \/ \E r \in Around(q) : r \in Within(goals, open, k)
    BY WithinIs
  <2>2. Far(k)
    BY <1>6
  <2>3. CASE Waits(q, queue)
    <3>1. queue # <<>> /\ d[q] >= d[Head(queue)] /\ d[q] \in Nat /\ d[Head(queue)] \in Nat
      BY <1>2, <1>3, <1>4, <2>3
    <3> QED BY <3>1
  <2>4. CASE Left(q, queue, s.from, d, goals, open)
    <3>1. CASE q \in Within(goals, open, k)
      <4>1. queue # <<>> /\ d[q] + k >= d[Head(queue)] /\ d[q] \in Nat
        BY <1>4, <2>2, <3>1
      <4>2. d[Head(queue)] \in Nat
        BY <1>2, <1>4, <4>1
      <4> QED BY <4>1, <4>2
    <3>2. CASE \E r \in Around(q) : r \in Within(goals, open, k)
      <4>1. PICK r \in Around(q) : r \in Within(goals, open, k)
        BY <3>2
      <4>2. r \in open
        BY <4>1, WithinIs
      <4>3. r \in D /\ d[r] <= d[q] + 1
        BY <2>4, <4>1, <4>2 DEF Left, D
      <4>4. queue # <<>> /\ d[r] + k >= d[Head(queue)] /\ d[r] \in Nat /\ d[q] \in Nat
        BY <1>4, <2>2, <4>1, <4>3
      <4>5. d[Head(queue)] \in Nat
        BY <1>2, <1>4, <4>4
      <4> QED BY <4>3, <4>4, <4>5
    <3> QED BY <2>1, <3>1, <3>2
  <2> QED BY <1>1, <2>3, <2>4
<1> HIDE DEF T
<1>7. m \in T
  BY <1>5, <1>6, SetInduction
<1>8. Far(m)
  BY <1>7 DEF T
<1> QED BY <1>8 DEF queue, D

\* From a goal, the way back leads to a neighbour of the start, as far as the goal is.
LEMMA WayBack ==
  ASSUME NEW start, NEW goals, NEW open, NEW n \in Nat, NEW s, NEW d,
         Wave(s, d, n, start, goals, open), start \notin goals,
         s.queue # <<>>, Head(s.queue) \in goals
  PROVE  LET step == Back(s.from, start, Head(s.queue)) IN
         /\ step \in Around(start)
         /\ d[Head(s.queue)] \in 1..n
         /\ step \in Within(goals, open, d[Head(s.queue)] - 1)
<1> DEFINE from == s.from
           D == DOMAIN from
           goal == Head(s.queue)
           m == d[goal]
<1>1. /\ s.queue \in Seq(D) /\ Cardinality(D) = n + Len(s.queue)
      /\ start \in D /\ D \subseteq open \union {start}
      /\ d \in [D -> 0..n] /\ d[start] = 0
      /\ \A p \in D \ {start} : from[p] \in D /\ p \in Around(from[p]) /\ d[p] = d[from[p]] + 1
  BY DEF Wave, Traced
<1>2. goal \in D /\ goal # start /\ Len(s.queue) \in Nat
  <2>1. goal \in D /\ Len(s.queue) \in Nat
    <3> DEFINE queue == s.queue
    <3>1. queue \in Seq(D) /\ queue # <<>>
      BY <1>1
    <3> HIDE DEF queue, D
    <3>2. Head(queue) \in D /\ Len(queue) \in Nat
      BY <3>1
    <3> QED BY <3>2 DEF queue
  <2> QED BY <2>1
<1> HIDE DEF goal, from, D
<1>3. \A p \in D : d[p] \in 0..n
  BY <1>1
<1>4. \A p \in D \ {start} : d[p] \in 1..n /\ p \in open
  <2> SUFFICES ASSUME NEW p \in D \ {start} PROVE d[p] \in 1..n /\ p \in open
    OBVIOUS
  <2>1. d[from[p]] \in 0..n /\ d[p] \in 0..n /\ d[p] = d[from[p]] + 1
    BY <1>1, <1>3
  <2> QED BY <1>1, <2>1
<1>5. m \in 1..n
  BY <1>2, <1>4
<1> HIDE DEF m
<1>6. PICK back : /\ back \in [Nat -> D \ {start}] /\ back[0] = goal
                  /\ \A k \in Nat : back[k + 1] = IF from[back[k]] = start THEN back[k] ELSE from[back[k]]
                  /\ Back(from, start, goal) = back[Cardinality(D)]
  <2>1. goal \in DOMAIN from \ {start} /\ \A p \in DOMAIN from \ {start} : from[p] \in DOMAIN from
    BY <1>1, <1>2 DEF D
  <2>2. \E f : Retraces(f, from, start, goal)
    BY <2>1, BackIs
  <2> QED BY <2>2 DEF D, Retraces
<1>16. \A k \in Nat : back[k] \in D \ {start}
  BY <1>6
<1>17. \A k \in Nat : back[k + 1] = IF from[back[k]] = start THEN back[k] ELSE from[back[k]]
  BY <1>6
<1> DEFINE K == Cardinality(D)
           Good(k) == \E j \in 0..k : /\ j < m /\ d[back[k]] = m - j
                                      /\ back[k] \in Within(goals, open, j)
                                      /\ j = k \/ from[back[k]] = start
           T == {k \in Nat : Good(k)}
<1>7. 0 \in T
  <2>1. back[0] \in Within(goals, open, 0)
    <3>1. goal \in open /\ goal \in goals
      BY <1>2, <1>4 DEF goal
    <3> QED BY <1>6, <3>1, WithinIs
  <2>2. d[back[0]] = m
    BY <1>6 DEF m
  <2>3. 0 \in 0..0 /\ 0 < m /\ d[back[0]] = m - 0
    BY <1>5, <2>2
  <2> QED BY <2>1, <2>3
<1>8. ASSUME NEW k \in Nat, k \in T PROVE k + 1 \in T
  <2>1. PICK j \in 0..k : /\ j < m /\ d[back[k]] = m - j
                          /\ back[k] \in Within(goals, open, j)
                          /\ j = k \/ from[back[k]] = start
    BY <1>8
  <2>2. back[k] \in D \ {start} /\ back[k + 1] \in D \ {start}
    BY <1>16
  <2>3. CASE from[back[k]] = start
    <3>1. back[k + 1] = back[k] /\ j \in 0..(k + 1)
      <4>1. back[k + 1] = back[k]
        BY <1>17, <2>3
      <4> QED BY <4>1
    <3>2. Good(k + 1)
      BY <2>1, <2>3, <3>1
    <3> QED BY <3>2
  <2>4. CASE from[back[k]] # start
    <3> DEFINE p == back[k]
               q == back[k + 1]
    <3>1. q = from[p] /\ j = k
      BY <1>17, <2>1, <2>4
    <3>2. p \in Around(q) /\ d[p] = d[q] + 1 /\ d[q] \in 1..n /\ q \in open
      BY <1>1, <1>4, <2>2, <3>1
    <3>3. q \in Within(goals, open, k + 1)
      <4> HIDE DEF p, q
      <4>1. p \in Within(goals, open, k)
        BY <2>1, <3>1 DEF p
      <4>2. q \in open /\ Around(q) \intersect Within(goals, open, k) # {}
        BY <3>2, <4>1
      <4> QED BY <4>2, WithinNext
    <3>4. k + 1 < m /\ d[q] = m - (k + 1)
      BY <1>5, <2>1, <3>1, <3>2
    <3>5. k + 1 \in 0..(k + 1)
      OBVIOUS
    <3>6. Good(k + 1)
      BY <3>3, <3>4, <3>5
    <3> QED BY <3>6
  <2> QED BY <2>3, <2>4
<1>9. K \in Nat /\ K >= m
  BY <1>1, <1>2, <1>5
<1> HIDE DEF T
<1>10. K \in T
  <2> HIDE DEF K
  <2> QED BY <1>7, <1>8, <1>9, SetInduction
<1> HIDE DEF K
<1>11. PICK j \in 0..K : /\ j < m /\ d[back[K]] = m - j
                         /\ back[K] \in Within(goals, open, j)
                         /\ j = K \/ from[back[K]] = start
  BY <1>10 DEF T
<1>12. from[back[K]] = start
  BY <1>5, <1>9, <1>11
<1>13. back[K] \in Around(start) /\ d[back[K]] = 1
  <2>1. back[K] \in D \ {start}
    BY <1>6, <1>9
  <2>2. back[K] \in Around(start) /\ d[back[K]] = d[start] + 1
    BY <1>1, <1>12, <2>1
  <2> QED BY <1>1, <2>2
<1>14. j = m - 1
  BY <1>5, <1>9, <1>11, <1>13
<1>15. Back(from, start, goal) = back[K]
  BY <1>6 DEF K
<1> QED BY <1>5, <1>11, <1>13, <1>14, <1>15 DEF from, goal, m
\* _shortest_step: over any finite set of open points and any goals that are not under
\* the start, the step found begins a shortest way to a goal, and no step is found only
\* when no neighbour of the start leads to one.
LEMMA ShortestIs ==
  ASSUME NEW start, NEW goals, NEW open, open \union {start} \subseteq Int \X Int, IsFiniteSet(open),
         start \notin goals
  PROVE  IsShortest(ShortestStep(start, goals, open), start, goals, open)
<1> DEFINE N == Cardinality(open)
           s == Searched(start, goals, open)
           step == ShortestStep(start, goals, open)
<1>1. N \in Nat
  BY FS_CardinalityType
<1>2. PICK n \in 0..(N + 1) : \E d : Wave(s, d, n, start, goals, open) /\ Stopped(s, start, goals)
  BY SearchEnds
<1>3. PICK d : Wave(s, d, n, start, goals, open) /\ Stopped(s, start, goals)
  BY <1>2
<1>4. step = IF goals = {} \/ s.queue = <<>> THEN Nil ELSE Back(s.from, start, Head(s.queue))
  BY DEF ShortestStep
<1> HIDE DEF s, step, N
<1>5. /\ d \in [DOMAIN s.from -> 0..n] /\ start \in DOMAIN s.from /\ d[start] = 0
      /\ s.queue \in Seq(DOMAIN s.from)
      /\ Waits(start, s.queue) \/ Left(start, s.queue, s.from, d, goals, open)
  BY <1>3 DEF Wave, Traced
<1>6. n \in Nat
  BY <1>1, <1>2
<1>7. ASSUME NEW c \in Around(start), NEW m \in Nat, c \in Within(goals, open, m)
      PROVE  s.queue # <<>> /\ m + 1 >= d[Head(s.queue)]
  <2>1. c \in open
    BY <1>7, WithinIs
  <2>2. CASE Waits(start, s.queue)
    <3>1. PICK i \in DOMAIN s.queue : s.queue[i] = start
      BY <2>2 DEF Waits
    <3> DEFINE queue == s.queue
    <3>2. queue # <<>> /\ 1 \in DOMAIN queue /\ 1 <= i /\ queue[1] = Head(queue) /\ Head(queue) \in DOMAIN s.from
      <4>1. queue \in Seq(DOMAIN s.from) /\ i \in DOMAIN queue
        BY <1>5, <3>1
      <4> HIDE DEF queue
      <4> QED BY <4>1
    <3>3. d[Head(queue)] <= 0
      BY <1>3, <1>5, <3>1, <3>2 DEF Wave, Sorted
    <3>4. d[Head(queue)] \in Nat
      BY <1>5, <3>2
    <3> QED BY <3>2, <3>3, <3>4
  <2>3. CASE Left(start, s.queue, s.from, d, goals, open)
    <3>1. c \in DOMAIN s.from /\ d[c] <= 1
      BY <1>5, <1>7, <2>1, <2>3 DEF Left
    <3>2. s.queue # <<>> /\ d[c] + m >= d[Head(s.queue)]
      BY <1>3, <1>6, <1>7, <3>1, NoneNearer
    <3>3. Head(s.queue) \in DOMAIN s.from
      <4> DEFINE queue == s.queue
      <4>1. queue \in Seq(DOMAIN s.from) /\ queue # <<>>
        BY <1>5, <3>2
      <4> HIDE DEF queue
      <4>2. Head(queue) \in DOMAIN s.from
        BY <4>1
      <4> QED BY <4>2 DEF queue
    <3>4. d[c] \in Nat /\ d[Head(s.queue)] \in Nat
      BY <1>5, <3>1, <3>3
    <3> QED BY <3>1, <3>2, <3>4
  <2> QED BY <1>5, <2>2, <2>3
<1>8. CASE goals # {} /\ s.queue # <<>>
  <2> DEFINE goal == Head(s.queue)
             m == d[goal]
  <2>1. step = Back(s.from, start, goal) /\ goal \in goals /\ goal # start
    BY <1>3, <1>4, <1>8 DEF Stopped
  <2>2. step \in Around(start) /\ m \in 1..n /\ step \in Within(goals, open, m - 1)
    BY <1>3, <1>6, <1>8, <2>1, WayBack
  <2> HIDE DEF m, goal
  <2>3. m - 1 \in 0..N /\ step \in Within(goals, open, m - 1) /\ m - 1 \in Nat
    BY <1>1, <1>2, <2>2
  <2>4. ASSUME m - 1 > 0 PROVE Around(start) \intersect Within(goals, open, (m - 1) - 1) = {}
    <3> SUFFICES ASSUME NEW c \in Around(start), c \in Within(goals, open, (m - 1) - 1) PROVE FALSE
      OBVIOUS
    <3> DEFINE k == (m - 1) - 1
    <3>1. k \in Nat /\ k + 1 < m
      BY <2>2, <2>3, <2>4
    <3> HIDE DEF k
    <3>2. k + 1 >= m
      BY <1>7, <3>1 DEF m, goal, k
    <3>3. m \in Int
      BY <2>2
    <3> QED BY <3>1, <3>2, <3>3
  <2>5. step # Nil
    <3>1. step \in Int \X Int
      <4>1. step \in open
        BY <2>3, WithinIs
      <4> QED BY <4>1
    <3> QED BY <3>1, NilAssumption
  <2>6. IsShortest(step, start, goals, open)
    BY <2>2, <2>3, <2>4, <2>5 DEF IsShortest, N
  <2> QED BY <2>6 DEF step
<1>9. CASE s.queue = <<>>
  <2>1. Around(start) \intersect Within(goals, open, N) = {}
    BY <1>1, <1>7, <1>9
  <2>2. step = Nil
    BY <1>4, <1>9
  <2>3. IsShortest(step, start, goals, open)
    BY <2>1, <2>2 DEF IsShortest, N
  <2> QED BY <2>3 DEF step
<1>10. CASE goals = {}
  <2> DEFINE T == {k \in Nat : Within(goals, open, k) = {}}
  <2>1. 0 \in T
    BY <1>10, WithinIs
  <2>2. ASSUME NEW k \in Nat, k \in T PROVE k + 1 \in T
    <3>1. Within(goals, open, k) = {}
      BY <2>2
    <3>2. ASSUME NEW p \in Within(goals, open, k + 1) PROVE FALSE
      <4>1. p \in Within(goals, open, k) \/ \E r \in Around(p) : r \in Within(goals, open, k)
        BY <3>2, WithinPrior
      <4> QED BY <3>1, <4>1
    <3> QED BY <3>2
  <2> HIDE DEF T
  <2>3. N \in T
    BY <1>1, <2>1, <2>2, SetInduction
  <2>4. Within(goals, open, N) = {} /\ step = Nil
    BY <1>4, <1>10, <2>3 DEF T
  <2>5. IsShortest(step, start, goals, open)
    BY <2>4 DEF IsShortest, N
  <2> QED BY <2>5 DEF step
<1> QED BY <1>8, <1>9, <1>10
-------------------------------------------------------------------------------
(* The game that is played.                                                   *)

Messages == {"staircase", "lethal", "nearby", "done exploring"}

Shapes ==
  [level : Levels, trouble : {"none", "poison", "zot", "piety"}, depth : Int, at : Int \X Int,
   revealed : BOOLEAN, foe : BOOLEAN, hp : Int, status : {{}, {"Berserk"}, {"-Berserk"}},
   messages : SUBSET Messages, menu : Menus \union {Nil}, mode : Int, asked : BOOLEAN, passed : BOOLEAN]

\* A game: the player is on a point of the level.
Games == {w \in Shapes : w.at \in DOMAIN w.level}

WorldInv ==
  /\ policy \in {"scripted", "curriculum", "gated"}
  /\ world = NoWorld \/ world \in Games

LEMMA LevelIs ==
  ASSUME NEW level \in Levels
  PROVE  /\ level \in [DOMAIN level -> {"floor", "wall", "door", "stairs", "fumes"}]
         /\ DOMAIN level \subseteq Int \X Int /\ IsFiniteSet(DOMAIN level)
         /\ Entrance \in DOMAIN level /\ Lair \in DOMAIN level
BY CaseAssumption

LEMMA EnteredType ==
  ASSUME NEW level \in Levels, NEW trouble \in {"none", "poison", "zot", "piety"}, NEW depth \in Int,
         NEW hp \in Int, NEW status \in {{}, {"Berserk"}, {"-Berserk"}}
  PROVE  Entered(level, trouble, depth, hp, status) \in Games
<1>1. Entrance \in DOMAIN level /\ Entrance \in Int \X Int
  BY LevelIs
<1>2. Entered(level, trouble, depth, hp, status) \in Shapes
  BY <1>1 DEF Entered, Shapes
<1> QED BY <1>1, <1>2 DEF Games, Entered

Fields(w) ==
  [level |-> w.level, trouble |-> w.trouble, depth |-> w.depth, at |-> w.at, revealed |-> w.revealed,
   foe |-> w.foe, hp |-> w.hp, status |-> w.status, messages |-> w.messages, menu |-> w.menu,
   mode |-> w.mode, asked |-> w.asked, passed |-> w.passed]

LEMMA ShapeIs ==
  ASSUME NEW w \in Shapes
  PROVE  /\ w = Fields(w)
         /\ w.level \in Levels /\ w.depth \in Int /\ w.at \in Int \X Int
         /\ w.trouble \in {"none", "poison", "zot", "piety"} /\ w.status \in {{}, {"Berserk"}, {"-Berserk"}}
         /\ w.revealed \in BOOLEAN /\ w.foe \in BOOLEAN /\ w.hp \in Int /\ w.messages \in SUBSET Messages
         /\ w.menu \in Menus \union {Nil} /\ w.mode \in Int /\ w.asked \in BOOLEAN /\ w.passed \in BOOLEAN
BY DEF Shapes, Fields

LEMMA AfterType ==
  ASSUME NEW w \in Games
  PROVE  After(w) \subseteq Games
<1> SUFFICES ASSUME NEW v \in After(w) PROVE v \in Games
  OBVIOUS
<1>1. w \in Shapes /\ w.at \in DOMAIN w.level
  BY DEF Games
<1> DEFINE F == IF w.foe THEN {TRUE} ELSE {FALSE, Passable(w, Lair) /\ w.at # Lair}
           H == IF w.foe /\ w.at \in Around(Lair) THEN {w.hp, w.hp - 1} ELSE {w.hp}
           S == IF w.status = {"Berserk"} THEN {{"Berserk"}, {"-Berserk"}}
                ELSE IF w.status = {"-Berserk"} THEN {{"-Berserk"}, {}} ELSE {w.status}
           T == IF w.trouble = "poison" THEN {"poison", "none"} ELSE {w.trouble}
           A == {<<Nil, 1>>} \union (IF w.asked THEN {} ELSE {<<More, 5>>, <<LevelUp, 7>>, <<Nil, 7>>})
<1>8. After(w) = {Passed(w, foe, hp, status, trouble, ask) :
                    foe \in F, hp \in H, status \in S, trouble \in T, ask \in A}
  BY DEF After
<1>2. PICK foe \in F, hp \in H, status \in S, trouble \in T, ask \in A :
        v = Passed(w, foe, hp, status, trouble, ask)
  <2> HIDE DEF F, H, S, T, A
  <2> QED BY <1>8
<1>3. foe \in BOOLEAN /\ hp \in Int /\ status \in {{}, {"Berserk"}, {"-Berserk"}}
      /\ trouble \in {"none", "poison", "zot", "piety"}
  <2>1. w.hp \in Int /\ w.status \in {{}, {"Berserk"}, {"-Berserk"}} /\ w.trouble \in {"none", "poison", "zot", "piety"}
    BY <1>1 DEF Shapes
  <2>2. foe \in BOOLEAN
    BY DEF Passable
  <2>3. hp \in Int
    BY <2>1
  <2>4. status \in {{}, {"Berserk"}, {"-Berserk"}}
    BY <2>1
  <2>5. trouble \in {"none", "poison", "zot", "piety"}
    BY <2>1
  <2> QED BY <2>2, <2>3, <2>4, <2>5
<1>4. ask[1] \in Menus \union {Nil} /\ ask[2] \in Int
  BY DEF Menus
<1> DEFINE asked == w.asked \/ ask # <<Nil, 1>>
<1>5. v = [w EXCEPT !.foe = foe, !.hp = hp, !.status = status, !.trouble = trouble,
                    !.menu = ask[1], !.mode = ask[2], !.asked = asked, !.passed = TRUE]
  BY <1>2 DEF Passed
<1>6. asked \in BOOLEAN
  OBVIOUS
<1> HIDE DEF asked
<1>7. v \in Shapes /\ v.at = w.at /\ v.level = w.level
  <2> DEFINE menu == ask[1]
             mode == ask[2]
  <2>1. w = Fields(w) /\ w.level \in Levels /\ w.depth \in Int /\ w.at \in Int \X Int
        /\ w.revealed \in BOOLEAN /\ w.messages \in SUBSET Messages
    BY <1>1, ShapeIs
  <2>2. menu \in Menus \union {Nil} /\ mode \in Int
    BY <1>4
  <2>3. v = [w EXCEPT !.foe = foe, !.hp = hp, !.status = status, !.trouble = trouble,
                      !.menu = menu, !.mode = mode, !.asked = asked, !.passed = TRUE]
    BY <1>5
  <2> HIDE DEF menu, mode
  <2>4. v = [level |-> w.level, trouble |-> trouble, depth |-> w.depth, at |-> w.at, revealed |-> w.revealed,
             foe |-> foe, hp |-> hp, status |-> status, messages |-> w.messages, menu |-> menu, mode |-> mode,
             asked |-> asked, passed |-> TRUE]
    BY <2>1, <2>3 DEF Fields
  <2> QED BY <1>3, <1>6, <2>1, <2>2, <2>4 DEF Shapes
<1> QED BY <1>1, <1>7 DEF Games

LEMMA InsteadType ==
  ASSUME NEW w \in Games, NEW messages \in SUBSET Messages, NEW menu \in Menus \union {Nil}
  PROVE  Instead(w, messages, menu) \subseteq Games
<1>1. w \in Shapes /\ w.at \in DOMAIN w.level
  BY DEF Games
<1> DEFINE mode == IF menu = Nil THEN 1 ELSE 7
           v == [w EXCEPT !.messages = messages, !.menu = menu, !.mode = mode, !.passed = FALSE]
<1>2. mode \in Int /\ Instead(w, messages, menu) = {v}
  BY DEF Instead
<1> HIDE DEF mode
<1>3. v \in Shapes /\ v.at = w.at /\ v.level = w.level
  BY <1>1, <1>2 DEF Shapes
<1> HIDE DEF v
<1> QED BY <1>1, <1>2, <1>3 DEF Games

\* What the game makes of a key before time passes.
LEMMA ChangedType ==
  ASSUME NEW w \in Games
  PROVE  /\ Quiet(w) \in Games /\ Answered(w) \in Games
         /\ [Answered(w) EXCEPT !.status = {"Berserk"}] \in Games
         /\ [Answered(w) EXCEPT !.hp = hp_max] \in Games
         /\ [Quiet(w) EXCEPT !.hp = hp_max] \in Games
         /\ [Quiet(w) EXCEPT !.foe = FALSE] \in Games
<1>1. w \in Shapes /\ w.at \in DOMAIN w.level
  BY DEF Games
<1>2. Quiet(w) \in Games
  <2>1. Quiet(w) \in Shapes /\ Quiet(w).at = w.at /\ Quiet(w).level = w.level
    BY <1>1 DEF Shapes, Quiet
  <2> QED BY <1>1, <2>1 DEF Games
<1>3. Answered(w) \in Games
  <2>2. /\ w = Fields(w) /\ w.level \in Levels /\ w.depth \in Int /\ w.at \in Int \X Int
        /\ w.trouble \in {"none", "poison", "zot", "piety"} /\ w.status \in {{}, {"Berserk"}, {"-Berserk"}}
        /\ w.revealed \in BOOLEAN /\ w.foe \in BOOLEAN /\ w.hp \in Int
        /\ w.asked \in BOOLEAN /\ w.passed \in BOOLEAN
    BY <1>1, ShapeIs
  <2> DEFINE v == Answered(w)
  <2>3. v = [w EXCEPT !.messages = {}, !.menu = Nil, !.mode = 1]
    BY DEF Answered
  <2> HIDE DEF v
  <2>4. v = [level |-> w.level, trouble |-> w.trouble, depth |-> w.depth, at |-> w.at, revealed |-> w.revealed,
             foe |-> w.foe, hp |-> w.hp, status |-> w.status, messages |-> {}, menu |-> Nil, mode |-> 1,
             asked |-> w.asked, passed |-> w.passed]
    BY <2>2, <2>3 DEF Fields
  <2>5. v \in Shapes
    BY <2>2, <2>4 DEF Shapes
  <2>1. Answered(w) \in Shapes /\ Answered(w).at = w.at /\ Answered(w).level = w.level
    BY <2>4, <2>5 DEF v
  <2> QED BY <1>1, <2>1 DEF Games
<1>4. ASSUME NEW v \in Games PROVE [v EXCEPT !.status = {"Berserk"}] \in Games
  <2> DEFINE u == [v EXCEPT !.status = {"Berserk"}]
  <2>1. u \in Shapes /\ u.at = v.at /\ u.level = v.level
    BY DEF Games, Shapes
  <2> HIDE DEF u
  <2>2. u \in Games
    BY <2>1 DEF Games
  <2> QED BY <2>2 DEF u
<1>5. ASSUME NEW v \in Games PROVE [v EXCEPT !.hp = hp_max] \in Games
  <2> DEFINE u == [v EXCEPT !.hp = hp_max]
  <2>1. u \in Shapes /\ u.at = v.at /\ u.level = v.level
    BY DEF Games, Shapes, hp_max
  <2> HIDE DEF u
  <2>2. u \in Games
    BY <2>1 DEF Games
  <2> QED BY <2>2 DEF u
<1>6. ASSUME NEW v \in Games PROVE [v EXCEPT !.foe = FALSE] \in Games
  <2> DEFINE u == [v EXCEPT !.foe = FALSE]
  <2>1. u \in Shapes /\ u.at = v.at /\ u.level = v.level
    BY DEF Games, Shapes
  <2> HIDE DEF u
  <2>2. u \in Games
    BY <2>1 DEF Games
  <2> QED BY <2>2 DEF u
<1> QED BY <1>2, <1>3, <1>4, <1>5, <1>6

LEMMA MovedType ==
  ASSUME NEW w \in Games, NEW p \in DOMAIN w.level, NEW messages \in SUBSET Messages
  PROVE  /\ [w EXCEPT !.at = p, !.messages = messages] \in Games
         /\ [Quiet(w) EXCEPT !.revealed = TRUE, !.at = p] \in Games
<1>1. w \in Shapes /\ Quiet(w) \in Shapes /\ Quiet(w).level = w.level
  BY DEF Games, Shapes, Quiet
<1>2. p \in Int \X Int
  <2>1. w.level \in Levels
    BY <1>1 DEF Shapes
  <2> QED BY <2>1, LevelIs
<1>3. [w EXCEPT !.at = p, !.messages = messages] \in Games
  <2> DEFINE v == [w EXCEPT !.at = p, !.messages = messages]
  <2>1. v \in Shapes /\ v.at = p /\ v.level = w.level
    BY <1>1, <1>2 DEF Shapes
  <2> HIDE DEF v
  <2>2. v \in Games
    BY <2>1 DEF Games
  <2> QED BY <2>2 DEF v
<1>4. [Quiet(w) EXCEPT !.revealed = TRUE, !.at = p] \in Games
  <2> DEFINE u == Quiet(w)
             v == [u EXCEPT !.revealed = TRUE, !.at = p]
  <2>1. u \in Shapes /\ u.level = w.level
    BY <1>1
  <2> HIDE DEF u
  <2>2. v \in Shapes /\ v.at = p /\ v.level = w.level
    BY <1>2, <2>1 DEF Shapes
  <2> HIDE DEF v
  <2>3. v \in Games
    BY <2>2 DEF Games
  <2> QED BY <2>3 DEF u, v
<1> QED BY <1>3, <1>4
LEMMA CommandsAre ==
  /\ ToSet(Moves) = {"move_n", "move_ne", "move_e", "move_se", "move_s", "move_sw", "move_w", "move_nw"}
  /\ ToSet(Moves) = {Moves[i] : i \in 1..8}
  /\ ToSet(Commands) = ToSet(Moves) \union {"wait", "explore", "rest", "stairs_down", "stairs_up", "abilities"}
<1> DEFINE rest == <<"wait", "explore", "rest", "stairs_down", "stairs_up", "abilities">>
           K == {"move_n", "move_ne", "move_e", "move_se", "move_s", "move_sw", "move_w", "move_nw",
                 "wait", "explore", "rest", "stairs_down", "stairs_up", "abilities"}
<1>1. Moves \in Seq(K) /\ Len(Moves) = 8 /\ DOMAIN Moves = 1..8
  BY DEF Moves
<1>2. ToSet(Moves) = {Moves[i] : i \in 1..8}
  BY <1>1 DEF ToSet
<1>3. ToSet(Moves) = {"move_n", "move_ne", "move_e", "move_se", "move_s", "move_sw", "move_w", "move_nw"}
  BY <1>2 DEF Moves
<1>4. rest \in Seq(K) /\ Len(rest) = 6
      /\ {rest[i] : i \in 1..6} = {"wait", "explore", "rest", "stairs_down", "stairs_up", "abilities"}
  OBVIOUS
<1>5. Commands = Moves \o rest
  BY DEF Commands
<1> HIDE DEF rest, K
<1>6. /\ Commands \in Seq(K) /\ Len(Commands) = 14 /\ DOMAIN Commands = 1..14
      /\ \A i \in 1..8 : Commands[i] = Moves[i]
      /\ \A i \in 1..6 : Commands[i + 8] = rest[i]
  <2>1. ASSUME NEW s \in Seq(K), NEW t \in Seq(K)
        PROVE  /\ s \o t \in Seq(K) /\ Len(s \o t) = Len(s) + Len(t) /\ DOMAIN (s \o t) = 1..(Len(s) + Len(t))
               /\ \A i \in 1..Len(s) : (s \o t)[i] = s[i]
               /\ \A i \in 1..Len(t) : (s \o t)[i + Len(s)] = t[i]
    OBVIOUS
  <2>2. Moves \in Seq(K) /\ rest \in Seq(K) /\ Len(Moves) = 8 /\ Len(rest) = 6
    BY <1>1, <1>4
  <2>3. /\ Commands \in Seq(K) /\ Len(Commands) = Len(Moves) + Len(rest)
        /\ DOMAIN Commands = 1..(Len(Moves) + Len(rest))
        /\ \A i \in 1..Len(Moves) : Commands[i] = Moves[i]
        /\ \A i \in 1..Len(rest) : Commands[i + Len(Moves)] = rest[i]
    BY <1>5, <2>1, <2>2
  <2> QED BY <2>2, <2>3
<1>7. {Commands[i] : i \in 1..14} = {Moves[i] : i \in 1..8} \union {rest[i] : i \in 1..6}
  <2>1. \A i \in 1..14 : i \in 1..8 \/ (i - 8 \in 1..6 /\ (i - 8) + 8 = i)
    OBVIOUS
  <2>2. \A i \in 1..14 : (\E j \in 1..8 : Commands[i] = Moves[j]) \/ \E j \in 1..6 : Commands[i] = rest[j]
    BY <1>6, <2>1
  <2>3. \A j \in 1..8 : j \in 1..14 /\ Moves[j] = Commands[j]
    BY <1>6
  <2>4. \A j \in 1..6 : j + 8 \in 1..14 /\ rest[j] = Commands[j + 8]
    BY <1>6
  <2> QED BY <2>2, <2>3, <2>4
<1>8. ToSet(Commands) = {Commands[i] : i \in 1..14}
  BY <1>6 DEF ToSet
<1> QED BY <1>2, <1>3, <1>4, <1>7, <1>8

\* What is legal where commands are read.
LEMMA LegalInCommands ==
  ASSUME NEW o, o.menu = Nil, o.mode = 1
  PROVE  /\ \A k \in ToSet(Moves) \union {"wait", "explore", "rest", "abilities"} : Command(k) \in Legal(o)
         /\ "staircase" \in o.messages => Command("stairs_down") \in Legal(o)
         /\ \A a \in Legal(o) : a.kind \in ToSet(Moves) \union {"wait", "explore", "rest", "stairs_down", "abilities"}
<1> DEFINE always == ToSet(Commands) \ {"stairs_down", "stairs_up"}
           down == IF "staircase" \in o.messages THEN {Command("stairs_down")} ELSE {}
<1>1. Legal(o) = {Command(k) : k \in always} \union down
  BY DEF Legal
<1>2. always = ToSet(Moves) \union {"wait", "explore", "rest", "abilities"}
  BY CommandsAre
<1>3. \A k : Command(k).kind = k
  BY DEF Command
<1>4. \A a \in down : a.kind = "stairs_down"
  BY <1>3
<1>5. "staircase" \in o.messages => Command("stairs_down") \in down
  OBVIOUS
<1> HIDE DEF always, down
<1>6. \A k \in always : Command(k) \in Legal(o)
  BY <1>1
<1>7. \A a \in Legal(o) : a.kind \in always \union {"stairs_down"}
  BY <1>1, <1>3, <1>4
<1> QED BY <1>1, <1>2, <1>5, <1>6, <1>7

LEMMA AnswersType ==
  ASSUME NEW w \in Games, NEW a \in Legal(View(w))
  PROVE  Answers(w, a) \subseteq Games
<1>1. w \in Shapes /\ w.at \in DOMAIN w.level /\ w.menu \in Menus \union {Nil} /\ w.level \in Levels
      /\ w.trouble \in {"none", "poison", "zot", "piety"} /\ w.depth \in Int /\ w.hp \in Int
      /\ w.status \in {{}, {"Berserk"}, {"-Berserk"}}
  BY ShapeIs DEF Games
<1>2. \A v \in Games : After(v) \subseteq Games
  BY AfterType
<1>3. \A messages \in SUBSET Messages, menu \in Menus \union {Nil} : Instead(w, messages, menu) \subseteq Games
  BY InsteadType
<1>4. Instead(w, {}, Nil) \subseteq Games
  BY <1>3
<1>5. InMenu(w, a) \subseteq Games
  <2>1. After([Answered(w) EXCEPT !.status = {"Berserk"}]) \subseteq Games /\ After(Answered(w)) \subseteq Games
        /\ After([Answered(w) EXCEPT !.hp = hp_max]) \subseteq Games
    BY <1>2, ChangedType
  <2>2. Instead(w, {}, IF a.key = "a" THEN w.menu ELSE Nil) \subseteq Games
    <3> DEFINE menu == IF a.key = "a" THEN w.menu ELSE Nil
    <3>1. menu \in Menus \union {Nil}
      BY <1>1
    <3> HIDE DEF menu
    <3>2. Instead(w, {}, menu) \subseteq Games
      BY <1>3, <3>1
    <3> QED BY <3>2 DEF menu
  <2> QED BY <2>1, <2>2 DEF InMenu
<1>6. Steps(w, a) \subseteq Games
  <2> DEFINE i == CHOOSE i \in 1..8 : Moves[i] = a.kind
             p == Adjacent(w.at)[i]
             messages == IF w.level[p] = "stairs" THEN {"staircase"} ELSE {}
  <2>1. After(Quiet(w)) \subseteq Games /\ After([Quiet(w) EXCEPT !.foe = FALSE]) \subseteq Games
    BY <1>2, ChangedType
  <2>2. Passable(w, p) => After([w EXCEPT !.at = p, !.messages = messages]) \subseteq Games
    <3>1. messages \in SUBSET Messages
      BY DEF Messages
    <3> HIDE DEF p, messages
    <3> QED BY <1>2, <3>1, MovedType DEF Passable
  <2>3. Steps(w, a) = IF w.foe /\ p = Lair THEN After(Quiet(w)) \union After([Quiet(w) EXCEPT !.foe = FALSE])
                      ELSE IF Passable(w, p) THEN After([w EXCEPT !.at = p, !.messages = messages])
                      ELSE Instead(w, {}, Nil)
    BY DEF Steps
  <2> HIDE DEF p, messages
  <2> QED BY <1>4, <2>1, <2>2, <2>3
<1>7. After(Quiet(w)) \subseteq Games
  BY <1>2, ChangedType
<1>8. Rests(w) \subseteq Games
  <2>1. {"lethal"} \in SUBSET Messages /\ RestPrompt \in Menus
    BY DEF Menus, Messages
  <2>2. After([Quiet(w) EXCEPT !.hp = hp_max]) \subseteq Games
    BY <1>2, ChangedType
  <2>3. Instead(w, {"lethal"}, Nil) \subseteq Games /\ Instead(w, {}, RestPrompt) \subseteq Games
    BY <1>3, <2>1
  <2> QED BY <1>4, <2>2, <2>3 DEF Rests
<1>9. Explores(w) \subseteq Games
  <2>1. {"nearby"} \in SUBSET Messages /\ {"done exploring"} \in SUBSET Messages
    BY DEF Messages
  <2>2. Instead(w, {"nearby"}, Nil) \subseteq Games /\ Instead(w, {"done exploring"}, Nil) \subseteq Games
    BY <1>3, <2>1
  <2> DEFINE passable == {p \in DOMAIN w.level : Passable(w, p)}
             Reach == {q \in Within({w.at}, passable, Cardinality(passable)) : w.level[q] = "floor"}
  <2>3. \A p \in Reach : After([Quiet(w) EXCEPT !.revealed = TRUE, !.at = p]) \subseteq Games
    <3>1. Within({w.at}, passable, Cardinality(passable)) \subseteq passable
      <4>1. Cardinality(passable) \in Nat
        <5>1. IsFiniteSet(DOMAIN w.level) /\ passable \in SUBSET DOMAIN w.level
          BY <1>1, LevelIs
        <5> HIDE DEF passable
        <5> QED BY <5>1, FS_Subset, FS_CardinalityType
      <4> HIDE DEF passable
      <4> QED BY <4>1, WithinIs
    <3>2. \A p \in Reach : p \in DOMAIN w.level
      BY <3>1
    <3> HIDE DEF Reach
    <3> QED BY <1>2, <3>2, MovedType
  <2>4. UNION {After([Quiet(w) EXCEPT !.revealed = TRUE, !.at = p]) : p \in Reach} \subseteq Games
    <3> HIDE DEF Reach
    <3> QED BY <2>3
  <2>5. Explores(w) = IF w.status = {"Berserk"} THEN Instead(w, {}, Nil)
                      ELSE IF w.foe THEN Instead(w, {"nearby"}, Nil)
                      ELSE IF w.revealed THEN Instead(w, {"done exploring"}, Nil)
                      ELSE UNION {After([Quiet(w) EXCEPT !.revealed = TRUE, !.at = p]) : p \in Reach}
    BY DEF Explores
  <2> HIDE DEF Reach
  <2> QED BY <1>4, <2>2, <2>4, <2>5
<1>10. Descends(w) \subseteq Games
  <2>1. w.depth + 1 \in Int
    BY <1>1
  <2>2. Entered(w.level, w.trouble, w.depth + 1, w.hp, w.status) \in Games
    BY <1>1, <2>1, EnteredType
  <2> QED BY <1>4, <2>2 DEF Descends
<1>11. Instead(w, {}, AbilityMenu(w)) \subseteq Games
  <2>1. AbilityMenu(w) \in Menus
    <3> DEFINE b == w.status = {} /\ w.trouble # "piety"
    <3>1. AbilityMenu(w) = Abilities(b)
      BY DEF AbilityMenu
    <3>2. b \in BOOLEAN
      OBVIOUS
    <3> HIDE DEF b
    <3> QED BY <3>1, <3>2 DEF Menus
  <2> QED BY <1>3, <2>1
<1>12. CASE w.menu # Nil
  BY <1>5, <1>12 DEF Answers
<1>13. CASE w.menu = Nil /\ w.mode # 1
  BY <1>4, <1>13 DEF Answers
<1>14. CASE w.menu = Nil /\ w.mode = 1
  <2>1. a.kind \in ToSet(Moves) \union {"wait", "explore", "rest", "stairs_down", "abilities"}
    <3>1. View(w).menu = Nil /\ View(w).mode = 1
      BY <1>14 DEF View
    <3> QED BY <3>1, LegalInCommands
  <2>2. a.kind \in ToSet(Moves) => a.kind \notin {"wait", "explore", "rest", "stairs_down", "abilities"}
    BY CommandsAre
  <2> QED BY <1>6, <1>7, <1>8, <1>9, <1>10, <1>11, <1>14, <2>1, <2>2 DEF Answers
<1> QED BY <1>12, <1>13, <1>14

LEMMA WorldInit == CaseInit => WorldInv
BY CaseAssumption DEF CaseInit, WorldInv

LEMMA WorldStep == ASSUME WorldInv, [CaseNext]_allvars PROVE WorldInv'
<1>1. CASE CaseStarts
  <2>1. policy' = policy
    BY <1>1 DEF CaseStarts
  <2>2. CASE UNCHANGED world
    BY <2>1, <2>2 DEF WorldInv
  <2>3. CASE \E level \in Levels, trouble \in Troubles : world' = Entered(level, trouble, 1, hp_max, {})
    <3>1. PICK level \in Levels, trouble \in Troubles : world' = Entered(level, trouble, 1, hp_max, {})
      BY <2>3
    <3>2. trouble \in {"none", "poison", "zot", "piety"} /\ 1 \in Int /\ hp_max \in Int
          /\ {} \in {{}, {"Berserk"}, {"-Berserk"}}
      BY CaseAssumption DEF hp_max
    <3>3. world' \in Games
      BY <3>1, <3>2, EnteredType
    <3> QED BY <2>1, <3>3 DEF WorldInv
  <2> QED BY <1>1, <2>2, <2>3 DEF CaseStarts
<1>2. CASE Plays
  <2>1. world \in Games
    BY <1>2 DEF Plays, PlayedOut, Over, WorldInv, NoWorld
  <2>2. policy' = policy /\ \E a \in Legal(View(world)) : world' \in Answers(world, a)
    BY <1>2 DEF Plays
  <2>3. world' \in Games
    BY <2>1, <2>2, AnswersType
  <2> QED BY <2>2, <2>3 DEF WorldInv
<1>3. CASE CaseEnds
  BY <1>3 DEF CaseEnds, WorldInv, NoWorld
<1>4. CASE UNCHANGED play
  BY <1>4 DEF play, WorldInv
<1> QED BY <1>1, <1>2, <1>3, <1>4 DEF CaseNext, allvars

LEMMA WorldIs == CaseSpec => []WorldInv
<1> QED BY WorldInit, WorldStep, PTL DEF CaseSpec
-------------------------------------------------------------------------------
(* What the policy sees, and the ways it finds there.                         *)

LEMMA ViewIs ==
  ASSUME NEW w \in Games
  PROVE  /\ View(w).at = w.at /\ w.at \in Int \X Int
         /\ DOMAIN View(w).cells \subseteq Int \X Int /\ IsFiniteSet(DOMAIN View(w).cells)
         /\ \A p \in DOMAIN View(w).cells :
              /\ w.level[p] \in {"floor", "wall", "door", "stairs", "fumes"}
              /\ View(w).cells[p].g = IF p = w.at THEN "@" ELSE IF w.foe /\ p = Lair THEN "r"
                                      ELSE Kind[w.level[p]].g
              /\ View(w).cells[p].mf = Kind[w.level[p]].mf
              /\ View(w).cells[p].mon = IF w.foe /\ p = Lair THEN "rat" ELSE Nil
         /\ View(w).menu = w.menu /\ View(w).mode = w.mode /\ View(w).messages = w.messages
<1>1. w.level \in Levels /\ w.at \in Int \X Int
  BY ShapeIs DEF Games
<1>2. View(w).cells = [p \in Seen(w) |->
                         [g |-> IF p = w.at THEN "@" ELSE IF w.foe /\ p = Lair THEN "r" ELSE Kind[w.level[p]].g,
                          mf |-> Kind[w.level[p]].mf,
                          mon |-> IF w.foe /\ p = Lair THEN "rat" ELSE Nil]]
  BY DEF View
<1>3. Seen(w) \subseteq DOMAIN w.level
  BY DEF Seen
<1>4. DOMAIN w.level \subseteq Int \X Int /\ IsFiniteSet(Seen(w))
      /\ \A p \in DOMAIN w.level : w.level[p] \in {"floor", "wall", "door", "stairs", "fumes"}
  <2>1. IsFiniteSet(DOMAIN w.level) /\ Seen(w) \in SUBSET DOMAIN w.level
    BY <1>1, <1>3, LevelIs
  <2>2. IsFiniteSet(Seen(w))
    BY <2>1, FS_Subset
  <2> QED BY <1>1, <2>2, LevelIs
<1>5. View(w).at = w.at /\ View(w).menu = w.menu /\ View(w).mode = w.mode /\ View(w).messages = w.messages
  BY DEF View
<1> QED BY <1>1, <1>2, <1>3, <1>4, <1>5

\* The player is drawn over what it stands on.
LEMMA NotOnStairs ==
  ASSUME NEW w \in Games
  PROVE  w.at \notin Downstairs(View(w))
BY ViewIs DEF Downstairs

LEMMA OnlyInLair ==
  ASSUME NEW w \in Games
  PROVE  Monsters(View(w)) \subseteq {Lair}
BY ViewIs DEF Monsters

\* A search over points that are seen finds the shortest way.
LEMMA SeenShortest ==
  ASSUME NEW w \in Games, NEW open \in SUBSET DOMAIN View(w).cells, NEW goals, w.at \notin goals
  PROVE  IsShortest(ShortestStep(View(w).at, goals, open), View(w).at, goals, open)
<1> DEFINE start == View(w).at
<1>1. start \in Int \X Int /\ start \notin goals /\ open \subseteq Int \X Int /\ IsFiniteSet(DOMAIN View(w).cells)
  BY ViewIs
<1>2. IsFiniteSet(open)
  BY <1>1, FS_Subset
<1>3. open \union {start} \subseteq Int \X Int
  BY <1>1
<1> HIDE DEF start
<1>4. IsShortest(ShortestStep(start, goals, open), start, goals, open)
  BY <1>1, <1>2, <1>3, ShortestIs
<1> QED BY <1>4 DEF start

\* The more points are open, the nearer is a goal.
LEMMA WithinWider ==
  ASSUME NEW goals, NEW narrow, NEW wide, narrow \subseteq wide, NEW n \in Nat
  PROVE  Within(goals, narrow, n) \subseteq Within(goals, wide, n)
<1> DEFINE T == {k \in Nat : Within(goals, narrow, k) \subseteq Within(goals, wide, k)}
<1>1. 0 \in T
  BY WithinIs
<1>2. ASSUME NEW k \in Nat, k \in T PROVE k + 1 \in T
  <2> SUFFICES ASSUME NEW p \in Within(goals, narrow, k + 1) PROVE p \in Within(goals, wide, k + 1)
    OBVIOUS
  <2>1. p \in Within(goals, narrow, k) \/ \E r \in Around(p) : r \in Within(goals, narrow, k)
    BY WithinPrior
  <2>2. p \in wide
    <3>1. k + 1 \in Nat
      OBVIOUS
    <3>2. Within(goals, narrow, k + 1) \subseteq narrow
      BY <3>1, WithinIs
    <3> QED BY <3>2
  <2>3. Within(goals, narrow, k) \subseteq Within(goals, wide, k)
    BY <1>2
  <2>4. p \in Within(goals, wide, k) \/ Around(p) \intersect Within(goals, wide, k) # {}
    BY <2>1, <2>3
  <2> QED BY <2>2, <2>4, WithinNext
<1> HIDE DEF T
<1>3. n \in T
  BY <1>1, <1>2, SetInduction
<1> QED BY <1>3 DEF T

LEMMA WithinGrows ==
  ASSUME NEW goals, NEW open, NEW n \in Nat, NEW m \in Nat, n <= m
  PROVE  Within(goals, open, n) \subseteq Within(goals, open, m)
<1> DEFINE T == {k \in Nat : n <= k => Within(goals, open, n) \subseteq Within(goals, open, k)}
<1>1. 0 \in T
  OBVIOUS
<1>2. ASSUME NEW k \in Nat, k \in T PROVE k + 1 \in T
  <2> SUFFICES ASSUME n <= k + 1, NEW p \in Within(goals, open, n) PROVE p \in Within(goals, open, k + 1)
    OBVIOUS
  <2>1. CASE n = k + 1
    BY <2>1
  <2>2. CASE n <= k
    <3>1. p \in Within(goals, open, k)
      BY <1>2, <2>2
    <3>2. p \in open
      BY WithinIs
    <3> QED BY <3>1, <3>2, WithinNext
  <2> QED BY <2>1, <2>2
<1> HIDE DEF T
<1>3. m \in T
  BY <1>1, <1>2, SetInduction
<1> QED BY <1>3 DEF T

LEMMA WiderWay ==
  ASSUME NEW start, NEW goals, NEW wide, NEW narrow \in SUBSET wide, IsFiniteSet(wide), NEW step,
         IsShortest(step, start, goals, narrow), IsShortest(Nil, start, goals, wide)
  PROVE  step = Nil
<1> SUFFICES ASSUME step # Nil PROVE FALSE
  OBVIOUS
<1>1. PICK n \in 0..Cardinality(narrow) : step \in Around(start) /\ step \in Within(goals, narrow, n)
  BY DEF IsShortest
<1>2. IsFiniteSet(narrow) /\ Cardinality(narrow) <= Cardinality(wide)
  BY FS_Subset
<1>3. Cardinality(narrow) \in Nat /\ Cardinality(wide) \in Nat
  BY <1>2, FS_CardinalityType
<1> DEFINE N == Cardinality(wide)
<1>4. n \in Nat /\ N \in Nat /\ n <= N
  BY <1>1, <1>2, <1>3
<1>5. Around(start) \intersect Within(goals, wide, N) = {}
  BY DEF IsShortest
<1> HIDE DEF N
<1>6. step \in Within(goals, wide, n)
  BY <1>1, <1>4, WithinWider
<1>7. step \in Within(goals, wide, N)
  BY <1>4, <1>6, WithinGrows
<1> QED BY <1>1, <1>5, <1>7

\* What the teacher walks over, a learner is shown as open, whichever the terrain rule.
LEMMA ShownIsWider ==
  ASSUME NEW w \in Games, NEW aware \in BOOLEAN
  PROVE  Open(View(w), Downstairs(View(w))) \subseteq ShownOpen(View(w), aware)
<1> DEFINE o == View(w)
<1> SUFFICES ASSUME NEW p \in Open(o, Downstairs(o)) PROVE p \in ShownOpen(o, aware)
  OBVIOUS
<1>1. p \in DOMAIN o.cells /\ (p \in Downstairs(o) \/ Walkable(o.cells[p]))
  BY DEF Open
<1>2. /\ w.level[p] \in {"floor", "wall", "door", "stairs", "fumes"}
      /\ o.cells[p].g = IF p = w.at THEN "@" ELSE IF w.foe /\ p = Lair THEN "r" ELSE Kind[w.level[p]].g
      /\ o.cells[p].mf = Kind[w.level[p]].mf
  BY <1>1, ViewIs
<1> HIDE DEF o
<1>3. p \in Downstairs(o) => o.cells[p].mf = 12
  <2> SUFFICES ASSUME o.cells[p].g = ">" PROVE Kind[w.level[p]].mf = 12
    BY <1>2 DEF Downstairs
  <2>1. Kind[w.level[p]].g = ">"
    BY <1>2
  <2> QED BY <1>2, <2>1 DEF Kind
<1>4. Walkable(o.cells[p]) => o.cells[p].mf = 1
  <2>1. Kind[w.level[p]].mf \in Int
    BY <1>2 DEF Kind
  <2> QED BY <1>2, <2>1, NilAssumption DEF Walkable
<1>5. p \notin Blocked(o)
  BY <1>1, <1>3, <1>4 DEF Blocked
<1>6. p \in Downstairs(o) \/ o.cells[p].g \notin {Nil} \union _WALL_GLYPHS
  BY <1>1 DEF Walkable, _IMPASSABLE_GLYPHS, _WALL_GLYPHS
<1> QED BY <1>1, <1>5, <1>6 DEF ShownOpen

\* For any levels, anything the game does and any policy: the steps the policies walk by
\* and a learner is shown begin shortest ways, and are missing only when there is none.
LEMMA GameWays ==
  ASSUME NEW w \in Games, NEW o, o = View(w)
  PROVE  /\ \A way \in Ways(o) : IsShortest(way.step, o.at, way.goals, way.open)
         /\ StepToStairs(o) # Nil => \A aware \in BOOLEAN : ShownStep(o, aware) # Nil
<1> DEFINE cells == DOMAIN o.cells
           near == UNION {Around(p) : p \in Monsters(o)}
<1>1. o.at = w.at /\ o.at \notin Downstairs(o) /\ IsFiniteSet(cells)
  BY ViewIs, NotOnStairs
<1>2. Open(o, Downstairs(o)) \in SUBSET cells /\ Open(o, Monsters(o)) \in SUBSET cells
      /\ \A aware \in BOOLEAN : ShownOpen(o, aware) \in SUBSET cells
  BY DEF Open, ShownOpen, Downstairs
<1>3. IsShortest(StepToStairs(o), o.at, Downstairs(o), Open(o, Downstairs(o)))
  BY <1>1, <1>2, SeenShortest DEF StepToStairs
<1>4. ASSUME NEW aware \in BOOLEAN
      PROVE  IsShortest(ShownStep(o, aware), o.at, Downstairs(o), ShownOpen(o, aware))
  BY <1>1, <1>2, SeenShortest DEF ShownStep
<1>5. ASSUME o.at \notin near
      PROVE  IsShortest(StepToMonster(o), o.at, near, Open(o, Monsters(o)))
  <2> DEFINE goals == near
             open == Open(o, Monsters(o))
  <2>1. StepToMonster(o) = ShortestStep(o.at, goals, open)
    BY DEF StepToMonster
  <2>2. w.at \notin goals /\ open \in SUBSET cells
    BY <1>1, <1>2, <1>5
  <2> HIDE DEF goals, open
  <2>3. IsShortest(ShortestStep(o.at, goals, open), o.at, goals, open)
    BY <2>2, SeenShortest
  <2> QED BY <2>1, <2>3 DEF goals, open
<1>6. ASSUME NEW way \in Ways(o) PROVE IsShortest(way.step, o.at, way.goals, way.open)
  <2>1. CASE way = [step |-> StepToStairs(o), goals |-> Downstairs(o), open |-> Open(o, Downstairs(o))]
    BY <1>3, <2>1
  <2>2. CASE \E aware \in BOOLEAN :
               way = [step |-> ShownStep(o, aware), goals |-> Downstairs(o), open |-> ShownOpen(o, aware)]
    BY <1>4, <2>2
  <2>3. CASE o.at \notin near /\ way = [step |-> StepToMonster(o), goals |-> near, open |-> Open(o, Monsters(o))]
    <3> HIDE DEF near
    <3> QED BY <1>5, <2>3
  <2> QED BY <1>6, <2>1, <2>2, <2>3 DEF Ways
<1>7. ASSUME NEW aware \in BOOLEAN, ShownStep(o, aware) = Nil PROVE StepToStairs(o) = Nil
  <2> DEFINE wide == ShownOpen(o, aware)
             narrow == Open(o, Downstairs(o))
             goals == Downstairs(o)
             step == StepToStairs(o)
  <2>1. wide \in SUBSET cells /\ narrow \in SUBSET wide
    BY <1>2, ShownIsWider
  <2>2. IsShortest(step, o.at, goals, narrow) /\ IsShortest(Nil, o.at, goals, wide)
    BY <1>3, <1>4, <1>7
  <2> HIDE DEF wide, narrow, goals, step, cells
  <2>3. IsFiniteSet(wide)
    BY <1>1, <2>1, FS_Subset
  <2>4. step = Nil
    BY <2>1, <2>2, <2>3, WiderWay
  <2> QED BY <2>4 DEF step
<1> QED BY <1>6, <1>7

\* For any levels and anything the game does, the steps the policies walk by and the
\* step a learner is shown begin a shortest way, and are missing only where there is
\* none: policy._shortest_step and features._shortest_step are breadth first over
\* whatever the player sees.
THEOREM WaysSound == CaseSpec => []WaysAreShortest
<1>1. WorldInv => WaysAreShortest
  <2> SUFFICES ASSUME WorldInv, Playing, NEW o, o = View(world)
               PROVE  /\ \A way \in Ways(o) : IsShortest(way.step, o.at, way.goals, way.open)
                      /\ StepToStairs(o) # Nil => \A aware \in BOOLEAN : ShownStep(o, aware) # Nil
    BY DEF WaysAreShortest
  <2>1. world \in Games
    BY DEF WorldInv, Playing
  <2> QED BY <2>1, GameWays
<1> QED BY <1>1, WorldIs, PTL
-------------------------------------------------------------------------------
(* What the policies decide.                                                  *)

LEMMA MinIs ==
  ASSUME NEW S \in SUBSET Nat, S # {}
  PROVE  Min(S) \in S
<1> DEFINE R == OpToRel(<, Nat)
<1>1. IsWellFoundedOn(R, Nat)
  BY NatLessThanWellFounded
<1>2. PICK x \in S : \A y \in S : ~(<<y, x>> \in R)
  <2> HIDE DEF R
  <2> QED BY <1>1, WFMin
<1>3. \A y \in Nat : <<y, x>> \in R <=> y < x
  BY DEF OpToRel
<1>4. \A y \in S : x <= y
  <2> SUFFICES ASSUME NEW y \in S PROVE x <= y
    OBVIOUS
  <2>1. x \in Nat /\ y \in Nat
    OBVIOUS
  <2>2. ~(y < x)
    <3> HIDE DEF R
    <3> QED BY <1>2, <1>3, <2>1
  <2> QED BY <2>1, <2>2
<1> QED BY <1>4 DEF Min

LEMMA MoveIs ==
  ASSUME NEW at \in Int \X Int, NEW p \in Around(at)
  PROVE  \E k \in ToSet(Moves) : MoveToward(at, p) = Command(k)
<1> DEFINE i == CHOOSE i \in 1..8 : Adjacent(at)[i] = p
<1>1. \E j \in 1..8 : Adjacent(at)[j] = p
  BY AdjacentIs
<1>2. i \in 1..8
  BY <1>1
<1>3. MoveToward(at, p) = Command(Moves[i])
  BY DEF MoveToward
<1> HIDE DEF i
<1> QED BY <1>2, <1>3, CommandsAre

\* In a menu: one of its choices, or cancel.
LEMMA MenuOffers ==
  ASSUME NEW menu \in Menus
  PROVE  DecideInMenu(menu) \in {Command("cancel")} \union {MenuSelect(c.key) : c \in ToSet(menu.choices)}
<1> DEFINE Of(text) == {i \in DOMAIN menu.choices : menu.choices[i].text = text}
           berserk == {i \in Of("berserk") : menu.choices[i].applicable}
           picked == IF menu.type = "ability" /\ berserk # {} THEN berserk
                     ELSE IF Of("strength") # {} THEN Of("strength")
                     ELSE IF menu.type = "more" THEN DOMAIN menu.choices
                     ELSE IF menu.type = "prompt" THEN Of("no")
                     ELSE {}
<1>1. DOMAIN menu.choices \subseteq Nat
  <2>1. ASSUME NEW c PROVE DOMAIN <<c>> = 1..1
    OBVIOUS
  <2>2. ASSUME NEW c, NEW e PROVE DOMAIN <<c, e>> = 1..2
    OBVIOUS
  <2>3. (\E c : menu.choices = <<c>>) \/ \E c, e : menu.choices = <<c, e>>
    <3>1. CASE menu = More
      BY <3>1 DEF More
    <3>2. CASE menu = LevelUp
      BY <3>2 DEF LevelUp
    <3>3. CASE menu = RestPrompt
      BY <3>3 DEF RestPrompt
    <3>4. CASE \E b \in BOOLEAN : menu = Abilities(b)
      BY <3>4 DEF Abilities
    <3> QED BY <3>1, <3>2, <3>3, <3>4 DEF Menus
  <2> QED BY <2>1, <2>2, <2>3
<1>2. picked \subseteq DOMAIN menu.choices
  OBVIOUS
<1>3. DecideInMenu(menu) = IF picked = {} THEN Command("cancel") ELSE MenuSelect(menu.choices[Min(picked)].key)
  BY DEF DecideInMenu
<1> HIDE DEF picked
<1>4. picked # {} => Min(picked) \in DOMAIN menu.choices
  BY <1>1, <1>2, MinIs
<1>5. \A i \in DOMAIN menu.choices : menu.choices[i] \in ToSet(menu.choices)
  BY DEF ToSet
<1> QED BY <1>3, <1>4, <1>5

\* Where commands are read: a move to a neighbour, or a command the screen offers.
LEMMA CommandOffers ==
  ASSUME NEW w \in Games, NEW o, o = View(w), o.menu = Nil, o.mode = 1
  PROVE  DecideCommand(o) \in Legal(o)
<1> DEFINE near == Monsters(o) \intersect Around(o.at)
<1>1. \A k \in ToSet(Moves) \union {"wait", "explore", "rest", "abilities"} : Command(k) \in Legal(o)
  BY LegalInCommands
<1>2. "staircase" \in o.messages => Command("stairs_down") \in Legal(o)
  BY LegalInCommands
<1>3. o.at = w.at /\ o.at \in Int \X Int /\ o.at \notin Downstairs(o)
      /\ Monsters(o) \subseteq {Lair} /\ Monsters(o) \subseteq Int \X Int
  <2>1. Monsters(o) \subseteq DOMAIN o.cells
    BY DEF Monsters
  <2> QED BY <2>1, ViewIs, NotOnStairs, OnlyInLair
<1>4. \A p \in Around(o.at) : MoveToward(o.at, p) \in Legal(o)
  BY <1>1, <1>3, MoveIs
<1>5. near # {} => MoveToward(o.at, Least(near)) \in Legal(o)
  <2> SUFFICES ASSUME near # {} PROVE Least(near) \in Around(o.at)
    BY <1>4
  <2>1. near = {Lair} /\ Lair \in Int \X Int /\ Lair \in Around(o.at)
    BY <1>3
  <2> HIDE DEF near
  <2>2. Lair[1] \in Int /\ Lair[2] \in Int
    BY <2>1
  <2>3. \A q \in near : Lair[1] < q[1] \/ (Lair[1] = q[1] /\ Lair[2] <= q[2])
    BY <2>1, <2>2
  <2>4. Least(near) \in near
    BY <2>1, <2>3 DEF Least
  <2> QED BY <2>1, <2>4
<1>6. near = {} /\ StepToMonster(o) # Nil => MoveToward(o.at, StepToMonster(o)) \in Legal(o)
  <2> SUFFICES ASSUME near = {}, StepToMonster(o) # Nil PROVE StepToMonster(o) \in Around(o.at)
    BY <1>4
  <2> DEFINE goals == UNION {Around(p) : p \in Monsters(o)}
             open == Open(o, Monsters(o))
  <2>1. w.at \notin goals
    <3> SUFFICES ASSUME NEW p \in Monsters(o), o.at \in Around(p) PROVE FALSE
      BY <1>3
    <3>1. p \in Int \X Int
      BY <1>3
    <3>2. p \in Around(o.at)
      BY <1>3, <3>1, AroundSymmetric
    <3> QED BY <3>2
  <2>2. open \in SUBSET DOMAIN o.cells /\ StepToMonster(o) = ShortestStep(o.at, goals, open)
    BY DEF Open, StepToMonster
  <2> HIDE DEF goals, open
  <2>3. IsShortest(StepToMonster(o), o.at, goals, open)
    BY <2>1, <2>2, SeenShortest
  <2> QED BY <2>3 DEF IsShortest
<1>7. StepToStairs(o) # Nil => MoveToward(o.at, StepToStairs(o)) \in Legal(o)
  <2> DEFINE goals == Downstairs(o)
             open == Open(o, goals)
  <2>1. open \in SUBSET DOMAIN o.cells /\ StepToStairs(o) = ShortestStep(o.at, goals, open)
    BY DEF Open, StepToStairs
  <2>2. w.at \notin goals
    BY <1>3
  <2> HIDE DEF goals, open
  <2>3. IsShortest(StepToStairs(o), o.at, goals, open)
    BY <2>1, <2>2, SeenShortest
  <2> QED BY <1>4, <2>3 DEF IsShortest
<1>8. /\ Command("abilities") \in Legal(o) /\ Command("wait") \in Legal(o)
      /\ Command("rest") \in Legal(o) /\ Command("explore") \in Legal(o)
  BY <1>1
<1> QED BY <1>2, <1>3, <1>5, <1>6, <1>7, <1>8 DEF DecideCommand

LEMMA Decides ==
  ASSUME NEW w \in Games, NEW o, o = View(w), o.menu # Nil \/ o.mode = 1
  PROVE  Decide(o) \in Legal(o)
<1>1. CASE o.menu = Nil
  BY <1>1, CommandOffers DEF Decide
<1>2. CASE o.menu # Nil
  <2>1. o.menu \in Menus
    <3>1. w.menu \in Menus \union {Nil} /\ o.menu = w.menu
      BY ShapeIs, ViewIs DEF Games
    <3> QED BY <1>2, <3>1
  <2>2. Decide(o) = DecideInMenu(o.menu)
        /\ Legal(o) = {Command("cancel")} \union {MenuSelect(c.key) : c \in ToSet(o.menu.choices)}
    BY <1>2 DEF Decide, Legal
  <2> QED BY <2>1, <2>2, MenuOffers
<1> QED BY <1>1, <1>2

LEMMA Selects ==
  ASSUME NEW w \in Games, NEW o, o = View(w)
  PROVE  Select(o) \in Legal(o)
<1>1. CASE o.menu # Nil \/ o.mode = 1
  BY <1>1, Decides DEF Select
<1>2. CASE o.menu = Nil /\ o.mode # 1
  <2>1. Legal(o) = {Command("cancel")}
    BY <1>2 DEF Legal
  <2>2. Command("cancel") \in Legal(o)
    BY <2>1
  <2> QED BY <2>2 DEF Select
<1> QED BY <1>1, <1>2

\* For any levels and anything the game does, each policy sends a key that
\* legal_actions offers, and the rules of ScriptedMibePolicy.decide need no fallback
\* in a menu or in command mode.
THEOREM DecisionSound == CaseSpec => []DecisionIsOffered
<1>1. WorldInv => DecisionIsOffered
  <2> SUFFICES ASSUME WorldInv, Playing, NEW o, o = View(world)
               PROVE  /\ Options(o) \subseteq Legal(o)
                      /\ o.menu # Nil \/ o.mode = 1 => Decide(o) \in Legal(o)
    BY DEF DecisionIsOffered
  <2>1. world \in Games
    BY DEF WorldInv, Playing
  <2>2. Select(o) \in Legal(o)
    BY <2>1, Selects
  <2>3. Exposure(o) \in Legal(o)
    BY <2>2 DEF Exposure
  <2>4. Options(o) \subseteq Legal(o)
    BY <2>2, <2>3 DEF Options, WorldInv
  <2> QED BY <2>1, <2>4, Decides
<1> QED BY <1>1, WorldIs, PTL
-------------------------------------------------------------------------------
(* The screens the teacher meets.                                            *)

Near(o) == Monsters(o) \intersect Around(o.at)

\* The two refusals of the game that the teacher does not remember.
Refusing(w) ==
  \/ w.trouble = "piety" /\ Near(View(w)) # {} /\ WorthBerserk(View(w))
  \/ w.trouble = "zot" /\ Hurt(View(w))

\* Who is hurt or rages has not left the monster's lair.
AtLair(w) == w.hp < hp_max \/ w.status = {"Berserk"} => w.at \in Around(Lair)

\* Time has passed, and what the teacher reads is at most that it stands on stairs.
Renewed(w) ==
  /\ w.passed /\ AtLair(w)
  /\ w.messages \subseteq {"staircase"} /\ w.menu \in {Nil, More, LevelUp}

\* The fields that only time changes.
Still(w, v) ==
  /\ v.level = w.level /\ v.at = w.at /\ v.revealed = w.revealed /\ v.foe = w.foe
  /\ v.hp = w.hp /\ v.status = w.status /\ v.depth = w.depth /\ v.trouble = w.trouble

LEMMA InsteadIs ==
  ASSUME NEW w \in Games, NEW messages, NEW menu
  PROVE  \A v \in Instead(w, messages, menu) :
           /\ v.messages = messages /\ v.menu = menu /\ (menu = Nil => v.mode = 1)
           /\ ~v.passed /\ Still(w, v)
<1> SUFFICES ASSUME NEW v \in Instead(w, messages, menu)
             PROVE  /\ v.messages = messages /\ v.menu = menu /\ (menu = Nil => v.mode = 1)
                    /\ ~v.passed /\ Still(w, v)
  OBVIOUS
<1>1. w = Fields(w)
  BY ShapeIs DEF Games
<1> DEFINE mode == IF menu = Nil THEN 1 ELSE 7
<1>2. v = [w EXCEPT !.messages = messages, !.menu = menu, !.mode = mode, !.passed = FALSE]
  BY DEF Instead
<1> HIDE DEF mode
<1>3. v = [level |-> w.level, trouble |-> w.trouble, depth |-> w.depth, at |-> w.at, revealed |-> w.revealed,
           foe |-> w.foe, hp |-> w.hp, status |-> w.status, messages |-> messages, menu |-> menu,
           mode |-> mode, asked |-> w.asked, passed |-> FALSE]
  BY <1>1, <1>2 DEF Fields
<1>4. v.messages = messages /\ v.menu = menu /\ v.mode = mode /\ ~v.passed /\ Still(w, v)
  BY <1>3 DEF Still
<1> QED BY <1>4 DEF mode

LEMMA AfterIs ==
  ASSUME NEW w \in Games, NEW v \in After(w)
  PROVE  /\ v.passed /\ v.at = w.at /\ v.messages = w.messages /\ v.menu \in {Nil, More, LevelUp}
         /\ v.hp = w.hp \/ w.at \in Around(Lair)
         /\ v.status = {"Berserk"} => w.status = {"Berserk"}
<1> DEFINE F == IF w.foe THEN {TRUE} ELSE {FALSE, Passable(w, Lair) /\ w.at # Lair}
           H == IF w.foe /\ w.at \in Around(Lair) THEN {w.hp, w.hp - 1} ELSE {w.hp}
           S == IF w.status = {"Berserk"} THEN {{"Berserk"}, {"-Berserk"}}
                ELSE IF w.status = {"-Berserk"} THEN {{"-Berserk"}, {}} ELSE {w.status}
           T == IF w.trouble = "poison" THEN {"poison", "none"} ELSE {w.trouble}
           A == {<<Nil, 1>>} \union (IF w.asked THEN {} ELSE {<<More, 5>>, <<LevelUp, 7>>, <<Nil, 7>>})
<1>1. After(w) = {Passed(w, foe, hp, status, trouble, ask) :
                    foe \in F, hp \in H, status \in S, trouble \in T, ask \in A}
  BY DEF After
<1>2. PICK foe \in F, hp \in H, status \in S, trouble \in T, ask \in A :
        v = Passed(w, foe, hp, status, trouble, ask)
  <2> HIDE DEF F, H, S, T, A
  <2> QED BY <1>1
<1>3. hp = w.hp \/ w.at \in Around(Lair)
  OBVIOUS
<1>4. status = {"Berserk"} => w.status = {"Berserk"}
  <2>1. w.status \in {{}, {"Berserk"}, {"-Berserk"}}
    BY ShapeIs DEF Games
  <2>2. {"-Berserk"} # {"Berserk"} /\ {"Berserk"} # {}
    OBVIOUS
  <2> QED BY <2>1, <2>2
<1>5. ask[1] \in {Nil, More, LevelUp}
  OBVIOUS
<1> DEFINE asked == w.asked \/ ask # <<Nil, 1>>
           menu == ask[1]
           mode == ask[2]
<1>6. v = [w EXCEPT !.foe = foe, !.hp = hp, !.status = status, !.trouble = trouble,
                    !.menu = menu, !.mode = mode, !.asked = asked, !.passed = TRUE]
  BY <1>2 DEF Passed
<1>7. w = Fields(w)
  BY ShapeIs DEF Games
<1> HIDE DEF asked, menu, mode
<1>8. v = [level |-> w.level, trouble |-> trouble, depth |-> w.depth, at |-> w.at, revealed |-> w.revealed,
           foe |-> foe, hp |-> hp, status |-> status, messages |-> w.messages, menu |-> menu, mode |-> mode,
           asked |-> asked, passed |-> TRUE]
  BY <1>6, <1>7 DEF Fields
<1>9. menu \in {Nil, More, LevelUp}
  BY <1>5 DEF menu
<1> HIDE DEF F, H, S, T, A
<1> QED BY <1>3, <1>4, <1>8, <1>9

\* When time passes at the lair, or for who is well, the screen is new.
LEMMA AfterRenews ==
  ASSUME NEW w \in Games, AtLair(w), w.messages \subseteq {"staircase"}, NEW v \in After(w)
  PROVE  Renewed(v)
<1>1. /\ v.passed /\ v.at = w.at /\ v.messages = w.messages /\ v.menu \in {Nil, More, LevelUp}
      /\ v.hp = w.hp \/ w.at \in Around(Lair)
      /\ v.status = {"Berserk"} => w.status = {"Berserk"}
  BY AfterIs
<1> QED BY <1>1 DEF AtLair, Renewed

\* What the teacher's rules read of a screen without its messages.
LEMMA StillSame ==
  ASSUME NEW w, NEW v, Still(w, v)
  PROVE  /\ Monsters(View(v)) = Monsters(View(w)) /\ Near(View(v)) = Near(View(w))
         /\ WorthBerserk(View(v)) = WorthBerserk(View(w)) /\ Hurt(View(v)) = Hurt(View(w))
         /\ StepToStairs(View(v)) = StepToStairs(View(w)) /\ AbilityMenu(v) = AbilityMenu(w)
         /\ Refusing(v) = Refusing(w) /\ AtLair(v) = AtLair(w)
<1>1. Seen(v) = Seen(w)
  BY DEF Still, Seen
<1>2. View(v).cells = View(w).cells /\ View(v).at = View(w).at /\ View(v).depth = View(w).depth
      /\ View(v).hp = View(w).hp /\ View(v).hp_max = View(w).hp_max
  BY <1>1 DEF Still, View
<1>3. Monsters(View(v)) = Monsters(View(w))
  BY <1>2 DEF Monsters
<1>4. Near(View(v)) = Near(View(w)) /\ WorthBerserk(View(v)) = WorthBerserk(View(w))
      /\ Hurt(View(v)) = Hurt(View(w))
  BY <1>2, <1>3 DEF Near, WorthBerserk, Hurt
<1>5. Downstairs(View(v)) = Downstairs(View(w))
  BY <1>2 DEF Downstairs
<1>6. StepToStairs(View(v)) = StepToStairs(View(w))
  <2> DEFINE goals == Downstairs(View(w))
  <2>1. Open(View(v), goals) = Open(View(w), goals)
    BY <1>2 DEF Open
  <2> QED BY <1>2, <1>5, <2>1 DEF StepToStairs
<1>7. AbilityMenu(v) = AbilityMenu(w) /\ AtLair(v) = AtLair(w)
  BY DEF Still, AbilityMenu, AtLair
<1>8. Refusing(v) = Refusing(w)
  BY <1>4 DEF Still, Refusing
<1> QED BY <1>3, <1>4, <1>6, <1>7, <1>8
\* A step to a neighbour is sent as the key that the game takes for that neighbour.
LEMMA MoveGoes ==
  ASSUME NEW at \in Int \X Int, NEW p \in Around(at), NEW a, a = MoveToward(at, p)
  PROVE  /\ a.kind \in ToSet(Moves)
         /\ Adjacent(at)[CHOOSE i \in 1..8 : Moves[i] = a.kind] = p
<1> DEFINE i == CHOOSE i \in 1..8 : Adjacent(at)[i] = p
           j == CHOOSE j \in 1..8 : Moves[j] = a.kind
<1>1. i \in 1..8 /\ Adjacent(at)[i] = p
  BY AdjacentIs
<1>2. a.kind = Moves[i]
  BY DEF MoveToward, Command
<1> HIDE DEF i
<1>3. j \in 1..8 /\ Moves[j] = Moves[i]
  BY <1>1, <1>2
<1> HIDE DEF j
<1>4. \A k, l \in 1..8 : Moves[k] = Moves[l] => k = l
  BY DEF Moves
<1>5. j = i
  BY <1>1, <1>3, <1>4
<1>6. a.kind \in ToSet(Moves)
  BY <1>1, <1>2, CommandsAre
<1> QED BY <1>1, <1>5, <1>6 DEF j

\* A step to a cell that is seen free, by who leaves nothing behind.
LEMMA StepRenews ==
  ASSUME NEW w \in Games, w.menu = Nil, w.mode = 1, NEW p \in Around(w.at), Passable(w, p),
         ~(w.foe /\ p = Lair), w.hp >= hp_max, w.status # {"Berserk"},
         NEW a, a = MoveToward(w.at, p), NEW v \in Answers(w, a)
  PROVE  Renewed(v)
<1> DEFINE messages == IF w.level[p] = "stairs" THEN {"staircase"} ELSE {}
           u == [w EXCEPT !.at = p, !.messages = messages]
<1>1. w.at \in Int \X Int /\ w \in Shapes
  BY ShapeIs DEF Games
<1>2. a.kind \in ToSet(Moves) /\ Adjacent(w.at)[CHOOSE i \in 1..8 : Moves[i] = a.kind] = p
  BY <1>1, MoveGoes
<1>3. Answers(w, a) = Steps(w, a)
  <2>1. a.kind \notin {"wait", "rest", "explore", "stairs_down", "abilities"}
    BY <1>2, CommandsAre
  <2> QED BY <1>2, <2>1 DEF Answers
<1>4. Steps(w, a) = After(u)
  BY <1>2 DEF Steps
<1>5. messages \in SUBSET Messages /\ messages \subseteq {"staircase"} /\ p \in DOMAIN w.level
  BY DEF Messages, Passable
<1>6. u \in Games
  <2> HIDE DEF messages
  <2> QED BY <1>5, MovedType
<1>7. u.messages \subseteq {"staircase"} /\ AtLair(u)
  <2>1. u.hp = w.hp /\ u.status = w.status /\ u.messages = messages
    <3> HIDE DEF messages
    <3> QED BY <1>1 DEF Shapes
  <2>2. w.hp \in Int
    BY <1>1, ShapeIs
  <2> HIDE DEF u, messages
  <2> QED BY <1>5, <2>1, <2>2 DEF AtLair, hp_max
<1> HIDE DEF u
<1> QED BY <1>3, <1>4, <1>6, <1>7, AfterRenews

\* Waiting, for who reads only that.
LEMMA WaitRenews ==
  ASSUME NEW w \in Games, w.menu = Nil, w.mode = 1, AtLair(w), NEW v \in Answers(w, Command("wait"))
  PROVE  Renewed(v)
<1>1. Command("wait").kind = "wait"
  BY DEF Command
<1>2. "wait" \notin ToSet(Moves)
  BY CommandsAre
<1>3. Answers(w, Command("wait")) = After(Quiet(w))
  BY <1>1, <1>2 DEF Answers
<1>4. Quiet(w).messages = {} /\ AtLair(Quiet(w))
  <2>1. w \in Shapes
    BY DEF Games
  <2> QED BY <2>1 DEF Quiet, AtLair, Shapes
<1> QED BY <1>3, <1>4, ChangedType, AfterRenews

\* An attack on the monster next to the player.
LEMMA AttackRenews ==
  ASSUME NEW w \in Games, w.menu = Nil, w.mode = 1, AtLair(w), w.foe, Lair \in Around(w.at),
         NEW a, a = MoveToward(w.at, Lair), NEW v \in Answers(w, a)
  PROVE  Renewed(v)
<1>1. w.at \in Int \X Int /\ w \in Shapes
  BY ShapeIs DEF Games
<1>2. a.kind \in ToSet(Moves) /\ Adjacent(w.at)[CHOOSE i \in 1..8 : Moves[i] = a.kind] = Lair
  BY <1>1, MoveGoes
<1>3. Answers(w, a) = Steps(w, a)
  <2>1. a.kind \notin {"wait", "rest", "explore", "stairs_down", "abilities"}
    BY <1>2, CommandsAre
  <2> QED BY <1>2, <2>1 DEF Answers
<1>4. Steps(w, a) = After(Quiet(w)) \union After([Quiet(w) EXCEPT !.foe = FALSE])
  BY <1>2 DEF Steps
<1> DEFINE u == [Quiet(w) EXCEPT !.foe = FALSE]
<1>5. Quiet(w).messages = {} /\ AtLair(Quiet(w)) /\ u.messages = {} /\ AtLair(u)
  BY <1>1 DEF Quiet, AtLair, Shapes
<1>6. Quiet(w) \in Games /\ u \in Games
  BY ChangedType
<1> HIDE DEF u
<1> QED BY <1>3, <1>4, <1>5, <1>6, AfterRenews DEF u

\* The monster is seen from next to its lair.
LEMMA SeenAtLair ==
  ASSUME NEW w \in Games, NEW o, o = View(w)
  PROVE  /\ Monsters(o) # {} => w.foe
         /\ w.foe /\ w.at \in Around(Lair) => Near(o) = {Lair}
         /\ w.foe /\ Lair \in DOMAIN o.cells => Lair \in Monsters(o)
         /\ Near(o) # {} => w.foe /\ Near(o) = {Lair} /\ w.at \in Around(Lair)
<1>1. w.level \in Levels /\ w.at \in Int \X Int
  BY ShapeIs DEF Games
<1>2. Lair \in DOMAIN w.level /\ Lair \in Int \X Int
  BY <1>1, LevelIs
<1>3. Monsters(o) \subseteq {Lair} /\ Monsters(o) = {p \in DOMAIN o.cells : o.cells[p].mon \notin {Nil} \union _IGNORED_STATIONARY_MONSTERS}
  BY OnlyInLair DEF Monsters
<1>4. \A p \in DOMAIN o.cells : o.cells[p].mon = IF w.foe /\ p = Lair THEN "rat" ELSE Nil
  BY ViewIs
<1>5. Monsters(o) # {} => w.foe
  BY <1>3, <1>4
<1>6. w.foe /\ Lair \in DOMAIN o.cells => Lair \in Monsters(o)
  BY <1>3, <1>4, MenuAssumption DEF _IGNORED_STATIONARY_MONSTERS
<1>7. w.at \in Around(Lair) => Lair \in Around(w.at) /\ Lair \in DOMAIN o.cells
  <2>1. w.at \in Around(Lair) => Lair \in Around(w.at)
    BY <1>1, <1>2, AroundSymmetric
  <2>2. DOMAIN o.cells = Seen(w)
    BY DEF View
  <2> QED BY <1>2, <2>1, <2>2 DEF Seen
<1>8. o.at = w.at
  BY ViewIs
<1>9. w.foe /\ w.at \in Around(Lair) => Near(o) = {Lair}
  BY <1>3, <1>6, <1>7, <1>8 DEF Near
<1>10. Near(o) # {} => w.foe /\ Near(o) = {Lair} /\ w.at \in Around(Lair)
  <2> SUFFICES ASSUME Near(o) # {} PROVE w.foe /\ Near(o) = {Lair} /\ w.at \in Around(Lair)
    OBVIOUS
  <2>1. Near(o) = {Lair} /\ Lair \in Around(w.at) /\ Monsters(o) # {}
    BY <1>3, <1>8 DEF Near
  <2> QED BY <1>1, <1>2, <1>5, <2>1, AroundSymmetric
<1> QED BY <1>5, <1>6, <1>9, <1>10

\* Who neither fights, waits nor rests is well.
LEMMA Well ==
  ASSUME NEW w \in Games, AtLair(w), NEW o, o = View(w), Near(o) = {},
         ~(Berserk(o) /\ Monsters(o) = {}), ~(Monsters(o) = {} /\ Hurt(o))
  PROVE  w.hp >= hp_max /\ w.status # {"Berserk"}
<1>1. o.hp = w.hp /\ o.hp_max = hp_max /\ o.status = w.status /\ w.hp \in Int
  BY ShapeIs DEF View, Games
<1>2. w.at \in Around(Lair) => Monsters(o) = {}
  BY SeenAtLair
<1>3. w.status = {"Berserk"} => Berserk(o)
  BY <1>1 DEF Berserk
<1>4. w.hp < hp_max => Hurt(o)
  BY <1>1 DEF Hurt
<1>5. ~(w.hp < hp_max)
  BY <1>2, <1>4 DEF AtLair
<1> QED BY <1>1, <1>2, <1>3, <1>5 DEF AtLair, hp_max
Told(w, messages) == w.messages = messages /\ w.menu = Nil /\ w.mode = 1

LEMMA Tells ==
  ASSUME NEW w \in Games, NEW messages
  PROVE  \A v \in Instead(w, messages, Nil) : Told(v, messages) /\ ~v.passed /\ Still(w, v)
BY InsteadIs DEF Told

LEMMA Asks ==
  ASSUME NEW w \in Games, NEW menu
  PROVE  \A v \in Instead(w, {}, menu) : v.messages = {} /\ v.menu = menu /\ ~v.passed /\ Still(w, v)
BY InsteadIs

\* The screens the teacher can be on when its last key took no time.
Stalled(w) ==
  LET o == View(w) IN
  /\ ~w.passed /\ AtLair(w)
  /\ \/ Told(w, {})
     \/ /\ w.messages = {} /\ w.menu = AbilityMenu(w)
        /\ w.status = {} /\ Near(o) # {} /\ WorthBerserk(o)
     \/ w.messages = {} /\ w.menu = RestPrompt /\ Refusing(w)
     \/ Told(w, {"lethal"}) /\ Monsters(o) = {}
     \/ Told(w, {"nearby"}) /\ Near(o) = {} /\ ~(Monsters(o) = {} /\ Hurt(o))
     \/ Told(w, {"done exploring"}) /\ StepToStairs(o) = Nil

\* The answers that take no time, to a key that another rule decided on.
LEMMA AbilitiesStall ==
  ASSUME NEW w \in Games, AtLair(w), w.menu = Nil, w.mode = 1, w.status = {}, Near(View(w)) # {},
         WorthBerserk(View(w)), NEW v \in Answers(w, Command("abilities"))
  PROVE  Still(w, v) /\ Stalled(v) /\ v.messages = {} /\ v.menu = AbilityMenu(w)
<1>1. Command("abilities").kind = "abilities" /\ "abilities" \notin ToSet(Moves)
  BY CommandsAre DEF Command
<1>2. Answers(w, Command("abilities")) = Instead(w, {}, AbilityMenu(w))
  BY <1>1 DEF Answers
<1>3. AbilityMenu(w) \in Menus
  BY DEF AbilityMenu, Menus
<1>4. v.messages = {} /\ v.menu = AbilityMenu(w) /\ ~v.passed /\ Still(w, v)
  BY <1>2, <1>3, Asks
<1> QED BY <1>4, StillSame DEF Stalled, Still

LEMMA RestsStall ==
  ASSUME NEW w \in Games, AtLair(w), w.menu = Nil, w.mode = 1, Monsters(View(w)) = {}, Hurt(View(w)),
         NEW v \in Answers(w, Command("rest"))
  PROVE  Renewed(v) \/ (Still(w, v) /\ Stalled(v) /\ (v.messages = {"lethal"} \/ v.menu = RestPrompt))
<1> DEFINE u == [Quiet(w) EXCEPT !.hp = hp_max]
<1>1. Command("rest").kind = "rest" /\ "rest" \notin ToSet(Moves)
  BY CommandsAre DEF Command
<1>2. Answers(w, Command("rest")) = Rests(w)
  BY <1>1 DEF Answers
<1>3. w \in Shapes /\ w.hp \in Int
  BY ShapeIs DEF Games
<1>4. ~w.foe
  <2>1. w.hp < hp_max
    BY <1>3 DEF Hurt, View, hp_max
  <2> QED BY <2>1, SeenAtLair DEF AtLair, Near
<1>5. CASE w.trouble = "poison"
  <2>1. v \in Instead(w, {"lethal"}, Nil) /\ {"lethal"} \in SUBSET Messages
    BY <1>2, <1>4, <1>5 DEF Rests, Messages
  <2>2. Told(v, {"lethal"}) /\ ~v.passed /\ Still(w, v)
    BY <2>1, Tells
  <2> QED BY <2>2, StillSame DEF Stalled, Told
<1>6. CASE w.trouble = "zot"
  <2>1. v \in Instead(w, {}, RestPrompt) /\ RestPrompt \in Menus
    BY <1>2, <1>4, <1>6 DEF Rests, Menus
  <2>2. v.messages = {} /\ v.menu = RestPrompt /\ ~v.passed /\ Still(w, v)
    BY <2>1, Asks
  <2>3. Refusing(w)
    BY <1>6 DEF Refusing
  <2> QED BY <2>2, <2>3, StillSame DEF Stalled
<1>7. CASE w.trouble \notin {"poison", "zot"}
  <2>1. v \in After(u)
    BY <1>2, <1>4, <1>7 DEF Rests
  <2>2. u \in Games
    BY ChangedType
  <2>3. u.messages = {} /\ AtLair(u)
    BY <1>3 DEF Quiet, AtLair, Shapes, hp_max
  <2> HIDE DEF u
  <2> QED BY <2>1, <2>2, <2>3, AfterRenews
<1> QED BY <1>5, <1>6, <1>7

LEMMA ExploresStall ==
  ASSUME NEW w \in Games, AtLair(w), w.menu = Nil, w.mode = 1, w.hp >= hp_max, w.status # {"Berserk"},
         Near(View(w)) = {}, ~(Monsters(View(w)) = {} /\ Hurt(View(w))), StepToStairs(View(w)) = Nil,
         NEW v \in Answers(w, Command("explore"))
  PROVE  Renewed(v) \/ (Still(w, v) /\ Stalled(v) /\ v.messages \in {{"nearby"}, {"done exploring"}})
<1>1. Command("explore").kind = "explore" /\ "explore" \notin ToSet(Moves)
  BY CommandsAre DEF Command
<1>2. Answers(w, Command("explore")) = Explores(w)
  BY <1>1 DEF Answers
<1>3. w \in Shapes /\ w.hp \in Int /\ w.level \in Levels
  BY ShapeIs DEF Games
<1>4. CASE w.foe
  <2>1. v \in Instead(w, {"nearby"}, Nil) /\ {"nearby"} \in SUBSET Messages
    BY <1>2, <1>4 DEF Explores, Messages
  <2>2. Told(v, {"nearby"}) /\ ~v.passed /\ Still(w, v)
    BY <2>1, Tells
  <2> QED BY <2>2, StillSame DEF Stalled, Told
<1>5. CASE ~w.foe /\ w.revealed
  <2>1. v \in Instead(w, {"done exploring"}, Nil) /\ {"done exploring"} \in SUBSET Messages
    BY <1>2, <1>5 DEF Explores, Messages
  <2>2. Told(v, {"done exploring"}) /\ ~v.passed /\ Still(w, v)
    BY <2>1, Tells
  <2> QED BY <2>2, StillSame DEF Stalled, Told
<1>6. CASE ~w.foe /\ ~w.revealed
  <2> DEFINE passable == {p \in DOMAIN w.level : Passable(w, p)}
             Reach == {q \in Within({w.at}, passable, Cardinality(passable)) : w.level[q] = "floor"}
             Arrived(p) == [Quiet(w) EXCEPT !.revealed = TRUE, !.at = p]
  <2>1. Explores(w) = UNION {After(Arrived(p)) : p \in Reach}
    BY <1>6 DEF Explores
  <2>2. \A p \in Reach : p \in DOMAIN w.level
    <3>1. Within({w.at}, passable, Cardinality(passable)) \subseteq passable
      <4>1. Cardinality(passable) \in Nat
        <5>1. IsFiniteSet(DOMAIN w.level) /\ passable \in SUBSET DOMAIN w.level
          BY <1>3, LevelIs
        <5> HIDE DEF passable
        <5> QED BY <5>1, FS_Subset, FS_CardinalityType
      <4> HIDE DEF passable
      <4> QED BY <4>1, WithinIs
    <3> QED BY <3>1
  <2> HIDE DEF Reach
  <2>3. PICK p \in Reach : v \in After(Arrived(p))
    <3> HIDE DEF Arrived
    <3> QED BY <1>2, <2>1
  <2>4. Arrived(p) \in Games
    BY <2>2, MovedType
  <2>5. Arrived(p).messages = {} /\ AtLair(Arrived(p))
    BY <1>3 DEF Quiet, AtLair, Shapes, hp_max
  <2> HIDE DEF Arrived
  <2> QED BY <2>3, <2>4, <2>5, AfterRenews
<1> QED BY <1>4, <1>5, <1>6

LEMMA DescendsStall ==
  ASSUME NEW w \in Games, AtLair(w), w.menu = Nil, w.mode = 1, w.hp >= hp_max, w.status # {"Berserk"},
         NEW v \in Answers(w, Command("stairs_down"))
  PROVE  Renewed(v) \/ (Still(w, v) /\ Stalled(v) /\ Told(v, {}))
<1>1. Command("stairs_down").kind = "stairs_down" /\ "stairs_down" \notin ToSet(Moves)
  BY CommandsAre DEF Command
<1>2. Answers(w, Command("stairs_down")) = Descends(w)
  BY <1>1 DEF Answers
<1>3. w.hp \in Int
  BY ShapeIs DEF Games
<1>4. CASE v \in Instead(w, {}, Nil)
  <2>1. Told(v, {}) /\ ~v.passed /\ Still(w, v)
    BY <1>4, Tells
  <2> QED BY <2>1, StillSame DEF Stalled
<1>5. CASE v = Entered(w.level, w.trouble, w.depth + 1, w.hp, w.status)
  BY <1>3, <1>5 DEF Entered, Renewed, AtLair, hp_max
<1> QED BY <1>2, <1>4, <1>5 DEF Descends
\* A step that is found is open.
LEMMA FoundIsOpen ==
  ASSUME NEW start, NEW goals, NEW open, IsFiniteSet(open), NEW step, step # Nil,
         IsShortest(step, start, goals, open)
  PROVE  step \in Around(start) /\ step \in open
<1>1. step \in Around(start) /\ \E n \in 0..Cardinality(open) : step \in Within(goals, open, n)
  BY DEF IsShortest
<1>2. Cardinality(open) \in Nat
  BY FS_CardinalityType
<1>3. PICK n \in Nat : step \in Within(goals, open, n)
  BY <1>1, <1>2
<1> QED BY <1>1, <1>3, WithinIs

\* A walkable cell that is seen is floor, one that looks like stairs is stairs: the
\* player can go there, and there is no monster in it when none is near.
LEMMA StepIsFree ==
  ASSUME NEW w \in Games, NEW o, o = View(w), Near(o) = {}, NEW p \in DOMAIN o.cells, p \in Around(w.at),
         p \in Downstairs(o) \/ Walkable(o.cells[p])
  PROVE  Passable(w, p) /\ ~(w.foe /\ p = Lair)
<1>1. o.at = w.at /\ DOMAIN o.cells = Seen(w) /\ Seen(w) \subseteq DOMAIN w.level
  BY DEF View, Seen
<1>2. /\ w.level[p] \in {"floor", "wall", "door", "stairs", "fumes"}
      /\ o.cells[p].g = IF p = w.at THEN "@" ELSE IF w.foe /\ p = Lair THEN "r" ELSE Kind[w.level[p]].g
      /\ o.cells[p].mf = Kind[w.level[p]].mf
  BY ViewIs
<1>3. ~(w.foe /\ p = Lair)
  <2> SUFFICES ASSUME w.foe, p = Lair PROVE FALSE
    OBVIOUS
  <2>1. Lair \in Monsters(o)
    BY SeenAtLair
  <2> QED BY <1>1, <2>1 DEF Near
<1>4. CASE p \in Downstairs(o)
  <2>1. o.cells[p].g = ">"
    BY <1>4 DEF Downstairs
  <2>2. w.level[p] = "stairs"
    BY <1>2, <2>1 DEF Kind
  <2> QED BY <1>1, <1>3, <2>2 DEF Passable
<1>5. CASE Walkable(o.cells[p])
  <2>1. o.cells[p].mf \in {Nil, 1}
    BY <1>5 DEF Walkable
  <2>2. w.level[p] = "floor"
    BY <1>2, <2>1, NilAssumption DEF Kind
  <2> QED BY <1>1, <1>3, <2>2 DEF Passable
<1> QED BY <1>4, <1>5

\* The steps that the teacher takes are found on cells it sees, next to it.
LEMMA StepsAreFree ==
  ASSUME NEW w \in Games, NEW o, o = View(w), Near(o) = {}
  PROVE  /\ StepToMonster(o) # Nil =>
              /\ StepToMonster(o) \in Around(w.at) /\ Passable(w, StepToMonster(o))
              /\ ~(w.foe /\ StepToMonster(o) = Lair)
         /\ StepToStairs(o) # Nil =>
              /\ StepToStairs(o) \in Around(w.at) /\ Passable(w, StepToStairs(o))
              /\ ~(w.foe /\ StepToStairs(o) = Lair)
<1>1. o.at = w.at /\ w.at \in Int \X Int /\ w.at \notin Downstairs(o) /\ Monsters(o) \subseteq DOMAIN o.cells
      /\ IsFiniteSet(DOMAIN o.cells) /\ DOMAIN o.cells \subseteq Int \X Int
  BY ViewIs, NotOnStairs DEF Monsters
<1>2. StepToMonster(o) # Nil => StepToMonster(o) \in Around(w.at) \intersect Open(o, Monsters(o))
  <2> SUFFICES ASSUME StepToMonster(o) # Nil
               PROVE  StepToMonster(o) \in Around(w.at) \intersect Open(o, Monsters(o))
    OBVIOUS
  <2> DEFINE goals == UNION {Around(p) : p \in Monsters(o)}
             open == Open(o, Monsters(o))
  <2>1. w.at \notin goals
    <3> SUFFICES ASSUME NEW p \in Monsters(o), w.at \in Around(p) PROVE FALSE
      OBVIOUS
    <3>1. p \in Around(w.at)
      BY <1>1, AroundSymmetric
    <3> QED BY <1>1, <3>1 DEF Near
  <2>2. open \in SUBSET DOMAIN o.cells /\ StepToMonster(o) = ShortestStep(o.at, goals, open)
    BY DEF Open, StepToMonster
  <2> HIDE DEF goals, open
  <2>3. IsShortest(StepToMonster(o), o.at, goals, open)
    BY <2>1, <2>2, SeenShortest
  <2>4. StepToMonster(o) \in Around(w.at) /\ StepToMonster(o) \in open
    <3>1. IsFiniteSet(open)
      BY <1>1, <2>2, FS_Subset
    <3> QED BY <1>1, <2>3, <3>1, FoundIsOpen
  <2> QED BY <2>4 DEF open
<1>3. StepToStairs(o) # Nil => StepToStairs(o) \in Around(w.at) \intersect Open(o, Downstairs(o))
  <2> SUFFICES ASSUME StepToStairs(o) # Nil
               PROVE  StepToStairs(o) \in Around(w.at) \intersect Open(o, Downstairs(o))
    OBVIOUS
  <2> DEFINE goals == Downstairs(o)
             open == Open(o, goals)
  <2>1. open \in SUBSET DOMAIN o.cells /\ StepToStairs(o) = ShortestStep(o.at, goals, open)
    BY DEF Open, StepToStairs
  <2>2. w.at \notin goals
    BY <1>1
  <2> HIDE DEF goals, open
  <2>3. IsShortest(StepToStairs(o), o.at, goals, open)
    BY <2>1, <2>2, SeenShortest
  <2>4. StepToStairs(o) \in Around(w.at) /\ StepToStairs(o) \in open
    <3>1. IsFiniteSet(open)
      BY <1>1, <2>1, FS_Subset
    <3> QED BY <1>1, <2>3, <3>1, FoundIsOpen
  <2> QED BY <2>4 DEF open, goals
<1>4. \A p \in Around(w.at) \intersect Open(o, Monsters(o)) : p \in DOMAIN o.cells /\ Walkable(o.cells[p])
  BY <1>1 DEF Open, Near
<1>5. \A p \in Around(w.at) \intersect Open(o, Downstairs(o)) :
        p \in DOMAIN o.cells /\ (p \in Downstairs(o) \/ Walkable(o.cells[p]))
  BY DEF Open
<1> QED BY <1>2, <1>3, <1>4, <1>5, StepIsFree
\* What the teacher sends where commands are read: time passes, or the game shows one of
\* the screens of Stalled.
LEMMA CommandGoes ==
  ASSUME NEW w \in Games, AtLair(w), w.menu = Nil, w.mode = 1, NEW o, o = View(w),
         NEW v \in Answers(w, DecideCommand(o))
  PROVE  /\ Renewed(v) \/ (Still(w, v) /\ Stalled(v) /\ (Told(v, {}) => "staircase" \in w.messages))
         /\ Told(w, {"lethal"}) /\ Monsters(o) = {} => Renewed(v)
         /\ Told(w, {"nearby"}) /\ Near(o) = {} /\ ~(Monsters(o) = {} /\ Hurt(o)) => Renewed(v)
<1> DEFINE d == DecideCommand(o)
<1>1. d = IF Near(o) # {} THEN IF WorthBerserk(o) /\ ~Berserk(o) /\ ~Exhausted(o)
                                 THEN Command("abilities") ELSE MoveToward(o.at, Least(Near(o)))
          ELSE IF Berserk(o) /\ Monsters(o) = {} THEN Command("wait")
          ELSE IF "lethal" \in o.messages THEN Command("wait")
          ELSE IF Monsters(o) = {} /\ Hurt(o) THEN Command("rest")
          ELSE IF StepToMonster(o) # Nil THEN MoveToward(o.at, StepToMonster(o))
          ELSE IF "staircase" \in o.messages THEN Command("stairs_down")
          ELSE IF "nearby" \in o.messages THEN Command("wait")
          ELSE IF o.at \in Downstairs(o) THEN Command("stairs_down")
          ELSE IF StepToStairs(o) # Nil THEN MoveToward(o.at, StepToStairs(o))
          ELSE Command("explore")
  BY DEF DecideCommand, Near
<1>2. /\ o.at = w.at /\ o.messages = w.messages /\ o.status = w.status /\ o.at \notin Downstairs(o)
      /\ w.status \in {{}, {"Berserk"}, {"-Berserk"}}
  BY ViewIs, NotOnStairs, ShapeIs DEF View, Games
<1>3. v \in Answers(w, d)
  OBVIOUS
<1> HIDE DEF d
<1>4. CASE Near(o) # {}
  <2>1. Monsters(o) # {}
    BY <1>4 DEF Near
  <2>2. w.foe /\ Near(o) = {Lair} /\ Lair \in Around(w.at)
    BY <1>2, <1>4, SeenAtLair DEF Near
  <2>3. CASE WorthBerserk(o) /\ ~Berserk(o) /\ ~Exhausted(o)
    <3>1. w.status = {}
      BY <1>2, <2>3 DEF Berserk
    <3>2. d = Command("abilities")
      BY <1>1, <1>4, <2>3
    <3>3. Still(w, v) /\ Stalled(v) /\ v.menu = AbilityMenu(w)
      BY <1>3, <1>4, <2>3, <3>1, <3>2, AbilitiesStall
    <3>4. ~Told(v, {})
      BY <3>3, MenuAssumption DEF Told, AbilityMenu, Menus
    <3> QED BY <1>4, <2>1, <3>3, <3>4
  <2>4. CASE ~(WorthBerserk(o) /\ ~Berserk(o) /\ ~Exhausted(o))
    <3>1. Least(Near(o)) = Lair
      <4>1. Lair \in Int \X Int
        BY <2>2, ShapeIs, AdjacentIs DEF Games
      <4>2. Lair[1] \in Int /\ Lair[2] \in Int
        BY <4>1
      <4>3. \A q \in {Lair} : Lair[1] < q[1] \/ (Lair[1] = q[1] /\ Lair[2] <= q[2])
        BY <4>2
      <4> QED BY <2>2, <4>3 DEF Least
    <3>2. d = MoveToward(w.at, Lair)
      BY <1>1, <1>2, <1>4, <2>4, <3>1
    <3>3. Renewed(v)
      BY <1>3, <2>2, <3>2, AttackRenews
    <3> QED BY <3>3
  <2> QED BY <2>3, <2>4
<1>5. CASE Near(o) = {} /\ d = Command("wait")
  <2>1. Renewed(v)
    BY <1>3, <1>5, WaitRenews
  <2> QED BY <2>1
<1>6. CASE /\ Near(o) = {} /\ d = Command("rest") /\ Monsters(o) = {} /\ Hurt(o)
           /\ "lethal" \notin w.messages
  <2>1. Renewed(v) \/ (Still(w, v) /\ Stalled(v) /\ (v.messages = {"lethal"} \/ v.menu = RestPrompt))
    BY <1>3, <1>6, RestsStall
  <2>2. v.messages = {"lethal"} \/ v.menu = RestPrompt => ~Told(v, {})
    BY MenuAssumption DEF Told, Menus
  <2> QED BY <1>6, <2>1, <2>2 DEF Told
<1>7. CASE /\ Near(o) = {} /\ ~(Berserk(o) /\ Monsters(o) = {}) /\ "lethal" \notin w.messages
           /\ ~(Monsters(o) = {} /\ Hurt(o))
  <2>1. w.hp >= hp_max /\ w.status # {"Berserk"}
    BY <1>7, Well
  <2>2. CASE StepToMonster(o) # Nil
    <3>1. d = MoveToward(w.at, StepToMonster(o))
      BY <1>1, <1>2, <1>7, <2>2
    <3>2. Renewed(v)
      <4> DEFINE p == StepToMonster(o)
      <4>1. p \in Around(w.at) /\ Passable(w, p) /\ ~(w.foe /\ p = Lair) /\ d = MoveToward(w.at, p)
        BY <1>7, <2>2, <3>1, StepsAreFree
      <4> HIDE DEF p
      <4> QED BY <1>3, <2>1, <4>1, StepRenews
    <3> QED BY <3>2
  <2>3. CASE StepToMonster(o) = Nil /\ "staircase" \in w.messages
    <3>1. d = Command("stairs_down")
      BY <1>1, <1>2, <1>7, <2>3
    <3>2. Renewed(v) \/ (Still(w, v) /\ Stalled(v) /\ Told(v, {}))
      BY <1>3, <2>1, <3>1, DescendsStall
    <3>3. ~Told(w, {"lethal"}) /\ ~Told(w, {"nearby"})
      BY <2>3 DEF Told
    <3> QED BY <2>3, <3>2, <3>3
  <2>4. CASE StepToMonster(o) = Nil /\ "staircase" \notin w.messages /\ "nearby" \in w.messages
    <3>1. d = Command("wait")
      BY <1>1, <1>2, <1>7, <2>4
    <3> QED BY <1>5, <1>7, <3>1
  <2>5. CASE StepToMonster(o) = Nil /\ "staircase" \notin w.messages /\ "nearby" \notin w.messages
    <3>1. ~Told(w, {"lethal"}) /\ ~Told(w, {"nearby"})
      BY <1>7, <2>5 DEF Told
    <3>2. CASE StepToStairs(o) # Nil
      <4> DEFINE p == StepToStairs(o)
      <4>1. d = MoveToward(w.at, p)
        BY <1>1, <1>2, <1>7, <2>5, <3>2
      <4>2. p \in Around(w.at) /\ Passable(w, p) /\ ~(w.foe /\ p = Lair)
        BY <1>7, <3>2, StepsAreFree
      <4> HIDE DEF p
      <4>3. Renewed(v)
        BY <1>3, <2>1, <4>1, <4>2, StepRenews
      <4> QED BY <4>3
    <3>3. CASE StepToStairs(o) = Nil
      <4>1. d = Command("explore")
        BY <1>1, <1>2, <1>7, <2>5, <3>3
      <4>2. Renewed(v) \/ (Still(w, v) /\ Stalled(v) /\ v.messages \in {{"nearby"}, {"done exploring"}})
        BY <1>3, <1>7, <2>1, <3>3, <4>1, ExploresStall
      <4>3. v.messages \in {{"nearby"}, {"done exploring"}} => ~Told(v, {})
        BY DEF Told
      <4> QED BY <3>1, <4>2, <4>3
    <3> QED BY <3>2, <3>3
  <2> QED BY <2>2, <2>3, <2>4, <2>5
<1>8. \/ Near(o) # {}
      \/ Near(o) = {} /\ d = Command("wait")
      \/ Near(o) = {} /\ d = Command("rest") /\ Monsters(o) = {} /\ Hurt(o) /\ "lethal" \notin w.messages
      \/ /\ Near(o) = {} /\ ~(Berserk(o) /\ Monsters(o) = {}) /\ "lethal" \notin w.messages
         /\ ~(Monsters(o) = {} /\ Hurt(o))
  BY <1>1, <1>2
<1> QED BY <1>4, <1>5, <1>6, <1>7, <1>8
-------------------------------------------------------------------------------
(* What the game takes in a menu, and answers.                                *)

LEMMA OneIs ==
  ASSUME NEW c
  PROVE  DOMAIN <<c>> = {1} /\ <<c>>[1] = c /\ ToSet(<<c>>) = {c}
<1>1. DOMAIN <<c>> = {1} /\ <<c>>[1] = c
  OBVIOUS
<1> DEFINE s == <<c>>
<1> HIDE DEF s
<1>2. DOMAIN s = {1} /\ s[1] = c => ToSet(s) = {c}
  BY DEF ToSet
<1> QED BY <1>1, <1>2 DEF s

LEMMA TwoAre ==
  ASSUME NEW c, NEW e
  PROVE  ToSet(<<c, e>>) = {c, e}
<1>1. DOMAIN <<c, e>> = {1, 2} /\ <<c, e>>[1] = c /\ <<c, e>>[2] = e
  OBVIOUS
<1> DEFINE s == <<c, e>>
<1> HIDE DEF s
<1>2. DOMAIN s = {1, 2} /\ s[1] = c /\ s[2] = e => ToSet(s) = {c, e}
  BY DEF ToSet
<1> QED BY <1>1, <1>2 DEF s

LEMMA AbilitiesAre ==
  ASSUME NEW b \in BOOLEAN, NEW menu, menu = Abilities(b)
  PROVE  /\ menu.type = "ability" /\ DOMAIN menu.choices = {1} /\ ToSet(menu.choices) = {menu.choices[1]}
         /\ menu.choices[1].key = "a" /\ menu.choices[1].text = "berserk"
         /\ menu.choices[1].applicable <=> b
<1> DEFINE c == [key |-> "a", text |-> "berserk", applicable |-> b]
<1>1. c.key = "a" /\ c.text = "berserk" /\ c.applicable = b
  OBVIOUS
<1>2. menu = [type |-> "ability", choices |-> <<c>>]
  BY DEF Abilities
<1> HIDE DEF c
<1>3. menu.type = "ability" /\ menu.choices = <<c>>
  BY <1>2
<1> QED BY <1>1, <1>3, OneIs

\* The keys that a menu takes.
KeysOf(menu) == {c.key : c \in ToSet(menu.choices)}

LEMMA KeysAre ==
  /\ KeysOf(More) = {" "} /\ KeysOf(LevelUp) = {"I", "S"} /\ KeysOf(RestPrompt) = {"Y", "N"}
  /\ \A b \in BOOLEAN : KeysOf(Abilities(b)) = {"a"}
<1>1. KeysOf(More) = {" "}
  <2> DEFINE key == " "
             c == [key |-> key, text |-> "other", applicable |-> TRUE]
  <2>1. c.key = key /\ More = [type |-> "more", choices |-> <<c>>]
    BY DEF More
  <2> HIDE DEF c, key
  <2>2. ToSet(More.choices) = {c}
    BY <2>1, OneIs
  <2>3. KeysOf(More) = {key}
    BY <2>1, <2>2 DEF KeysOf
  <2> QED BY <2>3 DEF key
<1>2. ASSUME NEW c, NEW e, NEW type PROVE KeysOf([type |-> type, choices |-> <<c, e>>]) = {c.key, e.key}
  BY TwoAre DEF KeysOf
<1>3. KeysOf(LevelUp) = {"I", "S"}
  <2> DEFINE c == [key |-> "I", text |-> "other", applicable |-> TRUE]
             e == [key |-> "S", text |-> "strength", applicable |-> TRUE]
  <2>1. c.key = "I" /\ e.key = "S" /\ LevelUp = [type |-> "prompt", choices |-> <<c, e>>]
    BY DEF LevelUp
  <2> HIDE DEF c, e
  <2> QED BY <1>2, <2>1
<1>4. KeysOf(RestPrompt) = {"Y", "N"}
  <2> DEFINE c == [key |-> "Y", text |-> "yes", applicable |-> TRUE]
             e == [key |-> "N", text |-> "no", applicable |-> TRUE]
  <2>1. c.key = "Y" /\ e.key = "N" /\ RestPrompt = [type |-> "prompt", choices |-> <<c, e>>]
    BY DEF RestPrompt
  <2> HIDE DEF c, e
  <2> QED BY <1>2, <2>1
<1>5. ASSUME NEW b \in BOOLEAN PROVE KeysOf(Abilities(b)) = {"a"}
  <2> DEFINE menu == Abilities(b)
  <2>1. ToSet(menu.choices) = {menu.choices[1]} /\ menu.choices[1].key = "a"
    BY AbilitiesAre
  <2> HIDE DEF menu
  <2>2. KeysOf(menu) = {"a"}
    BY <2>1 DEF KeysOf
  <2> QED BY <2>2 DEF menu
<1> QED BY <1>1, <1>3, <1>4, <1>5

\* In a menu one cancels or sends one of its keys.
LEMMA LegalInMenu ==
  ASSUME NEW o, o.menu # Nil, NEW a \in Legal(o)
  PROVE  \/ a.kind = "cancel" /\ a.key = Nil
         \/ a.kind = "menu_select" /\ a.key \in KeysOf(o.menu)
<1>1. a \in {Command("cancel")} \union {MenuSelect(c.key) : c \in ToSet(o.menu.choices)}
  BY DEF Legal
<1>2. CASE a = Command("cancel")
  BY <1>2 DEF Command
<1>3. CASE \E c \in ToSet(o.menu.choices) : a = MenuSelect(c.key)
  BY <1>3 DEF MenuSelect, KeysOf
<1> QED BY <1>1, <1>2, <1>3

LEMMA AbilitiesAnswered ==
  ASSUME NEW w \in Games, AtLair(w), w.messages = {}, w.menu = AbilityMenu(w), w.status = {},
         Near(View(w)) # {}, WorthBerserk(View(w)), NEW v \in Answers(w, Select(View(w)))
  PROVE  Renewed(v) \/ (Still(w, v) /\ Stalled(v) /\ Refusing(w))
<1> DEFINE o == View(w)
           a == Select(o)
<1>1. o.menu = w.menu /\ w.menu # Nil
  <2>1. AbilityMenu(w) \in Menus
    BY DEF AbilityMenu, Menus
  <2> QED BY <2>1, MenuAssumption, ViewIs
<1>2. Answers(w, a) = InMenu(w, a)
  BY <1>1 DEF Answers
<1>3. CASE w.trouble # "piety"
  <2>1. w.menu = Abilities(TRUE)
    BY <1>3 DEF AbilityMenu
  <2>2. /\ w.menu.type = "ability" /\ DOMAIN w.menu.choices = {1} /\ w.menu.choices[1].key = "a"
        /\ w.menu.choices[1].text = "berserk" /\ w.menu.choices[1].applicable
    BY <2>1, AbilitiesAre
  <2>3. DecideInMenu(w.menu) = MenuSelect("a")
    <3> DEFINE Of(text) == {i \in DOMAIN w.menu.choices : w.menu.choices[i].text = text}
               berserk == {i \in Of("berserk") : w.menu.choices[i].applicable}
    <3>1. berserk = {1} /\ w.menu.choices[1].key = "a"
      BY <2>2
    <3>2. DecideInMenu(w.menu) = MenuSelect(w.menu.choices[Min(berserk)].key)
      BY <2>2, <3>1 DEF DecideInMenu
    <3> HIDE DEF berserk
    <3>3. Min(berserk) = 1
      BY <3>1, MinIs
    <3> QED BY <3>1, <3>2, <3>3
  <2>4. a = MenuSelect("a")
    BY <1>1, <2>3, Decides DEF Select, Decide
  <2> DEFINE u == [Answered(w) EXCEPT !.status = {"Berserk"}]
  <2>5. InMenu(w, a) = After(u) \union After(Answered(w))
    <3>1. a.kind = "menu_select" /\ a.key = "a" /\ w.menu.choices[1].applicable
      BY <2>2, <2>4 DEF MenuSelect
    <3> HIDE DEF a
    <3> QED BY <3>1 DEF InMenu
  <2>6. u \in Games /\ Answered(w) \in Games
    BY ChangedType
  <2>7. u.messages = {} /\ Answered(w).messages = {} /\ AtLair(u) /\ AtLair(Answered(w))
    <3>1. w.at \in Around(Lair)
      BY SeenAtLair
    <3>2. w = Fields(w)
      BY ShapeIs DEF Games
    <3>3. Answered(w).at = w.at /\ Answered(w).messages = {}
      BY <3>2 DEF Answered, Fields
    <3>4. u.at = Answered(w).at /\ u.messages = Answered(w).messages
      BY <2>6 DEF Games, Shapes
    <3> HIDE DEF u
    <3> QED BY <3>1, <3>3, <3>4 DEF AtLair
  <2> HIDE DEF u, a
  <2>8. v \in After(u) \/ v \in After(Answered(w))
    BY <1>2, <2>5 DEF a
  <2>9. Renewed(v)
    BY <2>6, <2>7, <2>8, AfterRenews
  <2> QED BY <2>9
<1>4. CASE w.trouble = "piety"
  <2>1. w.menu = Abilities(FALSE)
    BY <1>4 DEF AbilityMenu
  <2>2. ~w.menu.choices[1].applicable /\ KeysOf(w.menu) = {"a"}
    BY <2>1, AbilitiesAre, KeysAre
  <2>3. a \in Legal(o)
    BY Selects
  <2>4. ~(a.kind = "menu_select" /\ a.key = "Y") /\ ~w.menu.choices[1].applicable
    <3> HIDE DEF a
    <3>1. a.kind = "cancel" \/ a.key \in KeysOf(w.menu)
      BY <1>1, <2>3, LegalInMenu
    <3> QED BY <2>2, <3>1
  <2> DEFINE menu == IF a.key = "a" THEN w.menu ELSE Nil
  <2>5. v \in Instead(w, {}, menu)
    <3> HIDE DEF a
    <3>1. v \in InMenu(w, a)
      BY <1>2 DEF a
    <3> QED BY <2>4, <3>1 DEF InMenu
  <2>6. menu = w.menu \/ menu = Nil
    OBVIOUS
  <2> HIDE DEF menu, a
  <2>7. v.messages = {} /\ v.menu = menu /\ (menu = Nil => v.mode = 1) /\ ~v.passed /\ Still(w, v)
    BY <2>5, InsteadIs
  <2>8. Refusing(w)
    BY <1>4 DEF Refusing
  <2>9. AbilityMenu(v) = AbilityMenu(w) /\ Near(View(v)) # {} /\ WorthBerserk(View(v)) /\ AtLair(v)
        /\ v.status = {}
    BY <2>7, StillSame DEF Still
  <2>10. Stalled(v)
    BY <2>6, <2>7, <2>9 DEF Stalled, Told
  <2> QED BY <2>7, <2>8, <2>10
<1> QED BY <1>3, <1>4

LEMMA RestAnswered ==
  ASSUME NEW w \in Games, AtLair(w), w.menu = RestPrompt, NEW v \in Answers(w, Select(View(w)))
  PROVE  Renewed(v) \/ (Still(w, v) /\ Stalled(v))
<1> DEFINE a == Select(View(w))
           u == [Answered(w) EXCEPT !.hp = hp_max]
<1>1. View(w).menu = RestPrompt /\ RestPrompt # Nil
  BY MenuAssumption, ViewIs DEF Menus
<1>2. a \in Legal(View(w))
  BY Selects
<1>3. a.key \in {"Y", "N", Nil}
  <2> HIDE DEF a
  <2> QED BY <1>1, <1>2, LegalInMenu, KeysAre
<1>4. a.key # "a"
  BY <1>3, MenuAssumption
<1>5. v \in InMenu(w, a)
  BY <1>1 DEF Answers
<1> HIDE DEF a
<1>6. v \in After(u) \/ v \in Instead(w, {}, Nil)
  BY <1>4, <1>5 DEF InMenu
<1>7. CASE v \in After(u)
  <2>1. u \in Games /\ Answered(w) \in Games
    BY ChangedType
  <2>2. u.messages = {} /\ AtLair(u)
    <3>1. w = Fields(w)
      BY ShapeIs DEF Games
    <3>2. Answered(w).at = w.at /\ Answered(w).messages = {} /\ Answered(w).status = w.status
      BY <3>1 DEF Answered, Fields
    <3>3. u.at = w.at /\ u.messages = {} /\ u.status = w.status /\ u.hp = hp_max
      BY <2>1, <3>2 DEF Games, Shapes
    <3> HIDE DEF u
    <3> QED BY <3>3 DEF AtLair, hp_max
  <2> HIDE DEF u
  <2> QED BY <1>7, <2>1, <2>2, AfterRenews
<1>8. CASE v \in Instead(w, {}, Nil)
  <2>1. Told(v, {}) /\ ~v.passed /\ Still(w, v)
    BY <1>8, Tells
  <2> QED BY <2>1, StillSame DEF Stalled
<1> QED BY <1>6, <1>7, <1>8

\* A screen that time brought, other than one where commands are read.
LEMMA OtherAnswered ==
  ASSUME NEW w \in Games, AtLair(w), w.menu \in {More, LevelUp} \/ (w.menu = Nil /\ w.mode # 1),
         NEW v \in Answers(w, Select(View(w)))
  PROVE  Still(w, v) /\ Stalled(v) /\ Told(v, {})
<1> DEFINE a == Select(View(w))
<1>1. v \in Instead(w, {}, Nil)
  <2>1. CASE w.menu = Nil /\ w.mode # 1
    BY <2>1 DEF Answers
  <2>2. CASE w.menu \in {More, LevelUp}
    <3>1. View(w).menu = w.menu /\ w.menu # Nil
      BY <2>2, MenuAssumption, ViewIs DEF Menus
    <3>2. a \in Legal(View(w))
      BY Selects
    <3>3. (a.kind = "cancel" /\ a.key = Nil) \/ a.key \in {" ", "I", "S"}
      <4> HIDE DEF a
      <4> QED BY <2>2, <3>1, <3>2, LegalInMenu, KeysAre
    <3>4. v \in InMenu(w, a)
      BY <3>1 DEF Answers
    <3> HIDE DEF a
    <3>5. ~(a.kind = "menu_select" /\ a.key = "a") /\ ~(a.kind = "menu_select" /\ a.key = "Y") /\ a.key # "a"
      BY <3>3, MenuAssumption
    <3> QED BY <3>4, <3>5 DEF InMenu
  <2> QED BY <2>1, <2>2
<1>2. Told(v, {}) /\ ~v.passed /\ Still(w, v)
  BY <1>1, Tells
<1> QED BY <1>2, StillSame DEF Stalled
-------------------------------------------------------------------------------
(* The screens the teacher remembers.                                         *)

AbilityMenus == {Abilities(TRUE), Abilities(FALSE)}

\* What the teacher decided on since time passed, and what it is worth to see again.
Remembered(w) ==
  /\ \A u \in idle : {"lethal", "nearby"} \intersect u.messages = {}
  /\ (\E u \in idle : u.menu \in AbilityMenus) => Refusing(w)
  /\ Told(w, {}) /\ (\E u \in idle : Told(u, {})) => Refusing(w)

TeacherInv ==
  /\ idle # {} => pc = "playing" /\ ~IsWorker
  /\ policy = "scripted" /\ world # NoWorld =>
       (Renewed(world) /\ idle = {}) \/ (Stalled(world) /\ Remembered(world))

LEMMA MenusDiffer ==
  /\ Nil \notin AbilityMenus \union {More, LevelUp, RestPrompt}
  /\ More \notin AbilityMenus /\ LevelUp \notin AbilityMenus /\ RestPrompt \notin AbilityMenus
  /\ \A w : AbilityMenu(w) \in AbilityMenus
<1>1. Nil \notin AbilityMenus \union {More, LevelUp, RestPrompt}
  BY MenuAssumption DEF AbilityMenus, Menus
<1>2. \A menu \in AbilityMenus : menu.type = "ability"
  BY AbilitiesAre DEF AbilityMenus
<1>3. More.type = "more" /\ LevelUp.type = "prompt" /\ RestPrompt.type = "prompt"
  BY DEF More, LevelUp, RestPrompt
<1>4. \A w : AbilityMenu(w) \in AbilityMenus
  BY DEF AbilityMenu, AbilityMenus
<1> QED BY <1>1, <1>2, <1>3, <1>4

\* One decision of the teacher: time passes; or it does not, and the screen it decided
\* on is one it may see again only when the game refuses.
LEMMA TeacherGoes ==
  ASSUME NEW w \in Games, Renewed(w) \/ Stalled(w), NEW v \in Answers(w, Select(View(w)))
  PROVE  \/ Renewed(v)
         \/ /\ Still(w, v) /\ Stalled(v)
            /\ {"lethal", "nearby"} \intersect w.messages = {}
            /\ w.menu \in AbilityMenus => Refusing(w)
            /\ Told(v, {}) => Refusing(w) \/ (Renewed(w) /\ ~Told(w, {}))
<1> DEFINE o == View(w)
<1>1. AtLair(w)
  BY DEF Renewed, Stalled
<1>2. o.menu = w.menu /\ o.mode = w.mode /\ o.messages = w.messages
  BY ViewIs
<1>3. CASE w.menu = Nil /\ w.mode = 1
  <2>1. Select(o) = DecideCommand(o)
    BY <1>2, <1>3, Decides DEF Select, Decide
  <2>2. /\ Renewed(v) \/ (Still(w, v) /\ Stalled(v) /\ (Told(v, {}) => "staircase" \in w.messages))
        /\ Told(w, {"lethal"}) /\ Monsters(o) = {} => Renewed(v)
        /\ Told(w, {"nearby"}) /\ Near(o) = {} /\ ~(Monsters(o) = {} /\ Hurt(o)) => Renewed(v)
    BY <1>1, <1>3, <2>1, CommandGoes
  <2>3. w.menu \notin AbilityMenus
    BY <1>3, MenusDiffer
  <2>4. "staircase" \in w.messages => ~Told(w, {})
    BY DEF Told
  <2>5. CASE Renewed(w)
    <3>1. {"lethal", "nearby"} \intersect w.messages = {}
      BY <2>5 DEF Renewed
    <3> QED BY <2>2, <2>3, <2>4, <2>5, <3>1
  <2>6. CASE Stalled(w)
    <3>1. \/ Told(w, {})
          \/ Told(w, {"lethal"}) /\ Monsters(o) = {}
          \/ Told(w, {"nearby"}) /\ Near(o) = {} /\ ~(Monsters(o) = {} /\ Hurt(o))
          \/ Told(w, {"done exploring"})
      BY <1>3, <2>3, <2>6, MenusDiffer DEF Stalled
    <3>2. Told(w, {}) \/ Told(w, {"done exploring"}) =>
            {"lethal", "nearby"} \intersect w.messages = {} /\ "staircase" \notin w.messages
      BY DEF Told
    <3> QED BY <2>2, <2>3, <2>4, <3>1, <3>2
  <2> QED BY <2>5, <2>6
<1>4. CASE ~(w.menu = Nil /\ w.mode = 1) /\ Renewed(w)
  <2>1. w.menu \in {More, LevelUp} \/ (w.menu = Nil /\ w.mode # 1)
    BY <1>4 DEF Renewed
  <2>2. Still(w, v) /\ Stalled(v) /\ Told(v, {})
    BY <1>1, <2>1, OtherAnswered
  <2>3. {"lethal", "nearby"} \intersect w.messages = {} /\ w.menu \notin AbilityMenus /\ ~Told(w, {})
    BY <1>4, <2>1, MenusDiffer DEF Renewed, Told
  <2> QED BY <1>4, <2>2, <2>3
<1>5. CASE ~(w.menu = Nil /\ w.mode = 1) /\ Stalled(w)
  <2>1. \/ /\ w.messages = {} /\ w.menu = AbilityMenu(w)
           /\ w.status = {} /\ Near(o) # {} /\ WorthBerserk(o)
        \/ w.messages = {} /\ w.menu = RestPrompt /\ Refusing(w)
    BY <1>5 DEF Stalled, Told
  <2>2. CASE /\ w.messages = {} /\ w.menu = AbilityMenu(w)
             /\ w.status = {} /\ Near(o) # {} /\ WorthBerserk(o)
    <3>1. Renewed(v) \/ (Still(w, v) /\ Stalled(v) /\ Refusing(w))
      BY <1>1, <2>2, AbilitiesAnswered
    <3> QED BY <2>2, <3>1
  <2>3. CASE w.messages = {} /\ w.menu = RestPrompt /\ Refusing(w)
    <3>1. Renewed(v) \/ (Still(w, v) /\ Stalled(v))
      BY <1>1, <2>3, RestAnswered
    <3> QED BY <2>3, <3>1
  <2> QED BY <2>1, <2>2, <2>3
<1> QED BY <1>3, <1>4, <1>5

LEMMA TeacherInit == CaseInit => TeacherInv
BY DEF CaseInit, TeacherInv

LEMMA TeacherStep == ASSUME WorldInv, TeacherInv, [CaseNext]_allvars PROVE TeacherInv'
<1>1. CASE CaseStarts
  <2>1. pc # "playing" /\ idle = {} /\ idle' = {} /\ policy' = policy
    BY <1>1 DEF CaseStarts, TeacherInv, Start, Construct, Prepare, Spawn, MakeTransport, Attach, Observe,
                Record, HandleTimeout, HandlerRaises, HandleOther
  <2>2. CASE UNCHANGED world
    <3>1. Remembered(world) => Remembered(world)'
      BY <2>1, <2>2 DEF Remembered
    <3>2. Renewed(world)' = Renewed(world) /\ Stalled(world)' = Stalled(world)
      BY <2>2
    <3> QED BY <2>1, <2>2, <3>1, <3>2 DEF TeacherInv
  <2>3. CASE \E level \in Levels, trouble \in Troubles : world' = Entered(level, trouble, 1, hp_max, {})
    <3>1. PICK level \in Levels, trouble \in Troubles : world' = Entered(level, trouble, 1, hp_max, {})
      BY <2>3
    <3> DEFINE w == world'
    <3>2. w.passed /\ w.messages = {} /\ w.menu = Nil /\ w.hp = hp_max /\ w.status = {}
      BY <3>1 DEF Entered
    <3> HIDE DEF w
    <3>3. Renewed(w)
      BY <3>2 DEF Renewed, AtLair, hp_max
    <3> QED BY <2>1, <3>3 DEF TeacherInv, w
  <2> QED BY <1>1, <2>2, <2>3 DEF CaseStarts
<1>2. CASE Plays
  <2>1. pc = "playing" /\ ~IsWorker /\ pc' = pc /\ owner' = owner /\ policy' = policy /\ world \in Games
    BY <1>2 DEF Plays, PlayedOut, Over, WorldInv, NoWorld, vars
  <2>2. (idle # {} => pc = "playing" /\ ~IsWorker)'
    BY <2>1 DEF IsWorker
  <2>3. ASSUME policy = "scripted"
        PROVE  ((Renewed(world) /\ idle = {}) \/ (Stalled(world) /\ Remembered(world)))'
    <3> DEFINE w == world
               v == world'
               o == View(world)
    <3>1. Options(o) = {Select(o)}
      BY <2>3 DEF Options
    <3>2. v \in Answers(w, Select(o)) /\ idle' = IF v.passed THEN {} ELSE idle \union {o}
      BY <1>2, <2>3, <3>1 DEF Plays
    <3>3. w # NoWorld
      BY <1>2 DEF Plays, PlayedOut, Over, NoWorld
    <3>4. (Renewed(w) /\ idle = {}) \/ (Stalled(w) /\ Remembered(w))
      BY <2>3, <3>3 DEF TeacherInv
    <3>5. \/ Renewed(v)
          \/ /\ Still(w, v) /\ Stalled(v)
             /\ {"lethal", "nearby"} \intersect w.messages = {}
             /\ w.menu \in AbilityMenus => Refusing(w)
             /\ Told(v, {}) => Refusing(w) \/ (Renewed(w) /\ ~Told(w, {}))
      BY <2>1, <3>2, <3>4, TeacherGoes
    <3>6. CASE Renewed(v)
      BY <3>2, <3>6 DEF Renewed
    <3>7. CASE /\ Still(w, v) /\ Stalled(v)
               /\ {"lethal", "nearby"} \intersect w.messages = {}
               /\ w.menu \in AbilityMenus => Refusing(w)
               /\ Told(v, {}) => Refusing(w) \/ (Renewed(w) /\ ~Told(w, {}))
      <4>1. idle' = idle \union {o}
        BY <3>2, <3>7 DEF Stalled
      <4>2. o.messages = w.messages /\ o.menu = w.menu /\ o.mode = w.mode
        BY <2>1, ViewIs
      <4>3. Refusing(v) = Refusing(w)
        BY <3>7, StillSame
      <4>4. /\ \A u \in idle : {"lethal", "nearby"} \intersect u.messages = {}
            /\ (\E u \in idle : u.menu \in AbilityMenus) => Refusing(w)
        BY <3>4 DEF Remembered
      <4>5. \A u \in idle' : {"lethal", "nearby"} \intersect u.messages = {}
        BY <3>7, <4>1, <4>2, <4>4
      <4>6. (\E u \in idle' : u.menu \in AbilityMenus) => Refusing(v)
        BY <3>7, <4>1, <4>2, <4>3, <4>4
      <4>7. Told(v, {}) /\ (\E u \in idle' : Told(u, {})) => Refusing(v)
        <5> SUFFICES ASSUME Told(v, {}), NEW u \in idle', Told(u, {}), ~Refusing(w) PROVE FALSE
          BY <4>3
        <5>1. Renewed(w) /\ ~Told(w, {}) /\ ~Told(o, {})
          BY <3>7, <4>2 DEF Told
        <5>2. u \in idle
          BY <4>1, <5>1
        <5>3. idle = {}
          BY <3>4, <5>1 DEF Renewed, Stalled
        <5> QED BY <5>2, <5>3
      <4>8. Remembered(world)'
        BY <4>5, <4>6, <4>7 DEF Remembered
      <4> QED BY <3>7, <4>8
    <3> QED BY <3>5, <3>6, <3>7
  <2> QED BY <2>1, <2>2, <2>3 DEF TeacherInv
<1>3. CASE CaseEnds
  BY <1>3 DEF CaseEnds, TeacherInv
<1>4. CASE Elsewhere /\ UNCHANGED play
  <2>1. idle # {} => (pc = "playing" /\ ~IsWorker)'
    BY <1>4 DEF TeacherInv, Elsewhere, BeginEpisode, StepRaises, Release, Dies, IsWorker, play
  <2> QED BY <1>4, <2>1 DEF TeacherInv, Remembered, play
<1>5. CASE UNCHANGED allvars
  BY <1>5 DEF TeacherInv, Remembered, allvars, vars, play, IsWorker
<1> QED BY <1>1, <1>2, <1>3, <1>4, <1>5 DEF CaseNext

\* For any levels and anything the game does, the teacher decides twice on one screen
\* with no game time in between only where the game refuses Berserk or a rest for a
\* reason no status shows, or nothing on the level is left to do: ScriptedMibePolicy has
\* no other loop.
THEOREM StallsSound == CaseSpec => []OnlyKnownStalls
<1>1. WorldInv /\ TeacherInv => OnlyKnownStalls
  <2> SUFFICES ASSUME WorldInv, TeacherInv, Playing, policy = "scripted",
                      NEW o \in {View(world)} \intersect idle, ~Refused(o)
               PROVE  NoWayOn(o)
    BY DEF OnlyKnownStalls
  <2> DEFINE w == world
  <2>1. w \in Games /\ w # NoWorld /\ o = View(w) /\ o \in idle
    BY DEF WorldInv, Playing
  <2>2. Stalled(w) /\ Remembered(w)
    BY <2>1 DEF TeacherInv
  <2>3. o.messages = w.messages /\ o.menu = w.menu /\ o.mode = w.mode
    BY <2>1, ViewIs
  <2>4. ~Refusing(w)
    BY <2>1 DEF Refused, Refusing, Near
  <2>5. o.menu \notin AbilityMenus /\ ~Told(w, {}) /\ {"lethal", "nearby"} \intersect w.messages = {}
    BY <2>1, <2>2, <2>3, <2>4 DEF Remembered, Told
  <2>6. Told(w, {"done exploring"}) /\ StepToStairs(o) = Nil
    BY <2>1, <2>2, <2>3, <2>4, <2>5, MenusDiffer DEF Stalled, Told
  <2> QED BY <2>3, <2>6 DEF NoWayOn, Told
<1>2. CaseSpec => []TeacherInv
  BY WorldIs, TeacherInit, TeacherStep, PTL DEF CaseSpec
<1> QED BY <1>1, <1>2, WorldIs, PTL
===============================================================================
