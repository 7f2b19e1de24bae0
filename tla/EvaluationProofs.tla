---------------------------- MODULE EvaluationProofs ----------------------------
(* For any suites, cases, threads and commands, killed anywhere: a summary     *)
(* holds every case in its suite's order, every manifest of this program is    *)
(* that of such a summary, and no game outlives its evaluation.  For commands  *)
(* that do not overlap: a track only gets better, and an activation replaces   *)
(* the canonical manifest by the one it validated in a single step.            *)
EXTENDS Evaluation, WellFoundedInduction, TLAPS

\* Types: ranks are sums of results, so they are natural numbers.
RankedSummaries == [suite : Suites, policy : Policies, rank : Nat]
RankedManifests == [suite : Suites, policy : Policies, rank : Nat, spec : {"older", "current"}]
Contents(of) == {Absent, Torn} \union {Whole(x) : x \in of}
FullSummaries == [suite : Suites, policy : Policies, episodes : Seq(Results)]

Pooling == {"evaluating", "draining"}
Evaluating == Pooling \union {"writing_summary", "evaluated"}
Promoting == {"comparing", "opening", "writing"}
Activating == {"archiving", "opening_archive", "writing_archive", "copying", "writing_temporary",
               "replacing"}
Steps == {"ready"} \union Final \union Evaluating \union Promoting \union Activating

Outcomes == Results \union {Nil, Raised}
Runs == [output : Outputs \union {Nil}, suite : Suites \union {Nil},
         policy : Policies \union {Nil}, queue : Seq(Nat), running : SUBSET Nat,
         futures : Seq(Outcomes), yielded : SUBSET Nat, episodes : Seq(Outcomes)]
Directories == [made : BOOLEAN, dirs : SUBSET Cases, played : [Cases -> Outcomes],
                summary : Contents(FullSummaries)]

Types ==
  /\ file \in [Files -> Contents(RankedManifests)]
  /\ pc \in [Processes -> Steps]
  /\ summary \in [Processes -> RankedSummaries] /\ track \in [Processes -> Tracks]
  /\ bytes \in [Processes -> Contents(RankedManifests)]
  /\ valid \in [Processes -> Contents(RankedManifests)]
  /\ best \in [Tracks -> [suite : Suites, rank : Nat]]
  /\ run \in [Processes -> Runs] /\ disk \in [Outputs -> Directories]

\* The cases not started wait in order, those of the end of the suite; neither they
\* nor those that run have a result.
Threads(queue, running, futures) ==
  /\ Len(queue) <= Len(futures)
  /\ \A j \in 1..Len(queue) : queue[j] = Len(futures) - Len(queue) + j
  /\ \A i \in running : i \in 1..(Len(futures) - Len(queue)) /\ futures[i] = Nil
  /\ \A i \in (Len(futures) - Len(queue) + 1)..Len(futures) : futures[i] = Nil
Gathered(yielded, futures, episodes) ==
  /\ Len(episodes) = Len(futures)
  /\ \A i \in yielded : i \in 1..Len(futures) /\ futures[i] \in Results
                        /\ episodes[i] = futures[i]
Pool(r) ==
  /\ r.output \in Outputs /\ r.suite \in Suites /\ r.policy \in Policies
  /\ Len(r.futures) = Len(CasesOf[r.suite])
  /\ Threads(r.queue, r.running, r.futures)
  /\ Gathered(r.yielded, r.futures, r.episodes)

\* A case that runs or has a result made its directory: no other case that did has
\* its name, and the directory holds what its game came to.
Ran(r, i) == i \in r.running \/ r.futures[i] \in Results
CaseOf(r, i) == CasesOf[r.suite][i]
Played(r, d) ==
  /\ d.made
  /\ \A i \in 1..Len(r.futures) : Ran(r, i) => CaseOf(r, i) \in d.dirs
  /\ \A i, j \in 1..Len(r.futures) :
       Ran(r, i) /\ Ran(r, j) /\ CaseOf(r, i) = CaseOf(r, j) => i = j
  /\ \A i \in 1..Len(r.futures) :
       r.futures[i] \in Results => d.played[CaseOf(r, i)] = r.futures[i]

\* An evaluation at a step, with what it holds and its directory.
Engaged(at, r, d) ==
  /\ at \in Evaluating => Pool(r) /\ Played(r, d)
  /\ at \in Pooling \union {"writing_summary"} => ~d.summary.whole
  /\ at \notin Pooling => r.queue = <<>> /\ r.running = {}
  /\ at \in Evaluating \ Pooling => r.yielded = 1..Len(r.futures)
OfRun(p) == Engaged(pc[p], run[p], disk[run[p].output])

\* An output directory is of one evaluation.
OwnOutputs ==
  \A p, q \in Processes :
    pc[p] \in Evaluating /\ pc[q] \in Evaluating /\ run[p].output = run[q].output => p = q

Agrees(full, played) ==
  full.episodes = [i \in DOMAIN CasesOf[full.suite] |-> played[CasesOf[full.suite][i]]]
InFull(d) == d.summary.whole => d.made /\ Agrees(d.summary.of, d.played)

\* Whatever is promoted, copied or activated is of a summary on disk, and what an
\* evaluation hands on is in its directory.
Backed(dk, s) == \E d \in Outputs : dk[d].summary.whole /\ SummaryOf(dk[d].summary.of) = s
BackedFile(dk, f) ==
  f.whole /\ f.of.spec = RANK_SPEC_VERSION =>
    \E d \in Outputs : dk[d].summary.whole /\ Manifest(SummaryOf(dk[d].summary.of)) = f.of
AllBacked ==
  /\ \A f \in Files : BackedFile(disk, file[f])
  /\ \A p \in Processes :
       /\ BackedFile(disk, bytes[p])
       /\ pc[p] = "evaluated" => Backed(disk, SummaryOf(FullSummary(p)))
       /\ pc[p] \in Promoting => Backed(disk, summary[p])

IInv ==
  /\ Types /\ OwnOutputs /\ AllBacked
  /\ \A p \in Processes : OfRun(p)
  /\ \A d \in Outputs : InFull(disk[d])
-------------------------------------------------------------------------------
(* One command at a time.                                                     *)

Idle == Final \union {"ready"}
Alone == \A p, q \in Processes : pc[p] \notin Idle /\ pc[q] \notin Idle => p = q

\* A manifest is no worse than the best of its track; only the first canonical one
\* is of an earlier program.
OnTrack(t) ==
  /\ ~file[t].exists => best[t].rank = 0
  /\ file[t].whole =>
       IF file[t].of.spec = RANK_SPEC_VERSION
         THEN file[t].of.suite = best[t].suite /\ file[t].of.rank >= best[t].rank
         ELSE t = "canonical" /\ best[t].rank = 0
Current(f) == f.whole => f.of.spec = RANK_SPEC_VERSION
Passed(p) ==
  pc[p] \in {"opening", "writing"} =>
    LET b == best[track[p]] IN
    b.rank = 0 \/ (summary[p].suite = b.suite /\ summary[p].rank >= b.rank)

\* An activation carries the candidate it validated, and archives what it replaces.
Archived == file["canonical"].exists => file["archive"] = file["canonical"]
Activation(p) ==
  /\ pc[p] \in Activating => valid[p].whole /\ Current(valid[p]) /\ valid[p] = file["candidate"]
  /\ pc[p] \in {"opening_archive", "writing_archive"} => bytes[p] = file["canonical"]
  /\ pc[p] \in {"copying", "writing_temporary", "replacing"} => Archived
  /\ pc[p] = "writing_temporary" => bytes[p] = valid[p]
  /\ pc[p] = "replacing" => file["temporary"] = valid[p]

AloneInv ==
  /\ Alone /\ \A t \in Tracks : OnTrack(t)
  /\ \A p \in Processes : Passed(p) /\ Activation(p)
-------------------------------------------------------------------------------
(* Ranks, files and records.                                                 *)

\* Induction over the natural numbers, for a set instead of a predicate.
LEMMA SetInduction ==
  ASSUME NEW T, 0 \in T, \A n \in Nat : n \in T => n + 1 \in T
  PROVE  Nat \subseteq T
<1> SUFFICES ASSUME Nat \ T # {} PROVE FALSE
  OBVIOUS
<1> DEFINE R == OpToRel(<, Nat)
<1>1. IsWellFoundedOn(R, Nat)
  BY NatLessThanWellFounded
<1>2. PICK x \in Nat \ T : \A y \in Nat \ T : ~(<<y, x>> \in R)
  <2> HIDE DEF R
  <2> QED BY <1>1, WFMin
<1>3. \A y \in Nat : <<y, x>> \in R <=> y < x
  BY DEF OpToRel
<1>4. x # 0 /\ x - 1 \in Nat /\ x - 1 < x
  OBVIOUS
<1>5. x - 1 \in T
  BY <1>2, <1>3, <1>4
<1> QED BY <1>4, <1>5

\* The rank of a summary is a number: the recursive sum is defined, and a sum.
LEMMA RankIsNatural == ASSUME NEW e \in Seq(Results) PROVE Rank(e) \in Nat
<1> DEFINE N == Len(e)
           Sums(f, m) == f \in [0..m -> Nat] /\ f[0] = 0 /\ \A n \in 1..m : f[n] = f[n - 1] + e[n]
           T == {m \in Nat : m <= N => \E f : Sums(f, m)}
<1>0. Results \subseteq Nat
  BY EvaluationAssumption
<1>1. N \in Nat /\ \A n \in 1..N : e[n] \in Nat
  <2>1. Len(e) \in Nat /\ \A n \in 1..Len(e) : e[n] \in Results
    OBVIOUS
  <2> QED BY <1>0, <2>1
<1>2. 0 \in T
  <2>1. Sums([n \in 0..0 |-> 0], 0)
    OBVIOUS
  <2> QED BY <2>1
<1>3. ASSUME NEW m \in Nat, m + 1 <= N, NEW f, Sums(f, m) PROVE \E g : Sums(g, m + 1)
  <2> DEFINE g == [n \in 0..(m + 1) |-> IF n = m + 1 THEN f[m] + e[m + 1] ELSE f[n]]
  <2>2. g \in [0..(m + 1) -> Nat]
    <3>1. f[m] \in Nat /\ e[m + 1] \in Nat
      BY <1>1, <1>3
    <3> QED BY <1>3, <3>1
  <2>3. g[0] = 0
    BY <1>3
  <2>4. ASSUME NEW n \in 1..(m + 1) PROVE g[n] = g[n - 1] + e[n]
    BY <1>3
  <2>5. Sums(g, m + 1)
    BY <2>2, <2>3, <2>4
  <2> HIDE DEF Sums, g
  <2> QED BY <2>5
<1>4. \A m \in Nat : m \in T => m + 1 \in T
  <2> HIDE DEF Sums
  <2> QED BY <1>1, <1>3
<1>5. PICK f : Sums(f, N)
  <2> HIDE DEF T
  <2>1. N \in T
    BY <1>1, <1>2, <1>4, SetInduction
  <2> QED BY <1>1, <2>1 DEF T
<1> DEFINE Def(g) == g = [n \in 0..N |-> IF n = 0 THEN 0 ELSE g[n - 1] + e[n]]
           s == CHOOSE g : Def(g)
<1>6. Def(f)
  BY <1>1, <1>5
<1>7. Def(s)
  <2> HIDE DEF Def
  <2> QED BY <1>6
<1>8. Rank(e) = s[N]
  BY DEF Rank
<1> DEFINE U == {m \in Nat : m <= N => s[m] \in Nat}
<1>9. 0 \in U
  <2> HIDE DEF s
  <2> QED BY <1>1, <1>7
<1>10. ASSUME NEW m \in Nat, m \in U PROVE m + 1 \in U
  <2> HIDE DEF s
  <2>1. m + 1 <= N => s[m + 1] = s[m] + e[m + 1]
    BY <1>1, <1>7
  <2> QED BY <1>1, <1>10, <2>1
<1>11. N \in U
  <2> HIDE DEF U
  <2> QED BY <1>1, <1>9, <1>10, SetInduction
<1> QED BY <1>1, <1>8, <1>11

LEMMA ContentsAre ==
  ASSUME NEW of, NEW f \in Contents(of)
  PROVE  /\ f.whole => f.of \in of /\ f = Whole(f.of) /\ f.exists
         /\ f.whole \/ f = Torn \/ f = Absent
<1>1. CASE f \in {Absent, Torn}
  <2>1. ~f.whole
    BY <1>1 DEF Absent, Torn
  <2> QED BY <1>1, <2>1
<1>2. CASE f \in {Whole(x) : x \in of}
  <2>1. PICK x \in of : f = Whole(x)
    BY <1>2
  <2> QED BY <2>1 DEF Whole
<1> QED BY <1>1, <1>2 DEF Contents

LEMMA ContentsOf ==
  ASSUME NEW of, NEW x \in of
  PROVE  /\ Absent \in Contents(of) /\ Torn \in Contents(of) /\ Whole(x) \in Contents(of)
         /\ ~Absent.whole /\ ~Absent.exists /\ ~Torn.whole /\ Torn.exists
         /\ Whole(x).whole /\ Whole(x).exists /\ Whole(x).of = x
BY DEF Contents, Absent, Torn, Whole

LEMMA NoSummaryTyped == NoSummary \in RankedSummaries
<1>1. PICK a : a \in Policies
  BY TrackAssumption
<1>2. [suite |-> Expected, policy |-> a, rank |-> 1] \in Summaries
  BY <1>1, TrackAssumption DEF Summaries, Ranks
<1>3. NoSummary \in Summaries
  BY <1>2 DEF NoSummary
<1> QED BY <1>3, TrackAssumption DEF Summaries, RankedSummaries, Ranks

LEMMA ManifestTyped ==
  ASSUME NEW s \in RankedSummaries
  PROVE  /\ Manifest(s) \in RankedManifests
         /\ Manifest(s).suite = s.suite /\ Manifest(s).rank = s.rank
         /\ Manifest(s).spec = RANK_SPEC_VERSION
BY DEF Manifest, RankedSummaries, RankedManifests, RANK_SPEC_VERSION

LEMMA SummaryTyped ==
  ASSUME NEW full \in FullSummaries
  PROVE  SummaryOf(full) \in RankedSummaries
BY RankIsNatural DEF SummaryOf, FullSummaries, RankedSummaries

LEMMA NoRunTyped ==
  /\ NoRun \in Runs
  /\ NoRun.queue = <<>> /\ NoRun.running = {}
<1>1. <<>> \in Seq(Nat) /\ <<>> \in Seq(Outcomes)
  OBVIOUS
<1> QED BY <1>1 DEF NoRun, Runs

\* How a command ends.
LEMMA EndsTyped ==
  ASSUME Types, NEW p \in Processes, NEW how \in Final, Ends(p, how)
  PROVE  /\ pc' \in [Processes -> Steps] /\ pc'[p] = how
         /\ summary' \in [Processes -> RankedSummaries] /\ track' \in [Processes -> Tracks]
         /\ bytes' \in [Processes -> Contents(RankedManifests)]
         /\ valid' \in [Processes -> Contents(RankedManifests)]
         /\ bytes'[p] = Absent /\ valid'[p] = Absent
         /\ \A q \in Processes \ {p} :
              /\ pc'[q] = pc[q] /\ summary'[q] = summary[q] /\ track'[q] = track[q]
              /\ bytes'[q] = bytes[q] /\ valid'[q] = valid[q]
<1>1. how \in Steps /\ "candidate" \in Tracks
  BY DEF Steps, Tracks
<1>2. Absent \in Contents(RankedManifests)
  BY DEF Contents
<1> QED BY <1>1, <1>2, NoSummaryTyped DEF Ends, Goes, Types

LEMMA GoesTyped ==
  ASSUME Types, NEW p \in Processes, NEW next \in Steps, Goes(p, next)
  PROVE  /\ pc' \in [Processes -> Steps] /\ pc'[p] = next
         /\ \A q \in Processes \ {p} : pc'[q] = pc[q]
BY DEF Goes, Types
-------------------------------------------------------------------------------
(* The pool of an evaluation.                                                 *)

LEMMA CasesTyped ==
  ASSUME NEW s \in Suites
  PROVE  /\ CasesOf[s] \in Seq(Cases) /\ Len(CasesOf[s]) \in Nat
         /\ DOMAIN CasesOf[s] = 1..Len(CasesOf[s])
         /\ \A i \in 1..Len(CasesOf[s]) : CasesOf[s][i] \in Cases
<1>1. CasesOf[s] \in Seq(Range(CasesOf[s]))
  BY EvaluationAssumption
<1>2. /\ Len(CasesOf[s]) \in Nat /\ DOMAIN CasesOf[s] = 1..Len(CasesOf[s])
      /\ CasesOf[s] = [i \in 1..Len(CasesOf[s]) |-> CasesOf[s][i]]
  BY <1>1
<1>3. \A i \in 1..Len(CasesOf[s]) : CasesOf[s][i] \in Cases
  BY <1>2 DEF Cases, Range
<1>4. CasesOf[s] \in Seq(Cases)
  BY <1>2, <1>3
<1> QED BY <1>2, <1>3, <1>4

LEMMA RunFields ==
  ASSUME NEW r \in Runs
  PROVE  /\ r.queue \in Seq(Nat) /\ Len(r.queue) \in Nat
         /\ r.futures \in Seq(Outcomes) /\ Len(r.futures) \in Nat
         /\ DOMAIN r.futures = 1..Len(r.futures)
         /\ r.episodes \in Seq(Outcomes) /\ Len(r.episodes) \in Nat
         /\ r.running \subseteq Nat /\ r.yielded \subseteq Nat
BY DEF Runs

LEMMA OutcomesDiffer ==
  /\ Nil \notin Results /\ Raised \notin Results /\ Nil # Raised
  /\ Nil \in Outcomes /\ Raised \in Outcomes /\ Results \subseteq Outcomes
BY EvaluationAssumption DEF Outcomes

LEMMA FuturesUpdate ==
  ASSUME NEW f \in Seq(Outcomes), NEW i \in 1..Len(f), NEW v \in Outcomes
  PROVE  /\ [f EXCEPT ![i] = v] \in Seq(Outcomes) /\ Len([f EXCEPT ![i] = v]) = Len(f)
         /\ DOMAIN [f EXCEPT ![i] = v] = 1..Len(f)
         /\ \A j \in 1..Len(f) : [f EXCEPT ![i] = v][j] = IF j = i THEN v ELSE f[j]
OBVIOUS

\* The case a thread takes is the first that waits.
LEMMA ThreadsHead ==
  ASSUME NEW qu \in Seq(Nat), NEW ru \in SUBSET Nat, NEW fs \in Seq(Outcomes),
         Threads(qu, ru, fs), qu # <<>>
  PROVE  /\ Head(qu) = Len(fs) - Len(qu) + 1 /\ Head(qu) \in 1..Len(fs)
         /\ Head(qu) \notin ru /\ fs[Head(qu)] = Nil
         /\ Tail(qu) \in Seq(Nat) /\ Len(Tail(qu)) = Len(qu) - 1
         /\ \A j \in 1..Len(Tail(qu)) : Tail(qu)[j] = qu[j + 1]
<1>1. /\ Len(qu) \in Nat \ {0} /\ Len(fs) \in Nat /\ Head(qu) = qu[1]
      /\ Tail(qu) \in Seq(Nat) /\ Len(Tail(qu)) = Len(qu) - 1
      /\ \A j \in 1..Len(Tail(qu)) : Tail(qu)[j] = qu[j + 1]
  OBVIOUS
<1>2. Head(qu) = Len(fs) - Len(qu) + 1 /\ Len(qu) <= Len(fs)
  BY <1>1 DEF Threads
<1>3. Head(qu) \in 1..Len(fs) /\ Head(qu) \notin ru /\ fs[Head(qu)] = Nil
  BY <1>1, <1>2 DEF Threads
<1> QED BY <1>1, <1>2, <1>3

\* A case that starts, or whose directory is there.
LEMMA ThreadsStart ==
  ASSUME NEW qu \in Seq(Nat), NEW ru \in SUBSET Nat, NEW fs \in Seq(Outcomes),
         Threads(qu, ru, fs), qu # <<>>
  PROVE  /\ Threads(Tail(qu), ru \union {Head(qu)}, fs)
         /\ Threads(Tail(qu), ru, [fs EXCEPT ![Head(qu)] = Raised])
<1> DEFINE i == Head(qu)
           gs == [fs EXCEPT ![i] = Raised]
<1>1. /\ i = Len(fs) - Len(qu) + 1 /\ i \in 1..Len(fs) /\ i \notin ru /\ fs[i] = Nil
      /\ Len(Tail(qu)) = Len(qu) - 1
      /\ \A j \in 1..Len(Tail(qu)) : Tail(qu)[j] = qu[j + 1]
  BY ThreadsHead
<1>2. Len(qu) \in Nat \ {0} /\ Len(fs) \in Nat
  OBVIOUS
<1>3. Len(gs) = Len(fs) /\ \A j \in 1..Len(fs) : j # i => gs[j] = fs[j]
  BY <1>1, FuturesUpdate, OutcomesDiffer
<1> HIDE DEF i, gs
<1>4. Threads(Tail(qu), ru \union {i}, fs)
  BY <1>1, <1>2 DEF Threads
<1>5. Threads(Tail(qu), ru, gs)
  <2>1. \A j \in ru : j \in 1..(Len(gs) - Len(Tail(qu))) /\ gs[j] = Nil
    <3> TAKE j \in ru
    <3>1. j \in 1..(Len(fs) - Len(qu)) /\ j \in 1..Len(fs) /\ fs[j] = Nil /\ j # i
      BY <1>1, <1>2 DEF Threads
    <3> QED BY <1>1, <1>2, <1>3, <3>1
  <2>2. \A j \in (Len(gs) - Len(Tail(qu)) + 1)..Len(gs) : gs[j] = Nil
    <3> TAKE j \in (Len(gs) - Len(Tail(qu)) + 1)..Len(gs)
    <3>1. Len(qu) <= Len(fs)
      BY DEF Threads
    <3>2. j \in (Len(fs) - Len(qu) + 1)..Len(fs) /\ j \in 1..Len(fs) /\ j # i
      BY <1>1, <1>2, <1>3, <3>1
    <3>3. fs[j] = Nil
      BY <3>2 DEF Threads
    <3> QED BY <1>3, <3>2, <3>3
  <2>3. \A j \in 1..Len(Tail(qu)) : Tail(qu)[j] = Len(gs) - Len(Tail(qu)) + j
    <3> TAKE j \in 1..Len(Tail(qu))
    <3>1. j + 1 \in 1..Len(qu)
      BY <1>1, <1>2
    <3>2. qu[j + 1] = Len(fs) - Len(qu) + (j + 1)
      BY <3>1 DEF Threads
    <3> QED BY <1>1, <1>2, <1>3, <3>2
  <2>4. Len(Tail(qu)) <= Len(gs)
    BY <1>1, <1>2, <1>3 DEF Threads
  <2> QED BY <2>1, <2>2, <2>3, <2>4 DEF Threads
<1> QED BY <1>4, <1>5 DEF i, gs

LEMMA ThreadsRunning ==
  ASSUME NEW qu \in Seq(Nat), NEW ru, NEW fs \in Seq(Outcomes), Threads(qu, ru, fs)
  PROVE  \A i \in ru : i \in 1..Len(fs) /\ fs[i] = Nil
<1>1. Len(qu) \in Nat /\ Len(fs) \in Nat
  OBVIOUS
<1> QED BY <1>1 DEF Threads

\* A case that ends.
LEMMA ThreadsEnd ==
  ASSUME NEW qu \in Seq(Nat), NEW ru \in SUBSET Nat, NEW fs \in Seq(Outcomes),
         Threads(qu, ru, fs), NEW i \in ru, NEW v \in Outcomes
  PROVE  /\ i \in 1..Len(fs) /\ fs[i] = Nil
         /\ Threads(qu, ru \ {i}, [fs EXCEPT ![i] = v])
<1> DEFINE gs == [fs EXCEPT ![i] = v]
<1>1. Len(qu) \in Nat /\ Len(fs) \in Nat
  OBVIOUS
<1>2. i \in 1..(Len(fs) - Len(qu)) /\ i \in 1..Len(fs) /\ fs[i] = Nil
  BY <1>1 DEF Threads
<1>3. Len(gs) = Len(fs) /\ \A j \in 1..Len(fs) : j # i => gs[j] = fs[j]
  BY <1>2, FuturesUpdate
<1> HIDE DEF gs
<1>4. Threads(qu, ru \ {i}, gs)
  <2>1. \A j \in ru \ {i} : j \in 1..(Len(gs) - Len(qu)) /\ gs[j] = Nil
    <3> TAKE j \in ru \ {i}
    <3>1. j \in 1..(Len(fs) - Len(qu)) /\ j \in 1..Len(fs) /\ fs[j] = Nil /\ j # i
      BY <1>1 DEF Threads
    <3> QED BY <1>3, <3>1
  <2>2. \A j \in (Len(gs) - Len(qu) + 1)..Len(gs) : gs[j] = Nil
    <3> TAKE j \in (Len(gs) - Len(qu) + 1)..Len(gs)
    <3>1. Len(qu) <= Len(fs)
      BY DEF Threads
    <3>2. j \in 1..Len(fs) /\ j # i
      BY <1>1, <1>2, <1>3, <3>1
    <3>3. fs[j] = Nil
      BY <1>3 DEF Threads
    <3> QED BY <1>3, <3>2, <3>3
  <2> QED BY <1>1, <1>3, <2>1, <2>2 DEF Threads
<1> QED BY <1>2, <1>4 DEF gs

\* A result that comes in, and one that is taken.
LEMMA GatheredKept ==
  ASSUME NEW ye, NEW fs \in Seq(Outcomes), NEW es \in Seq(Outcomes), Gathered(ye, fs, es),
         NEW i \in 1..Len(fs), NEW v \in Outcomes
  PROVE  /\ fs[i] = Nil => Gathered(ye, [fs EXCEPT ![i] = v], es)
         /\ fs[i] \in Results => Gathered(ye \union {i}, fs, [es EXCEPT ![i] = fs[i]])
<1>1. Len(fs) \in Nat /\ Len(es) = Len(fs)
  BY DEF Gathered
<1>2. ASSUME fs[i] = Nil PROVE Gathered(ye, [fs EXCEPT ![i] = v], es)
  <2> DEFINE gs == [fs EXCEPT ![i] = v]
  <2>1. Len(gs) = Len(fs) /\ \A j \in 1..Len(fs) : j # i => gs[j] = fs[j]
    BY FuturesUpdate
  <2>2. i \notin ye
    BY <1>2, OutcomesDiffer DEF Gathered
  <2> HIDE DEF gs
  <2>3. Gathered(ye, gs, es)
    BY <2>1, <2>2 DEF Gathered
  <2> QED BY <2>3 DEF gs
<1>3. ASSUME fs[i] \in Results PROVE Gathered(ye \union {i}, fs, [es EXCEPT ![i] = fs[i]])
  <2> DEFINE gs == [es EXCEPT ![i] = fs[i]]
  <2>1. Len(gs) = Len(es) /\ \A j \in 1..Len(fs) : gs[j] = IF j = i THEN fs[i] ELSE es[j]
    BY <1>1, <1>3, FuturesUpdate, OutcomesDiffer
  <2> HIDE DEF gs
  <2>2. Gathered(ye \union {i}, fs, gs)
    BY <1>1, <1>3, <2>1 DEF Gathered
  <2> QED BY <2>2 DEF gs
<1> QED BY <1>2, <1>3

LEMMA DirectoryFields ==
  ASSUME NEW d \in Directories
  PROVE  /\ d.dirs \subseteq Cases /\ d.played \in [Cases -> Outcomes]
         /\ d.summary \in Contents(FullSummaries)
BY DEF Directories

\* What a step of a pool shows of the run it leaves.
LEMMA RunFrom ==
  ASSUME NEW r \in Runs, NEW at, NEW d, Engaged(at, r, d), at \in Evaluating
  PROVE  /\ r.suite \in Suites /\ r.output \in Outputs /\ r.policy \in Policies
         /\ Threads(r.queue, r.running, r.futures)
         /\ Gathered(r.yielded, r.futures, r.episodes)
         /\ Len(r.futures) = Len(CasesOf[r.suite])
         /\ \A i \in 1..Len(r.futures) : CaseOf(r, i) \in Cases
BY CasesTyped DEF Engaged, Pool, CaseOf

\* A thread whose case has its directory already: the future raises.
LEMMA RefusalEngaged ==
  ASSUME NEW r \in Runs, NEW d \in Directories, NEW at \in Pooling, Engaged(at, r, d),
         r.queue # <<>>, NEW i, i = Head(r.queue), NEW q,
         q = [r EXCEPT !.queue = Tail(@), !.futures[i] = Raised]
  PROVE  q \in Runs /\ q.output = r.output /\ Engaged(at, q, d)
<1>0. at \in Evaluating /\ at \notin Evaluating \ Pooling /\ at # "writing_summary"
  BY DEF Pooling, Evaluating
<1>1. /\ q.queue = Tail(r.queue) /\ q.running = r.running
      /\ q.futures = [r.futures EXCEPT ![i] = Raised]
      /\ q.yielded = r.yielded /\ q.episodes = r.episodes
      /\ q.output = r.output /\ q.suite = r.suite /\ q.policy = r.policy
  BY DEF Runs
<1>2. /\ i \in 1..Len(r.futures) /\ r.futures[i] = Nil /\ Tail(r.queue) \in Seq(Nat)
      /\ Threads(q.queue, q.running, q.futures)
  <2>1. /\ r.queue \in Seq(Nat) /\ r.running \in SUBSET Nat /\ r.futures \in Seq(Outcomes)
        /\ Threads(r.queue, r.running, r.futures)
    BY <1>0, RunFrom, RunFields
  <2>2. /\ i \in 1..Len(r.futures) /\ r.futures[i] = Nil /\ Tail(r.queue) \in Seq(Nat)
    BY <2>1, ThreadsHead
  <2>3. Threads(Tail(r.queue), r.running, [r.futures EXCEPT ![Head(r.queue)] = Raised])
    BY <2>1, ThreadsStart
  <2> QED BY <1>1, <2>2, <2>3
<1>3. /\ Len(q.futures) = Len(r.futures) /\ q.futures \in Seq(Outcomes)
      /\ \A j \in 1..Len(r.futures) : q.futures[j] = IF j = i THEN Raised ELSE r.futures[j]
  BY <1>1, <1>2, RunFields, OutcomesDiffer, FuturesUpdate
<1>4. Gathered(q.yielded, q.futures, q.episodes)
  <2>1. /\ r.futures \in Seq(Outcomes) /\ r.episodes \in Seq(Outcomes)
        /\ Gathered(r.yielded, r.futures, r.episodes)
    BY <1>0, RunFrom, RunFields
  <2>2. Gathered(r.yielded, [r.futures EXCEPT ![i] = Raised], r.episodes)
    BY <1>2, <2>1, OutcomesDiffer, GatheredKept
  <2> QED BY <1>1, <2>2
<1>5. q \in Runs
  BY <1>1, <1>2, <1>3, RunFields DEF Runs
<1> QED
  <2>1. Pool(q)
    BY <1>0, <1>1, <1>2, <1>3, <1>4, RunFrom DEF Pool
  <2>2. Played(r, d)
    BY <1>0 DEF Engaged
  <2>3. \A j \in 1..Len(r.futures) : CaseOf(q, j) = CaseOf(r, j) /\ (Ran(q, j) => Ran(r, j))
                                     /\ (q.futures[j] \in Results => q.futures[j] = r.futures[j])
    BY <1>1, <1>3, OutcomesDiffer DEF CaseOf, Ran
  <2>4. Played(q, d)
    <3>1. d.made
      BY <2>2 DEF Played
    <3>2. \A j \in 1..Len(q.futures) : Ran(q, j) => CaseOf(q, j) \in d.dirs
      BY <1>3, <2>2, <2>3 DEF Played
    <3>3. \A j, k \in 1..Len(q.futures) :
            Ran(q, j) /\ Ran(q, k) /\ CaseOf(q, j) = CaseOf(q, k) => j = k
      BY <1>3, <2>2, <2>3 DEF Played
    <3>4. \A j \in 1..Len(q.futures) :
            q.futures[j] \in Results => d.played[CaseOf(q, j)] = q.futures[j]
      BY <1>3, <2>2, <2>3 DEF Played
    <3> QED BY <3>1, <3>2, <3>3, <3>4 DEF Played
  <2> QED BY <1>0, <1>1, <1>5, <2>1, <2>4 DEF Engaged

\* A thread that takes a case makes its directory.
LEMMA StartEngaged ==
  ASSUME NEW r \in Runs, NEW d \in Directories, NEW at \in Pooling, Engaged(at, r, d),
         r.queue # <<>>, NEW i, i = Head(r.queue), NEW q, NEW e, CaseOf(r, i) \notin d.dirs,
         q.queue = Tail(r.queue), q.running = r.running \union {i}, q.futures = r.futures,
         q.yielded = r.yielded, q.episodes = r.episodes, q.output = r.output,
         q.suite = r.suite, q.policy = r.policy,
         e.dirs = d.dirs \union {CaseOf(r, i)}, e.made = d.made, e.played = d.played,
         e.summary = d.summary
  PROVE  /\ Engaged(at, q, e) /\ CaseOf(r, i) \in Cases
         /\ i \in Nat /\ Tail(r.queue) \in Seq(Nat)
<1>0. at \in Evaluating /\ at \notin Evaluating \ Pooling /\ at # "writing_summary"
  BY DEF Pooling, Evaluating
<1>2. /\ i \in 1..Len(r.futures) /\ r.futures[i] = Nil /\ Tail(r.queue) \in Seq(Nat)
      /\ Threads(q.queue, q.running, q.futures)
  <2>1. /\ r.queue \in Seq(Nat) /\ r.running \in SUBSET Nat /\ r.futures \in Seq(Outcomes)
        /\ Threads(r.queue, r.running, r.futures)
    BY <1>0, RunFrom, RunFields
  <2>2. /\ i \in 1..Len(r.futures) /\ r.futures[i] = Nil /\ Tail(r.queue) \in Seq(Nat)
    BY <2>1, ThreadsHead
  <2>3. Threads(Tail(r.queue), r.running \union {Head(r.queue)}, r.futures)
    BY <2>1, ThreadsStart
  <2> QED BY <2>2, <2>3
<1>4. CaseOf(r, i) \in Cases /\ i \in Nat
  BY <1>0, <1>2, RunFrom, RunFields
<1> QED
  <2>1. Pool(q)
    BY <1>0, <1>2, RunFrom DEF Pool
  <2>2. Played(r, d)
    BY <1>0 DEF Engaged
  <2>3. \A j \in 1..Len(r.futures) :
          /\ CaseOf(q, j) = CaseOf(r, j) /\ (Ran(q, j) => Ran(r, j) \/ j = i)
          /\ (Ran(r, j) => CaseOf(r, j) # CaseOf(r, i))
    BY <2>2 DEF CaseOf, Ran, Played
  <2>4. Played(q, e)
    <3>1. e.made
      BY <2>2 DEF Played
    <3>2. \A j \in 1..Len(q.futures) : Ran(q, j) => CaseOf(q, j) \in e.dirs
      BY <2>2, <2>3 DEF Played
    <3>3. \A j, k \in 1..Len(q.futures) :
            Ran(q, j) /\ Ran(q, k) /\ CaseOf(q, j) = CaseOf(q, k) => j = k
      BY <2>2, <2>3 DEF Played
    <3>4. \A j \in 1..Len(q.futures) :
            q.futures[j] \in Results => e.played[CaseOf(q, j)] = q.futures[j]
      BY <2>2, <2>3 DEF Played
    <3> QED BY <3>1, <3>2, <3>3, <3>4 DEF Played
  <2>5. Engaged(at, q, e)
    BY <1>0, <2>1, <2>4 DEF Engaged
  <2> QED BY <1>2, <1>4, <2>5

\* A case that comes to a result, or raises.
LEMMA EndEngaged ==
  ASSUME NEW r \in Runs, NEW d \in Directories, NEW at \in Pooling, Engaged(at, r, d),
         NEW i \in r.running, NEW q \in Runs, q.futures[i] \in Results \union {Raised}, NEW e,
         q.queue = r.queue, q.running = r.running \ {i}, Len(q.futures) = Len(r.futures),
         \A j \in 1..Len(r.futures) : j # i => q.futures[j] = r.futures[j],
         q.yielded = r.yielded, q.episodes = r.episodes, q.output = r.output,
         q.suite = r.suite, q.policy = r.policy,
         e.dirs = d.dirs, e.made = d.made, e.summary = d.summary,
         e.played[CaseOf(r, i)] = q.futures[i],
         \A c \in Cases : c # CaseOf(r, i) => e.played[c] = d.played[c]
  PROVE  Engaged(at, q, e)
<1> DEFINE v == q.futures[i]
<1>0. /\ at \in Evaluating /\ at \notin Evaluating \ Pooling /\ at # "writing_summary"
      /\ v \in Outcomes
  BY OutcomesDiffer DEF Pooling, Evaluating
<1>1. ASSUME i \in 1..Len(r.futures) PROVE q.futures = [r.futures EXCEPT ![i] = v]
  <2>1. /\ [r.futures EXCEPT ![i] = v] \in Seq(Outcomes)
        /\ Len([r.futures EXCEPT ![i] = v]) = Len(r.futures)
        /\ \A j \in 1..Len(r.futures) :
             [r.futures EXCEPT ![i] = v][j] = IF j = i THEN v ELSE r.futures[j]
    BY <1>0, <1>1, RunFields, FuturesUpdate
  <2>2. q.futures \in Seq(Outcomes)
    BY RunFields
  <2> QED BY <2>1, <2>2
<1>2. /\ i \in 1..Len(r.futures) /\ r.futures[i] = Nil
      /\ Threads(q.queue, q.running, q.futures)
  <2>1. /\ r.queue \in Seq(Nat) /\ r.running \in SUBSET Nat /\ r.futures \in Seq(Outcomes)
        /\ Threads(r.queue, r.running, r.futures)
    BY <1>0, RunFrom, RunFields
  <2>2. /\ i \in 1..Len(r.futures) /\ r.futures[i] = Nil
        /\ Threads(r.queue, r.running \ {i}, [r.futures EXCEPT ![i] = v])
    BY <1>0, <2>1, ThreadsEnd
  <2> QED BY <1>1, <2>2
<1>3. /\ Len(q.futures) = Len(r.futures) /\ q.futures \in Seq(Outcomes)
      /\ \A j \in 1..Len(r.futures) : q.futures[j] = IF j = i THEN v ELSE r.futures[j]
  BY <1>0, <1>2, RunFields, FuturesUpdate
<1>4. Gathered(q.yielded, q.futures, q.episodes)
  <2>1. /\ r.futures \in Seq(Outcomes) /\ r.episodes \in Seq(Outcomes)
        /\ Gathered(r.yielded, r.futures, r.episodes)
    BY <1>0, RunFrom, RunFields
  <2>2. Gathered(r.yielded, [r.futures EXCEPT ![i] = v], r.episodes)
    BY <1>0, <1>2, <2>1, GatheredKept
  <2> QED BY <1>1, <1>2, <2>2
<1> QED
  <2>1. Pool(q)
    BY <1>0, <1>2, <1>3, <1>4, RunFrom DEF Pool
  <2>2. Played(r, d)
    BY <1>0 DEF Engaged
  <2>3. \A j \in 1..Len(r.futures) :
          CaseOf(q, j) = CaseOf(r, j) /\ CaseOf(r, j) \in Cases /\ (Ran(q, j) => Ran(r, j))
    BY <1>0, <1>3, RunFrom DEF CaseOf, Ran
  <2>5. Ran(r, i)
    BY DEF Ran
  <2>4. Played(q, e)
    <3>1. e.made
      BY <2>2 DEF Played
    <3>2. \A j \in 1..Len(q.futures) : Ran(q, j) => CaseOf(q, j) \in e.dirs
      BY <1>3, <2>2, <2>3 DEF Played
    <3>3. \A j, k \in 1..Len(q.futures) :
            Ran(q, j) /\ Ran(q, k) /\ CaseOf(q, j) = CaseOf(q, k) => j = k
      BY <1>3, <2>2, <2>3 DEF Played
    <3>4. ASSUME NEW j \in 1..Len(q.futures), q.futures[j] \in Results
          PROVE  e.played[CaseOf(q, j)] = q.futures[j]
      <4>1. CASE j = i
        BY <1>3, <2>3, <3>4, <4>1
      <4>2. CASE j # i
        <5>1. q.futures[j] = r.futures[j] /\ Ran(r, j) /\ j \in 1..Len(r.futures)
          BY <1>3, <3>4, <4>2 DEF Ran
        <5>2. CaseOf(r, j) # CaseOf(r, i) /\ d.played[CaseOf(r, j)] = r.futures[j]
          BY <1>2, <2>2, <2>5, <3>4, <4>2, <5>1 DEF Played
        <5> QED BY <2>3, <5>1, <5>2
      <4> QED BY <4>1, <4>2
    <3> QED BY <3>1, <3>2, <3>3, <3>4 DEF Played
  <2> QED BY <1>0, <2>1, <2>4 DEF Engaged

LEMMA YieldEngaged ==
  ASSUME NEW r \in Runs, NEW d \in Directories, Engaged("evaluating", r, d), NEW at \in Pooling,
         NEW i \in 1..Len(r.futures), r.futures[i] \in Results, NEW q \in Runs,
         q.queue = r.queue, q.running = r.running, q.futures = r.futures,
         q.yielded = r.yielded \union {i}, q.episodes = [r.episodes EXCEPT ![i] = r.futures[i]],
         q.output = r.output, q.suite = r.suite, q.policy = r.policy
  PROVE  Engaged(at, q, d)
<1>0. /\ "evaluating" \in Pooling /\ "evaluating" \in Evaluating
      /\ at \in Evaluating /\ at \notin Evaluating \ Pooling /\ at # "writing_summary"
  BY DEF Pooling, Evaluating
<1>2. /\ r.futures \in Seq(Outcomes) /\ r.episodes \in Seq(Outcomes) /\ r.futures[i] \in Outcomes
      /\ Gathered(r.yielded, r.futures, r.episodes) /\ Len(r.episodes) = Len(r.futures)
  BY <1>0, RunFrom, RunFields, OutcomesDiffer DEF Gathered
<1>3. Gathered(r.yielded \union {i}, r.futures, [r.episodes EXCEPT ![i] = r.futures[i]])
  BY <1>2, GatheredKept
<1>6. Pool(q)
  BY <1>0, <1>3, RunFrom DEF Pool
<1>7. Played(q, d)
  <2>1. Played(r, d)
    BY <1>0 DEF Engaged
  <2>2. /\ \A j : CaseOf(q, j) = CaseOf(r, j)
        /\ \A j : Ran(q, j) = Ran(r, j)
    BY DEF CaseOf, Ran
  <2> QED BY <2>1, <2>2 DEF Played
<1> QED BY <1>0, <1>6, <1>7 DEF Engaged

LEMMA DrainEngaged ==
  ASSUME NEW r, NEW d, Engaged("evaluating", r, d)
  PROVE  Engaged("draining", r, d)
BY DEF Engaged, Evaluating, Pooling

\* When every future has been taken, no case waits and none runs.
LEMMA GatherEngaged ==
  ASSUME NEW r \in Runs, NEW d \in Directories, Engaged("evaluating", r, d),
         r.yielded = DOMAIN r.futures, NEW e, e = [d EXCEPT !.summary = Torn]
  PROVE  /\ Engaged("writing_summary", r, e)
         /\ e \in Directories /\ ~d.summary.whole /\ ~e.summary.whole
<1>0. "evaluating" \in Pooling /\ "evaluating" \in Evaluating
  BY DEF Pooling, Evaluating
<1>1. /\ e.dirs = d.dirs /\ e.made = d.made /\ e.played = d.played /\ e.summary = Torn
      /\ ~d.summary.whole /\ ~e.summary.whole /\ e \in Directories
  <2>1. Torn \in Contents(FullSummaries) /\ ~Torn.whole
    BY DEF Contents, Torn
  <2> QED BY <1>0, <2>1 DEF Engaged, Directories
<1>2. /\ r.queue \in Seq(Nat) /\ r.running \in SUBSET Nat /\ r.futures \in Seq(Outcomes)
      /\ Threads(r.queue, r.running, r.futures) /\ r.yielded = 1..Len(r.futures)
      /\ \A i \in 1..Len(r.futures) : r.futures[i] # Nil
  BY <1>0, RunFrom, RunFields, OutcomesDiffer DEF Gathered
<1>3. r.queue = <<>>
  BY <1>2, ThreadsHead
<1>4. r.running = {}
  <2> SUFFICES ASSUME NEW i \in r.running PROVE FALSE
    OBVIOUS
  <2>1. i \in 1..Len(r.futures) /\ r.futures[i] = Nil
    BY <1>2, ThreadsRunning
  <2> QED BY <1>2, <2>1
<1>5. Pool(r) /\ Played(r, d)
  BY <1>0 DEF Engaged
<1>6. Played(r, e)
  BY <1>1, <1>5 DEF Played
<1> QED BY <1>1, <1>2, <1>3, <1>4, <1>5, <1>6 DEF Engaged, Evaluating, Pooling

LEMMA SequenceOf ==
  ASSUME NEW S, NEW T, NEW e \in Seq(S), \A i \in 1..Len(e) : e[i] \in T
  PROVE  e \in Seq(T)
OBVIOUS

\* What is written is a full summary, and agrees with what was played.
LEMMA WriteEngaged ==
  ASSUME NEW r \in Runs, NEW d \in Directories, Engaged("writing_summary", r, d), NEW full,
         full.suite = r.suite, full.policy = r.policy, full.episodes = r.episodes,
         NEW e, e.dirs = d.dirs, e.made = d.made, e.played = d.played,
         e.summary.whole, e.summary.of = full
  PROVE  /\ Engaged("evaluated", r, e) /\ ~d.summary.whole /\ InFull(e)
         /\ r.suite \in Suites /\ r.policy \in Policies /\ r.episodes \in Seq(Results)
<1>0. "writing_summary" \in Evaluating \ Pooling /\ "evaluated" \in Evaluating \ Pooling
  BY DEF Pooling, Evaluating
<1>1. /\ r.yielded = 1..Len(r.futures) /\ Pool(r) /\ Played(r, d) /\ ~d.summary.whole
      /\ r.queue = <<>> /\ r.running = {}
  BY <1>0 DEF Engaged
<1>2. /\ r.suite \in Suites /\ r.policy \in Policies /\ Len(r.futures) \in Nat
      /\ Len(r.futures) = Len(CasesOf[r.suite]) /\ Len(r.episodes) = Len(r.futures)
      /\ r.episodes \in Seq(Outcomes)
      /\ \A i \in 1..Len(r.futures) : r.futures[i] \in Results /\ r.episodes[i] = r.futures[i]
  BY <1>0, <1>1, RunFrom, RunFields DEF Gathered
<1>3. /\ r.episodes \in Seq(Results)
      /\ r.episodes = [i \in 1..Len(r.futures) |-> r.episodes[i]]
  <2>1. r.episodes = [i \in 1..Len(r.futures) |-> r.episodes[i]]
    BY <1>2
  <2>2. \A i \in 1..Len(r.episodes) : r.episodes[i] \in Results
    BY <1>2
  <2> QED BY <1>2, <2>1, <2>2, SequenceOf
<1>6. InFull(e)
  <2>1. \A i \in 1..Len(r.futures) : r.episodes[i] = e.played[CasesOf[r.suite][i]]
    BY <1>1, <1>2 DEF Played, CaseOf
  <2>2. DOMAIN CasesOf[r.suite] = 1..Len(r.futures)
    BY <1>2, CasesTyped
  <2>3. r.episodes = [i \in DOMAIN CasesOf[r.suite] |-> e.played[CasesOf[r.suite][i]]]
    BY <1>3, <2>1, <2>2
  <2>4. e.made
    BY <1>1 DEF Played
  <2>5. Agrees(full, e.played)
    BY <2>3 DEF Agrees
  <2> QED BY <2>4, <2>5 DEF InFull
<1>7. Played(r, e)
  BY <1>1 DEF Played
<1> QED BY <1>0, <1>1, <1>2, <1>3, <1>6, <1>7 DEF Engaged, Pooling

\* A new evaluation.
LEMMA SubmitEngaged ==
  ASSUME NEW s \in Suites, NEW o \in Outputs, NEW policy \in Policies, NEW d \in Directories,
         ~d.summary.whole, NEW q, NEW e, e.made, e.summary = d.summary,
         NEW all \in Seq(Nat), Len(all) = Len(CasesOf[s]), \A i \in 1..Len(all) : all[i] = i,
         NEW nils \in Seq(Outcomes), Len(nils) = Len(CasesOf[s]),
         \A i \in 1..Len(nils) : nils[i] = Nil,
         q.output = o, q.suite = s, q.policy = policy, q.queue = all, q.running = {},
         q.futures = nils, q.yielded = {}, q.episodes = nils
  PROVE  Engaged("evaluating", q, e)
<1> DEFINE n == Len(CasesOf[s])
<1>1. n \in Nat
  BY CasesTyped
<1>2. /\ Len(nils) = n /\ \A i \in 1..n : nils[i] = Nil
      /\ Len(all) = n /\ \A i \in 1..n : all[i] = i
  OBVIOUS
<1> HIDE DEF n
<1>7. Threads(all, {}, nils)
  BY <1>1, <1>2 DEF Threads
<1>8. Gathered({}, nils, nils)
  BY DEF Gathered
<1>9. Pool(q)
  BY <1>2, <1>7, <1>8 DEF Pool, n
<1>10. Played(q, e)
  BY <1>2, OutcomesDiffer DEF Played, Ran
<1> QED BY <1>9, <1>10 DEF Engaged, Evaluating, Pooling
-------------------------------------------------------------------------------
(* Steps.                                                                     *)

LEMMA IdleEngaged ==
  ASSUME NEW at, at \notin Evaluating, NEW r, NEW d, NEW e
  PROVE  Engaged(at, r, d) <=> r.queue = <<>> /\ r.running = {}
BY DEF Engaged, Evaluating, Pooling

LEMMA BackedKept ==
  ASSUME NEW dk, NEW el,
         \A d \in Outputs : dk[d].summary.whole => el[d].summary = dk[d].summary
  PROVE  /\ \A s : Backed(dk, s) => Backed(el, s)
         /\ \A f : BackedFile(dk, f) => BackedFile(el, f)
<1>1. ASSUME NEW s, Backed(dk, s) PROVE Backed(el, s)
  BY <1>1 DEF Backed
<1>2. ASSUME NEW f, BackedFile(dk, f) PROVE BackedFile(el, f)
  BY <1>2 DEF BackedFile
<1> QED BY <1>1, <1>2

\* A step of an evaluation changes its own run and its own directory.
LEMMA EngagedStep ==
  ASSUME IInv, NEW p \in Processes, NEW at \in Evaluating, NEW r \in Runs, NEW o \in Outputs,
         NEW e \in Directories, r.output = o, Engaged(at, r, e), InFull(e),
         run' = [run EXCEPT ![p] = r], disk' = [disk EXCEPT ![o] = e],
         pc' = [pc EXCEPT ![p] = at], UNCHANGED <<file, locals, best>>,
         disk[o].summary.whole => e.summary = disk[o].summary,
         \/ pc[p] \in Evaluating /\ run[p].output = o
         \/ \A q \in Processes : pc[q] \in Evaluating => run[q].output # o,
         at = "evaluated" =>
           Backed(disk', SummaryOf([suite |-> r.suite, policy |-> r.policy,
                                    episodes |-> r.episodes]))
  PROVE  IInv'
<1>1. /\ pc \in [Processes -> Steps] /\ run \in [Processes -> Runs]
      /\ disk \in [Outputs -> Directories]
  BY DEF IInv, Types
<1>2. /\ pc' \in [Processes -> Steps] /\ run' \in [Processes -> Runs]
      /\ disk' \in [Outputs -> Directories]
      /\ pc'[p] = at /\ run'[p] = r /\ disk'[o] = e
      /\ \A q \in Processes \ {p} : pc'[q] = pc[q] /\ run'[q] = run[q]
      /\ \A d \in Outputs \ {o} : disk'[d] = disk[d]
  BY <1>1 DEF Steps
<1>3. Types'
  BY <1>2 DEF IInv, Types, locals
<1>4. \A q \in Processes \ {p} :
        pc[q] \in Evaluating => run[q].output # o /\ run[q].output \in Outputs
  <2> TAKE q \in Processes \ {p}
  <2> HAVE pc[q] \in Evaluating
  <2>1. run[q].output # o
    BY DEF IInv, OwnOutputs
  <2>2. run[q].output \in Outputs
    BY DEF IInv, OfRun, Engaged, Pool
  <2> QED BY <2>1, <2>2
<1>5. OwnOutputs'
  BY <1>2, <1>4 DEF IInv, OwnOutputs
<1>6. ASSUME NEW q \in Processes PROVE OfRun(q)'
  <2>1. CASE q = p
    BY <1>2, <2>1 DEF OfRun
  <2>2. CASE q # p /\ pc[q] \in Evaluating
    <3>1. disk'[run'[q].output] = disk[run[q].output] /\ pc'[q] = pc[q] /\ run'[q] = run[q]
      BY <1>2, <1>4, <2>2
    <3>2. Engaged(pc[q], run[q], disk[run[q].output])
      BY DEF IInv, OfRun
    <3> QED BY <3>1, <3>2 DEF OfRun
  <2>3. CASE q # p /\ pc[q] \notin Evaluating
    <3>1. pc'[q] = pc[q] /\ run'[q] = run[q]
      BY <1>2, <2>3
    <3>2. Engaged(pc[q], run[q], disk[run[q].output])
      BY DEF IInv, OfRun
    <3>3. Engaged(pc[q], run[q], disk'[run'[q].output])
      BY <2>3, <3>2, IdleEngaged
    <3> QED BY <3>1, <3>3 DEF OfRun
  <2> QED BY <2>1, <2>2, <2>3
<1>7. \A d \in Outputs : InFull(disk'[d])
  BY <1>2 DEF IInv
<1>8. AllBacked'
  <2>1. /\ \A s : Backed(disk, s) => Backed(disk', s)
        /\ \A f : BackedFile(disk, f) => BackedFile(disk', f)
    <3>1. \A d \in Outputs : disk[d].summary.whole => disk'[d].summary = disk[d].summary
      BY <1>2
    <3> QED BY <3>1, BackedKept
  <2>2. /\ \A f \in Files : BackedFile(disk, file[f])
        /\ \A q \in Processes : BackedFile(disk, bytes[q])
        /\ \A q \in Processes : pc[q] \in Promoting => Backed(disk, summary[q])
        /\ \A q \in Processes : pc[q] = "evaluated" => Backed(disk, SummaryOf(FullSummary(q)))
    BY DEF IInv, AllBacked
  <2>3. file' = file /\ bytes' = bytes /\ summary' = summary
    BY DEF locals
  <2>4. ASSUME NEW q \in Processes
        PROVE  /\ BackedFile(disk', bytes'[q])
               /\ pc'[q] \in Promoting => Backed(disk', summary'[q])
    <3>1. CASE q = p
      <4>1. at \notin Promoting
        BY DEF Evaluating, Pooling, Promoting
      <4> QED BY <1>2, <2>1, <2>2, <2>3, <3>1, <4>1
    <3>2. CASE q # p
      BY <1>2, <2>1, <2>2, <2>3, <3>2
    <3> QED BY <3>1, <3>2
  <2>5. ASSUME NEW q \in Processes, pc'[q] = "evaluated"
        PROVE  Backed(disk', SummaryOf(FullSummary(q)'))
    <3>1. CASE q = p
      BY <1>2, <2>5, <3>1 DEF FullSummary
    <3>2. CASE q # p
      <4>1. FullSummary(q)' = FullSummary(q) /\ pc[q] = "evaluated"
        BY <1>2, <2>5, <3>2 DEF FullSummary
      <4> QED BY <2>1, <2>2, <4>1
    <3> QED BY <3>1, <3>2
  <2> QED BY <2>1, <2>2, <2>3, <2>4, <2>5 DEF AllBacked
<1> QED BY <1>3, <1>5, <1>6, <1>7, <1>8 DEF IInv

\* A step of anything else leaves the directories alone.
LEMMA IdleStep ==
  ASSUME IInv, NEW p \in Processes, NEW at \in Steps \ Evaluating, pc'[p] = at,
         pc' \in [Processes -> Steps], run' \in [Processes -> Runs], UNCHANGED disk,
         run'[p].queue = <<>>, run'[p].running = {},
         file' \in [Files -> Contents(RankedManifests)],
         \A f \in Files : BackedFile(disk, file'[f]),
         summary' \in [Processes -> RankedSummaries], track' \in [Processes -> Tracks],
         bytes' \in [Processes -> Contents(RankedManifests)],
         valid' \in [Processes -> Contents(RankedManifests)],
         best' \in [Tracks -> [suite : Suites, rank : Nat]],
         BackedFile(disk, bytes'[p]), at \in Promoting => Backed(disk, summary'[p]),
         \A q \in Processes \ {p} : /\ pc'[q] = pc[q] /\ run'[q] = run[q]
                                    /\ summary'[q] = summary[q] /\ bytes'[q] = bytes[q]
  PROVE  IInv'
<1>1. Types'
  BY DEF IInv, Types
<1>2. OwnOutputs'
  <2> SUFFICES ASSUME NEW q1 \in Processes, NEW q2 \in Processes, pc'[q1] \in Evaluating,
                      pc'[q2] \in Evaluating, run'[q1].output = run'[q2].output
               PROVE  q1 = q2
    BY DEF OwnOutputs
  <2>1. q1 # p /\ q2 # p
    OBVIOUS
  <2> QED BY <2>1 DEF IInv, OwnOutputs
<1>3. ASSUME NEW q \in Processes PROVE OfRun(q)'
  <2>1. CASE q = p
    BY <2>1, IdleEngaged DEF OfRun
  <2>2. CASE q # p
    <3>1. Engaged(pc[q], run[q], disk[run[q].output])
      BY DEF IInv, OfRun
    <3>2. pc'[q] = pc[q] /\ run'[q] = run[q] /\ disk' = disk
      BY <2>2
    <3> QED BY <3>1, <3>2 DEF OfRun
  <2> QED BY <2>1, <2>2
<1>4. \A d \in Outputs : InFull(disk'[d])
  BY DEF IInv
<1>5. AllBacked'
  <2>1. ASSUME NEW q \in Processes
        PROVE  /\ BackedFile(disk', bytes'[q])
               /\ pc'[q] \in Promoting => Backed(disk', summary'[q])
    BY DEF IInv, AllBacked
  <2>2. ASSUME NEW q \in Processes, pc'[q] = "evaluated"
        PROVE  Backed(disk', SummaryOf(FullSummary(q)'))
    <3>1. q # p
      BY <2>2 DEF Evaluating
    <3>2. FullSummary(q)' = FullSummary(q) /\ pc[q] = "evaluated"
      BY <2>2, <3>1 DEF FullSummary
    <3> QED BY <3>2 DEF IInv, AllBacked
  <2> QED BY <2>1, <2>2 DEF AllBacked
<1> QED BY <1>1, <1>2, <1>3, <1>4, <1>5 DEF IInv

LEMMA RunIdle ==
  ASSUME IInv, NEW p \in Processes, pc[p] \notin Pooling
  PROVE  run[p].queue = <<>> /\ run[p].running = {}
BY DEF IInv, OfRun, Engaged

LEMMA BackedMissing ==
  ASSUME NEW dk, NEW f, ~f.whole
  PROVE  BackedFile(dk, f)
BY DEF BackedFile

LEMMA EndsStep ==
  ASSUME IInv, NEW p \in Processes, NEW how \in Final, Ends(p, how), UNCHANGED disk,
         file' \in [Files -> Contents(RankedManifests)],
         \A f \in Files : BackedFile(disk, file'[f]),
         best' \in [Tracks -> [suite : Suites, rank : Nat]],
         run' = [run EXCEPT ![p] = NoRun] \/ (UNCHANGED run /\ pc[p] \notin Pooling)
  PROVE  IInv'
<1>1. how \in Steps \ Evaluating /\ how \notin Promoting
  BY DEF Final, Steps, Evaluating, Pooling, Promoting
<1>2. Types
  BY DEF IInv
<1>3. /\ run' \in [Processes -> Runs] /\ run'[p].queue = <<>> /\ run'[p].running = {}
      /\ \A q \in Processes \ {p} : run'[q] = run[q]
  BY <1>2, NoRunTyped, RunIdle DEF Types
<1>4. BackedFile(disk, bytes'[p])
  <2>1. bytes'[p] = Absent
    BY <1>2, EndsTyped
  <2> QED BY <2>1, BackedMissing DEF Absent
<1>5. /\ pc' \in [Processes -> Steps] /\ pc'[p] = how
      /\ summary' \in [Processes -> RankedSummaries] /\ track' \in [Processes -> Tracks]
      /\ bytes' \in [Processes -> Contents(RankedManifests)]
      /\ valid' \in [Processes -> Contents(RankedManifests)]
      /\ \A q \in Processes \ {p} :
           pc'[q] = pc[q] /\ summary'[q] = summary[q] /\ bytes'[q] = bytes[q]
  BY <1>2, EndsTyped
<1> QED BY <1>1, <1>3, <1>4, <1>5, IdleStep

\* The end of a command that leaves the files alone.
LEMMA RefusedStep ==
  ASSUME IInv, NEW p \in Processes, NEW how \in Final, Ends(p, how),
         UNCHANGED <<file, best, disk>>,
         run' = [run EXCEPT ![p] = NoRun] \/ (UNCHANGED run /\ pc[p] \notin Pooling)
  PROVE  IInv'
<1>1. /\ file' \in [Files -> Contents(RankedManifests)]
      /\ best' \in [Tracks -> [suite : Suites, rank : Nat]]
      /\ \A f \in Files : BackedFile(disk, file'[f])
  BY DEF IInv, Types, AllBacked
<1> QED BY <1>1, EndsStep

LEMMA KilledStep ==
  ASSUME IInv, NEW p \in Processes, Killed(p), Set(p, NoRun), UNCHANGED disk
  PROVE  IInv'
<1>1. "killed" \in Final
  BY DEF Final
<1> QED BY <1>1, RefusedStep DEF Killed, Set

LEMMA LeavesStep == ASSUME IInv, NEW p \in Processes, Leaves(p) PROVE IInv'
<1>1. "refused" \in Final
  BY DEF Final
<1> QED BY <1>1, RefusedStep DEF Leaves, Set

LEMMA SubmitsStep == ASSUME IInv, NEW p \in Processes, Submits(p) PROVE IInv'
<1>1. pc[p] = "ready" /\ "ready" \notin Pooling /\ "refused" \in Final
      /\ "evaluating" \in Evaluating /\ "evaluating" # "evaluated"
  BY DEF Submits, Begins, Pooling, Final, Evaluating
<1>2. PICK name \in DOMAIN Config, policy \in Policies, d \in Outputs :
        LET suite == Resolved(name) IN
        IF suite = Nil \/ disk[d].made
          THEN Ends(p, "refused") /\ UNCHANGED <<run, disk>>
          ELSE /\ Goes(p, "evaluating")
               /\ disk' = [disk EXCEPT ![d].made = TRUE]
               /\ Set(p, [NoRun EXCEPT !.output = d, !.suite = suite, !.policy = policy,
                                       !.queue = [i \in 1..Len(CasesOf[suite]) |-> i],
                                       !.futures = [i \in 1..Len(CasesOf[suite]) |-> Nil],
                                       !.episodes = [i \in 1..Len(CasesOf[suite]) |-> Nil]])
               /\ UNCHANGED locals
  BY DEF Submits
<1>3. UNCHANGED <<file, best>>
  BY DEF Submits
<1> DEFINE s == Resolved(name)
<1>4. CASE s = Nil \/ disk[d].made
  BY <1>1, <1>2, <1>3, <1>4, RefusedStep
<1>5. CASE s # Nil /\ ~disk[d].made
  <2>1. s \in Suites
    BY <1>5 DEF Resolved
  <2>2. disk[d] \in Directories /\ disk \in [Outputs -> Directories] /\ InFull(disk[d])
    BY DEF IInv, Types
  <2>3. ~disk[d].summary.whole
    BY <1>5, <2>2 DEF InFull
  <2>10. PICK all, nils, r, e :
           /\ all = [i \in 1..Len(CasesOf[s]) |-> i]
           /\ nils = [i \in 1..Len(CasesOf[s]) |-> Nil]
           /\ r = [NoRun EXCEPT !.output = d, !.suite = s, !.policy = policy, !.queue = all,
                                !.futures = nils, !.episodes = nils]
           /\ e = [disk[d] EXCEPT !.made = TRUE]
    OBVIOUS
  <2>4. /\ r \in Runs /\ r.output = d /\ Engaged("evaluating", r, e)
        /\ e \in Directories /\ e.summary = disk[d].summary
    <3>1. Len(CasesOf[s]) \in Nat /\ Nil \in Outcomes
      BY <2>1, CasesTyped, OutcomesDiffer
    <3>2. /\ all \in Seq(Nat) /\ Len(all) = Len(CasesOf[s]) /\ \A i \in 1..Len(all) : all[i] = i
          /\ nils \in Seq(Outcomes) /\ Len(nils) = Len(CasesOf[s])
          /\ \A i \in 1..Len(nils) : nils[i] = Nil
      BY <2>10, <3>1
    <3>3. r = [output |-> d, suite |-> s, policy |-> policy, queue |-> all, running |-> {},
               futures |-> nils, yielded |-> {}, episodes |-> nils]
      <4> HIDE DEF s
      <4> QED BY <2>10 DEF NoRun
    <3> HIDE DEF s
    <3>4. e.made /\ e.summary = disk[d].summary /\ e \in Directories
      BY <2>2, <2>10 DEF Directories
    <3>5. /\ r.output = d /\ r.suite = s /\ r.policy = policy /\ r.queue = all /\ r.running = {}
          /\ r.futures = nils /\ r.yielded = {} /\ r.episodes = nils
      BY <3>3
    <3>6. r \in Runs
      BY <2>1, <3>2, <3>3 DEF Runs
    <3> QED BY <2>1, <2>2, <2>3, <3>2, <3>4, <3>5, <3>6, SubmitEngaged
  <2>6. run' = [run EXCEPT ![p] = r] /\ disk' = [disk EXCEPT ![d] = e]
        /\ pc' = [pc EXCEPT ![p] = "evaluating"] /\ UNCHANGED <<file, locals, best>>
    <3>1. run' = [run EXCEPT ![p] = r]
      BY <1>2, <1>5, <2>10 DEF Set
    <3>2. disk' = [disk EXCEPT ![d] = e]
      BY <1>2, <1>5, <2>2, <2>10
    <3> QED BY <1>2, <1>3, <1>5, <3>1, <3>2 DEF Goes
  <2>7. InFull(e)
    BY <2>3, <2>4 DEF InFull
  <2>8. \A q \in Processes : pc[q] \in Evaluating => run[q].output # d
    <3> TAKE q \in Processes
    <3> HAVE pc[q] \in Evaluating
    <3>1. disk[run[q].output].made
      BY DEF IInv, OfRun, Engaged, Played
    <3> QED BY <1>5, <3>1
  <2> HIDE DEF s
  <2> QED BY <1>1, <2>3, <2>4, <2>6, <2>7, <2>8, EngagedStep
<1> QED BY <1>4, <1>5

LEMMA CaseStartsStep == ASSUME IInv, NEW p \in Processes, CaseStarts(p) PROVE IInv'
<1> DEFINE r == run[p]
           i == Head(r.queue)
           o == r.output
           d == disk[o]
<1>1. /\ pc[p] \in Pooling /\ pc[p] \in Evaluating /\ UNCHANGED <<file, pc, locals, best>>
      /\ pc[p] # "evaluated" /\ r.queue # <<>> /\ pc' = [pc EXCEPT ![p] = pc[p]]
  <2>1. pc \in [Processes -> Steps]
    BY DEF IInv, Types
  <2> QED BY <2>1 DEF CaseStarts, Pooled, vars, Pooling, Evaluating
<1>2. /\ r \in Runs /\ o \in Outputs /\ d \in Directories /\ Engaged(pc[p], r, d)
      /\ run \in [Processes -> Runs] /\ disk \in [Outputs -> Directories]
      /\ ~d.summary.whole
  <2>1. Engaged(pc[p], r, d) /\ run \in [Processes -> Runs] /\ disk \in [Outputs -> Directories]
    BY DEF IInv, OfRun, Types
  <2> QED BY <1>1, <2>1 DEF Engaged, Pool
<1>3. CASE CaseOf(r, i) \in d.dirs
  <2> DEFINE q == [r EXCEPT !.queue = Tail(@), !.futures[i] = Raised]
  <2>1. q \in Runs /\ q.output = o /\ Engaged(pc[p], q, d)
    BY <1>1, <1>2, RefusalEngaged
  <2>2. run' = [run EXCEPT ![p] = q] /\ disk' = [disk EXCEPT ![o] = d]
    BY <1>2, <1>3 DEF CaseStarts, Set, CaseOf
  <2>3. InFull(d)
    BY <1>2 DEF InFull
  <2> HIDE DEF q, r, d, o
  <2>4. pc[p] \in Evaluating /\ run[p].output = o
    BY <1>1 DEF o, r
  <2>5. disk[o].summary.whole => d.summary = disk[o].summary
    BY DEF d
  <2> QED BY <1>1, <1>2, <2>1, <2>2, <2>3, <2>4, <2>5, EngagedStep
<1>4. CASE CaseOf(r, i) \notin d.dirs
  <2>10. PICK q, e : /\ q = [r EXCEPT !.queue = Tail(@), !.running = @ \union {i}]
                     /\ e = [d EXCEPT !.dirs = @ \union {CaseOf(r, i)}]
    OBVIOUS
  <2>11. /\ q.queue = Tail(r.queue) /\ q.running = r.running \union {i} /\ q.futures = r.futures
         /\ q.yielded = r.yielded /\ q.episodes = r.episodes /\ q.output = r.output
         /\ q.suite = r.suite /\ q.policy = r.policy
    BY <1>2, <2>10 DEF Runs
  <2>12. /\ e.dirs = d.dirs \union {CaseOf(r, i)} /\ e.made = d.made /\ e.played = d.played
         /\ e.summary = d.summary
    BY <1>2, <2>10 DEF Directories
  <2>13. /\ Engaged(pc[p], q, e) /\ CaseOf(r, i) \in Cases
         /\ i \in Nat /\ Tail(r.queue) \in Seq(Nat)
    <3> HIDE DEF r, d, o
    <3>1. r.queue # <<>>
      BY <1>1 DEF r
    <3> QED BY <1>1, <1>2, <1>4, <2>11, <2>12, <3>1, StartEngaged
  <2>14. q \in Runs
    <3> HIDE DEF r, d, o, i
    <3>1. r.running \union {i} \in SUBSET Nat
      BY <1>2, <2>13, RunFields
    <3> QED BY <1>2, <2>10, <2>13, <3>1 DEF Runs
  <2>15. e \in Directories
    <3> HIDE DEF r, d, o, i
    <3> QED BY <1>2, <2>10, <2>13 DEF Directories
  <2>1. q \in Runs /\ q.output = o /\ Engaged(pc[p], q, e) /\ e \in Directories
        /\ e.summary = d.summary
    BY <2>11, <2>12, <2>13, <2>14, <2>15
  <2>2. run' = [run EXCEPT ![p] = q] /\ disk' = [disk EXCEPT ![o] = e]
    BY <1>2, <1>4, <2>10 DEF CaseStarts, Set, CaseOf
  <2>3. InFull(e)
    BY <1>2, <2>1 DEF InFull
  <2> HIDE DEF r, d, o
  <2>4. pc[p] \in Evaluating /\ run[p].output = o
    BY <1>1 DEF o, r
  <2>5. disk[o].summary.whole => e.summary = disk[o].summary
    BY <1>2, <2>1 DEF d
  <2> QED BY <1>1, <1>2, <2>1, <2>2, <2>3, <2>4, <2>5, EngagedStep
<1> QED BY <1>3, <1>4

\* A step of a pool starts from a directory whose summary is not written.
LEMMA PoolBase ==
  ASSUME IInv, NEW p \in Processes, pc[p] \in Pooling
  PROVE  /\ run[p] \in Runs /\ run[p].output \in Outputs
         /\ disk[run[p].output] \in Directories /\ ~disk[run[p].output].summary.whole
         /\ Engaged(pc[p], run[p], disk[run[p].output])
         /\ pc[p] \in Evaluating /\ pc[p] # "evaluated"
         /\ run \in [Processes -> Runs] /\ disk \in [Outputs -> Directories]
         /\ pc \in [Processes -> Steps]
<1>1. /\ Engaged(pc[p], run[p], disk[run[p].output]) /\ run \in [Processes -> Runs]
      /\ disk \in [Outputs -> Directories] /\ pc \in [Processes -> Steps]
  BY DEF IInv, OfRun, Types
<1>2. pc[p] \in Evaluating /\ pc[p] # "evaluated"
  BY DEF Pooling, Evaluating
<1> QED BY <1>1, <1>2 DEF Engaged, Pool

LEMMA CaseEndsStep == ASSUME IInv, NEW p \in Processes, CaseEnds(p) PROVE IInv'
<1>1. PICK i \in run[p].running, v \in Results \union {Raised} :
        /\ run' = [run EXCEPT ![p] = [run[p] EXCEPT !.running = @ \ {i}, !.futures[i] = v]]
        /\ disk' = [disk EXCEPT ![run[p].output].played[CasesOf[run[p].suite][i]] = v]
  BY DEF CaseEnds, Set
<1>2. pc[p] \in Pooling /\ UNCHANGED <<file, pc, locals, best>>
  BY DEF CaseEnds, Pooled, vars, Pooling
<1> DEFINE r == run[p]
           o == r.output
           d == disk[o]
           q == [r EXCEPT !.running = @ \ {i}, !.futures[i] = v]
           e == [d EXCEPT !.played[CaseOf(r, i)] = v]
<1>3. /\ r \in Runs /\ o \in Outputs /\ d \in Directories /\ Engaged(pc[p], r, d)
      /\ pc[p] \in Evaluating /\ pc[p] # "evaluated" /\ ~d.summary.whole
      /\ run \in [Processes -> Runs] /\ disk \in [Outputs -> Directories]
      /\ pc' = [pc EXCEPT ![p] = pc[p]]
  BY <1>2, PoolBase
<1>9. i \in 1..Len(r.futures) /\ CaseOf(r, i) \in Cases /\ v \in Outcomes
  <2>1. /\ r.queue \in Seq(Nat) /\ r.futures \in Seq(Outcomes)
        /\ Threads(r.queue, r.running, r.futures)
    BY <1>3, RunFrom, RunFields
  <2>2. i \in 1..Len(r.futures)
    BY <2>1, ThreadsRunning
  <2> QED BY <1>3, <2>2, RunFrom, OutcomesDiffer
<1>10. /\ q.queue = r.queue /\ q.running = r.running \ {i}
       /\ q.futures = [r.futures EXCEPT ![i] = v]
       /\ q.yielded = r.yielded /\ q.episodes = r.episodes /\ q.output = r.output
       /\ q.suite = r.suite /\ q.policy = r.policy
  BY <1>3 DEF Runs
<1>13. /\ Len(q.futures) = Len(r.futures) /\ q.futures[i] = v
       /\ \A j \in 1..Len(r.futures) : j # i => q.futures[j] = r.futures[j]
  <2> HIDE DEF r, q
  <2> QED BY <1>3, <1>9, <1>10, RunFields, FuturesUpdate
<1>11. q \in Runs
  <2>1. /\ r.running \ {i} \in SUBSET Nat /\ [r.futures EXCEPT ![i] = v] \in Seq(Outcomes)
    BY <1>3, <1>9, RunFields, FuturesUpdate
  <2> HIDE DEF r
  <2> QED BY <1>3, <2>1 DEF Runs
<1>12. /\ e.dirs = d.dirs /\ e.made = d.made /\ e.summary = d.summary /\ e \in Directories
       /\ e.played[CaseOf(r, i)] = v
       /\ \A c \in Cases : c # CaseOf(r, i) => e.played[c] = d.played[c]
  <2> HIDE DEF d, r
  <2> QED BY <1>3, <1>9 DEF Directories
<1>4. q \in Runs /\ q.output = o /\ Engaged(pc[p], q, e) /\ e \in Directories
      /\ e.summary = d.summary
  <2>2. i \in r.running
    OBVIOUS
  <2> HIDE DEF q, e, d, r
  <2>3. /\ r \in Runs /\ d \in Directories /\ pc[p] \in Pooling /\ Engaged(pc[p], r, d)
        /\ i \in r.running /\ q \in Runs
    BY <1>2, <1>3, <1>11, <2>2
  <2>4. q.futures[i] \in Results \union {Raised}
    BY <1>13
  <2>5. /\ q.queue = r.queue /\ q.running = r.running \ {i} /\ Len(q.futures) = Len(r.futures)
        /\ \A j \in 1..Len(r.futures) : j # i => q.futures[j] = r.futures[j]
        /\ q.yielded = r.yielded /\ q.episodes = r.episodes /\ q.output = r.output
        /\ q.suite = r.suite /\ q.policy = r.policy
    BY <1>10, <1>13
  <2>6. /\ e.dirs = d.dirs /\ e.made = d.made /\ e.summary = d.summary
        /\ e.played[CaseOf(r, i)] = q.futures[i]
        /\ \A c \in Cases : c # CaseOf(r, i) => e.played[c] = d.played[c]
    BY <1>12, <1>13
  <2>1. Engaged(pc[p], q, e)
    BY <2>3, <2>4, <2>5, <2>6, EndEngaged
  <2> QED BY <1>10, <1>11, <1>12, <2>1
<1>5. run' = [run EXCEPT ![p] = q] /\ disk' = [disk EXCEPT ![o] = e]
  BY <1>1, <1>3 DEF CaseOf
<1>6. InFull(e)
  BY <1>3, <1>4 DEF InFull
<1> HIDE DEF q, e, d
<1>7. pc[p] \in Evaluating /\ run[p].output = o
  BY <1>3 DEF o, r
<1>8. disk[o].summary.whole => e.summary = disk[o].summary
  BY <1>4 DEF d
<1> HIDE DEF o, r
<1> QED BY <1>2, <1>3, <1>4, <1>5, <1>6, <1>7, <1>8, EngagedStep

LEMMA YieldsStep == ASSUME IInv, NEW p \in Processes, Yields(p) PROVE IInv'
<1> DEFINE r == run[p]
           o == r.output
           d == disk[o]
<1>1. PICK i \in 1..Len(r.futures) :
        /\ i \notin r.yielded /\ r.futures[i] # Nil
        /\ IF r.futures[i] = Raised
             THEN Goes(p, "draining") /\ UNCHANGED run
             ELSE /\ Set(p, [r EXCEPT !.yielded = @ \union {i}, !.episodes[i] = r.futures[i]])
                  /\ pc' = pc \/ Goes(p, "draining")
  BY DEF Yields
<1>2. pc[p] = "evaluating" /\ pc[p] \in Pooling /\ UNCHANGED <<file, locals, best, disk>>
  BY DEF Yields, Pooling
<1>3. /\ r \in Runs /\ o \in Outputs /\ d \in Directories /\ Engaged("evaluating", r, d)
      /\ pc[p] \in Evaluating /\ ~d.summary.whole /\ pc \in [Processes -> Steps]
      /\ run \in [Processes -> Runs] /\ disk \in [Outputs -> Directories]
  BY <1>2, PoolBase
<1>4. r.futures[i] \in Outcomes
  BY <1>3, RunFields
<1>5. \E at \in Pooling, q \in Runs :
        /\ q.output = o /\ Engaged(at, q, d) /\ run' = [run EXCEPT ![p] = q]
        /\ pc' = [pc EXCEPT ![p] = at]
  <2>1. CASE r.futures[i] = Raised
    <3>1. Engaged("draining", r, d) /\ "draining" \in Pooling
      BY <1>3, DrainEngaged DEF Pooling
    <3>2. run' = [run EXCEPT ![p] = r]
      BY <1>1, <1>3, <2>1
    <3> QED BY <1>1, <1>3, <2>1, <3>1, <3>2 DEF Goes
  <2>2. CASE r.futures[i] # Raised
    <3>1. r.futures[i] \in Results
      BY <1>1, <1>4, <2>2 DEF Outcomes
    <3>2. PICK at \in Pooling : pc' = [pc EXCEPT ![p] = at]
      <4>1. CASE pc' = pc
        BY <1>2, <1>3, <4>1
      <4>2. CASE Goes(p, "draining")
        BY <4>2 DEF Goes, Pooling
      <4> QED BY <1>1, <2>2, <4>1, <4>2
    <3>3. PICK q : q = [r EXCEPT !.yielded = @ \union {i}, !.episodes[i] = r.futures[i]]
      OBVIOUS
    <3>4. q \in Runs /\ q.output = o /\ Engaged(at, q, d)
      <4> HIDE DEF d
      <4>1. /\ r \in Runs /\ Len(r.episodes) = Len(r.futures)
            /\ r.futures[i] \in Outcomes /\ r.episodes \in Seq(Outcomes)
        BY <1>2, <1>3, <1>4, RunFrom, RunFields DEF Gathered
      <4>2. /\ q.queue = r.queue /\ q.running = r.running /\ q.futures = r.futures
            /\ q.yielded = r.yielded \union {i}
            /\ q.episodes = [r.episodes EXCEPT ![i] = r.futures[i]]
            /\ q.output = r.output /\ q.suite = r.suite /\ q.policy = r.policy
        BY <3>3, <4>1 DEF Runs
      <4>3. q \in Runs
        <5>1. /\ r.yielded \union {i} \in SUBSET Nat
              /\ [r.episodes EXCEPT ![i] = r.futures[i]] \in Seq(Outcomes)
          <6>1. i \in 1..Len(r.episodes) /\ i \in Nat
            BY <4>1
          <6> QED BY <4>1, <6>1, RunFields, FuturesUpdate
        <5> HIDE DEF r
        <5> QED BY <3>3, <4>1, <5>1 DEF Runs
      <4>4. Engaged(at, q, d)
        BY <1>3, <3>1, <4>1, <4>2, <4>3, YieldEngaged
      <4> QED BY <4>2, <4>3, <4>4
    <3>5. run' = [run EXCEPT ![p] = q]
      BY <1>1, <2>2, <3>3 DEF Set
    <3> QED BY <3>2, <3>4, <3>5
  <2> QED BY <2>1, <2>2
<1>6. PICK at \in Pooling, q \in Runs :
        /\ q.output = o /\ Engaged(at, q, d) /\ run' = [run EXCEPT ![p] = q]
        /\ pc' = [pc EXCEPT ![p] = at]
  BY <1>5
<1>7. /\ at \in Evaluating /\ at # "evaluated" /\ InFull(d)
      /\ disk' = [disk EXCEPT ![o] = d] /\ run[p].output = o /\ disk[o].summary = d.summary
  BY <1>2, <1>3 DEF Pooling, Evaluating, InFull
<1> HIDE DEF r, o, d
<1> QED BY <1>2, <1>3, <1>6, <1>7, EngagedStep

LEMMA GathersStep == ASSUME IInv, NEW p \in Processes, Gathers(p) PROVE IInv'
<1> DEFINE r == run[p]
           o == r.output
           d == disk[o]
           e == [d EXCEPT !.summary = Torn]
<1>1. /\ pc[p] = "evaluating" /\ pc[p] \in Pooling /\ r.yielded = DOMAIN r.futures
      /\ pc' = [pc EXCEPT ![p] = "writing_summary"]
      /\ UNCHANGED <<file, locals, best>> /\ run' = run
  BY DEF Gathers, Goes, Pooling
<1>2. /\ r \in Runs /\ o \in Outputs /\ d \in Directories /\ Engaged("evaluating", r, d)
      /\ pc[p] \in Evaluating /\ pc \in [Processes -> Steps]
      /\ run \in [Processes -> Runs] /\ disk \in [Outputs -> Directories]
  BY <1>1, PoolBase
<1>3. /\ Engaged("writing_summary", r, e)
      /\ e \in Directories /\ ~d.summary.whole /\ ~e.summary.whole
  BY <1>1, <1>2, GatherEngaged
<1>4. run' = [run EXCEPT ![p] = r] /\ disk' = [disk EXCEPT ![o] = e]
  BY <1>1, <1>2 DEF Gathers
<1>5. InFull(e) /\ "writing_summary" \in Evaluating /\ "writing_summary" # "evaluated"
  BY <1>3 DEF InFull, Evaluating
<1>6. run[p].output = o /\ r.output = o /\ disk[o].summary = d.summary
  OBVIOUS
<1> HIDE DEF r, o, d, e
<1> QED BY <1>1, <1>2, <1>3, <1>4, <1>5, <1>6, EngagedStep

LEMMA WritesSummaryStep == ASSUME IInv, NEW p \in Processes, WritesSummary(p) PROVE IInv'
<1> DEFINE r == run[p]
           o == r.output
           d == disk[o]
           full == [suite |-> r.suite, policy |-> r.policy, episodes |-> r.episodes]
           e == [d EXCEPT !.summary = Whole(full)]
<1>1. /\ pc[p] = "writing_summary" /\ pc' = [pc EXCEPT ![p] = "evaluated"]
      /\ UNCHANGED <<file, locals, best>> /\ run' = run
  BY DEF WritesSummary, Goes
<1>2. /\ r \in Runs /\ o \in Outputs /\ d \in Directories /\ Engaged("writing_summary", r, d)
      /\ pc[p] \in Evaluating /\ pc \in [Processes -> Steps]
      /\ run \in [Processes -> Runs] /\ disk \in [Outputs -> Directories]
  <2>1. Engaged("writing_summary", r, d) /\ "writing_summary" \in Evaluating
    BY <1>1 DEF IInv, OfRun, Evaluating
  <2>2. o \in Outputs
    BY <2>1 DEF Engaged, Pool
  <2> QED BY <1>1, <2>1, <2>2 DEF IInv, Types
<1>3. /\ Engaged("evaluated", r, e) /\ full \in FullSummaries
      /\ e \in Directories /\ ~d.summary.whole /\ InFull(e)
      /\ e.summary.whole /\ e.summary.of = full
  <2>1. /\ full.suite = r.suite /\ full.policy = r.policy /\ full.episodes = r.episodes
        /\ e.dirs = d.dirs /\ e.made = d.made /\ e.played = d.played
        /\ e.summary.whole /\ e.summary.of = full
    BY <1>2 DEF Directories, Whole
  <2>2. /\ Engaged("evaluated", r, e) /\ ~d.summary.whole /\ InFull(e)
        /\ r.suite \in Suites /\ r.policy \in Policies /\ r.episodes \in Seq(Results)
    <3> HIDE DEF full, e, d, r
    <3> QED BY <1>2, <2>1, WriteEngaged
  <2>3. full \in FullSummaries
    BY <2>2 DEF FullSummaries
  <2>4. e \in Directories
    <3>1. Whole(full) \in Contents(FullSummaries)
      BY <2>3, ContentsOf
    <3> HIDE DEF full, d, r
    <3> QED BY <1>2, <3>1 DEF Directories
  <2> QED BY <2>1, <2>2, <2>3, <2>4
<1>4. run' = [run EXCEPT ![p] = r] /\ disk' = [disk EXCEPT ![o] = e]
  BY <1>1, <1>2 DEF WritesSummary, FullSummary
<1>5. Backed(disk', SummaryOf(full))
  <2>1. disk'[o] = e
    BY <1>2, <1>4
  <2> HIDE DEF full, e
  <2> QED BY <1>2, <1>3, <2>1 DEF Backed
<1>6. /\ run[p].output = o /\ r.output = o /\ disk[o].summary = d.summary
      /\ "evaluated" \in Evaluating
      /\ Backed(disk', SummaryOf([suite |-> r.suite, policy |-> r.policy,
                                  episodes |-> r.episodes]))
  BY <1>5 DEF Evaluating
<1> HIDE DEF r, o, d, full, e
<1> QED BY <1>1, <1>2, <1>3, <1>4, <1>6, EngagedStep

LEMMA BackedTyped ==
  ASSUME IInv, NEW s, Backed(disk, s)
  PROVE  s \in RankedSummaries
<1>1. PICK d \in Outputs : disk[d].summary.whole /\ SummaryOf(disk[d].summary.of) = s
  BY DEF Backed
<1>2. disk[d].summary.of \in FullSummaries
  <2>1. disk[d].summary \in Contents(FullSummaries)
    BY DirectoryFields DEF IInv, Types
  <2> QED BY <1>1, <2>1, ContentsAre
<1> QED BY <1>1, <1>2, SummaryTyped

\* A command that starts to promote a summary of a directory.
LEMMA ComparingStep ==
  ASSUME IInv, NEW p \in Processes, Goes(p, "comparing"), NEW s, Backed(disk, s),
         NEW t \in Tracks, summary' = [summary EXCEPT ![p] = s], track' = [track EXCEPT ![p] = t],
         UNCHANGED <<file, best, bytes, valid, disk>>,
         run' = [run EXCEPT ![p] = NoRun] \/ (UNCHANGED run /\ pc[p] \notin Pooling)
  PROVE  IInv'
<1>1. Types /\ "comparing" \in Steps \ Evaluating
  BY DEF IInv, Steps, Promoting, Evaluating, Pooling
<1>2. /\ pc' \in [Processes -> Steps] /\ pc'[p] = "comparing"
      /\ \A q \in Processes \ {p} : pc'[q] = pc[q]
  BY <1>1, GoesTyped
<1>3. /\ run' \in [Processes -> Runs] /\ run'[p].queue = <<>> /\ run'[p].running = {}
      /\ \A q \in Processes \ {p} : run'[q] = run[q]
  BY <1>1, NoRunTyped, RunIdle DEF Types
<1>4. s \in RankedSummaries
  BY BackedTyped
<1>5. /\ summary' \in [Processes -> RankedSummaries] /\ track' \in [Processes -> Tracks]
      /\ bytes' \in [Processes -> Contents(RankedManifests)]
      /\ valid' \in [Processes -> Contents(RankedManifests)]
      /\ file' \in [Files -> Contents(RankedManifests)]
      /\ best' \in [Tracks -> [suite : Suites, rank : Nat]]
      /\ summary'[p] = s /\ \A q \in Processes \ {p} : summary'[q] = summary[q]
  BY <1>1, <1>4 DEF Types
<1>6. /\ \A f \in Files : BackedFile(disk, file'[f])
      /\ BackedFile(disk, bytes'[p])
  BY DEF IInv, AllBacked
<1> QED BY <1>1, <1>2, <1>3, <1>5, <1>6, IdleStep

LEMMA JudgesStep == ASSUME IInv, NEW p \in Processes, Judges(p) PROVE IInv'
<1>1. /\ UNCHANGED <<file, best, disk>> /\ run' = [run EXCEPT ![p] = NoRun]
      /\ pc[p] = "evaluated"
  BY DEF Judges
<1>2. CASE \E how \in Final : Ends(p, how)
  BY <1>1, <1>2, RefusedStep
<1>3. CASE \E t \in Tracks :
             /\ Goes(p, "comparing") /\ track' = [track EXCEPT ![p] = t]
             /\ summary' = [summary EXCEPT ![p] = SummaryOf(FullSummary(p))]
             /\ UNCHANGED <<bytes, valid>>
  <2>1. Backed(disk, SummaryOf(FullSummary(p)))
    BY <1>1 DEF IInv, AllBacked
  <2> QED BY <1>1, <1>3, <2>1, ComparingStep
<1> QED BY <1>2, <1>3 DEF Judges, Final

LEMMA PromotesDiagnosticStep ==
  ASSUME IInv, NEW p \in Processes, PromotesDiagnostic(p)
  PROVE  IInv'
<1>1. UNCHANGED <<file, best, run, disk>> /\ pc[p] \notin Pooling
  BY DEF PromotesDiagnostic, Begins, Pooling
<1>2. CASE Ends(p, "refused")
  <2>1. "refused" \in Final
    BY DEF Final
  <2> QED BY <1>1, <1>2, <2>1, RefusedStep
<1>3. CASE ~Ends(p, "refused")
  <2>1. PICK d \in Outputs :
          /\ disk[d].summary.whole /\ Goes(p, "comparing")
          /\ summary' = [summary EXCEPT ![p] = SummaryOf(disk[d].summary.of)]
          /\ track' = [track EXCEPT ![p] = "candidate"] /\ UNCHANGED <<bytes, valid>>
    BY <1>3 DEF PromotesDiagnostic
  <2>2. Backed(disk, SummaryOf(disk[d].summary.of)) /\ "candidate" \in Tracks
    BY <2>1 DEF Backed, Tracks
  <2> QED BY <1>1, <2>1, <2>2, ComparingStep
<1> QED BY <1>2, <1>3

\* What may be written to a file.
LEMMA Written ==
  ASSUME IInv
  PROVE  /\ \A n \in Files : file[n] \in Contents(RankedManifests) /\ BackedFile(disk, file[n])
         /\ \A p \in Processes :
              bytes[p] \in Contents(RankedManifests) /\ BackedFile(disk, bytes[p])
         /\ Absent \in Contents(RankedManifests) /\ BackedFile(disk, Absent)
         /\ Torn \in Contents(RankedManifests) /\ BackedFile(disk, Torn)
         /\ \A s : Backed(disk, s) =>
              /\ Whole(Manifest(s)) \in Contents(RankedManifests)
              /\ BackedFile(disk, Whole(Manifest(s)))
<1>1. /\ \A n \in Files : file[n] \in Contents(RankedManifests) /\ BackedFile(disk, file[n])
      /\ \A p \in Processes :
           bytes[p] \in Contents(RankedManifests) /\ BackedFile(disk, bytes[p])
  BY DEF IInv, Types, AllBacked
<1>2. /\ Absent \in Contents(RankedManifests) /\ BackedFile(disk, Absent)
      /\ Torn \in Contents(RankedManifests) /\ BackedFile(disk, Torn)
  <2>1. /\ Absent \in Contents(RankedManifests) /\ Torn \in Contents(RankedManifests)
        /\ ~Absent.whole /\ ~Torn.whole
    BY DEF Contents, Absent, Torn
  <2> QED BY <2>1, BackedMissing
<1>3. ASSUME NEW s, Backed(disk, s)
      PROVE  /\ Whole(Manifest(s)) \in Contents(RankedManifests)
             /\ BackedFile(disk, Whole(Manifest(s)))
  <2>1. Manifest(s) \in RankedManifests
    BY <1>3, BackedTyped, ManifestTyped
  <2>2. Whole(Manifest(s)).of = Manifest(s) /\ Whole(Manifest(s)) \in Contents(RankedManifests)
    BY <2>1, ContentsOf
  <2>3. PICK d \in Outputs : disk[d].summary.whole /\ SummaryOf(disk[d].summary.of) = s
    BY <1>3 DEF Backed
  <2> QED BY <2>2, <2>3 DEF BackedFile
<1> QED BY <1>1, <1>2, <1>3

\* A step of a promotion or an activation that goes on: it writes at most one file, and
\* reads at most one.
LEMMA TrackStep ==
  ASSUME IInv, NEW p \in Processes, pc[p] \notin Evaluating, NEW at \in Steps \ Evaluating,
         Goes(p, at), at \in Promoting => pc[p] \in Promoting,
         UNCHANGED <<run, disk, best, summary, track>>,
         NEW n \in Files, NEW x \in Contents(RankedManifests), BackedFile(disk, x),
         file' = [file EXCEPT ![n] = x],
         NEW y \in Contents(RankedManifests), BackedFile(disk, y), bytes' = [bytes EXCEPT ![p] = y],
         NEW z \in Contents(RankedManifests), valid' = [valid EXCEPT ![p] = z]
  PROVE  IInv'
<1>1. Types /\ pc[p] \notin Pooling
  BY DEF IInv, Evaluating
<1>2. /\ pc' \in [Processes -> Steps] /\ pc'[p] = at
      /\ \A q \in Processes \ {p} : pc'[q] = pc[q]
  BY <1>1, GoesTyped
<1>3. run' \in [Processes -> Runs] /\ run'[p].queue = <<>> /\ run'[p].running = {}
      /\ \A q \in Processes \ {p} : run'[q] = run[q]
  BY <1>1, RunIdle DEF Types
<1>4. /\ summary' \in [Processes -> RankedSummaries] /\ track' \in [Processes -> Tracks]
      /\ bytes' \in [Processes -> Contents(RankedManifests)]
      /\ valid' \in [Processes -> Contents(RankedManifests)]
      /\ file' \in [Files -> Contents(RankedManifests)]
      /\ best' \in [Tracks -> [suite : Suites, rank : Nat]]
      /\ bytes'[p] = y
      /\ \A q \in Processes \ {p} : summary'[q] = summary[q] /\ bytes'[q] = bytes[q]
  BY <1>1 DEF Types
<1>5. \A f \in Files : BackedFile(disk, file'[f])
  BY <1>1, Written DEF Types
<1>6. at \in Promoting => Backed(disk, summary'[p])
  BY DEF IInv, AllBacked
<1> QED BY <1>1, <1>2, <1>3, <1>4, <1>5, <1>6, IdleStep

LEMMA TrackTerms ==
  ASSUME IInv, NEW p \in Processes
  PROVE  /\ \A n \in Files : file = [file EXCEPT ![n] = file[n]]
         /\ bytes = [bytes EXCEPT ![p] = bytes[p]] /\ valid = [valid EXCEPT ![p] = valid[p]]
         /\ valid[p] \in Contents(RankedManifests) /\ track[p] \in Tracks /\ track[p] \in Files
         /\ summary[p] \in RankedSummaries
         /\ {"candidate", "canonical", "archive", "temporary"} \subseteq Files
BY DEF IInv, Types, Files, Tracks

LEMMA ComparesStep ==
  ASSUME IInv, NEW p \in Processes, Compares(p), UNCHANGED <<run, disk>>
  PROVE  IInv'
<1>1. /\ pc[p] = "comparing" /\ pc[p] \in Promoting /\ pc[p] \notin Evaluating
      /\ pc[p] \notin Pooling /\ UNCHANGED <<file, best>>
      /\ "opening" \in Steps \ Evaluating /\ "refused" \in Final
  BY DEF Compares, Promoting, Evaluating, Pooling, Steps, Final
<1>2. CASE Ends(p, "refused")
  BY <1>1, <1>2, RefusedStep
<1>3. CASE Goes(p, "opening") /\ UNCHANGED locals
  BY <1>1, <1>3, Written, TrackTerms, TrackStep DEF locals
<1> QED BY <1>2, <1>3 DEF Compares

LEMMA TruncatesStep ==
  ASSUME IInv, NEW p \in Processes, Truncates(p), UNCHANGED <<run, disk>>
  PROVE  IInv'
<1>1. /\ pc[p] = "opening" /\ pc[p] \in Promoting /\ pc[p] \notin Evaluating
      /\ "writing" \in Steps \ Evaluating
  BY DEF Truncates, Promoting, Evaluating, Pooling, Steps
<1>2. /\ Goes(p, "writing") /\ file' = [file EXCEPT ![track[p]] = Torn]
      /\ UNCHANGED <<summary, track, bytes, valid, best>>
  BY DEF Truncates, locals
<1> QED BY <1>1, <1>2, Written, TrackTerms, TrackStep

LEMMA BetterTyped ==
  ASSUME NEW b \in [suite : Suites, rank : Nat], NEW m \in RankedManifests
  PROVE  Better(b, m) \in [suite : Suites, rank : Nat]
BY DEF Better, RankedManifests

LEMMA WritesStep ==
  ASSUME IInv, NEW p \in Processes, Writes(p), UNCHANGED <<run, disk>>
  PROVE  IInv'
<1> DEFINE m == Manifest(summary[p])
           t == track[p]
<1>1. /\ pc[p] = "writing" /\ pc[p] \in Promoting /\ pc[p] \notin Pooling /\ "done" \in Final
  BY DEF Writes, Promoting, Pooling, Final
<1>2. /\ file' = [file EXCEPT ![t] = Whole(m)] \/ file' = [file EXCEPT ![t] = Torn]
      /\ best' = [best EXCEPT ![t] = Better(best[t], m)] /\ Ends(p, "done")
  BY DEF Writes
<1>3. /\ Types /\ t \in Tracks /\ t \in Files /\ m \in RankedManifests
      /\ Backed(disk, summary[p])
  BY <1>1, TrackTerms, ManifestTyped DEF IInv, AllBacked
<1>4. PICK x \in {Whole(m), Torn} : file' = [file EXCEPT ![t] = x]
  BY <1>2
<1>5. x \in Contents(RankedManifests) /\ BackedFile(disk, x)
  BY <1>3, <1>4, Written
<1>6. /\ file' \in [Files -> Contents(RankedManifests)]
      /\ \A f \in Files : BackedFile(disk, file'[f])
  <2> HIDE DEF t
  <2> QED BY <1>3, <1>4, <1>5, Written DEF Types
<1>7. best' \in [Tracks -> [suite : Suites, rank : Nat]]
  <2>1. Better(best[t], m) \in [suite : Suites, rank : Nat]
    BY <1>3, BetterTyped DEF Types
  <2> HIDE DEF t
  <2> QED BY <1>2, <1>3, <2>1 DEF Types
<1> QED BY <1>1, <1>2, <1>6, <1>7, EndsStep

LEMMA ValidatesStep ==
  ASSUME IInv, NEW p \in Processes, Validates(p), UNCHANGED <<run, disk>>
  PROVE  IInv'
<1>1. /\ pc[p] = "ready" /\ pc[p] \notin Evaluating /\ pc[p] \notin Pooling
      /\ UNCHANGED <<file, best>> /\ "refused" \in Final
      /\ "archiving" \in Steps \ Evaluating /\ "archiving" \notin Promoting
  BY DEF Validates, Begins, Evaluating, Pooling, Final, Steps, Promoting, Activating
<1>2. CASE Ends(p, "refused")
  BY <1>1, <1>2, RefusedStep
<1>3. CASE Goes(p, "archiving") /\ valid' = [valid EXCEPT ![p] = file["candidate"]]
           /\ UNCHANGED <<summary, track, bytes>>
  BY <1>1, <1>3, Written, TrackTerms, TrackStep
<1> QED BY <1>2, <1>3 DEF Validates

LEMMA ArchivesStep ==
  ASSUME IInv, NEW p \in Processes, Archives(p), UNCHANGED <<run, disk>>
  PROVE  IInv'
<1>1. /\ pc[p] = "archiving" /\ pc[p] \notin Evaluating /\ pc[p] \notin Pooling
      /\ UNCHANGED <<file, best>> /\ "refused" \in Final
      /\ "copying" \in Steps \ Evaluating /\ "copying" \notin Promoting
      /\ "opening_archive" \in Steps \ Evaluating /\ "opening_archive" \notin Promoting
  BY DEF Archives, Evaluating, Pooling, Final, Steps, Promoting, Activating
<1>2. CASE Ends(p, "refused")
  BY <1>1, <1>2, RefusedStep
<1>3. CASE Goes(p, "copying") /\ UNCHANGED locals
  BY <1>1, <1>3, Written, TrackTerms, TrackStep DEF locals
<1>4. CASE Goes(p, "opening_archive") /\ bytes' = [bytes EXCEPT ![p] = file["canonical"]]
           /\ UNCHANGED <<summary, track, valid>>
  BY <1>1, <1>4, Written, TrackTerms, TrackStep
<1> QED BY <1>2, <1>3, <1>4 DEF Archives

LEMMA OpensArchiveStep ==
  ASSUME IInv, NEW p \in Processes, OpensArchive(p), UNCHANGED <<run, disk>>
  PROVE  IInv'
<1>1. /\ pc[p] = "opening_archive" /\ pc[p] \notin Evaluating
      /\ "writing_archive" \in Steps \ Evaluating /\ "writing_archive" \notin Promoting
      /\ Goes(p, "writing_archive") /\ file' = [file EXCEPT !["archive"] = Torn]
      /\ UNCHANGED <<summary, track, bytes, valid, best>>
  BY DEF OpensArchive, locals, Evaluating, Pooling, Steps, Promoting, Activating
<1> QED BY <1>1, Written, TrackTerms, TrackStep

LEMMA WritesArchiveStep ==
  ASSUME IInv, NEW p \in Processes, WritesArchive(p), UNCHANGED <<run, disk>>
  PROVE  IInv'
<1>1. /\ pc[p] = "writing_archive" /\ pc[p] \notin Evaluating
      /\ "copying" \in Steps \ Evaluating /\ "copying" \notin Promoting
      /\ Goes(p, "copying") /\ file' = [file EXCEPT !["archive"] = bytes[p]]
      /\ UNCHANGED <<summary, track, bytes, valid, best>>
  BY DEF WritesArchive, locals, Evaluating, Pooling, Steps, Promoting, Activating
<1> QED BY <1>1, Written, TrackTerms, TrackStep

LEMMA CopiesStep ==
  ASSUME IInv, NEW p \in Processes, Copies(p), UNCHANGED <<run, disk>>
  PROVE  IInv'
<1>1. /\ pc[p] = "copying" /\ pc[p] \notin Evaluating
      /\ "writing_temporary" \in Steps \ Evaluating /\ "writing_temporary" \notin Promoting
      /\ Goes(p, "writing_temporary") /\ file' = [file EXCEPT !["temporary"] = Torn]
      /\ bytes' = [bytes EXCEPT ![p] = file["candidate"]]
      /\ UNCHANGED <<summary, track, valid, best>>
  BY DEF Copies, Evaluating, Pooling, Steps, Promoting, Activating
<1> QED BY <1>1, Written, TrackTerms, TrackStep

LEMMA WritesTemporaryStep ==
  ASSUME IInv, NEW p \in Processes, WritesTemporary(p), UNCHANGED <<run, disk>>
  PROVE  IInv'
<1>1. /\ pc[p] = "writing_temporary" /\ pc[p] \notin Evaluating
      /\ "replacing" \in Steps \ Evaluating /\ "replacing" \notin Promoting
      /\ Goes(p, "replacing") /\ file' = [file EXCEPT !["temporary"] = bytes[p]]
      /\ UNCHANGED <<summary, track, bytes, valid, best>>
  BY DEF WritesTemporary, locals, Evaluating, Pooling, Steps, Promoting, Activating
<1> QED BY <1>1, Written, TrackTerms, TrackStep

LEMMA ReplacesStep ==
  ASSUME IInv, NEW p \in Processes, Replaces(p), UNCHANGED <<run, disk>>
  PROVE  IInv'
<1>1. pc[p] = "replacing" /\ pc[p] \notin Pooling /\ "done" \in Final /\ "refused" \in Final
  BY DEF Replaces, Pooling, Final
<1> DEFINE t == file["temporary"]
<1>2. CASE ~t.exists
  BY <1>1, <1>2, RefusedStep DEF Replaces
<1>3. CASE t.exists
  <2>1. /\ file' = [file EXCEPT !["canonical"] = t, !["temporary"] = Absent]
        /\ best' = [best EXCEPT !["canonical"] = IF t.whole THEN Better(NoBest, t.of) ELSE @]
        /\ Ends(p, "done")
    BY <1>3 DEF Replaces
  <2>2. /\ Types /\ t \in Contents(RankedManifests) /\ BackedFile(disk, t)
        /\ Absent \in Contents(RankedManifests) /\ BackedFile(disk, Absent)
    BY Written, TrackTerms DEF IInv
  <2>3. /\ file' \in [Files -> Contents(RankedManifests)]
        /\ \A f \in Files : BackedFile(disk, file'[f])
    <3> HIDE DEF t
    <3> QED BY <2>1, <2>2, Written DEF Types
  <2>4. best' \in [Tracks -> [suite : Suites, rank : Nat]]
    <3>1. NoBest \in [suite : Suites, rank : Nat] /\ "canonical" \in Tracks
      BY TrackAssumption DEF NoBest, Tracks
    <3>2. t.whole => Better(NoBest, t.of) \in [suite : Suites, rank : Nat]
      BY <2>2, <3>1, ContentsAre, BetterTyped
    <3> HIDE DEF t
    <3> QED BY <2>1, <2>2, <3>1, <3>2 DEF Types
  <2> QED BY <1>1, <2>1, <2>3, <2>4, EndsStep
<1> QED BY <1>2, <1>3

LEMMA InitIInv == EvaluationInit => IInv
<1> SUFFICES ASSUME EvaluationInit PROVE IInv
  OBVIOUS
<1>1. PICK c \in {Absent} \union
                 {Whole(m) : m \in {o \in Manifests : o.suite = Expected /\ o.spec = "older"}} :
        file = [f \in Files |-> IF f = "canonical" THEN c ELSE Absent]
  BY DEF EvaluationInit, Init
<1>2. c \in Contents(RankedManifests) /\ Absent \in Contents(RankedManifests)
  <2>1. Manifests \subseteq RankedManifests
    BY TrackAssumption DEF Manifests, RankedManifests, Ranks
  <2> QED BY <2>1 DEF Contents
<1>3. c.whole => c.of.spec # RANK_SPEC_VERSION
  <2>1. CASE c = Absent
    BY <2>1 DEF Absent
  <2>2. CASE \E m \in Manifests : m.spec = "older" /\ c = Whole(m)
    BY <2>2 DEF Whole, RANK_SPEC_VERSION
  <2> QED BY <2>1, <2>2
<1>4. /\ pc = [p \in Processes |-> "ready"] /\ run = [p \in Processes |-> NoRun]
      /\ disk = [d \in Outputs |-> NoOutput]
      /\ bytes = [p \in Processes |-> Absent] /\ valid = [p \in Processes |-> Absent]
      /\ summary = [p \in Processes |-> NoSummary] /\ track = [p \in Processes |-> "candidate"]
      /\ best = [t \in Tracks |-> NoBest]
  BY DEF EvaluationInit, Init
<1>5. NoOutput \in Directories /\ ~NoOutput.summary.whole
  <2>1. Absent \in Contents(FullSummaries) /\ ~Absent.whole
    BY DEF Contents, Absent
  <2>2. [x \in Cases |-> Nil] \in [Cases -> Outcomes]
    BY OutcomesDiffer
  <2> QED BY <2>1, <2>2 DEF NoOutput, Directories
<1>6. Types
  <2>1. "ready" \in Steps /\ "candidate" \in Tracks /\ NoBest \in [suite : Suites, rank : Nat]
    BY TrackAssumption DEF Steps, Tracks, NoBest
  <2>2. file \in [Files -> Contents(RankedManifests)]
    BY <1>1, <1>2
  <2>3. /\ pc \in [Processes -> Steps] /\ run \in [Processes -> Runs]
        /\ disk \in [Outputs -> Directories]
        /\ bytes \in [Processes -> Contents(RankedManifests)]
        /\ valid \in [Processes -> Contents(RankedManifests)]
        /\ summary \in [Processes -> RankedSummaries] /\ track \in [Processes -> Tracks]
        /\ best \in [Tracks -> [suite : Suites, rank : Nat]]
    BY <1>2, <1>4, <1>5, <2>1, NoRunTyped, NoSummaryTyped
  <2> QED BY <2>2, <2>3 DEF Types
<1>7. /\ "ready" \notin Evaluating /\ "ready" \notin Pooling /\ "ready" \notin Promoting
      /\ "ready" # "evaluated"
  BY DEF Evaluating, Pooling, Promoting
<1>8. OwnOutputs
  BY <1>4, <1>7 DEF OwnOutputs
<1>9. \A p \in Processes : OfRun(p)
  BY <1>4, <1>7, NoRunTyped, IdleEngaged DEF OfRun
<1>10. \A d \in Outputs : InFull(disk[d])
  BY <1>4, <1>5 DEF InFull
<1>11. AllBacked
  <2>1. \A f \in Files : BackedFile(disk, file[f])
    <3> TAKE f \in Files
    <3>1. CASE f = "canonical"
      BY <1>1, <1>3, <3>1 DEF BackedFile
    <3>2. CASE f # "canonical"
      BY <1>1, <3>2, BackedMissing DEF Absent
    <3> QED BY <3>1, <3>2
  <2>2. \A p \in Processes : BackedFile(disk, bytes[p])
    <3>1. ~Absent.whole
      BY DEF Absent
    <3> QED BY <1>4, <3>1, BackedMissing
  <2> QED BY <1>4, <1>7, <2>1, <2>2 DEF AllBacked
<1> QED BY <1>6, <1>8, <1>9, <1>10, <1>11 DEF IInv

LEMMA NextIInv == IInv /\ [EvaluationNext]_allvars => IInv'
<1>1. ASSUME IInv, NEW p \in Processes, Evaluates(p) PROVE IInv'
  BY <1>1, SubmitsStep, CaseStartsStep, CaseEndsStep, YieldsStep, LeavesStep, GathersStep,
     WritesSummaryStep, JudgesStep, PromotesDiagnosticStep DEF Evaluates
<1>2. ASSUME IInv, NEW p \in Processes, Promotes(p), UNCHANGED <<run, disk>> PROVE IInv'
  BY <1>2, ComparesStep, TruncatesStep, WritesStep DEF Promotes
<1>3. ASSUME IInv, NEW p \in Processes, Activates(p), UNCHANGED <<run, disk>> PROVE IInv'
  BY <1>3, ValidatesStep, ArchivesStep, OpensArchiveStep, WritesArchiveStep, CopiesStep,
     WritesTemporaryStep, ReplacesStep DEF Activates
<1>4. ASSUME IInv, UNCHANGED allvars PROVE IInv'
  BY <1>4 DEF allvars, vars, locals, IInv, Types, OwnOutputs, OfRun, AllBacked, FullSummary
<1> QED BY <1>1, <1>2, <1>3, <1>4, KilledStep DEF EvaluationNext

LEMMA SpecIInv == EvaluationSpec => []IInv
BY InitIInv, NextIInv, PTL DEF EvaluationSpec

\* Type correctness: whatever the suites, cases and threads.
THEOREM TypeSound == EvaluationSpec => []Types
<1>1. IInv => Types
  BY DEF IInv
<1> QED BY <1>1, SpecIInv, PTL

\* A summary on disk has, in its suite's order, what each game came to, whatever the
\* order they ended in and whoever was killed; and every manifest of this program is
\* that of such a summary.
THEOREM FullSound == EvaluationSpec => []EvaluatedInFull
<1>1. IInv => EvaluatedInFull
  <2> SUFFICES ASSUME IInv PROVE EvaluatedInFull
    OBVIOUS
  <2>1. \A d \in Outputs : disk[d].summary.whole => Agrees(disk[d].summary.of, disk[d].played)
    BY DEF IInv, InFull
  <2>2. \A t \in Tracks : BackedFile(disk, file[t])
    BY DEF IInv, AllBacked, Files
  <2> QED BY <2>1, <2>2 DEF EvaluatedInFull, Agrees, BackedFile
<1> QED BY <1>1, SpecIInv, PTL

\* An evaluation that has returned, raised or been killed has no case left in its pool.
THEOREM CasesEndFirst == EvaluationSpec => []NoCaseOutlivesEvaluation
<1>1. IInv => NoCaseOutlivesEvaluation
  BY RunIdle DEF NoCaseOutlivesEvaluation, Pooling
<1> QED BY <1>1, SpecIInv, PTL
-------------------------------------------------------------------------------
(* One command at a time: every step of one leaves the others where they are. *)

LEMMA Busy ==
  /\ Idle \intersect Evaluating = {} /\ Idle \intersect Promoting = {}
  /\ Idle \intersect Activating = {}
  /\ Evaluating \intersect ({"opening", "writing"} \union Activating) = {}
BY DEF Idle, Final, Evaluating, Pooling, Promoting, Activating

LEMMA AloneStep ==
  ASSUME AloneInv, NEW p \in Processes, \A q \in Processes \ {p} : pc'[q] = pc[q],
         pc[p] \notin Idle \/ \A q \in Processes : pc[q] \in Idle,
         \A t \in Tracks : OnTrack(t)', Passed(p)', Activation(p)'
  PROVE  AloneInv'
<1>1. \A q \in Processes \ {p} : pc'[q] \in Idle
  BY DEF AloneInv, Alone
<1>2. Alone'
  BY <1>1 DEF Alone
<1>3. ASSUME NEW q \in Processes, q # p PROVE Passed(q)' /\ Activation(q)'
  <2>1. pc'[q] \notin Activating /\ pc'[q] \notin Promoting
    BY <1>1, <1>3, Busy
  <2> QED BY <2>1 DEF Passed, Activation, Activating, Promoting
<1> QED BY <1>2, <1>3 DEF AloneInv

LEMMA QuietStep ==
  ASSUME AloneInv, NEW p \in Processes, \A q \in Processes \ {p} : pc'[q] = pc[q],
         pc[p] \notin Idle \/ \A q \in Processes : pc[q] \in Idle,
         UNCHANGED <<file, best>>, pc'[p] \notin {"opening", "writing"} \union Activating
  PROVE  AloneInv'
<1>1. \A t \in Tracks : OnTrack(t)'
  BY DEF AloneInv, OnTrack
<1>2. Passed(p)' /\ Activation(p)'
  BY DEF Passed, Activation, Activating
<1> QED BY <1>1, <1>2, AloneStep

LEMMA EndsQuietly ==
  ASSUME AloneInv, IInv, NEW p \in Processes, NEW how \in Final, Ends(p, how),
         pc[p] \notin Idle \/ \A q \in Processes : pc[q] \in Idle,
         \A t \in Tracks : OnTrack(t)'
  PROVE  AloneInv'
<1>1. pc'[p] = how /\ \A q \in Processes \ {p} : pc'[q] = pc[q]
  BY EndsTyped DEF IInv
<1>2. pc'[p] \notin {"opening", "writing"} \union Activating
  BY <1>1 DEF Final, Activating
<1>3. Passed(p)' /\ Activation(p)'
  BY <1>2 DEF Passed, Activation, Activating
<1> QED BY <1>1, <1>3, AloneStep

\* A command that begins does so alone.
LEMMA BeginsAlone ==
  ASSUME ~Overlap, NEW p \in Processes, Begins(p)
  PROVE  \A q \in Processes : pc[q] \in Idle
BY TrackAssumption DEF Begins, Idle

LEMMA EvaluatesAlone ==
  ASSUME ~Overlap, AloneInv, IInv, NEW p \in Processes, Evaluates(p)
  PROVE  AloneInv' /\ UNCHANGED <<file, best>> /\ \A q \in Processes \ {p} : pc'[q] = pc[q]
<1>1. UNCHANGED <<file, best>>
  BY DEF Evaluates, Submits, CaseStarts, CaseEnds, Pooled, Yields, Leaves, Gathers,
         WritesSummary, Judges, PromotesDiagnostic, vars
<1>2. \E at \in Final \union Evaluating \union {"comparing"} :
        pc'[p] = at /\ \A q \in Processes \ {p} : pc'[q] = pc[q]
  <2>1. pc \in [Processes -> Steps] /\ Types
    BY DEF IInv, Types
  <2>2. \A next : Goes(p, next) => pc'[p] = next /\ \A q \in Processes \ {p} : pc'[q] = pc[q]
    BY <2>1 DEF Goes
  <2>3. \A how : Ends(p, how) => Goes(p, how)
    BY DEF Ends
  <2>4. {"refused", "done", "comparing", "evaluating", "draining", "writing_summary", "evaluated"}
        \subseteq Final \union Evaluating \union {"comparing"}
    BY DEF Final, Evaluating, Pooling
  <2>5. CASE CaseStarts(p) \/ CaseEnds(p)
    BY <2>4, <2>5 DEF CaseStarts, CaseEnds, Pooled, vars
  <2>6. CASE Submits(p)
    BY <2>2, <2>3, <2>4, <2>6 DEF Submits
  <2>7. CASE Yields(p)
    BY <2>2, <2>4, <2>7 DEF Yields
  <2>8. CASE Leaves(p) \/ Gathers(p) \/ WritesSummary(p)
    BY <2>2, <2>3, <2>4, <2>8 DEF Leaves, Gathers, WritesSummary
  <2>9. CASE Judges(p)
    BY <2>2, <2>3, <2>4, <2>9 DEF Judges
  <2>10. CASE PromotesDiagnostic(p)
    BY <2>2, <2>3, <2>4, <2>10 DEF PromotesDiagnostic
  <2> QED BY <2>5, <2>6, <2>7, <2>8, <2>9, <2>10 DEF Evaluates
<1>3. pc[p] \notin Idle \/ \A q \in Processes : pc[q] \in Idle
  <2>1. CASE Begins(p)
    BY <2>1, BeginsAlone
  <2>2. CASE pc[p] \in Evaluating
    BY <2>2, Busy
  <2> QED BY <2>1, <2>2 DEF Evaluates, Submits, CaseStarts, CaseEnds, Pooled, Yields, Leaves,
             Gathers, WritesSummary, Judges, PromotesDiagnostic, Evaluating, Pooling
<1>4. pc'[p] \notin {"opening", "writing"} \union Activating
  BY <1>2, Busy DEF Final, Activating
<1> QED BY <1>1, <1>2, <1>3, <1>4, QuietStep

LEMMA OnTrackKept ==
  ASSUME AloneInv, \A t \in Tracks : file'[t] = file[t] /\ best'[t] = best[t]
  PROVE  \A t \in Tracks : OnTrack(t)'
BY DEF AloneInv, OnTrack

LEMMA GoesAlone ==
  ASSUME IInv, NEW p \in Processes, NEW at, Goes(p, at)
  PROVE  pc'[p] = at /\ \A q \in Processes \ {p} : pc'[q] = pc[q]
BY DEF IInv, Types, Goes

LEMMA ComparesAlone ==
  ASSUME AloneInv, IInv, NEW p \in Processes, Compares(p)
  PROVE  AloneInv'
<1>1. /\ pc[p] = "comparing" /\ pc[p] \notin Idle /\ UNCHANGED <<file, best>>
      /\ "refused" \in Final
  BY DEF Compares, Idle, Final
<1>2. \A t \in Tracks : OnTrack(t)'
  BY <1>1, OnTrackKept
<1>3. CASE Ends(p, "refused")
  BY <1>1, <1>2, <1>3, EndsQuietly
<1>4. CASE ~Ends(p, "refused")
  <2> DEFINE t == track[p]
             f == file[t]
             s == summary[p]
  <2>1. /\ ~f.exists \/ (f.whole /\ Outranks(s, f.of))
        /\ Goes(p, "opening") /\ UNCHANGED locals
    BY <1>4 DEF Compares
  <2>2. /\ t \in Tracks /\ OnTrack(t) /\ s \in RankedSummaries
        /\ f \in Contents(RankedManifests) /\ best[t] \in [suite : Suites, rank : Nat]
    BY TrackTerms, Written DEF AloneInv, IInv, Types
  <2>3. best[t].rank = 0 \/ (s.suite = best[t].suite /\ s.rank >= best[t].rank)
    <3>1. CASE ~f.exists
      BY <2>2, <3>1 DEF OnTrack
    <3>2. CASE f.whole /\ Outranks(s, f.of)
      <4>1. /\ f.of \in RankedManifests /\ s.rank \in Nat /\ f.of.rank \in Nat
            /\ best[t].rank \in Nat
        <5> HIDE DEF f, t, s
        <5>1. f.of \in RankedManifests
          BY <2>2, <3>2, ContentsAre
        <5> QED BY <2>2, <5>1 DEF RankedManifests, RankedSummaries
      <4> HIDE DEF t, s
      <4> QED BY <2>2, <3>2, <4>1 DEF OnTrack, Outranks
    <3> QED BY <2>1, <3>1, <3>2
  <2>4. pc'[p] = "opening" /\ \A q \in Processes \ {p} : pc'[q] = pc[q]
    BY <2>1, GoesAlone
  <2>5. Passed(p)' /\ Activation(p)'
    BY <1>1, <2>1, <2>3, <2>4 DEF Passed, Activation, Activating, locals
  <2> QED BY <1>1, <1>2, <2>4, <2>5, AloneStep
<1> QED BY <1>3, <1>4

LEMMA TruncatesAlone ==
  ASSUME AloneInv, IInv, NEW p \in Processes, Truncates(p)
  PROVE  AloneInv'
<1>1. /\ pc[p] = "opening" /\ pc[p] \notin Idle /\ Goes(p, "writing")
      /\ file' = [file EXCEPT ![track[p]] = Torn] /\ UNCHANGED <<summary, track, best>>
  BY DEF Truncates, locals, Idle, Final
<1>2. pc'[p] = "writing" /\ \A q \in Processes \ {p} : pc'[q] = pc[q]
  BY <1>1, GoesAlone
<1>3. \A t \in Tracks : OnTrack(t)'
  <2> TAKE t \in Tracks
  <2>1. file'[t] = file[t] \/ file'[t] = Torn
    BY <1>1 DEF IInv, Types, Files
  <2>2. ~Torn.whole /\ Torn.exists
    BY DEF Torn
  <2> QED BY <1>1, <2>1, <2>2 DEF AloneInv, OnTrack
<1>4. Passed(p)' /\ Activation(p)'
  BY <1>1, <1>2 DEF AloneInv, Passed, Activation, Activating
<1> QED BY <1>1, <1>2, <1>3, <1>4, AloneStep

LEMMA WritesAlone ==
  ASSUME AloneInv, IInv, NEW p \in Processes, Writes(p)
  PROVE  AloneInv'
<1> DEFINE t == track[p]
           s == summary[p]
           m == Manifest(s)
<1>1. /\ pc[p] = "writing" /\ pc[p] \notin Idle /\ "done" \in Final
      /\ file' = [file EXCEPT ![t] = Whole(m)] \/ file' = [file EXCEPT ![t] = Torn]
      /\ best' = [best EXCEPT ![t] = Better(best[t], m)] /\ Ends(p, "done")
  BY DEF Writes, Idle, Final
<1>2. /\ t \in Tracks /\ t \in Files /\ s \in RankedSummaries /\ Types
      /\ best[t] \in [suite : Suites, rank : Nat] /\ best[t].rank \in Nat
  <2>1. t \in Tracks /\ t \in Files /\ s \in RankedSummaries /\ Types
    BY TrackTerms DEF IInv
  <2> QED BY <2>1 DEF Types
<1>3. m.suite = s.suite /\ m.rank = s.rank /\ m.spec = RANK_SPEC_VERSION /\ s.rank \in Nat
  BY <1>2, ManifestTyped DEF RankedSummaries
<1>4. best[t].rank = 0 \/ (s.suite = best[t].suite /\ s.rank >= best[t].rank)
  BY <1>1 DEF AloneInv, Passed
<1>5. LET b == Better(best[t], m) IN m.suite = b.suite /\ m.rank >= b.rank
  <2> HIDE DEF t, s, m
  <2> QED BY <1>2, <1>3, <1>4 DEF Better
<1>6. ASSUME NEW u \in Tracks PROVE OnTrack(u)'
  <2>1. CASE u = t
    <3>1. best'[u] = Better(best[t], m) /\ (file'[u] = Whole(m) \/ file'[u] = Torn)
      <4> HIDE DEF m, t
      <4> QED BY <1>1, <1>2, <2>1 DEF Types
    <3>2. ~Torn.whole /\ Torn.exists /\ Whole(m).exists /\ Whole(m).of = m
      BY DEF Torn, Whole
    <3> HIDE DEF m, t, s
    <3>3. CASE file'[u] = Torn
      BY <3>2, <3>3 DEF OnTrack
    <3>4. CASE file'[u] = Whole(m)
      <4>1. file'[u].exists /\ file'[u].of = m
        BY <3>2, <3>4
      <4> QED BY <1>3, <1>5, <3>1, <4>1 DEF OnTrack
    <3> QED BY <3>1, <3>3, <3>4
  <2>2. CASE u # t
    <3>1. best'[u] = best[u] /\ file'[u] = file[u]
      <4> HIDE DEF m, t
      <4> QED BY <1>1, <1>2, <2>2 DEF Types, Files
    <3> QED BY <3>1 DEF AloneInv, OnTrack
  <2> QED BY <2>1, <2>2
<1> QED BY <1>1, <1>6, EndsQuietly

LEMMA ValidatesAlone ==
  ASSUME ~Overlap, AloneInv, IInv, NEW p \in Processes, Validates(p)
  PROVE  AloneInv'
<1>1. /\ \A q \in Processes : pc[q] \in Idle
      /\ UNCHANGED <<file, best>> /\ "refused" \in Final
  BY BeginsAlone DEF Validates, Final
<1>2. \A t \in Tracks : OnTrack(t)'
  BY <1>1, OnTrackKept
<1>3. CASE Ends(p, "refused")
  BY <1>1, <1>2, <1>3, EndsQuietly
<1>4. CASE ~Ends(p, "refused")
  <2>1. /\ file["candidate"].whole /\ file["candidate"].of.spec = RANK_SPEC_VERSION
        /\ Goes(p, "archiving") /\ valid' = [valid EXCEPT ![p] = file["candidate"]]
    BY <1>4 DEF Validates
  <2>2. pc'[p] = "archiving" /\ \A q \in Processes \ {p} : pc'[q] = pc[q]
    BY <2>1, GoesAlone
  <2>3. valid'[p] = file["candidate"]
    BY <2>1 DEF IInv, Types
  <2>4. Passed(p)' /\ Activation(p)'
    BY <1>1, <2>1, <2>2, <2>3 DEF Passed, Activation, Current
  <2> QED BY <1>1, <1>2, <2>2, <2>4, AloneStep
<1> QED BY <1>3, <1>4

\* A step of an activation that leaves the tracks alone.
LEMMA ActivationStep ==
  ASSUME AloneInv, IInv, NEW p \in Processes, pc[p] \in Activating, NEW at, Goes(p, at),
         UNCHANGED <<valid, best>>, \A t \in Tracks : file'[t] = file[t],
         at \in {"opening_archive", "writing_archive"} => bytes'[p] = file["canonical"],
         at \in {"copying", "writing_temporary", "replacing"} =>
           (file["canonical"].exists => file'["archive"] = file["canonical"]),
         at = "writing_temporary" => bytes'[p] = valid[p],
         at = "replacing" => file'["temporary"] = valid[p],
         at \in Activating
  PROVE  AloneInv'
<1>1. pc'[p] = at /\ \A q \in Processes \ {p} : pc'[q] = pc[q]
  BY GoesAlone
<1>2. \A t \in Tracks : OnTrack(t)'
  BY OnTrackKept
<1>3. pc[p] \notin Idle
  BY Busy
<1>4. /\ valid[p].whole /\ Current(valid[p]) /\ valid[p] = file["candidate"]
      /\ file'["candidate"] = file["candidate"] /\ file'["canonical"] = file["canonical"]
  BY DEF AloneInv, Activation, Tracks
<1>5. Passed(p)'
  BY <1>1 DEF Passed, Activating
<1>6. Activation(p)'
  BY <1>1, <1>4 DEF Activation, Archived, Current
<1> QED BY <1>1, <1>2, <1>3, <1>5, <1>6, AloneStep

LEMMA ArchivesAlone ==
  ASSUME AloneInv, IInv, NEW p \in Processes, Archives(p)
  PROVE  AloneInv'
<1>1. /\ pc[p] = "archiving" /\ pc[p] \in Activating /\ pc[p] \notin Idle
      /\ UNCHANGED <<file, best>> /\ "refused" \in Final
      /\ "copying" \in Activating /\ "opening_archive" \in Activating
  BY DEF Archives, Activating, Idle, Final
<1>2. \A t \in Tracks : OnTrack(t)'
  BY <1>1, OnTrackKept
<1>3. CASE Ends(p, "refused")
  BY <1>1, <1>2, <1>3, EndsQuietly
<1>4. CASE ~file["canonical"].exists /\ Goes(p, "copying") /\ UNCHANGED locals
  BY <1>1, <1>4, ActivationStep DEF locals
<1>5. CASE Goes(p, "opening_archive") /\ bytes' = [bytes EXCEPT ![p] = file["canonical"]]
           /\ UNCHANGED <<summary, track, valid>>
  <2>1. bytes'[p] = file["canonical"]
    BY <1>5 DEF IInv, Types
  <2> QED BY <1>1, <1>5, <2>1, ActivationStep
<1> QED BY <1>3, <1>4, <1>5 DEF Archives

\* The other steps before the replacement.
LEMMA CarriesAlone ==
  ASSUME AloneInv, IInv, NEW p \in Processes,
         OpensArchive(p) \/ WritesArchive(p) \/ Copies(p) \/ WritesTemporary(p)
  PROVE  AloneInv'
<1>1. /\ {"writing_archive", "copying", "writing_temporary", "replacing"} \subseteq Activating
      /\ {"opening_archive", "writing_archive", "copying", "writing_temporary"} \subseteq Activating
      /\ "archive" \in Files \ Tracks /\ "temporary" \in Files \ Tracks /\ Tracks \subseteq Files
      /\ "archive" # "temporary" /\ "candidate" \in Tracks /\ "canonical" \in Tracks
  BY DEF Activating, Files, Tracks
<1>2. /\ file \in [Files -> Contents(RankedManifests)]
      /\ bytes \in [Processes -> Contents(RankedManifests)]
  BY DEF IInv, Types
<1>3. Activation(p)
  BY DEF AloneInv
<1>4. CASE OpensArchive(p)
  <2>1. /\ pc[p] = "opening_archive" /\ Goes(p, "writing_archive")
        /\ file' = [file EXCEPT !["archive"] = Torn] /\ UNCHANGED <<bytes, valid, best>>
    BY <1>4 DEF OpensArchive, locals
  <2>2. \A t \in Tracks : file'[t] = file[t]
    BY <1>1, <1>2, <2>1
  <2>3. bytes[p] = file["canonical"]
    BY <1>3, <2>1 DEF Activation
  <2> QED BY <1>1, <2>1, <2>2, <2>3, ActivationStep
<1>5. CASE WritesArchive(p)
  <2>1. /\ pc[p] = "writing_archive" /\ Goes(p, "copying")
        /\ file' = [file EXCEPT !["archive"] = bytes[p]] /\ UNCHANGED <<bytes, valid, best>>
    BY <1>5 DEF WritesArchive, locals
  <2>2. \A t \in Tracks : file'[t] = file[t]
    BY <1>1, <1>2, <2>1
  <2>3. bytes[p] = file["canonical"] /\ file'["archive"] = bytes[p]
    BY <1>1, <1>2, <1>3, <2>1 DEF Activation
  <2> QED BY <1>1, <2>1, <2>2, <2>3, ActivationStep
<1>6. CASE Copies(p)
  <2>1. /\ pc[p] = "copying" /\ Goes(p, "writing_temporary")
        /\ file' = [file EXCEPT !["temporary"] = Torn] /\ UNCHANGED <<valid, best>>
        /\ bytes' = [bytes EXCEPT ![p] = file["candidate"]]
    BY <1>6 DEF Copies
  <2>2. /\ \A t \in Tracks : file'[t] = file[t]
        /\ file'["archive"] = file["archive"] /\ bytes'[p] = file["candidate"]
    BY <1>1, <1>2, <2>1
  <2>3. Archived /\ valid[p] = file["candidate"]
    BY <1>1, <1>3, <2>1 DEF Activation
  <2> QED BY <1>1, <2>1, <2>2, <2>3, ActivationStep DEF Archived
<1>7. CASE WritesTemporary(p)
  <2>1. /\ pc[p] = "writing_temporary" /\ Goes(p, "replacing")
        /\ file' = [file EXCEPT !["temporary"] = bytes[p]] /\ UNCHANGED <<bytes, valid, best>>
    BY <1>7 DEF WritesTemporary, locals
  <2>2. /\ \A t \in Tracks : file'[t] = file[t]
        /\ file'["archive"] = file["archive"] /\ file'["temporary"] = bytes[p]
    BY <1>1, <1>2, <2>1
  <2>3. Archived /\ bytes[p] = valid[p]
    BY <1>1, <1>3, <2>1 DEF Activation
  <2> QED BY <1>1, <2>1, <2>2, <2>3, ActivationStep DEF Archived
<1> QED BY <1>4, <1>5, <1>6, <1>7

LEMMA ReplacesAlone ==
  ASSUME AloneInv, IInv, NEW p \in Processes, Replaces(p)
  PROVE  AloneInv'
<1>1. /\ pc[p] = "replacing" /\ pc[p] \in Activating /\ pc[p] \notin Idle
      /\ "done" \in Final /\ "refused" \in Final
  BY DEF Replaces, Activating, Idle, Final
<1>2. /\ file["temporary"] = valid[p] /\ valid[p].whole
      /\ valid[p].of.spec = RANK_SPEC_VERSION
  BY <1>1 DEF AloneInv, Activation, Current
<1> DEFINE t == file["temporary"]
<1>3. t \in Contents(RankedManifests) /\ t.exists /\ t.of \in RankedManifests
  BY <1>2, TrackTerms, Written, ContentsAre
<1>4. /\ file' = [file EXCEPT !["canonical"] = t, !["temporary"] = Absent]
      /\ best' = [best EXCEPT !["canonical"] = Better(NoBest, t.of)] /\ Ends(p, "done")
  BY <1>2, <1>3 DEF Replaces
<1>5. /\ Better(NoBest, t.of).suite = t.of.suite /\ Better(NoBest, t.of).rank = t.of.rank
      /\ t.of.rank \in Nat
  BY <1>3 DEF Better, NoBest, RankedManifests
<1>6. ASSUME NEW u \in Tracks PROVE OnTrack(u)'
  <2>1. /\ "canonical" \in Files /\ u \in Files /\ u # "temporary"
        /\ file \in [Files -> Contents(RankedManifests)] /\ DOMAIN best = Tracks
    BY DEF IInv, Types, Files, Tracks
  <2>2. CASE u = "canonical"
    <3>1. file'[u] = t /\ best'[u] = Better(NoBest, t.of)
      <4> HIDE DEF t
      <4> QED BY <1>4, <2>1, <2>2
    <3> HIDE DEF t
    <3>2. t.of.spec = RANK_SPEC_VERSION
      BY <1>2 DEF t
    <3> QED BY <1>3, <1>5, <3>1, <3>2 DEF OnTrack
  <2>3. CASE u # "canonical"
    <3>1. file'[u] = file[u] /\ best'[u] = best[u]
      <4> HIDE DEF t
      <4> QED BY <1>4, <2>1, <2>3
    <3> QED BY <3>1 DEF AloneInv, OnTrack
  <2> QED BY <2>2, <2>3
<1> QED BY <1>1, <1>4, <1>6, EndsQuietly

LEMMA InitAlone == EvaluationInit => AloneInv
<1> SUFFICES ASSUME EvaluationInit PROVE AloneInv
  OBVIOUS
<1>1. /\ pc = [p \in Processes |-> "ready"] /\ best = [t \in Tracks |-> NoBest]
  BY DEF EvaluationInit, Init
<1>2. PICK c \in {Absent} \union
                 {Whole(m) : m \in {o \in Manifests : o.suite = Expected /\ o.spec = "older"}} :
        file = [f \in Files |-> IF f = "canonical" THEN c ELSE Absent]
  BY DEF EvaluationInit, Init
<1>3. c.whole => c.of.spec # RANK_SPEC_VERSION
  <2>1. CASE c = Absent
    BY <2>1 DEF Absent
  <2>2. CASE \E m \in Manifests : m.spec = "older" /\ c = Whole(m)
    BY <2>2 DEF Whole, RANK_SPEC_VERSION
  <2> QED BY <2>1, <2>2
<1>4. ASSUME NEW t \in Tracks PROVE OnTrack(t)
  <2>1. best[t].rank = 0 /\ file[t] = IF t = "canonical" THEN c ELSE Absent
    BY <1>1, <1>2 DEF NoBest, Files
  <2>2. ~Absent.whole
    BY DEF Absent
  <2> QED BY <1>3, <2>1, <2>2 DEF OnTrack
<1>5. \A p \in Processes : pc[p] \in Idle
  BY <1>1 DEF Idle
<1> QED BY <1>1, <1>4, <1>5, Busy DEF AloneInv, Alone, Passed, Activation, Activating

LEMMA NextAlone ==
  ASSUME ~Overlap
  PROVE  IInv /\ AloneInv /\ [EvaluationNext]_allvars => AloneInv'
<1>1. ASSUME IInv, AloneInv, NEW p \in Processes, Evaluates(p) PROVE AloneInv'
  BY <1>1, EvaluatesAlone
<1>2. ASSUME IInv, AloneInv, NEW p \in Processes, Promotes(p) \/ Activates(p) PROVE AloneInv'
  BY <1>2, ComparesAlone, TruncatesAlone, WritesAlone, ValidatesAlone, ArchivesAlone,
     CarriesAlone, ReplacesAlone DEF Promotes, Activates
<1>3. ASSUME IInv, AloneInv, NEW p \in Processes, Killed(p) PROVE AloneInv'
  <2>1. /\ pc[p] \notin Idle /\ UNCHANGED <<file, best>> /\ Ends(p, "killed")
        /\ "killed" \in Final
    BY <1>3 DEF Killed, Idle, Final
  <2>2. \A t \in Tracks : OnTrack(t)'
    BY <1>3, <2>1, OnTrackKept
  <2> QED BY <1>3, <2>1, <2>2, EndsQuietly
<1>4. ASSUME AloneInv, UNCHANGED allvars PROVE AloneInv'
  BY <1>4 DEF allvars, vars, locals, AloneInv, Alone, OnTrack, Passed, Activation, Archived
<1> QED BY <1>1, <1>2, <1>3, <1>4 DEF EvaluationNext

LEMMA SpecAlone ==
  ASSUME ~Overlap
  PROVE  EvaluationSpec => []AloneInv
BY InitAlone, NextAlone, SpecIInv, PTL DEF EvaluationSpec

\* Among commands that do not overlap, killed anywhere, the manifest of a track is of
\* the suite, and at least of the rank, of the best that was ever promoted to it.
THEOREM MonotonicSound ==
  ASSUME ~Overlap
  PROVE  EvaluationSpec => []TrackMonotonic
<1>1. AloneInv => TrackMonotonic
  BY DEF AloneInv, OnTrack, TrackMonotonic
<1> QED BY <1>1, SpecAlone, PTL

LEMMA CanonicalStep ==
  ASSUME IInv, AloneInv, NEW p \in Processes, Promotes(p) \/ Activates(p),
         pc[p] \notin {"opening", "writing"}
  PROVE  \/ file'["canonical"] = file["canonical"]
         \/ /\ pc[p] = "replacing" /\ file'["canonical"] = valid[p]
            /\ file["canonical"].exists => file["archive"] = file["canonical"]
<1>1. file \in [Files -> Contents(RankedManifests)] /\ "canonical" \in Files
  BY DEF IInv, Types, Files, Tracks
<1>2. CASE Replaces(p)
  <2>1. pc[p] = "replacing" /\ Archived /\ file["temporary"] = valid[p]
    BY <1>2 DEF Replaces, AloneInv, Activation
  <2>2. \/ file' = [file EXCEPT !["canonical"] = file["temporary"], !["temporary"] = Absent]
        \/ file' = file
    BY <1>2 DEF Replaces
  <2> QED BY <1>1, <2>1, <2>2 DEF Archived
<1>3. CASE OpensArchive(p) \/ WritesArchive(p) \/ Copies(p) \/ WritesTemporary(p)
  BY <1>1, <1>3 DEF OpensArchive, WritesArchive, Copies, WritesTemporary
<1>4. CASE Compares(p) \/ Validates(p) \/ Archives(p)
  BY <1>4 DEF Compares, Validates, Archives
<1>5. ~Truncates(p) /\ ~Writes(p)
  BY DEF Truncates, Writes
<1> QED BY <1>2, <1>3, <1>4, <1>5 DEF Promotes, Activates

\* Among commands that do not overlap, a step of an activation leaves the canonical
\* manifest or replaces it by the one it validated, and only once it is archived.
THEOREM ActivationSound ==
  ASSUME ~Overlap
  PROVE  EvaluationSpec => ActivationIsAtomic
<1> DEFINE Atomic ==
      \A p \in Processes :
        pc[p] \notin {"opening", "writing"} /\ pc'[p] # pc[p]
          => \/ file'["canonical"] = file["canonical"]
             \/ /\ pc[p] = "replacing" /\ file'["canonical"] = valid[p]
                /\ file["canonical"].exists => file["archive"] = file["canonical"]
<1>1. ASSUME IInv, AloneInv, [EvaluationNext]_allvars PROVE [Atomic]_vars
  <2>1. ASSUME NEW p \in Processes, Evaluates(p) PROVE Atomic
    BY <1>1, <2>1, EvaluatesAlone
  <2>2. ASSUME NEW p \in Processes, Promotes(p) \/ Activates(p) PROVE Atomic
    <3>1. \A q \in Processes \ {p} : pc'[q] = pc[q]
      <4>1. \A next : Goes(p, next) => \A q \in Processes \ {p} : pc'[q] = pc[q]
        BY <1>1, GoesAlone
      <4>2. \E next : Goes(p, next)
        BY <2>2 DEF Promotes, Activates, Compares, Truncates, Writes, Validates, Archives,
                    OpensArchive, WritesArchive, Copies, WritesTemporary, Replaces, Ends
      <4> QED BY <4>1, <4>2
    <3> QED BY <1>1, <2>2, <3>1, CanonicalStep
  <2>3. ASSUME NEW p \in Processes, Killed(p) PROVE Atomic
    BY <2>3 DEF Killed
  <2>4. ASSUME UNCHANGED allvars PROVE UNCHANGED vars
    BY <2>4 DEF allvars
  <2> QED BY <1>1, <2>1, <2>2, <2>3, <2>4 DEF EvaluationNext
<1>2. ActivationIsAtomic <=> [][Atomic]_vars
  BY DEF ActivationIsAtomic
<1> HIDE DEF Atomic
<1> QED BY <1>1, <1>2, SpecIInv, SpecAlone, PTL DEF EvaluationSpec
===============================================================================
