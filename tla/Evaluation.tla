------------------------------- MODULE Evaluation -------------------------------
(* The commands that lead to a champion: an evaluation plays every case of a  *)
(* suite on a pool of threads and writes its summary, then compares it with a *)
(* floor and with a track; a diagnostic promotion does the last step later,   *)
(* from the summary on disk.  ChampionTrack has the files of the tracks.      *)
EXTENDS ChampionTrack, SequencesExt

CONSTANTS workers,   \* threads of a pool
          Outputs,   \* output directories
          CasesOf,   \* the case IDs of every suite; load_suite does not compare them
          Results,   \* what a game may come to: its contribution to the rank
          Floors,    \* regression thresholds, each of the suite Expected
          Config,    \* the configuration files: a suite, or the name of another
          Raised,    \* what the future of a case that raised holds
          Nil

ASSUME EvaluationAssumption ==
  /\ workers \in Nat \ {0}
  /\ Results \subseteq Nat /\ Floors \subseteq Nat
  /\ DOMAIN CasesOf = Suites
  /\ \A s \in Suites : CasesOf[s] \in Seq(Range(CasesOf[s])) \ {<<>>}
  /\ DOMAIN Config \intersect Suites = {}
  /\ Raised \notin Results /\ Nil \notin Results \union {Raised}

Cases == UNION {Range(CasesOf[s]) : s \in Suites}

VARIABLES run,   \* what an evaluation holds
          disk   \* the output directories

allvars == <<vars, run, disk>>

\* future_indices, the executor's queue and threads, the futures' results,
\* as_completed's progress and episode_by_index.
NoRun == [output |-> Nil, suite |-> Nil, policy |-> Nil, queue |-> <<>>, running |-> {},
          futures |-> <<>>, yielded |-> {}, episodes |-> <<>>]

\* The directories of cases, and as history what the game of each came to.
NoOutput == [made |-> FALSE, dirs |-> {}, played |-> [c \in Cases |-> Nil], summary |-> Absent]

Set(p, r) == run' = [run EXCEPT ![p] = r]
-------------------------------------------------------------------------------
(* load_suite.                                                                *)

\* _load_redirected_json: a redirect to a file seen before raises.
Resolved(name) ==
  LET seen[n \in Nat] ==
        IF n = 0 THEN name
        ELSE IF seen[n - 1] \in DOMAIN Config THEN Config[seen[n - 1]] ELSE seen[n - 1] IN
  IF seen[Cardinality(DOMAIN Config)] \in Suites THEN seen[Cardinality(DOMAIN Config)] ELSE Nil
-------------------------------------------------------------------------------
(* evaluate_policy.                                                           *)

\* The output directory must be new.
Submits(p) ==
  /\ Begins(p)
  /\ \E name \in DOMAIN Config, policy \in Policies, d \in Outputs :
       LET suite == Resolved(name) IN
       IF suite = Nil \/ disk[d].made
         THEN Ends(p, "refused") /\ UNCHANGED <<run, disk>>
         ELSE /\ Goes(p, "evaluating")
              /\ disk' = [disk EXCEPT ![d].made = TRUE]
              /\ Set(p, [NoRun EXCEPT !.output = d, !.suite = suite, !.policy = policy,
                                      !.queue = [i \in 1..Len(CasesOf[suite]) |-> i],
                                      !.futures = [i \in 1..Len(CasesOf[suite]) |-> Nil],
                                      !.episodes = [i \in 1..Len(CasesOf[suite]) |-> Nil]])
              /\ UNCHANGED locals
  /\ UNCHANGED <<file, best>>

Pooled(p) == pc[p] \in {"evaluating", "draining"} /\ UNCHANGED <<vars>>

\* A thread takes the next case; a directory that is there raises.
CaseStarts(p) ==
  LET r == run[p]
      i == Head(r.queue)
      case == CasesOf[r.suite][i] IN
  /\ Pooled(p)
  /\ r.queue # <<>> /\ Cardinality(r.running) < workers
  /\ IF case \in disk[r.output].dirs
       THEN Set(p, [r EXCEPT !.queue = Tail(@), !.futures[i] = Raised]) /\ UNCHANGED disk
       ELSE /\ Set(p, [r EXCEPT !.queue = Tail(@), !.running = @ \union {i}])
            /\ disk' = [disk EXCEPT ![r.output].dirs = @ \union {case}]

\* EvaluationCase: a game comes to a result, or the case raises.
CaseEnds(p) ==
  LET r == run[p] IN
  /\ Pooled(p)
  /\ \E i \in r.running, result \in Results \union {Raised} :
       /\ Set(p, [r EXCEPT !.running = @ \ {i}, !.futures[i] = result])
       /\ disk' = [disk EXCEPT ![r.output].played[CasesOf[r.suite][i]] = result]

\* Faulty variant: results are kept in the order they come in.
YieldsInOrder(p) ==
  LET r == run[p] IN
  /\ pc[p] = "evaluating"
  /\ \E i \in 1..Len(r.futures) :
       /\ i \notin r.yielded /\ r.futures[i] # Nil
       /\ IF r.futures[i] = Raised
            THEN Goes(p, "draining") /\ UNCHANGED run
            ELSE /\ Set(p, [r EXCEPT !.yielded = @ \union {i},
                                     !.episodes[Cardinality(r.yielded) + 1] = r.futures[i]])
                 /\ UNCHANGED pc
  /\ UNCHANGED <<file, locals, best, disk>>

\* as_completed yields in any order; the first result that raises, or a progress
\* report that does, leaves the loop.
Yields(p) ==
  LET r == run[p] IN
  /\ pc[p] = "evaluating"
  /\ \E i \in 1..Len(r.futures) :
       /\ i \notin r.yielded /\ r.futures[i] # Nil
       /\ IF r.futures[i] = Raised
            THEN Goes(p, "draining") /\ UNCHANGED run
            ELSE /\ Set(p, [r EXCEPT !.yielded = @ \union {i}, !.episodes[i] = r.futures[i]])
                 /\ pc' = pc \/ Goes(p, "draining")
  /\ UNCHANGED <<file, locals, best, disk>>

\* Faulty variant: the pool is left without waiting for its threads.
LeavesAtOnce(p) ==
  /\ pc[p] = "draining"
  /\ Ends(p, "refused")
  /\ Set(p, [NoRun EXCEPT !.queue = run[p].queue, !.running = run[p].running])
  /\ UNCHANGED <<file, best, disk>>

\* The with statement waits for every case, those not started too.
Leaves(p) ==
  /\ pc[p] = "draining"
  /\ run[p].queue = <<>> /\ run[p].running = {}
  /\ Ends(p, "refused")
  /\ Set(p, NoRun)
  /\ UNCHANGED <<file, best, disk>>

\* EvaluationSummary.rank, and the summary promote_champion is given.
Rank(episodes) ==
  LET sum[n \in 0..Len(episodes)] == IF n = 0 THEN 0 ELSE sum[n - 1] + episodes[n] IN
  sum[Len(episodes)]
SummaryOf(full) == [suite |-> full.suite, policy |-> full.policy, rank |-> Rank(full.episodes)]
FullSummary(p) ==
  [suite |-> run[p].suite, policy |-> run[p].policy, episodes |-> run[p].episodes]

Gathers(p) ==
  /\ pc[p] = "evaluating" /\ run[p].yielded = DOMAIN run[p].futures
  /\ Goes(p, "writing_summary")
  /\ disk' = [disk EXCEPT ![run[p].output].summary = Torn]
  /\ UNCHANGED <<file, locals, best, run>>

WritesSummary(p) ==
  /\ pc[p] = "writing_summary"
  /\ disk' = [disk EXCEPT ![run[p].output].summary = Whole(FullSummary(p))]
  /\ Goes(p, "evaluated")
  /\ UNCHANGED <<file, locals, best, run>>

\* cli._evaluate: a floor, when one is given, and a track, when one is.
Meets(s, floor) == s.suite = Expected /\ s.rank >= floor

Judges(p) ==
  LET s == SummaryOf(FullSummary(p)) IN
  /\ pc[p] = "evaluated"
  /\ \/ Ends(p, "done")
     \/ \E floor \in Floors : ~Meets(s, floor) /\ Ends(p, "refused")
     \/ \E t \in Tracks :
          /\ Goes(p, "comparing")
          /\ summary' = [summary EXCEPT ![p] = s] /\ track' = [track EXCEPT ![p] = t]
          /\ UNCHANGED <<bytes, valid>>
  /\ run' = [run EXCEPT ![p] = NoRun]
  /\ UNCHANGED <<file, best, disk>>
-------------------------------------------------------------------------------
(* promote_diagnostic.                                                        *)

\* The summary lists the cases of the current suite ...
Complete(full) ==
  full.suite = Resolved("diagnostic") /\ Len(full.episodes) = Len(CasesOf[full.suite])

\* ... and their replay files exist, unless somebody has removed them.
PromotesDiagnostic(p) ==
  /\ Begins(p)
  /\ \/ Ends(p, "refused")
     \/ \E d \in Outputs :
          /\ disk[d].summary.whole /\ Complete(disk[d].summary.of)
          /\ Goes(p, "comparing")
          /\ summary' = [summary EXCEPT ![p] = SummaryOf(disk[d].summary.of)]
          /\ track' = [track EXCEPT ![p] = "candidate"]
          /\ UNCHANGED <<bytes, valid>>
  /\ UNCHANGED <<file, best, run, disk>>
-------------------------------------------------------------------------------
EvaluationInit ==
  /\ Init
  /\ run = [p \in Processes |-> NoRun]
  /\ disk = [d \in Outputs |-> NoOutput]

Evaluates(p) ==
  \/ Submits(p) \/ CaseStarts(p) \/ CaseEnds(p) \/ Yields(p) \/ Leaves(p)
  \/ Gathers(p) \/ WritesSummary(p) \/ Judges(p) \/ PromotesDiagnostic(p)

EvaluationNext ==
  \E p \in Processes :
    \/ Evaluates(p)
    \/ (Promotes(p) \/ Activates(p)) /\ UNCHANGED <<run, disk>>
    \/ Killed(p) /\ Set(p, NoRun) /\ UNCHANGED disk

EvaluationSpec == EvaluationInit /\ [][EvaluationNext]_allvars
-------------------------------------------------------------------------------
(* Properties.                                                                *)

\* "Deterministic result ordering follows manifest order rather than completion
\* order": a summary on disk has, in the order of its suite, what the game of every
\* case came to; and every manifest of this program is that of such a summary.
EvaluatedInFull ==
  /\ \A d \in Outputs :
       disk[d].summary.whole =>
         LET full == disk[d].summary.of IN
         full.episodes = [i \in DOMAIN CasesOf[full.suite] |->
                            disk[d].played[CasesOf[full.suite][i]]]
  /\ \A t \in Tracks :
       file[t].whole /\ file[t].of.spec = RANK_SPEC_VERSION =>
         \E d \in Outputs :
           disk[d].summary.whole /\ Manifest(SummaryOf(disk[d].summary.of)) = file[t].of

\* When an evaluation has returned or raised, none of its games runs or will start:
\* the other cases are waited for when one fails.
NoCaseOutlivesEvaluation ==
  \A p \in Processes :
    pc[p] \notin {"evaluating", "draining"} => run[p].queue = <<>> /\ run[p].running = {}
===============================================================================
