----------------------------- MODULE ChampionTrack -----------------------------
(* The manifests of a champion track: promote_champion compares an evaluation *)
(* with the manifest of a track and writes it in place, activate_champion_track *)
(* archives the canonical manifest and replaces it by the candidate's.  A     *)
(* process may be killed between any two file operations.                     *)
EXTENDS Integers

CONSTANTS Processes,  \* each runs one command
          Suites, Policies,
          MaxRank,    \* bound: ranks, lexicographic tuples in the code, are 1..MaxRank
          Expected,   \* the suite of the activations
          Overlap     \* commands run at the same time

ASSUME TrackAssumption ==
  Expected \in Suites /\ Policies # {} /\ MaxRank \in Nat \ {0} /\ Overlap \in BOOLEAN

Ranks == 1..MaxRank
Summaries == [suite : Suites, policy : Policies, rank : Ranks]
\* rank_spec_version: of this program, or of an earlier one.
RANK_SPEC_VERSION == "current"
Manifests == [suite : Suites, policy : Policies, rank : Ranks, spec : {"older", "current"}]

Manifest(s) == [suite |-> s.suite, policy |-> s.policy, rank |-> s.rank,
                spec |-> RANK_SPEC_VERSION]

\* A file is absent, torn (truncated, half written, or two writes mixed), or whole.
Absent == [whole |-> FALSE, exists |-> FALSE]
Torn == [whole |-> FALSE, exists |-> TRUE]
Whole(m) == [whole |-> TRUE, exists |-> TRUE, of |-> m]

Tracks == {"candidate", "canonical"}
Files == Tracks \union {"archive", "temporary"}

NoSummary == CHOOSE s \in Summaries : TRUE

VARIABLES file,     \* the files
          pc,       \* where each command is
          summary,  \* promote: the evaluation
          track,    \* promote: the track
          bytes,    \* activate: what it read last
          valid,    \* activate: the candidate manifest it validated
          best      \* history: the best manifest of each track since it was activated

locals == <<summary, track, bytes, valid>>
vars == <<file, pc, locals, best>>

NoBest == [suite |-> Expected, rank |-> 0]

Init ==
  /\ \E c \in {Absent} \union
            {Whole(m) : m \in {o \in Manifests : o.suite = Expected /\ o.spec = "older"}} :
       file = [f \in Files |-> IF f = "canonical" THEN c ELSE Absent]
  /\ pc = [p \in Processes |-> "ready"]
  /\ summary = [p \in Processes |-> NoSummary]
  /\ track = [p \in Processes |-> "candidate"]
  /\ bytes = [p \in Processes |-> Absent]
  /\ valid = [p \in Processes |-> Absent]
  /\ best = [t \in Tracks |-> NoBest]

Final == {"done", "refused", "killed"}
Goes(p, next) == pc' = [pc EXCEPT ![p] = next]
\* What a command held ends with it.
Ends(p, how) ==
  /\ Goes(p, how)
  /\ summary' = [summary EXCEPT ![p] = NoSummary]
  /\ track' = [track EXCEPT ![p] = "candidate"]
  /\ bytes' = [bytes EXCEPT ![p] = Absent]
  /\ valid' = [valid EXCEPT ![p] = Absent]

Begins(p) == pc[p] = "ready" /\ (Overlap \/ \A q \in Processes : pc[q] \in Final \union {"ready"})
-------------------------------------------------------------------------------
(* promote_champion.                                                          *)

\* Faulty variant: the suites are not compared.
OutranksAnySuite(s, m) ==
  \/ m.spec # RANK_SPEC_VERSION /\ m.policy = s.policy
  \/ m.spec = RANK_SPEC_VERSION /\ (s.rank > m.rank \/ (s.rank = m.rank /\ m.policy = s.policy))

\* The policy of an older manifest is replaced whatever its rank was; an equal
\* rank replaces the same policy's.
Outranks(s, m) ==
  /\ m.suite = s.suite
  /\ \/ m.spec # RANK_SPEC_VERSION /\ m.policy = s.policy
     \/ m.spec = RANK_SPEC_VERSION /\ (s.rank > m.rank \/ (s.rank = m.rank /\ m.policy = s.policy))

\* A manifest of another suite or that cannot be read raises; a better one stays.
Compares(p) ==
  /\ pc[p] = "comparing"
  /\ LET f == file[track[p]] IN
       IF ~f.exists \/ (f.whole /\ Outranks(summary[p], f.of))
         THEN Goes(p, "opening") /\ UNCHANGED locals
         ELSE Ends(p, "refused")
  /\ UNCHANGED <<file, best>>

\* _write_json: write_text truncates, then writes.
Truncates(p) ==
  /\ pc[p] = "opening"
  /\ file' = [file EXCEPT ![track[p]] = Torn]
  /\ Goes(p, "writing")
  /\ UNCHANGED <<locals, best>>

Better(b, m) == IF b.rank = 0 \/ (m.suite = b.suite /\ m.rank > b.rank)
                  THEN [suite |-> m.suite, rank |-> m.rank] ELSE b

\* A longer manifest another process wrote meanwhile leaves its tail.
Writes(p) ==
  /\ pc[p] = "writing"
  /\ LET m == Manifest(summary[p])
         t == track[p] IN
       /\ \/ file' = [file EXCEPT ![t] = Whole(m)]
          \/ file[t].whole /\ file' = [file EXCEPT ![t] = Torn]
       /\ best' = [best EXCEPT ![t] = Better(@, m)]
  /\ Ends(p, "done")
-------------------------------------------------------------------------------
(* activate_champion_track.                                                   *)

Validates(p) ==
  /\ Begins(p)
  /\ LET f == file["candidate"] IN
       IF f.whole /\ f.of.suite = Expected /\ f.of.spec = RANK_SPEC_VERSION
         THEN /\ Goes(p, "archiving")
              /\ valid' = [valid EXCEPT ![p] = f] /\ UNCHANGED <<summary, track, bytes>>
         ELSE Ends(p, "refused")
  /\ UNCHANGED <<file, best>>

\* Faulty variant: nothing is archived.
ArchivesNothing(p) ==
  /\ pc[p] = "archiving"
  /\ Goes(p, "copying")
  /\ UNCHANGED <<file, locals, best>>

\* An existing archive is never overwritten.
Archives(p) ==
  /\ pc[p] = "archiving"
  /\ \/ ~file["canonical"].exists /\ Goes(p, "copying") /\ UNCHANGED locals
     \/ file["canonical"].exists /\ file["archive"].exists /\ Ends(p, "refused")
     \/ /\ file["canonical"].exists /\ ~file["archive"].exists
        /\ Goes(p, "opening_archive")
        /\ bytes' = [bytes EXCEPT ![p] = file["canonical"]]
        /\ UNCHANGED <<summary, track, valid>>
  /\ UNCHANGED <<file, best>>

OpensArchive(p) ==
  /\ pc[p] = "opening_archive"
  /\ file' = [file EXCEPT !["archive"] = Torn]
  /\ Goes(p, "writing_archive")
  /\ UNCHANGED <<locals, best>>

WritesArchive(p) ==
  /\ pc[p] = "writing_archive"
  /\ file' = [file EXCEPT !["archive"] = bytes[p]]
  /\ Goes(p, "copying")
  /\ UNCHANGED <<locals, best>>

\* Faulty variant: the candidate is copied over the canonical manifest in place.
CopiesInPlace(p) ==
  /\ pc[p] = "copying"
  /\ bytes' = [bytes EXCEPT ![p] = file["candidate"]]
  /\ file' = [file EXCEPT !["canonical"] = Torn, !["temporary"] = Torn]
  /\ Goes(p, "writing_temporary")
  /\ UNCHANGED <<summary, track, valid, best>>

\* The candidate is read again; opening the temporary file truncates it.
Copies(p) ==
  /\ pc[p] = "copying"
  /\ bytes' = [bytes EXCEPT ![p] = file["candidate"]]
  /\ file' = [file EXCEPT !["temporary"] = Torn]
  /\ Goes(p, "writing_temporary")
  /\ UNCHANGED <<summary, track, valid, best>>

WritesTemporary(p) ==
  /\ pc[p] = "writing_temporary"
  /\ file' = [file EXCEPT !["temporary"] = bytes[p]]
  /\ Goes(p, "replacing")
  /\ UNCHANGED <<locals, best>>

\* A temporary file another activation has moved away raises.
Replaces(p) ==
  /\ pc[p] = "replacing"
  /\ LET t == file["temporary"] IN
       IF t.exists
         THEN /\ file' = [file EXCEPT !["canonical"] = t, !["temporary"] = Absent]
              /\ best' = [best EXCEPT !["canonical"] = IF t.whole THEN Better(NoBest, t.of) ELSE @]
              /\ Ends(p, "done")
         ELSE Ends(p, "refused") /\ UNCHANGED <<file, best>>

Killed(p) ==
  /\ pc[p] \notin Final \union {"ready"}
  /\ Ends(p, "killed")
  /\ UNCHANGED <<file, best>>

Promotes(p) == Compares(p) \/ Truncates(p) \/ Writes(p)
Activates(p) ==
  \/ Validates(p) \/ Archives(p) \/ OpensArchive(p) \/ WritesArchive(p)
  \/ Copies(p) \/ WritesTemporary(p) \/ Replaces(p)
-------------------------------------------------------------------------------
(* Properties.                                                                *)

\* "Separate monotonic tracks": the manifest of a track is at least as good as any
\* that was ever promoted to it, and of the same suite.
TrackMonotonic ==
  \A t \in Tracks :
    LET f == file[t] IN
    f.whole /\ f.of.spec = RANK_SPEC_VERSION =>
      f.of.suite = best[t].suite /\ f.of.rank >= best[t].rank

\* "Atomically activate ... after strict validation": an activation turns the old
\* manifest into the one it validated, with nothing in between, also when killed,
\* and only when the archive holds the old one.
ActivationIsAtomic ==
  [][\A p \in Processes :
       pc[p] \notin {"opening", "writing"} /\ pc'[p] # pc[p]
         => \/ file'["canonical"] = file["canonical"]
            \/ /\ pc[p] = "replacing" /\ file'["canonical"] = valid[p]
               /\ file["canonical"].exists => file["archive"] = file["canonical"]]_vars
===============================================================================
