----------------------------- MODULE RolloutTrace -----------------------------
(* _trace: the first update of a worker, read back from its recorded episodes. *)
(* A recording is the sequence of the worker's episode files,                  *)
(*   [attempts |-> how many starts have left a directory of the episode,       *)
(*    initial |-> the observation of the header,                               *)
(*    records |-> <<[update, step, action, observation, terminated, truncated, *)
(*                   outcome, reward], ...>>]                                  *)
(* where update stands for the provenance: the update and the digest of its    *)
(* collector checkpoint.                                                       *)
EXTENDS SequencesExt, Integers

NotTrailing == [episode |-> 0]
Reset(file, number) == [episode |-> number, observation |-> file.initial]

\* Faulty variant: a time limit is not an end.
EndedByGame(s) == s.terminated
Ended(s) == s.terminated \/ s.truncated

\* The records of the first update, up to the first record of another.
NextUpdate(records) == SelectInSeq(records, LAMBDA r : r.update > 1)
StartsSecond(records) == NextUpdate(records) # 0
OfFirst(records) ==
  IF StartsSecond(records) THEN SubSeq(records, 1, NextUpdate(records) - 1) ELSE records

\* What is before a record is reconstructed from what came earlier in the file.
Sample(file, number, i) ==
  LET r == file.records[i] IN
  [episode |-> number, step |-> i - 1,
   before |-> IF i = 1 THEN file.initial ELSE file.records[i - 1].observation,
   after |-> r.observation, action |-> r.action, reward |-> r.reward,
   terminated |-> r.terminated, truncated |-> r.truncated, outcome |-> r.outcome]

\* "Invalid transition ordering or transition after terminal", a record of no
\* update, an update that goes on after the required steps, a second update before
\* them, and an episode that stops without ending before them.
Malformed(file, had, steps) ==
  LET records == OfFirst(file.records)
      total == had + Len(records) IN
  \/ \E i \in DOMAIN records : records[i].update # 1 \/ records[i].step # i - 1
  \/ \E i \in 1..Len(records) - 1 : Ended(records[i])
  \/ total > steps
  \/ StartsSecond(file.records) /\ total # steps
  \/ total < steps /\ (records = <<>> \/ ~Ended(Last(records)))

\* One file.  After the required steps a continuing run has one more reset, which
\* no action of the first update follows.
ReadFile(acc, file, number, steps, continuing) ==
  IF acc.refused \/ acc.finished THEN acc
  ELSE IF Len(acc.samples) = steps THEN
    IF ~continuing THEN [acc EXCEPT !.finished = TRUE]
    ELSE IF \/ ~Ended(Last(acc.samples))
            \/ file.records # <<>> /\ Head(file.records).update <= 1
      THEN [acc EXCEPT !.refused = TRUE]
      ELSE [acc EXCEPT !.trailing = Reset(file, number), !.finished = TRUE]
  ELSE IF Malformed(file, Len(acc.samples), steps) THEN [acc EXCEPT !.refused = TRUE]
  ELSE [acc EXCEPT
          !.resets = Append(@, Reset(file, number)),
          !.samples = @ \o [i \in 1..Len(OfFirst(file.records)) |-> Sample(file, number, i)],
          !.finished = StartsSecond(file.records)]

NothingRead == [samples |-> <<>>, resets |-> <<>>, trailing |-> NotTrailing,
                finished |-> FALSE, refused |-> FALSE]

\* The files, one after another.
Read(files, steps, continuing) ==
  LET read[n \in 0..Len(files)] ==
        IF n = 0 THEN NothingRead ELSE ReadFile(read[n - 1], files[n], n, steps, continuing)
  IN read[Len(files)]

\* _episodes: an episode that was started more than once.
Retried(files) == \E i \in DOMAIN files : files[i].attempts # 1

\* _trace: "a continuing terminal boundary lacks its bootstrap reset" when the steps
\* are complete and no reset follows an end.
Trace(files, steps, continuing) ==
  LET read == Read(files, steps, continuing)
      short == Len(read.samples) # steps IN
  IF Retried(files) \/ read.refused \/ short
       \/ (continuing /\ Ended(Last(read.samples)) /\ read.trailing = NotTrailing)
    THEN [read EXCEPT !.refused = TRUE] ELSE read
===============================================================================
