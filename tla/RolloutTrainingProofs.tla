------------------------- MODULE RolloutTrainingProofs -------------------------
(* First the inference batcher, for any set of slots and encodings and any     *)
(* batch size.  The argument is about one sequence, Held = batch \o requests:  *)
(* a worker appends to it, the inference thread moves its own boundary inside  *)
(* it, and resolving a future removes its head.                                *)
(* Then training, for any number of workers, decisions, updates and optimizer  *)
(* steps, any interleaving of the threads and any failures: the model does not *)
(* change while a rollout uses it, every recorded decision names the weights   *)
(* behind it, and training that ends has closed every worker's game.  The      *)
(* batcher's invariant carries over: whatever training does to it is one of    *)
(* its steps or a new batcher.                                                 *)
EXTENDS RolloutTraining, SequenceTheorems, TLAPS

Entry == Request \union {Sentinel}

\* PendingIffHeld for an arbitrary sequence h of entries, futures f, encodings m.
Consistent(h, f, m) ==
  /\ \A i, j \in 1..Len(h) :
       h[i] # Sentinel /\ h[j] # Sentinel /\ h[i].slot = h[j].slot => i = j
  /\ \A i \in 1..Len(h) :
       h[i] # Sentinel => f[h[i].slot] = "pending" /\ m[h[i].slot] = h[i].input
  /\ \A s \in Slots : f[s] = "pending" =>
       \E i \in 1..Len(h) : h[i] # Sentinel /\ h[i].slot = s

\* What each place in the thread's code says about its local variables.
ThreadShape ==
  /\ thread \in {"idle", "stopped"} => batch = << >>
  /\ thread \in {"gathering", "resolving", "answering", "failing", "dead"}
       => batch # << >>
  /\ draining => closed /\ thread \in {"resolving", "answering", "stopped", "dead"}
  /\ Ended => closed
  /\ thread = "answering" =>
       \A i \in 1..Len(batch) : rows[batch[i].slot] = batch[i].input

\* The inductive invariant.
IInv ==
  /\ BatcherTypeOK
  /\ NothingBehindSentinel
  /\ PendingIffHeld
  /\ ThreadShape
  /\ OwnRow
-------------------------------------------------------------------------------
(* Sequences.                                                                 *)

\* Moving the head of the queue to the end of the batch does not change what is held.
LEMMA MoveKeepsHeld ==
  ASSUME NEW S, NEW b \in Seq(S), NEW q \in Seq(S), q # << >>
  PROVE  Append(b, Head(q)) \o Tail(q) = b \o q
<1>1. Head(q) \in S /\ Tail(q) \in Seq(S)
  BY HeadTailProperties
<1>2. Append(b, Head(q)) = b \o <<Head(q)>>
  BY <1>1, AppendIsConcat
<1>3. <<Head(q)>> \in Seq(S)
  BY <1>1
<1>4. (b \o <<Head(q)>>) \o Tail(q) = b \o (<<Head(q)>> \o Tail(q))
  BY <1>1, <1>3, ConcatAssociative
<1>5. <<Head(q)>> \o Tail(q) = q
  <2>1. /\ <<Head(q)>> \o Tail(q) \in Seq(S)
        /\ Len(<<Head(q)>> \o Tail(q)) = 1 + Len(Tail(q))
        /\ \A i \in 1..(1 + Len(Tail(q))) : (<<Head(q)>> \o Tail(q))[i] =
             IF i <= 1 THEN <<Head(q)>>[i] ELSE Tail(q)[i - 1]
    <3>1. Len(<<Head(q)>>) = 1
      OBVIOUS
    <3> QED BY <1>1, <1>3, <3>1, ConcatProperties
  <2>2. /\ Len(q) \in Nat \ {0}
        /\ Len(Tail(q)) = Len(q) - 1
        /\ \A i \in 1..Len(Tail(q)) : Tail(q)[i] = q[i + 1]
    BY HeadTailProperties, EmptySeq
  <2>3. \A i \in 1..Len(q) : (<<Head(q)>> \o Tail(q))[i] = q[i]
    BY <2>1, <2>2
  <2> QED BY <2>1, <2>2, <2>3, SeqEqual
<1> QED BY <1>2, <1>4, <1>5

\* The batch's head is the head of what is held.
LEMMA TailOfHeld ==
  ASSUME NEW S, NEW b \in Seq(S), NEW q \in Seq(S), b # << >>
  PROVE  /\ b \o q # << >>
         /\ Head(b) = (b \o q)[1]
         /\ Tail(b) \o q = Tail(b \o q)
<1>1. /\ Head(b) \in S /\ Tail(b) \in Seq(S)
      /\ Len(b) \in Nat \ {0}
      /\ Len(Tail(b)) = Len(b) - 1
      /\ \A i \in 1..Len(Tail(b)) : Tail(b)[i] = b[i + 1]
  BY HeadTailProperties, EmptySeq
<1>2. /\ b \o q \in Seq(S)
      /\ Len(b \o q) = Len(b) + Len(q)
      /\ \A i \in 1..(Len(b) + Len(q)) :
           (b \o q)[i] = IF i <= Len(b) THEN b[i] ELSE q[i - Len(b)]
  BY ConcatProperties
<1>3. Len(q) \in Nat
  BY LenProperties
<1>4. b \o q # << >>
  BY <1>1, <1>2, <1>3, EmptySeq
<1>5. /\ Tail(b \o q) \in Seq(S)
      /\ Len(Tail(b \o q)) = Len(b \o q) - 1
      /\ \A i \in 1..Len(Tail(b \o q)) : Tail(b \o q)[i] = (b \o q)[i + 1]
  BY <1>2, <1>4, HeadTailProperties
<1>6. /\ Tail(b) \o q \in Seq(S)
      /\ Len(Tail(b) \o q) = Len(Tail(b)) + Len(q)
      /\ \A i \in 1..(Len(Tail(b)) + Len(q)) :
           (Tail(b) \o q)[i] =
              IF i <= Len(Tail(b)) THEN Tail(b)[i] ELSE q[i - Len(Tail(b))]
  BY <1>1, ConcatProperties
<1>7. \A i \in 1..Len(Tail(b) \o q) : (Tail(b) \o q)[i] = Tail(b \o q)[i]
  <2> SUFFICES ASSUME NEW i \in 1..Len(Tail(b) \o q)
               PROVE  (Tail(b) \o q)[i] = Tail(b \o q)[i]
    OBVIOUS
  <2>1. i \in 1..(Len(Tail(b)) + Len(q)) /\ i \in 1..Len(Tail(b \o q))
    BY <1>1, <1>2, <1>3, <1>5, <1>6
  <2>2. Tail(b \o q)[i] = (b \o q)[i + 1]
    BY <2>1, <1>5
  <2>3. CASE i <= Len(Tail(b))
    BY <2>1, <2>2, <2>3, <1>1, <1>2, <1>3, <1>6
  <2>4. CASE ~(i <= Len(Tail(b)))
    BY <2>1, <2>2, <2>4, <1>1, <1>2, <1>3, <1>6
  <2> QED BY <2>3, <2>4
<1>8. Tail(b) \o q = Tail(b \o q)
  <2>1. Len(Tail(b) \o q) = Len(Tail(b \o q))
    BY <1>1, <1>2, <1>3, <1>5, <1>6
  <2> QED BY <2>1, <1>5, <1>6, <1>7, SeqEqual
<1>9. Head(b) = (b \o q)[1]
  BY <1>1, <1>2, <1>3
<1> QED BY <1>4, <1>8, <1>9

\* Putting an entry on the queue puts it behind everything held.
LEMMA AppendToHeld ==
  ASSUME NEW S, NEW b \in Seq(S), NEW q \in Seq(S), NEW e \in S
  PROVE  b \o Append(q, e) = Append(b \o q, e)
<1>1. <<e>> \in Seq(S)
  OBVIOUS
<1>2. b \o q \in Seq(S)
  BY ConcatProperties
<1>3. Append(q, e) = q \o <<e>> /\ Append(b \o q, e) = (b \o q) \o <<e>>
  BY <1>2, AppendIsConcat
<1> QED BY <1>1, <1>3, ConcatAssociative
-------------------------------------------------------------------------------
(* What each change of the held sequence does to the futures it accounts for. *)

\* A worker that is not waiting may add its request: it is the only one it has.
LEMMA SubmitConsistent ==
  ASSUME NEW h \in Seq(Entry), NEW f \in [Slots -> FutureStates], NEW m,
         m \in [Slots -> Inputs \union {Padding}],
         Consistent(h, f, m),
         NEW s \in Slots, NEW x \in Inputs, f[s] # "pending"
  PROVE  Consistent(Append(h, [slot |-> s, input |-> x]),
                    [f EXCEPT ![s] = "pending"], [m EXCEPT ![s] = x])
<1> DEFINE r == [slot |-> s, input |-> x]
           h2 == Append(h, r)
           f2 == [f EXCEPT ![s] = "pending"]
           m2 == [m EXCEPT ![s] = x]
<1>1. r \in Entry /\ r # Sentinel /\ r.slot = s /\ r.input = x
  BY BatcherAssumption DEF Entry, Request
<1>2. /\ Len(h) \in Nat
      /\ Len(h2) = Len(h) + 1
      /\ \A i \in 1..Len(h) : h2[i] = h[i]
      /\ h2[Len(h) + 1] = r
  BY <1>1, AppendProperties, LenProperties
<1> HIDE DEF r, h2
<1>3. \A i \in 1..Len(h) : h[i] \in Entry
  BY ElementOfSeq
<1>4. \A i \in 1..Len(h) : h[i] # Sentinel => h[i].slot \in Slots /\ h[i].slot # s
  BY <1>3 DEF Consistent, Entry, Request
<1>5. \A i, j \in 1..Len(h2) :
        h2[i] # Sentinel /\ h2[j] # Sentinel /\ h2[i].slot = h2[j].slot => i = j
  <2> SUFFICES ASSUME NEW i \in 1..Len(h2), NEW j \in 1..Len(h2),
                      h2[i] # Sentinel, h2[j] # Sentinel, h2[i].slot = h2[j].slot
               PROVE  i = j
    OBVIOUS
  <2>1. /\ i \in 1..Len(h) \/ i = Len(h) + 1
        /\ j \in 1..Len(h) \/ j = Len(h) + 1
    BY <1>2
  <2> QED BY <2>1, <1>1, <1>2, <1>4 DEF Consistent
<1>6. \A i \in 1..Len(h2) :
        h2[i] # Sentinel => f2[h2[i].slot] = "pending" /\ m2[h2[i].slot] = h2[i].input
  <2> SUFFICES ASSUME NEW i \in 1..Len(h2), h2[i] # Sentinel
               PROVE  f2[h2[i].slot] = "pending" /\ m2[h2[i].slot] = h2[i].input
    OBVIOUS
  <2>1. CASE i \in 1..Len(h)
    BY <2>1, <1>2, <1>4 DEF Consistent
  <2>2. CASE i = Len(h) + 1
    BY <2>2, <1>1, <1>2
  <2> QED BY <2>1, <2>2, <1>2
<1>7. \A t \in Slots : f2[t] = "pending" =>
        \E i \in 1..Len(h2) : h2[i] # Sentinel /\ h2[i].slot = t
  <2> SUFFICES ASSUME NEW t \in Slots, f2[t] = "pending"
               PROVE  \E i \in 1..Len(h2) : h2[i] # Sentinel /\ h2[i].slot = t
    OBVIOUS
  <2>1. CASE t = s
    BY <2>1, <1>1, <1>2
  <2>2. CASE t # s
    <3>1. PICK i \in 1..Len(h) : h[i] # Sentinel /\ h[i].slot = t
      BY <2>2 DEF Consistent
    <3> QED BY <3>1, <1>2
  <2> QED BY <2>1, <2>2
<1> QED BY <1>5, <1>6, <1>7 DEF Consistent, h2, r

\* The sentinel accounts for no future.
LEMMA SentinelConsistent ==
  ASSUME NEW h \in Seq(Entry), NEW f, NEW m
  PROVE  Consistent(Append(h, Sentinel), f, m) <=> Consistent(h, f, m)
<1>1. /\ Len(h) \in Nat
      /\ Len(Append(h, Sentinel)) = Len(h) + 1
      /\ \A i \in 1..Len(h) : Append(h, Sentinel)[i] = h[i]
      /\ Append(h, Sentinel)[Len(h) + 1] = Sentinel
  BY AppendProperties, LenProperties DEF Entry
<1>2. \A i \in 1..Len(Append(h, Sentinel)) :
        Append(h, Sentinel)[i] # Sentinel => i \in 1..Len(h)
  BY <1>1
<1>3. \A i \in 1..Len(h) : i \in 1..Len(Append(h, Sentinel))
  BY <1>1
<1> QED BY <1>1, <1>2, <1>3 DEF Consistent

\* Resolving the oldest request's future removes exactly that request.
LEMMA ResolveConsistent ==
  ASSUME NEW h \in Seq(Entry), h # << >>, h[1] \in Request,
         NEW f \in [Slots -> FutureStates], NEW m,
         Consistent(h, f, m),
         NEW v, v # "pending"
  PROVE  Consistent(Tail(h), [f EXCEPT ![h[1].slot] = v], m)
<1> DEFINE s == h[1].slot
           f2 == [f EXCEPT ![s] = v]
<1>1. /\ Len(h) \in Nat \ {0}
      /\ Len(Tail(h)) = Len(h) - 1
      /\ \A i \in 1..Len(Tail(h)) : Tail(h)[i] = h[i + 1]
  BY HeadTailProperties, EmptySeq
<1>2. h[1] # Sentinel /\ s \in Slots
  BY BatcherAssumption DEF Request
<1>3. \A i \in 1..Len(Tail(h)) : i + 1 \in 1..Len(h) /\ i + 1 # 1
  BY <1>1
<1>4. \A i \in 1..Len(Tail(h)) :
        Tail(h)[i] # Sentinel => Tail(h)[i].slot \in Slots /\ Tail(h)[i].slot # s
  <2> SUFFICES ASSUME NEW i \in 1..Len(Tail(h)), Tail(h)[i] # Sentinel
               PROVE  Tail(h)[i].slot \in Slots /\ Tail(h)[i].slot # s
    OBVIOUS
  <2>1. h[i + 1] \in Request /\ Tail(h)[i] = h[i + 1]
    BY <1>1, <1>3, ElementOfSeq DEF Entry
  <2>2. h[i + 1].slot # h[1].slot
    BY <2>1, <1>1, <1>2, <1>3 DEF Consistent
  <2> QED BY <2>1, <2>2 DEF Request
<1>5. \A i, j \in 1..Len(Tail(h)) :
        Tail(h)[i] # Sentinel /\ Tail(h)[j] # Sentinel
          /\ Tail(h)[i].slot = Tail(h)[j].slot => i = j
  BY <1>1, <1>3 DEF Consistent
<1>6. \A i \in 1..Len(Tail(h)) :
        Tail(h)[i] # Sentinel =>
          f2[Tail(h)[i].slot] = "pending" /\ m[Tail(h)[i].slot] = Tail(h)[i].input
  BY <1>1, <1>3, <1>4 DEF Consistent
<1>7. \A t \in Slots : f2[t] = "pending" =>
        \E i \in 1..Len(Tail(h)) : Tail(h)[i] # Sentinel /\ Tail(h)[i].slot = t
  <2> SUFFICES ASSUME NEW t \in Slots, f2[t] = "pending"
               PROVE  \E i \in 1..Len(Tail(h)) : Tail(h)[i] # Sentinel /\ Tail(h)[i].slot = t
    OBVIOUS
  <2>1. t # s /\ f[t] = "pending"
    BY <1>2
  <2>2. PICK i \in 1..Len(h) : h[i] # Sentinel /\ h[i].slot = t
    BY <2>1 DEF Consistent
  <2>3. i # 1 /\ i - 1 \in 1..Len(Tail(h)) /\ Tail(h)[i - 1] = h[i]
    BY <2>1, <2>2, <1>1
  <2> QED BY <2>2, <2>3
<1> QED BY <1>5, <1>6, <1>7 DEF Consistent
-------------------------------------------------------------------------------
(* The invariant.                                                             *)

LEMMA HeldIsSeq ==
  ASSUME BatcherTypeOK
  PROVE  /\ batch \in Seq(Entry) /\ requests \in Seq(Entry) /\ Held \in Seq(Entry)
         /\ PendingIffHeld <=> Consistent(Held, future, sent)
         /\ DOMAIN requests = 1..Len(requests)
         /\ DOMAIN batch = 1..Len(batch)
<1>1. batch \in Seq(Entry) /\ requests \in Seq(Entry)
  <2>1. Request \subseteq Entry
    BY DEF Entry
  <2> QED BY <2>1, SeqMonotonic DEF BatcherTypeOK, Entry
<1>2. Held \in Seq(Entry)
  BY <1>1, ConcatProperties DEF Held
<1>3. DOMAIN Held = 1..Len(Held)
  BY <1>2, LenProperties
<1> QED BY <1>1, <1>2, <1>3, LenProperties DEF PendingIffHeld, Consistent

\* The same facts of the next state.
LEMMA HeldIsSeqNext ==
  ASSUME BatcherTypeOK'
  PROVE  /\ requests' \in Seq(Entry)
         /\ DOMAIN requests' = 1..Len(requests')
         /\ PendingIffHeld' <=> Consistent(Held', future', sent')
<1>1. batch' \in Seq(Entry) /\ requests' \in Seq(Entry)
  <2>1. Request \subseteq Entry
    BY DEF Entry
  <2> QED BY <2>1, SeqMonotonic DEF BatcherTypeOK, Entry
<1>2. Held' \in Seq(Entry)
  BY <1>1, ConcatProperties DEF Held
<1>3. DOMAIN Held' = 1..Len(Held')
  BY <1>2, LenProperties
<1> QED BY <1>1, <1>2, <1>3, LenProperties DEF PendingIffHeld, Consistent

\* No request shares its slot with another in the batch.
LEMMA HeldSlotsUnique ==
  ASSUME BatcherTypeOK, PendingIffHeld
  PROVE  BatchSlotsUnique
<1>1. /\ Len(batch) \in Nat /\ Len(requests) \in Nat
      /\ Len(Held) = Len(batch) + Len(requests)
      /\ \A i \in 1..Len(batch) : Held[i] = batch[i] /\ batch[i] \in Request
      /\ DOMAIN batch = 1..Len(batch) /\ DOMAIN Held = 1..Len(Held)
  BY HeldIsSeq, ConcatProperties, LenProperties, ElementOfSeq DEF Held, BatcherTypeOK
<1> SUFFICES ASSUME NEW i \in 1..Len(batch), NEW j \in 1..Len(batch),
                    batch[i].slot = batch[j].slot
             PROVE  i = j
  BY <1>1 DEF BatchSlotsUnique, UniqueSlots
<1>2. i \in DOMAIN Held /\ j \in DOMAIN Held
  BY <1>1
<1>3. Held[i] # Sentinel /\ Held[j] # Sentinel /\ Held[i].slot = Held[j].slot
  BY <1>1, BatcherAssumption
<1> QED BY <1>2, <1>3 DEF PendingIffHeld

LEMMA InitIInv == BatcherInit => IInv
<1> SUFFICES ASSUME BatcherInit PROVE IInv
  OBVIOUS
<1> USE DEF BatcherInit
<1>1. BatcherTypeOK
  <2>1. << >> \in Seq(Request) /\ << >> \in Seq(Request \union {Sentinel}) /\ Len(<< >>) = 0
    BY EmptySeq
  <2>2. Len(batch) \in 0..BatchSize
    BY <2>1, BatcherAssumption
  <2>3. NoRows \in [Slots -> Inputs \union {Padding}]
    BY DEF NoRows
  <2> QED BY <2>1, <2>2, <2>3 DEF BatcherTypeOK, FutureStates, ThreadStates
<1>2. Held = << >>
  BY EmptySeq, ConcatEmptySeq DEF Held
<1>3. PendingIffHeld
  BY <1>2 DEF PendingIffHeld
<1> QED BY <1>1, <1>3 DEF IInv, NothingBehindSentinel, ThreadShape, Ended, OwnRow

\* A worker's accepted call.
LEMMA SubmitIInv ==
  ASSUME IInv, NEW s \in Slots, NEW x \in Inputs, Submit(s, x)
  PROVE  IInv'
<1> DEFINE r == [slot |-> s, input |-> x]
<1> USE DEF Submit, threadVars, MayCall
<1>1. BatcherTypeOK /\ PendingIffHeld /\ NothingBehindSentinel /\ ThreadShape /\ OwnRow
  BY DEF IInv
<1>2. r \in Request /\ r \in Entry
  BY DEF Request, Entry
<1>3. requests' \in Seq(Entry) /\ Len(requests') = Len(requests) + 1
  BY <1>1, <1>2, HeldIsSeq, AppendProperties
<1>4. BatcherTypeOK'
  BY <1>1, <1>3 DEF BatcherTypeOK, Entry, FutureStates
<1>5. Held' = Append(Held, r)
  BY <1>1, <1>2, HeldIsSeq, AppendToHeld DEF Held
<1>6. future[s] # "pending"
  OBVIOUS
<1>7. Consistent(Held', future', sent')
  BY <1>1, <1>5, <1>6, HeldIsSeq, SubmitConsistent DEF BatcherTypeOK
<1>8. PendingIffHeld'
  BY <1>4, <1>7, HeldIsSeqNext
<1>9. NothingBehindSentinel'
  <2>1. \A i \in 1..Len(requests) : requests[i] # Sentinel
    BY <1>1, HeldIsSeq DEF NothingBehindSentinel
  <2>2. \A i \in 1..Len(requests') : requests'[i] # Sentinel
    BY <1>1, <1>2, <1>3, <2>1, HeldIsSeq, AppendProperties, BatcherAssumption
  <2> QED BY <1>1, <1>4, <2>2, HeldIsSeqNext DEF NothingBehindSentinel, ThreadShape, Ended
<1>10. ThreadShape' /\ OwnRow'
  BY <1>1 DEF ThreadShape, OwnRow, BatcherTypeOK, Ended
<1> QED BY <1>4, <1>8, <1>9, <1>10 DEF IInv

LEMMA RefuseIInv ==
  ASSUME IInv, NEW s \in Slots, Refuse(s)
  PROVE  IInv'
<1> USE DEF Refuse, threadVars, MayCall
<1>1. BatcherTypeOK /\ PendingIffHeld /\ NothingBehindSentinel /\ ThreadShape /\ OwnRow
  BY DEF IInv
<1>2. BatcherTypeOK'
  BY <1>1 DEF BatcherTypeOK, FutureStates
<1>3. Consistent(Held', future', sent')
  <2>1. Held' = Held /\ Consistent(Held, future, sent)
    BY <1>1, HeldIsSeq DEF Held
  <2>2. \A i \in 1..Len(Held) : Held[i] # Sentinel => Held[i].slot # s
    BY <2>1 DEF Consistent
  <2> QED BY <1>1, <2>1, <2>2 DEF Consistent, BatcherTypeOK
<1>4. PendingIffHeld'
  BY <1>2, <1>3, HeldIsSeqNext
<1>5. NothingBehindSentinel' /\ ThreadShape' /\ OwnRow'
  BY <1>1 DEF NothingBehindSentinel, ThreadShape, OwnRow, BatcherTypeOK, Ended
<1> QED BY <1>2, <1>4, <1>5 DEF IInv

\* close() puts the sentinel behind everything accepted.
LEMMA CloseIInv ==
  ASSUME IInv, Close
  PROVE  IInv'
<1> USE DEF Close, threadVars, clientVars
<1>1. BatcherTypeOK /\ PendingIffHeld /\ NothingBehindSentinel /\ ThreadShape /\ OwnRow
  BY DEF IInv
<1>2. Sentinel \in Entry
  BY DEF Entry
<1>3. requests' \in Seq(Entry) /\ Len(requests') = Len(requests) + 1
  BY <1>1, <1>2, HeldIsSeq, AppendProperties
<1>4. BatcherTypeOK'
  BY <1>1, <1>3 DEF BatcherTypeOK, Entry
<1>5. Held' = Append(Held, Sentinel)
  BY <1>1, <1>2, HeldIsSeq, AppendToHeld DEF Held
<1>6. Consistent(Held', future', sent')
  BY <1>1, <1>5, HeldIsSeq, SentinelConsistent
<1>7. PendingIffHeld'
  BY <1>4, <1>6, HeldIsSeqNext
<1>8. NothingBehindSentinel'
  <2>1. \A i \in 1..Len(requests) : requests[i] # Sentinel
    BY <1>1, HeldIsSeq DEF NothingBehindSentinel
  <2>2. \A i \in 1..Len(requests') : requests'[i] = Sentinel => i = Len(requests')
    BY <1>1, <1>2, <1>3, <2>1, HeldIsSeq, AppendProperties, LenProperties
  <2> QED BY <1>1, <1>4, <2>2, HeldIsSeqNext DEF NothingBehindSentinel, ThreadShape, Ended
<1>9. ThreadShape' /\ OwnRow'
  BY <1>1 DEF ThreadShape, OwnRow, Ended
<1> QED BY <1>4, <1>7, <1>8, <1>9 DEF IInv

\* A sentinel that is last in the queue is last in the queue's tail.
LEMMA SentinelStaysLast ==
  ASSUME NEW q \in Seq(Entry), q # << >>,
         NEW c \in BOOLEAN,
         \A i \in 1..Len(q) : q[i] = Sentinel => c /\ i = Len(q)
  PROVE  \A i \in 1..Len(Tail(q)) : Tail(q)[i] = Sentinel => c /\ i = Len(Tail(q))
<1> DEFINE t == Tail(q)
<1>1. /\ Len(q) \in Nat \ {0} /\ Len(t) \in Nat /\ Len(t) = Len(q) - 1
      /\ \A i \in 1..Len(t) : t[i] = q[i + 1]
  BY HeadTailProperties, EmptySeq
<1> HIDE DEF t
<1>2. \A i \in 1..Len(t) : t[i] = Sentinel => c /\ i = Len(t)
  BY <1>1
<1> QED BY <1>2 DEF t

\* The thread starts a batch, or finds the sentinel and stops with nothing held.
LEMMA TakeFirstIInv ==
  ASSUME IInv, TakeFirst
  PROVE  IInv'
<1> USE DEF TakeFirst, clientVars
<1>1. BatcherTypeOK /\ PendingIffHeld /\ NothingBehindSentinel /\ ThreadShape /\ OwnRow
  BY DEF IInv
<1>2. /\ Head(requests) \in Entry /\ Head(requests) = requests[1]
      /\ Len(requests) \in Nat \ {0}
      /\ requests' \in Seq(Entry) /\ Len(requests') = Len(requests) - 1
      /\ \A i \in 1..Len(requests') : requests'[i] = requests[i + 1]
  BY <1>1, HeldIsSeq, HeadTailProperties, EmptySeq
<1>3. batch = << >> /\ Held = requests
  BY <1>1, HeldIsSeq, ConcatEmptySeq DEF ThreadShape, Held
<1>4. CASE Head(requests) = Sentinel
  <2>1. closed /\ requests' = << >>
    <3>1. closed /\ Len(requests) = 1
      BY <1>1, <1>2, <1>4, HeldIsSeq DEF NothingBehindSentinel
    <3> QED BY <3>1, <1>2, EmptySeq
  <2>2. BatcherTypeOK'
    BY <1>1, <1>2, <1>4 DEF BatcherTypeOK, ThreadStates, Entry
  <2>3. Held' = << >>
    BY <1>3, <1>4, <2>1 DEF Held
  <2>4. Consistent(Held', future', sent')
    <3>1. Held = Append(Held', Sentinel)
      <4>1. Len(requests) = 1 /\ requests[1] = Sentinel
        BY <1>1, <1>2, <1>4, HeldIsSeq DEF NothingBehindSentinel
      <4>2. Append(<< >>, Sentinel) \in Seq(Entry)
            /\ Len(Append(<< >>, Sentinel)) = 1 /\ Append(<< >>, Sentinel)[1] = Sentinel
        BY AppendProperties, EmptySeq DEF Entry
      <4>3. requests = Append(<< >>, Sentinel)
        BY <1>1, <4>1, <4>2, HeldIsSeq, SeqEqual
      <4> QED BY <1>3, <2>3, <4>3
    <3>2. Held' \in Seq(Entry)
      BY <2>3, EmptySeq
    <3> QED BY <1>1, <3>1, <3>2, HeldIsSeq, SentinelConsistent
  <2>5. PendingIffHeld'
    BY <2>2, <2>4, HeldIsSeqNext
  <2>6. NothingBehindSentinel' /\ ThreadShape' /\ OwnRow'
    BY <1>1, <1>3, <1>4, <2>1 DEF NothingBehindSentinel, ThreadShape, OwnRow, Ended
  <2> QED BY <2>2, <2>5, <2>6 DEF IInv
<1>5. CASE Head(requests) # Sentinel
  <2>1. Head(requests) \in Request /\ batch' = <<Head(requests)>>
    BY <1>2, <1>5 DEF Entry
  <2>2. batch' \in Seq(Request) /\ Len(batch') \in 0..BatchSize /\ batch' # << >>
    BY <2>1, BatcherAssumption
  <2>3. BatcherTypeOK'
    BY <1>1, <1>2, <1>5, <2>2 DEF BatcherTypeOK, ThreadStates, Entry
  <2>4. Held' = Held
    <3>1. Append(<< >>, Head(requests)) \o Tail(requests) = << >> \o requests
      BY <1>1, HeldIsSeq, EmptySeq, MoveKeepsHeld
    <3>2. Append(<< >>, Head(requests)) = <<Head(requests)>>
      OBVIOUS
    <3> QED BY <1>3, <2>1, <3>1, <3>2 DEF Held
  <2>5. PendingIffHeld'
    BY <1>1, <2>3, <2>4, HeldIsSeq, HeldIsSeqNext
  <2>6. NothingBehindSentinel'
    <3>1. ~draining /\ ~Ended
      BY <1>1 DEF ThreadShape, Ended
    <3>2. \A i \in 1..Len(requests') :
            requests'[i] = Sentinel => closed /\ i = Len(requests')
      BY <1>1, HeldIsSeq, SentinelStaysLast DEF NothingBehindSentinel
    <3> QED BY <1>5, <2>3, <3>1, <3>2, HeldIsSeqNext DEF NothingBehindSentinel, Ended
  <2>7. ThreadShape' /\ OwnRow'
    BY <1>1, <1>5, <2>2 DEF ThreadShape, OwnRow, Ended
  <2> QED BY <2>3, <2>5, <2>6, <2>7 DEF IInv
<1> QED BY <1>4, <1>5

\* The thread moves one more request into the batch.
LEMMA TakeMoreIInv ==
  ASSUME IInv, TakeMore
  PROVE  IInv'
<1> USE DEF TakeMore, clientVars
<1>1. BatcherTypeOK /\ PendingIffHeld /\ NothingBehindSentinel /\ ThreadShape /\ OwnRow
  BY DEF IInv
<1>2. /\ Head(requests) \in Entry /\ Len(requests) \in Nat \ {0}
      /\ requests' \in Seq(Entry) /\ Len(requests') = Len(requests) - 1
      /\ \A i \in 1..Len(requests') : requests'[i] = requests[i + 1]
  BY <1>1, HeldIsSeq, HeadTailProperties, EmptySeq
<1>3. Head(requests) \in Request
  BY <1>2 DEF Entry
<1>4. batch' \in Seq(Request) /\ Len(batch') = Len(batch) + 1 /\ batch' # << >>
  BY <1>1, <1>3, AppendProperties DEF BatcherTypeOK
<1>5. BatcherTypeOK'
  BY <1>1, <1>2, <1>4, BatcherAssumption DEF BatcherTypeOK, Entry
<1>6. Held' = Held
  BY <1>1, HeldIsSeq, MoveKeepsHeld DEF Held
<1>7. PendingIffHeld'
  BY <1>1, <1>5, <1>6, HeldIsSeq, HeldIsSeqNext
<1>8. NothingBehindSentinel'
  <2>1. ~draining /\ ~Ended
    BY <1>1 DEF ThreadShape, Ended
  <2>2. \A i \in 1..Len(requests') :
          requests'[i] = Sentinel => closed /\ i = Len(requests')
    BY <1>1, HeldIsSeq, SentinelStaysLast DEF NothingBehindSentinel
  <2> QED BY <1>5, <2>1, <2>2, HeldIsSeqNext DEF NothingBehindSentinel, Ended
<1>9. ThreadShape' /\ OwnRow'
  BY <1>1, <1>4 DEF ThreadShape, OwnRow, Ended
<1> QED BY <1>5, <1>7, <1>8, <1>9 DEF IInv

\* The thread meets the sentinel while gathering: the batch is the last one.
LEMMA TakeSentinelIInv ==
  ASSUME IInv, TakeSentinel
  PROVE  IInv'
<1> USE DEF TakeSentinel, clientVars
<1>1. BatcherTypeOK /\ PendingIffHeld /\ NothingBehindSentinel /\ ThreadShape /\ OwnRow
  BY DEF IInv
<1>2. /\ Head(requests) = requests[1] /\ Len(requests) \in Nat \ {0}
      /\ requests' \in Seq(Entry) /\ Len(requests') = Len(requests) - 1
  BY <1>1, HeldIsSeq, HeadTailProperties, EmptySeq
<1>3. closed /\ Len(requests) = 1 /\ requests' = << >>
  <2>1. closed /\ Len(requests) = 1
    BY <1>1, <1>2, HeldIsSeq DEF NothingBehindSentinel
  <2> QED BY <2>1, <1>2, EmptySeq
<1>4. BatcherTypeOK'
  BY <1>1, <1>2 DEF BatcherTypeOK, ThreadStates, Entry
<1>5. Held' = batch /\ batch \in Seq(Entry)
  BY <1>1, <1>3, HeldIsSeq, ConcatEmptySeq DEF Held
<1>6. Held = Append(batch, Sentinel)
  <2>1. Sentinel \in Entry /\ << >> \in Seq(Entry)
    BY EmptySeq DEF Entry
  <2>2. requests = Append(<< >>, Sentinel)
    <3>1. Append(<< >>, Sentinel) \in Seq(Entry)
          /\ Len(Append(<< >>, Sentinel)) = 1 /\ Append(<< >>, Sentinel)[1] = Sentinel
      BY <2>1, AppendProperties, EmptySeq
    <3> QED BY <1>1, <1>2, <1>3, <3>1, HeldIsSeq, SeqEqual
  <2>3. batch \o Append(<< >>, Sentinel) = Append(batch \o << >>, Sentinel)
    BY <1>5, <2>1, AppendToHeld
  <2> QED BY <1>5, <2>2, <2>3, ConcatEmptySeq DEF Held
<1>7. Consistent(Held', future', sent')
  BY <1>1, <1>5, <1>6, HeldIsSeq, SentinelConsistent
<1>8. PendingIffHeld'
  BY <1>4, <1>7, HeldIsSeqNext
<1>9. NothingBehindSentinel' /\ ThreadShape' /\ OwnRow'
  BY <1>1, <1>3 DEF NothingBehindSentinel, ThreadShape, OwnRow, Ended
<1> QED BY <1>4, <1>8, <1>9 DEF IInv

LEMMA StopGatheringIInv ==
  ASSUME IInv, StopGathering
  PROVE  IInv'
<1> USE DEF StopGathering, clientVars
<1>1. BatcherTypeOK /\ PendingIffHeld /\ NothingBehindSentinel /\ ThreadShape /\ OwnRow
  BY DEF IInv
<1>2. BatcherTypeOK'
  BY <1>1 DEF BatcherTypeOK, ThreadStates
<1>3. PendingIffHeld' /\ NothingBehindSentinel' /\ ThreadShape' /\ OwnRow'
  BY <1>1 DEF PendingIffHeld, Held, NothingBehindSentinel, ThreadShape, OwnRow, Ended
<1> QED BY <1>2, <1>3 DEF IInv

\* The forward lays every request of the batch in its own row.
LEMMA ForwardIInv ==
  ASSUME IInv, Forward
  PROVE  IInv'
<1> USE DEF Forward, clientVars
<1>1. BatcherTypeOK /\ PendingIffHeld /\ NothingBehindSentinel /\ ThreadShape /\ OwnRow
  BY DEF IInv
<1>2. DOMAIN batch = 1..Len(batch) /\ \A i \in 1..Len(batch) : batch[i] \in Request
  BY <1>1, LenProperties, ElementOfSeq DEF BatcherTypeOK
<1>3. rows' \in [Slots -> Inputs \union {Padding}]
  <2>1. ASSUME NEW s \in Slots
        PROVE  Matrix(batch)[s] \in Inputs \union {Padding}
    <3>1. CASE \E i \in DOMAIN batch : batch[i].slot = s
      <4>1. (CHOOSE i \in DOMAIN batch : batch[i].slot = s) \in DOMAIN batch
        BY <3>1
      <4> QED BY <3>1, <4>1, <1>2 DEF Matrix, Request
    <3>2. CASE ~ \E i \in DOMAIN batch : batch[i].slot = s
      BY <3>2 DEF Matrix
    <3> QED BY <3>1, <3>2
  <2> QED BY <2>1 DEF Matrix
<1>4. \A i \in 1..Len(batch) : rows'[batch[i].slot] = batch[i].input
  <2> SUFFICES ASSUME NEW i \in 1..Len(batch)
               PROVE  rows'[batch[i].slot] = batch[i].input
    OBVIOUS
  <2> DEFINE j == CHOOSE j \in DOMAIN batch : batch[j].slot = batch[i].slot
  <2>1. j \in DOMAIN batch /\ batch[j].slot = batch[i].slot
    BY <1>2
  <2>2. j = i
    BY <1>2, <2>1 DEF UniqueSlots
  <2>3. batch[i].slot \in Slots
    BY <1>2 DEF Request
  <2>4. rows'[batch[i].slot] = batch[j].input
    BY <1>2, <2>1, <2>3 DEF Matrix
  <2> QED BY <2>2, <2>4
<1>5. BatcherTypeOK'
  BY <1>1, <1>3 DEF BatcherTypeOK, ThreadStates
<1>6. PendingIffHeld' /\ NothingBehindSentinel' /\ ThreadShape' /\ OwnRow'
  BY <1>1, <1>4 DEF PendingIffHeld, Held, NothingBehindSentinel, ThreadShape, OwnRow, Ended
<1> QED BY <1>5, <1>6 DEF IInv

LEMMA ForwardFailsIInv ==
  ASSUME IInv, ForwardFails
  PROVE  IInv'
<1> USE DEF ForwardFails, clientVars
<1>1. BatcherTypeOK /\ PendingIffHeld /\ NothingBehindSentinel /\ ThreadShape /\ OwnRow
  BY DEF IInv
<1>2. BatcherTypeOK'
  BY <1>1 DEF BatcherTypeOK, ThreadStates
<1>3. PendingIffHeld' /\ NothingBehindSentinel' /\ ThreadShape' /\ OwnRow'
  BY <1>1 DEF PendingIffHeld, Held, NothingBehindSentinel, ThreadShape, OwnRow, Ended
<1> QED BY <1>2, <1>3 DEF IInv

\* Resolving the batch's first future, with a result or an exception.
LEMMA ResolveIInv ==
  ASSUME IInv, SetResult \/ SetException
  PROVE  IInv'
<1> DEFINE s == Head(batch).slot
<1> USE DEF Resolved
<1>1. BatcherTypeOK /\ PendingIffHeld /\ NothingBehindSentinel /\ ThreadShape /\ OwnRow
  BY DEF IInv
<1>2. /\ thread \in {"answering", "failing"} /\ batch # << >>
      /\ requests' = requests /\ closed' = closed /\ draining' = draining /\ sent' = sent
      /\ batch' = Tail(batch)
  BY <1>1 DEF SetResult, SetException, ThreadShape
<1>3. /\ Head(batch) \in Request /\ Head(batch) = batch[1] /\ s \in Slots
      /\ Len(batch) \in Nat \ {0}
      /\ Tail(batch) \in Seq(Request) /\ Len(Tail(batch)) = Len(batch) - 1
      /\ \A i \in 1..Len(Tail(batch)) : Tail(batch)[i] = batch[i + 1]
  <2>1. batch \in Seq(Request) /\ batch # << >>
    BY <1>1, <1>2 DEF BatcherTypeOK
  <2>2. Head(batch) \in Request
    BY <2>1, HeadTailProperties
  <2>3. s \in Slots
    BY <2>2 DEF Request
  <2>4. Head(batch) = batch[1]
    OBVIOUS
  <2> QED BY <2>1, <2>2, <2>3, <2>4, HeadTailProperties, EmptySeq
<1>4. PICK v \in {"result", "error"} : future' = [future EXCEPT ![s] = v]
  BY DEF SetResult, SetException
<1>5. thread' \in ThreadStates /\ rows' \in [Slots -> Inputs \union {Padding}]
  BY <1>1 DEF SetResult, SetException, NoRows, BatcherTypeOK, ThreadStates
<1>6. got' \in [Slots -> Inputs \union {Padding}]
  BY <1>1, <1>3 DEF SetResult, SetException, BatcherTypeOK
<1>7. BatcherTypeOK'
  <2>1. Len(batch') \in 0..BatchSize /\ batch' \in Seq(Request)
    BY <1>1, <1>2, <1>3, BatcherAssumption DEF BatcherTypeOK
  <2>2. future' \in [Slots -> FutureStates]
    BY <1>1, <1>3, <1>4 DEF BatcherTypeOK, FutureStates
  <2> QED BY <1>1, <1>2, <1>5, <1>6, <2>1, <2>2 DEF BatcherTypeOK
<1>8. Held' = Tail(Held) /\ Held # << >> /\ Held[1] = Head(batch)
  BY <1>1, <1>2, HeldIsSeq, TailOfHeld DEF Held
<1>9. Consistent(Held', future', sent')
  BY <1>1, <1>2, <1>3, <1>4, <1>8, HeldIsSeq, ResolveConsistent DEF BatcherTypeOK
<1>10. PendingIffHeld'
  BY <1>7, <1>9, HeldIsSeqNext
<1>11. thread' = IF Len(batch) > 1 THEN thread ELSE IF draining THEN "stopped" ELSE "idle"
  BY DEF SetResult, SetException
<1>12. NothingBehindSentinel'
  BY <1>1, <1>2, <1>11 DEF NothingBehindSentinel, ThreadShape, Ended
<1>13. ThreadShape'
  <2>1. CASE Len(batch) > 1
    <3>1. thread' = thread /\ rows' = rows
      BY <2>1 DEF SetResult, SetException
    <3>2. batch' # << >>
      BY <1>2, <1>3, <2>1, EmptySeq
    <3>3. \A i \in 1..Len(batch') : i + 1 \in 1..Len(batch) /\ batch'[i] = batch[i + 1]
      BY <1>2, <1>3
    <3> QED BY <1>1, <1>2, <3>1, <3>2, <3>3 DEF ThreadShape, Ended
  <2>2. CASE ~(Len(batch) > 1)
    <3>1. batch' = << >>
      BY <1>2, <1>3, <2>2, EmptySeq
    <3> QED BY <1>1, <1>2, <1>11, <2>2, <3>1 DEF ThreadShape, Ended
  <2> QED BY <2>1, <2>2
<1>14. OwnRow'
  <2>1. CASE SetException
    BY <2>1, <1>1, <1>2, <1>3 DEF SetException, OwnRow, BatcherTypeOK
  <2>2. CASE SetResult
    <3>1. rows[s] = Head(batch).input
      BY <2>2, <1>1, <1>3 DEF SetResult, ThreadShape
    <3>2. sent[s] = Head(batch).input
      <4>1. 1 \in 1..Len(Held) /\ Held[1] # Sentinel
        BY <1>1, <1>3, <1>8, HeldIsSeq, EmptySeq, BatcherAssumption
      <4> QED BY <4>1, <1>1, <1>8, HeldIsSeq DEF Consistent
    <3> QED BY <2>2, <3>1, <3>2, <1>1, <1>3 DEF SetResult, OwnRow, BatcherTypeOK
  <2> QED BY <2>1, <2>2
<1> QED BY <1>7, <1>10, <1>12, <1>13, <1>14 DEF IInv
-------------------------------------------------------------------------------
(* The theorems.                                                              *)

\* Every step of the batcher preserves the invariant.
LEMMA NextIInv ==
  ASSUME IInv, [BatcherNext]_batcherVars
  PROVE  IInv'
<1>1. CASE \E s \in Slots, x \in Inputs : Submit(s, x)
  BY <1>1, SubmitIInv
<1>2. CASE \E s \in Slots : Refuse(s)
  BY <1>2, RefuseIInv
<1>3. CASE Close
  BY <1>3, CloseIInv
<1>4. CASE InferenceThread
  BY <1>4, TakeFirstIInv, TakeMoreIInv, TakeSentinelIInv, StopGatheringIInv,
     ForwardIInv, ForwardFailsIInv, ResolveIInv DEF InferenceThread
<1>5. CASE UNCHANGED batcherVars
  <2> USE <1>5 DEF batcherVars, clientVars, threadVars
  <2>1. BatcherTypeOK'
    BY DEF IInv, BatcherTypeOK
  <2>2. NothingBehindSentinel' /\ PendingIffHeld' /\ ThreadShape' /\ OwnRow'
    BY DEF IInv, NothingBehindSentinel, PendingIffHeld, Held, ThreadShape, OwnRow, Ended
  <2> QED BY <2>1, <2>2 DEF IInv
<1> QED BY <1>1, <1>2, <1>3, <1>4, <1>5 DEF BatcherNext

LEMMA SpecIInv == BatcherSpec => []IInv
<1> QED BY InitIInv, NextIInv, PTL DEF BatcherSpec

\* The batcher's state has its types, for any number of workers and batch size:
\* in particular _run never gathers more than inference_batch_size requests.
THEOREM TypeCorrect == BatcherSpec => []BatcherTypeOK
<1>1. IInv => BatcherTypeOK
  BY DEF IInv
<1> QED BY <1>1, SpecIInv, PTL

\* The lock around the closed check and the put keeps the sentinel of close()
\* behind every accepted request.
THEOREM SentinelLast == BatcherSpec => []NothingBehindSentinel
<1>1. IInv => NothingBehindSentinel
  BY DEF IInv
<1> QED BY <1>1, SpecIInv, PTL

\* The futures that wait are those of the requests the service holds, one each:
\* no request of infer() is lost, resolved twice or answered for another call.
THEOREM FuturesAccountedFor == BatcherSpec => []PendingIffHeld
<1>1. IInv => PendingIffHeld
  BY DEF IInv
<1> QED BY <1>1, SpecIInv, PTL

\* A thread at rest with nothing queued holds no request.
LEMMA NobodyStranded == IInv => StopStrandsNobody
<1> SUFFICES ASSUME IInv, thread = "stopped", NEW s \in Slots
             PROVE  future[s] # "pending"
  BY DEF StopStrandsNobody
<1>1. batch = << >> /\ requests = << >>
  BY DEF IInv, ThreadShape, NothingBehindSentinel, Ended
<1>2. DOMAIN Held = {}
  BY <1>1, ConcatEmptySeq, EmptySeq DEF Held
<1> QED BY <1>2 DEF IInv, PendingIffHeld

\* When _run returns in an orderly way no future is left unresolved.
THEOREM OrderlyStop == BatcherSpec => []StopStrandsNobody
<1> QED BY NobodyStranded, SpecIInv, PTL

\* Each result of _resolve comes from the row of the request it resolves.
THEOREM ResultsFromOwnRow == BatcherSpec => []OwnRow
<1>1. IInv => OwnRow
  BY DEF IInv
<1> QED BY <1>1, SpecIInv, PTL

\* _fixed_inference_inputs never sees two requests of one slot.
THEOREM NoDuplicateSlot == BatcherSpec => []BatchSlotsUnique
<1>1. IInv => BatchSlotsUnique
  BY HeldSlotsUnique DEF IInv
<1> QED BY <1>1, SpecIInv, PTL
-------------------------------------------------------------------------------
(* Refinement: the batcher is an InferenceService that is open until close(). *)

LEMMA InitRefines == BatcherInit => Service!Init
<1> QED BY DEF BatcherInit, NoRows, Service!Init

\* Setting a result is the service's answer from the caller's own encoding.
LEMMA SetResultRefines ==
  ASSUME IInv, SetResult
  PROVE  \E s \in Slots : Service!Answer(s)
<1> DEFINE s == Head(batch).slot
<1>1. thread = "answering" /\ batch # << >> /\ batch \in Seq(Request)
  BY DEF IInv, ThreadShape, SetResult, BatcherTypeOK
<1>2. Head(batch) \in Request /\ Head(batch) = batch[1] /\ 1 \in 1..Len(batch)
  BY <1>1, HeadTailProperties, EmptySeq
<1>3. rows[s] = Head(batch).input /\ s \in Slots
  BY <1>1, <1>2 DEF IInv, ThreadShape, Request
<1>4. 1 \in 1..Len(Held) /\ Held[1] = Head(batch) /\ Held[1] # Sentinel
  BY <1>1, <1>2, HeldIsSeq, TailOfHeld, EmptySeq, BatcherAssumption DEF IInv, Held
<1>5. future[s] = "pending" /\ sent[s] = Head(batch).input
  BY <1>4, HeldIsSeq DEF IInv, Consistent
<1>6. Service!Answer(s)
  BY <1>3, <1>5 DEF SetResult, Service!Answer
<1> QED BY <1>3, <1>6

LEMMA SetExceptionRefines ==
  ASSUME IInv, SetException
  PROVE  \E s \in Slots : Service!Fail(s)
<1> DEFINE s == Head(batch).slot
<1>1. thread = "failing" /\ batch # << >> /\ batch \in Seq(Request)
  BY DEF IInv, ThreadShape, SetException, BatcherTypeOK
<1>2. Head(batch) \in Request /\ Head(batch) = batch[1]
  BY <1>1, HeadTailProperties, EmptySeq
<1>3. s \in Slots
  BY <1>2 DEF Request
<1>4. 1 \in 1..Len(Held) /\ Held[1] = Head(batch) /\ Held[1] # Sentinel
  BY <1>1, <1>2, HeldIsSeq, TailOfHeld, EmptySeq, BatcherAssumption DEF IInv, Held
<1>5. future[s] = "pending"
  BY <1>4, HeldIsSeq DEF IInv, Consistent
<1>6. Service!Fail(s)
  BY <1>5 DEF SetException, Service!Fail
<1> QED BY <1>3, <1>6

LEMMA NextRefines ==
  ASSUME IInv, [BatcherNext]_batcherVars
  PROVE  [Service!Next]_(Service!serviceVars)
<1> USE DEF clientVars, threadVars
<1>1. ASSUME NEW s \in Slots, NEW x \in Inputs, Submit(s, x)
      PROVE  Service!Accept(s, x)
  BY <1>1 DEF Submit, MayCall, Service!Accept, Service!MayCall
<1>2. ASSUME NEW s \in Slots, Refuse(s)
      PROVE  Service!Refuse(s)
  BY <1>2 DEF Refuse, MayCall, Service!Refuse, Service!MayCall
<1>3. ASSUME Close
      PROVE  Service!Shut
  BY <1>3 DEF Close, Service!Shut
<1>4. ASSUME TakeFirst \/ TakeMore \/ TakeSentinel \/ StopGathering \/ Forward
               \/ ForwardFails \/ UNCHANGED batcherVars
      PROVE  UNCHANGED Service!serviceVars
  BY <1>4 DEF TakeFirst, TakeMore, TakeSentinel, StopGathering, Forward,
     ForwardFails, batcherVars, Service!serviceVars
<1>5. CASE InferenceThread
  BY <1>4, <1>5, SetResultRefines, SetExceptionRefines DEF InferenceThread, Service!Next
<1> QED BY <1>1, <1>2, <1>3, <1>4, <1>5 DEF BatcherNext, Service!Next

\* The batcher implements the service its callers rely on: batching, padding,
\* the window and the sentinel are invisible to a worker.
THEOREM ImplementsService == BatcherSpec => ServiceSpec
<1> QED BY InitRefines, NextRefines, SpecIInv, PTL
     DEF BatcherSpec, ServiceSpec, Service!Spec
-------------------------------------------------------------------------------
(* Training: the invariant.                                                   *)

Types ==
  /\ main \in MainStates /\ next \in 0..WorkerCount /\ update \in Nat /\ failing \in BOOLEAN
  /\ pc \in [Slots -> WorkerStates] /\ decided \in [Slots -> Nat]
  /\ env \in [Slots -> BOOLEAN]
  /\ weights \in Nat /\ forwarded \in [Slots -> Nat] /\ collector \in Nat
  /\ provenance \in [Slots -> Nat] /\ evidence \in [Slots -> SUBSET (Nat \X Nat)]

Rollout == {"collect", "close", "join"}
WaitStates == {"choose-wait", "bootstrap-wait", "final-wait"}

\* Where the main thread is, of what the batcher does: outside a rollout its thread
\* has ended, or nothing was ever asked of it.
Phases ==
  /\ main \in {"collect", "close"} => ~closed
  /\ main \notin Rollout =>
       Ended \/ (thread = "idle" /\ requests = << >> /\ \A w \in Slots : pc[w] = "idle")

\* Within a chunk no more decisions are taken than it has, and only a worker that
\* waits for an answer has a request.
Chunks ==
  \A w \in Slots :
    /\ pc[w] \in {"queued", "choose", "choose-wait"} => decided[w] < Chunk
    /\ decided[w] <= Chunk
    /\ future[w] = "pending" => pc[w] \in WaitStates

\* The chunks before next are finished; when nothing failed, all of them in the end.
Collecting ==
  /\ main \in {"begin", "collect", "optimize"} => ~failing
  /\ main = "collect" => next \in Slots /\ \A w \in Slots : w < next => pc[w] = "finished"
  /\ main \in {"close", "join", "optimize"} /\ ~failing => \A w \in Slots : pc[w] = "finished"
  /\ main = "optimize" => thread = "stopped"

\* Answers are of the collector's weights, and workers record its checkpoint.
Fixed ==
  /\ main \in Rollout => weights = collector
  /\ \A w \in Slots :
       /\ provenance[w] = collector
       /\ future[w] = "result" => forwarded[w] = collector
       /\ \A e \in evidence[w] : e = <<collector, collector>>
  /\ thread = "answering" =>
       \A i \in 1..Len(batch) : forwarded[batch[i].slot] = collector

Releasing ==
  /\ main \in {"release", "end", "aborted"} => \A w \in Slots : pc[w] \in Parked
  /\ main = "release" => next \in Slots /\ \A w \in Slots : w < next => ~env[w]
  /\ main = "end" => \A w \in Slots : ~env[w]

TInv == IInv /\ Types /\ Phases /\ Chunks /\ Collecting /\ Fixed /\ Releasing
-------------------------------------------------------------------------------
(* The worker states, and what a step of a worker changes.                    *)

LEMMA States ==
  /\ Waits["choose"] = "choose-wait" /\ Waits["bootstrap"] = "bootstrap-wait"
  /\ Waits["final"] = "final-wait"
  /\ {Waits[c] : c \in CallSites} = WaitStates
  /\ WorkerStates = {"choose", "bootstrap", "final", "choose-wait", "bootstrap-wait",
                     "final-wait", "idle", "finished", "failed", "queued", "revive"}
<1>1. /\ Waits["choose"] = "choose-wait" /\ Waits["bootstrap"] = "bootstrap-wait"
      /\ Waits["final"] = "final-wait"
  BY DEF Waits
<1>2. {Waits[c] : c \in CallSites} = WaitStates
  BY <1>1 DEF CallSites, WaitStates
<1> QED BY <1>1, <1>2 DEF WorkerStates, CallSites, Parked, WaitStates

\* Worker w moves alone: it leaves a state that is not parked, and the counter and the
\* environment it changes are its own.
Moves(w) ==
  /\ pc[w] \in WorkerStates \ Parked
  /\ pc' \in [Slots -> WorkerStates]
  /\ \A v \in Slots \ {w} : pc'[v] = pc[v]
  /\ decided' \in [Slots -> Nat]
  /\ \A v \in Slots \ {w} : decided'[v] = decided[v]
  /\ decided'[w] <= Chunk
  /\ pc'[w] \in {"queued", "choose", "choose-wait"} => decided'[w] < Chunk
  /\ env' \in [Slots -> BOOLEAN]
  /\ UNCHANGED <<mainVars, modelVars, collector, provenance>>

\* Of the batcher it only calls infer(), and then it waits.
Calls(w) ==
  /\ (\E x \in Inputs : Submit(w, x)) \/ Refuse(w) \/ UNCHANGED batcherVars
  /\ UNCHANGED <<closed, thread, batch>>
  /\ \A v \in Slots \ {w} : future'[v] = future[v]
  /\ future'[w] = "pending" => pc'[w] \in WaitStates
  /\ future'[w] = "result" => future[w] = "result"

\* What the worker would record of the answer it has.
Decision(w) == <<forwarded[w], provenance[w]>>

\* It records nothing but a decision it has just been answered.
Records(w) ==
  /\ evidence' \in [Slots -> SUBSET (Nat \X Nat)]
  /\ \A v \in Slots : \A e \in evidence'[v] :
       e \in evidence[v] \/ (v = w /\ future[w] = "result" /\ e = Decision(w))

\* A step that neither calls nor records.
LEMMA QuietCall ==
  ASSUME Types, Chunks, NEW w \in Slots, UNCHANGED batcherVars,
         future[w] = "pending" => pc'[w] \in WaitStates
  PROVE  Calls(w)
<1> QED BY DEF Calls, batcherVars, clientVars, threadVars

LEMMA QuietRecord ==
  ASSUME Types, NEW w \in Slots, evidence' = evidence
  PROVE  Records(w)
<1>1. evidence' \in [Slots -> SUBSET (Nat \X Nat)]
  BY DEF Types
<1>2. \A v \in Slots : \A e \in evidence'[v] : e \in evidence[v]
  OBVIOUS
<1> QED BY <1>1, <1>2 DEF Records

LEMMA NewRecord ==
  ASSUME Types, NEW w \in Slots, Record(w), future[w] = "result"
  PROVE  Records(w)
<1>1. Decision(w) \in Nat \X Nat
  BY DEF Types, Decision
<1>2. evidence' = [evidence EXCEPT ![w] = evidence[w] \union {Decision(w)}]
  BY DEF Record, Decision
<1>3. evidence[w] \union {Decision(w)} \in SUBSET (Nat \X Nat)
  BY <1>1 DEF Types
<1>4. evidence' \in [Slots -> SUBSET (Nat \X Nat)]
  BY <1>2, <1>3 DEF Types
<1>5. \A v \in Slots : evidence'[v] = IF v = w THEN evidence[w] \union {Decision(w)}
                                               ELSE evidence[v]
  BY <1>2 DEF Types
<1>6. \A v \in Slots : \A e \in evidence'[v] : e \in evidence[v] \/ (v = w /\ e = Decision(w))
  BY <1>5
<1> QED BY <1>4, <1>6 DEF Records

\* The step of a worker between calls, given where it goes.
LEMMA MovesTo ==
  ASSUME Types, Chunks, NEW w \in Slots, pc[w] \notin Parked,
         NEW l \in WorkerStates, Goto(w, l),
         UNCHANGED <<mainVars, modelVars, decided, collector, provenance>>,
         env' \in [Slots -> BOOLEAN],
         l \in {"queued", "choose", "choose-wait"} => decided[w] < Chunk
  PROVE  Moves(w) /\ pc'[w] = l
<1>1. pc' \in [Slots -> WorkerStates] /\ pc'[w] = l /\ \A v \in Slots \ {w} : pc'[v] = pc[v]
  BY DEF Goto, Types
<1>2. decided[w] <= Chunk /\ decided \in [Slots -> Nat] /\ pc[w] \in WorkerStates
  BY DEF Chunks, Types
<1> QED BY <1>1, <1>2 DEF Moves

\* Every action of a worker is such a step.
LEMMA WorkerMoves ==
  ASSUME BatcherTypeOK, Types, Chunks, NEW w \in Slots, Worker(w)
  PROVE  Moves(w) /\ Calls(w) /\ Records(w)
<1> USE States
<1>t. pc[w] \in WorkerStates /\ decided[w] \in Nat /\ decided[w] <= Chunk /\ Chunk \in Nat
      /\ decided \in [Slots -> Nat] /\ env \in [Slots -> BOOLEAN] /\ env[w] \in BOOLEAN
  BY TrainingAssumption DEF Types, Chunks
<1>a. ASSUME NEW n \in Nat, n <= Chunk, NEW alive \in BOOLEAN, AfterDecision(w, n, alive)
      PROVE  \E l \in WorkerStates \ {"queued", "choose-wait"} :
               Goto(w, l) /\ (l = "choose" => n < Chunk)
  BY <1>a DEF AfterDecision
<1>e. ASSUME NEW open \in BOOLEAN
      PROVE  [env EXCEPT ![w] = open] \in [Slots -> BOOLEAN]
  BY <1>t
<1>b. future \in [Slots -> FutureStates]
  BY DEF BatcherTypeOK
<1>f. pc[w] \notin WaitStates => future[w] # "pending"
  BY DEF Chunks
<1>1. CASE StartChunk(w)
  <2>1. pc[w] = "queued" /\ Goto(w, "choose") /\ decided[w] < Chunk
    BY <1>1 DEF StartChunk, Chunks
  <2>2. Moves(w)
    BY <1>1, <1>t, <2>1, MovesTo DEF StartChunk, Parked, recordVars
  <2>3. Calls(w)
    BY <1>1, <1>f, <2>1, QuietCall DEF StartChunk, WaitStates
  <2> QED BY <1>1, <2>2, <2>3, QuietRecord DEF StartChunk, recordVars
<1>2. CASE Reset(w)
  <2>1. /\ pc[w] \in {"choose", "revive"} /\ env' \in [Slots -> BOOLEAN]
        /\ pc[w] = "choose" => decided[w] < Chunk
    BY <1>2, <1>e DEF Reset, Chunks
  <2>2. PICK l \in {"choose", "bootstrap"} :
          Goto(w, l) /\ (l = "choose" => pc[w] = "choose")
    BY <1>2 DEF Reset
  <2>3. Moves(w)
    BY <1>2, <1>t, <2>1, <2>2, MovesTo DEF Reset, Parked, recordVars
  <2>4. Calls(w)
    BY <1>2, <1>f, <2>1, QuietCall DEF Reset, WaitStates
  <2> QED BY <1>2, <2>3, <2>4, QuietRecord DEF Reset, recordVars
<1>3. CASE ResetFails(w)
  <2>1. pc[w] \in {"choose", "revive"} /\ env' \in [Slots -> BOOLEAN] /\ Goto(w, "failed")
    BY <1>3, <1>e DEF ResetFails
  <2>2. Moves(w)
    BY <1>3, <1>t, <2>1, MovesTo DEF ResetFails, Parked, recordVars
  <2>3. Calls(w)
    BY <1>3, <1>f, <2>1, QuietCall DEF ResetFails, WaitStates
  <2> QED BY <1>3, <2>2, <2>3, QuietRecord DEF ResetFails, recordVars
<1>4. CASE Call(w)
  <2>1. pc[w] \in CallSites /\ Waits[pc[w]] \in WaitStates /\ Goto(w, Waits[pc[w]])
        /\ (Waits[pc[w]] = "choose-wait" => pc[w] = "choose")
    BY <1>4 DEF Call, CallSites, WaitStates
  <2>2. Moves(w) /\ pc'[w] \in WaitStates
    <3>1. Waits[pc[w]] \in WorkerStates
      BY <2>1 DEF WaitStates
    <3>2. Waits[pc[w]] \in {"queued", "choose", "choose-wait"} => decided[w] < Chunk
      BY <2>1 DEF WaitStates, Chunks
    <3>3. pc[w] \notin Parked
      BY <2>1 DEF Parked, CallSites
    <3> QED BY <1>4, <1>t, <2>1, <3>1, <3>2, <3>3, MovesTo DEF Call, recordVars
  <2>3. Calls(w)
    <3>1. decided[w] \in Inputs /\ Submit(w, decided[w])
      BY <1>4, <1>t, TrainingAssumption DEF Call
    <3>2. future' = [future EXCEPT ![w] = "pending"] /\ UNCHANGED <<closed, thread, batch>>
      BY <3>1 DEF Submit, threadVars
    <3>3. future'[w] = "pending" /\ \A v \in Slots \ {w} : future'[v] = future[v]
      BY <3>2, <1>b
    <3> QED BY <2>2, <3>1, <3>2, <3>3 DEF Calls
  <2> QED BY <1>4, <2>2, <2>3, QuietRecord DEF Call, recordVars
<1>5. CASE CallRefused(w)
  <2>1. pc[w] \in CallSites /\ Goto(w, "failed")
    BY <1>5 DEF CallRefused
  <2>2. Moves(w)
    BY <1>5, <1>t, <2>1, MovesTo DEF CallRefused, CallSites, Parked, recordVars
  <2>3. Calls(w)
    <3>1. Refuse(w)
      BY <1>5 DEF CallRefused
    <3>2. future' = [future EXCEPT ![w] = "refused"] /\ UNCHANGED <<closed, thread, batch>>
      BY <3>1 DEF Refuse, threadVars
    <3>3. future'[w] = "refused" /\ \A v \in Slots \ {w} : future'[v] = future[v]
      BY <3>2, <1>b
    <3> QED BY <3>1, <3>2, <3>3 DEF Calls
  <2> QED BY <1>5, <2>2, <2>3, QuietRecord DEF CallRefused, recordVars
<1>6. CASE CallRaises(w)
  <2>1. pc[w] \in WaitStates /\ Goto(w, "failed") /\ future[w] = "error"
    BY <1>6 DEF CallRaises
  <2>2. Moves(w)
    BY <1>6, <1>t, <2>1, MovesTo DEF CallRaises, WaitStates, Parked, recordVars
  <2>3. Calls(w)
    BY <1>6, <2>1, QuietCall DEF CallRaises
  <2> QED BY <1>6, <2>2, <2>3, QuietRecord DEF CallRaises, recordVars
<1>7. CASE Act(w)
  <2>1. pc[w] = "choose-wait" /\ future[w] = "result" /\ Play(w) /\ decided[w] < Chunk
    BY <1>7 DEF Act, Chunks
  <2>2. /\ decided' \in [Slots -> Nat] /\ decided'[w] = decided[w] + 1
        /\ decided'[w] \in Nat /\ decided'[w] <= Chunk
        /\ \A v \in Slots \ {w} : decided'[v] = decided[v]
    BY <1>t, <2>1 DEF Play
  <2>3. env' \in [Slots -> BOOLEAN]
    BY <1>7, <1>e, <1>t DEF Act
  <2>4. PICK l \in WorkerStates \ {"queued", "choose-wait"} :
          Goto(w, l) /\ (l = "choose" => decided'[w] < Chunk)
    <3>1. CASE Goto(w, "bootstrap") \/ Goto(w, "revive")
      BY <3>1
    <3>2. CASE \E alive \in BOOLEAN : AfterDecision(w, decided[w] + 1, alive)
      BY <3>2, <2>2, <1>a
    <3> QED BY <1>7, <3>1, <3>2 DEF Act
  <2>5. pc' \in [Slots -> WorkerStates] /\ pc'[w] = l /\ \A v \in Slots \ {w} : pc'[v] = pc[v]
    BY <2>4 DEF Goto, Types
  <2>6. Moves(w)
    <3>1. pc[w] \in WorkerStates \ Parked
      BY <2>1 DEF Parked
    <3> QED BY <2>1, <2>2, <2>3, <2>4, <2>5, <3>1 DEF Moves, Play
  <2>7. Calls(w)
    BY <2>1, QuietCall DEF Play
  <2> QED BY <2>1, <2>6, <2>7, NewRecord DEF Play
<1>8. CASE ActFails(w)
  <2>1. /\ pc[w] = "choose-wait" /\ Goto(w, "failed") /\ future[w] = "result"
        /\ env' \in [Slots -> BOOLEAN]
    BY <1>8, <1>e, <1>t DEF ActFails
  <2>2. Moves(w)
    BY <1>8, <1>t, <2>1, MovesTo DEF ActFails, Parked
  <2>3. Calls(w)
    BY <1>8, <2>1, QuietCall DEF ActFails
  <2>4. Records(w)
    BY <1>8, <2>1, QuietRecord, NewRecord DEF ActFails
  <2> QED BY <2>2, <2>3, <2>4
<1>9. CASE Bootstrapped(w)
  <2>1. pc[w] = "bootstrap-wait" /\ future[w] = "result"
    BY <1>9 DEF Bootstrapped
  <2>2. PICK l \in WorkerStates \ {"queued", "choose-wait"} :
          Goto(w, l) /\ (l = "choose" => decided[w] < Chunk)
    BY <1>9, <1>a, <1>t DEF Bootstrapped
  <2>3. Moves(w)
    BY <1>9, <1>t, <2>1, <2>2, MovesTo DEF Bootstrapped, Parked, recordVars
  <2>4. Calls(w)
    BY <1>9, <2>1, QuietCall DEF Bootstrapped
  <2> QED BY <1>9, <2>3, <2>4, QuietRecord DEF Bootstrapped, recordVars
<1>10. CASE FinalValue(w)
  <2>1. pc[w] = "final-wait" /\ future[w] = "result" /\ Goto(w, "finished")
    BY <1>10 DEF FinalValue
  <2>2. Moves(w)
    BY <1>10, <1>t, <2>1, MovesTo DEF FinalValue, Parked, recordVars
  <2>3. Calls(w)
    BY <1>10, <2>1, QuietCall DEF FinalValue
  <2> QED BY <1>10, <2>2, <2>3, QuietRecord DEF FinalValue, recordVars
<1> QED BY <1>1, <1>2, <1>3, <1>4, <1>5, <1>6, <1>7, <1>8, <1>9, <1>10 DEF Worker

\* A worker's step preserves the invariant.
LEMMA WorkerTInv ==
  ASSUME TInv, NEW w \in Slots, Worker(w)
  PROVE  TInv'
<1>1. IInv /\ BatcherTypeOK /\ Types /\ Phases /\ Chunks /\ Collecting /\ Fixed /\ Releasing
  BY DEF TInv, IInv
<1>2. Moves(w) /\ Calls(w) /\ Records(w)
  BY <1>1, WorkerMoves
<1>3. UNCHANGED <<main, next, update, failing, weights, forwarded, collector, provenance,
                  closed, thread, batch>>
  BY <1>2 DEF Moves, Calls, mainVars, modelVars
<1>4. pc[w] \notin Parked
  BY <1>2 DEF Moves
<1>5. IInv'
  <2>1. [BatcherNext]_batcherVars
    BY <1>2 DEF Calls, BatcherNext
  <2> QED BY <1>1, <2>1, NextIInv
<1>6. Types'
  BY <1>1, <1>2, <1>3 DEF Types, Moves, Records
<1>7. Phases'
  <2>1. main \notin Rollout => Ended
    BY <1>1, <1>4 DEF Phases, Parked
  <2> QED BY <1>1, <1>3, <2>1 DEF Phases, Ended
<1>8. Chunks'
  <2> SUFFICES ASSUME NEW v \in Slots
               PROVE  /\ pc'[v] \in {"queued", "choose", "choose-wait"} => decided'[v] < Chunk
                      /\ decided'[v] <= Chunk
                      /\ future'[v] = "pending" => pc'[v] \in WaitStates
    BY DEF Chunks
  <2>1. CASE v = w
    BY <2>1, <1>2 DEF Moves, Calls
  <2>2. CASE v # w
    BY <2>2, <1>1, <1>2 DEF Moves, Calls, Chunks
  <2> QED BY <2>1, <2>2
<1>9. \A v \in Slots : pc[v] \in Parked => pc'[v] = pc[v]
  BY <1>2, <1>4 DEF Moves
<1>10. Collecting'
  <2>1. \A v \in Slots : pc[v] = "finished" => pc'[v] = "finished"
    BY <1>9 DEF Parked
  <2> QED BY <1>1, <1>3, <2>1 DEF Collecting
<1>11. Fixed'
  <2>1. main \in Rollout => weights = collector
    BY <1>1 DEF Fixed
  <2>2. ASSUME NEW v \in Slots
        PROVE  /\ provenance[v] = collector
               /\ future'[v] = "result" => forwarded[v] = collector
               /\ \A e \in evidence'[v] : e = <<collector, collector>>
    <3>1. future'[v] = "result" => future[v] = "result"
      BY <1>2, <2>2 DEF Calls
    <3>2. ASSUME NEW e \in evidence'[v], e \notin evidence[v]
          PROVE  e = <<collector, collector>>
      <4>1. v = w /\ future[w] = "result" /\ e = Decision(w)
        BY <1>2, <3>2 DEF Records
      <4>2. forwarded[w] = collector /\ provenance[w] = collector
        BY <1>1, <4>1 DEF Fixed
      <4> QED BY <4>1, <4>2 DEF Decision
    <3> QED BY <1>1, <3>1, <3>2 DEF Fixed
  <2>3. thread = "answering" => \A i \in 1..Len(batch) : forwarded[batch[i].slot] = collector
    BY <1>1 DEF Fixed
  <2> QED BY <1>3, <2>1, <2>2, <2>3 DEF Fixed
<1>12. Releasing'
  <2>1. main \notin {"release", "end", "aborted"}
    BY <1>1, <1>4 DEF Releasing
  <2> QED BY <1>3, <2>1 DEF Releasing
<1> QED BY <1>5, <1>6, <1>7, <1>8, <1>10, <1>11, <1>12 DEF TInv
-------------------------------------------------------------------------------
(* The inference thread runs only during a rollout.                           *)

LEMMA InferTInv ==
  ASSUME TInv, Infer
  PROVE  TInv'
<1>1. IInv /\ BatcherTypeOK /\ ThreadShape /\ Types /\ Phases /\ Chunks /\ Collecting
      /\ Fixed /\ Releasing
  BY DEF TInv, IInv
<1>2. UNCHANGED <<main, next, update, failing, pc, decided, env, weights, collector,
                  provenance, evidence>> /\ InferenceThread
  BY DEF Infer, mainVars, workerVars, recordVars
<1>3. IInv'
  BY <1>1, <1>2, NextIInv DEF BatcherNext
<1>4. main \in Rollout /\ ~Ended /\ weights = collector
  <2>1. ~Ended /\ ~(thread = "idle" /\ requests = << >>)
    BY <1>2 DEF InferenceThread, TakeFirst, TakeMore, TakeSentinel, StopGathering, Forward,
       ForwardFails, SetResult, SetException, Ended
  <2> QED BY <1>1, <2>1 DEF Phases, Fixed
<1>5. closed' = closed
  BY <1>2 DEF InferenceThread, TakeFirst, TakeMore, TakeSentinel, StopGathering, Forward,
     ForwardFails, SetResult, SetException
<1>6. batch \in Seq(Request) /\ \A i \in 1..Len(batch) : batch[i] \in Request /\ batch[i].slot \in Slots
  <2>1. batch \in Seq(Request)
    BY <1>1 DEF BatcherTypeOK
  <2>2. \A i \in 1..Len(batch) : batch[i] \in Request
    BY <2>1, ElementOfSeq
  <2> QED BY <2>1, <2>2 DEF Request
<1>7. forwarded' \in [Slots -> Nat]
  BY <1>1 DEF Infer, Types
<1>8. Types'
  BY <1>1, <1>2, <1>7 DEF Types
<1>9. \A v \in Slots : future'[v] = "pending" => future[v] = "pending"
  BY <1>1, <1>2 DEF InferenceThread, TakeFirst, TakeMore, TakeSentinel, StopGathering, Forward,
     ForwardFails, SetResult, SetException, clientVars, BatcherTypeOK
<1>10. Phases' /\ Chunks'
  BY <1>1, <1>2, <1>4, <1>5, <1>9 DEF Phases, Chunks
<1>11. Collecting' /\ Releasing'
  <2>1. main \notin {"optimize", "release", "end", "aborted"}
    BY <1>4 DEF Rollout
  <2> QED BY <1>1, <1>2, <2>1 DEF Collecting, Releasing
<1>12. /\ \A v \in Slots : future'[v] = "result" => forwarded'[v] = collector
       /\ thread' = "answering" =>
            \A i \in 1..Len(batch') : forwarded'[batch'[i].slot] = collector
  <2>1. CASE Forward
    <3>1. future' = future /\ batch' = batch
      BY <2>1 DEF Forward, clientVars
    <3>2. \A v \in Slots : forwarded'[v] = IF InBatch(v) THEN collector ELSE forwarded[v]
      BY <2>1, <1>4 DEF Infer
    <3>3. \A i \in 1..Len(batch) : InBatch(batch[i].slot)
      BY <1>6, LenProperties DEF InBatch
    <3> QED BY <1>1, <1>6, <3>1, <3>2, <3>3 DEF Fixed
  <2>2. CASE SetResult
    <3>1. forwarded' = forwarded
      <4>1. ~Forward
        BY <2>2 DEF Forward, SetResult
      <4> QED BY <4>1 DEF Infer
    <3>2. /\ Head(batch) = batch[1] /\ batch # << >> /\ Len(batch) \in Nat \ {0}
          /\ Len(Tail(batch)) = Len(batch) - 1
          /\ \A i \in 1..Len(Tail(batch)) : Tail(batch)[i] = batch[i + 1]
      <4>1. batch # << >>
        BY <1>1, <2>2 DEF ThreadShape, SetResult
      <4> QED BY <1>6, <4>1, HeadTailProperties, EmptySeq
    <3>3. /\ thread = "answering" /\ batch' = Tail(batch)
          /\ future' = [future EXCEPT ![batch[1].slot] = "result"]
      BY <2>2, <3>2 DEF SetResult, Resolved
    <3>4. \A i \in 1..Len(batch) : forwarded[batch[i].slot] = collector
      BY <1>1, <3>3 DEF Fixed
    <3>5. \A i \in 1..Len(batch') : forwarded[batch'[i].slot] = collector
      <4>1. \A i \in 1..Len(batch') : i + 1 \in 1..Len(batch) /\ batch'[i] = batch[i + 1]
        BY <3>2, <3>3
      <4> QED BY <3>4, <4>1
    <3>6. \A v \in Slots : future'[v] = "result" => forwarded[v] = collector
      <4>1. forwarded[batch[1].slot] = collector
        BY <3>2, <3>4
      <4> QED BY <1>1, <3>3, <4>1 DEF Fixed, BatcherTypeOK
    <3> QED BY <3>1, <3>5, <3>6
  <2>3. CASE TakeFirst \/ TakeMore \/ TakeSentinel \/ StopGathering \/ ForwardFails \/ SetException
    <3>1. forwarded' = forwarded
      <4>1. ~Forward
        BY <2>3 DEF Forward, TakeFirst, TakeMore, TakeSentinel, StopGathering, ForwardFails,
           SetException, Resolved
      <4> QED BY <4>1 DEF Infer
    <3>2. thread' # "answering"
      BY <2>3 DEF TakeFirst, TakeMore, TakeSentinel, StopGathering, ForwardFails,
         SetException, Resolved
    <3>3. \A v \in Slots : future'[v] = "result" => future[v] = "result"
      BY <1>1, <2>3 DEF TakeFirst, TakeMore, TakeSentinel, StopGathering, ForwardFails,
         SetException, clientVars, BatcherTypeOK
    <3> QED BY <1>1, <3>1, <3>2, <3>3 DEF Fixed
  <2> QED BY <1>2, <2>1, <2>2, <2>3 DEF InferenceThread
<1>13. Fixed'
  BY <1>1, <1>2, <1>12 DEF Fixed
<1> QED BY <1>3, <1>8, <1>10, <1>11, <1>13 DEF TInv
-------------------------------------------------------------------------------
(* The main thread.                                                           *)

\* A step that leaves the batcher, the workers' chunks and the records alone: only
\* the place of the main thread, the environments and the weights may differ.
LEMMA MainMoves ==
  ASSUME TInv, Types', UNCHANGED <<batcherVars, pc, decided, recordVars, forwarded>>,
         main' \in {"collect", "close"} => main \in {"collect", "close"},
         main' \notin Rollout /\ main \in Rollout => Ended,
         main' \in Rollout => main \in Rollout /\ weights' = weights,
         Collecting', Releasing'
  PROVE  TInv'
<1>1. IInv /\ Phases /\ Chunks /\ Fixed
  BY DEF TInv
<1>2. UNCHANGED <<future, requests, closed, thread, batch, pc, decided, collector, provenance,
                  evidence, forwarded>>
  BY DEF batcherVars, clientVars, threadVars, recordVars
<1>3. IInv'
  BY <1>1, NextIInv
<1>4. Phases'
  BY <1>1, <1>2 DEF Phases, Ended
<1>5. Chunks'
  BY <1>1, <1>2 DEF Chunks
<1>6. Fixed'
  <2>1. main' \in Rollout => weights' = collector
    BY <1>1 DEF Fixed
  <2> QED BY <1>1, <1>2, <2>1 DEF Fixed
<1> QED BY <1>3, <1>4, <1>5, <1>6 DEF TInv

\* A new batcher satisfies the batcher's invariant.
LEMMA NewIsInit == NewBatcher => IInv'
<1>1. NewBatcher => BatcherInit'
  BY DEF NewBatcher, BatcherInit, NoRows
<1>2. BatcherInit' => IInv'
  BY InitIInv, PTL
<1> QED BY <1>1, <1>2

LEMMA BeginTInv ==
  ASSUME TInv, BeginUpdate
  PROVE  TInv'
<1> USE DEF BeginUpdate, NewBatcher
<1>1. Types /\ Collecting
  BY DEF TInv
<1>2. 0 \in Slots /\ 0 \in 0..WorkerCount /\ 0 < Chunk /\ 0 <= Chunk
  BY TrainingAssumption
<1>3. IInv'
  BY NewIsInit
<1>4. Types'
  <2>1. pc' \in [Slots -> WorkerStates]
    BY States
  <2> QED BY <1>1, <1>2, <2>1 DEF Types, MainStates, modelVars
<1>5. Phases' /\ Chunks'
  BY <1>2 DEF Phases, Chunks, Rollout
<1>6. Collecting' /\ Releasing'
  <2>1. \A w \in Slots : ~(w < 0)
    BY TrainingAssumption
  <2> QED BY <1>1, <1>2, <2>1 DEF Collecting, Releasing
<1>7. Fixed'
  BY DEF Fixed, modelVars
<1> QED BY <1>3, <1>4, <1>5, <1>6, <1>7 DEF TInv

LEMMA CollectedTInv ==
  ASSUME TInv, Collected
  PROVE  TInv'
<1> USE DEF Collected, workerVars, modelVars
<1>1. Types /\ Collecting
  BY DEF TInv
<1>2. next \in 0..(WorkerCount - 1) /\ WorkerCount \in Nat \ {0} /\ Slots = 0..(WorkerCount - 1)
  BY <1>1, TrainingAssumption DEF Collecting
<1>3. Types'
  BY <1>1, <1>2 DEF Types, MainStates, recordVars
<1>4. \A w \in Slots : w < next' => pc[w] = "finished"
  <2> SUFFICES ASSUME NEW w \in Slots, w < next + 1
               PROVE  pc[w] = "finished"
    OBVIOUS
  <2>1. w < next \/ w = next
    BY <1>2
  <2> QED BY <1>1, <2>1 DEF Collecting
<1>5. Collecting'
  <2>1. ~failing
    BY <1>1 DEF Collecting
  <2>2. CASE next' = WorkerCount
    <3>1. \A w \in Slots : w < WorkerCount
      BY <1>2
    <3> QED BY <1>4, <2>1, <2>2, <3>1 DEF Collecting
  <2>3. CASE next' # WorkerCount
    <3>1. next' \in Slots
      BY <1>2, <2>3
    <3> QED BY <1>4, <2>1, <2>3, <3>1 DEF Collecting
  <2> QED BY <2>2, <2>3
<1>6. Releasing'
  BY DEF Releasing
<1> QED BY <1>3, <1>5, <1>6, MainMoves DEF Rollout

\* The chunks the executor drops had asked nothing of the batcher.
LEMMA CollectRaisesTInv ==
  ASSUME TInv, CollectRaises
  PROVE  TInv'
<1> USE DEF CollectRaises, modelVars, recordVars
<1>1. IInv /\ Types /\ Phases /\ Chunks /\ Fixed
  BY DEF TInv
<1>2. UNCHANGED <<future, requests, closed, thread, batch>>
  BY DEF batcherVars, clientVars, threadVars
<1>3. IInv'
  BY <1>1, NextIInv
<1>4. pc' \in [Slots -> WorkerStates]
      /\ \A w \in Slots : pc'[w] = pc[w] \/ (pc[w] = "queued" /\ pc'[w] = "idle")
  BY <1>1, States DEF Types
<1>5. Types'
  BY <1>1, <1>4 DEF Types, MainStates
<1>6. Phases'
  BY <1>1, <1>2 DEF Phases, Rollout
<1>7. Chunks'
  BY <1>1, <1>2, <1>4 DEF Chunks, WaitStates
<1>8. Fixed'
  BY <1>1, <1>2 DEF Fixed, Rollout
<1>9. Collecting' /\ Releasing'
  BY DEF Collecting, Releasing
<1> QED BY <1>3, <1>5, <1>6, <1>7, <1>8, <1>9 DEF TInv

LEMMA CloseTInv ==
  ASSUME TInv, CloseBatcher
  PROVE  TInv'
<1> USE DEF CloseBatcher, Close, workerVars, modelVars, recordVars
<1>1. IInv /\ Types /\ Chunks /\ Collecting /\ Fixed
  BY DEF TInv
<1>2. UNCHANGED <<future, thread, batch>>
  BY DEF clientVars, threadVars
<1>3. IInv'
  BY <1>1, CloseIInv
<1>4. Types'
  BY <1>1 DEF Types, MainStates
<1>5. Phases' /\ Chunks'
  BY <1>1, <1>2 DEF Phases, Rollout, Chunks
<1>6. Collecting' /\ Releasing'
  BY <1>1 DEF Collecting, Releasing
<1>7. Fixed'
  BY <1>1, <1>2 DEF Fixed, Rollout
<1> QED BY <1>3, <1>4, <1>5, <1>6, <1>7 DEF TInv

\* A thread that died while it drained left a future unresolved, so a worker waits
\* for it or has raised.
LEMMA DeadStrands ==
  ASSUME IInv, thread = "dead"
  PROVE  \E s \in Slots : future[s] = "pending"
<1>1. BatcherTypeOK /\ ThreadShape /\ PendingIffHeld
  BY DEF IInv
<1>2. batch # << >> /\ batch \in Seq(Request) /\ batch \in Seq(Entry) /\ requests \in Seq(Entry)
  BY <1>1, HeldIsSeq DEF ThreadShape, BatcherTypeOK
<1>3. Head(batch) \in Request /\ Head(batch) = batch[1]
  BY <1>2, HeadTailProperties
<1>4. Held # << >> /\ Held[1] = Head(batch)
  BY <1>2, TailOfHeld DEF Held
<1>5. 1 \in 1..Len(Held) /\ Held[1] \in Request /\ Held[1] # Sentinel
  BY <1>1, <1>3, <1>4, HeldIsSeq, EmptySeq, BatcherAssumption
<1> QED BY <1>1, <1>5, HeldIsSeq DEF Consistent, Request

LEMMA JoinTInv ==
  ASSUME TInv, JoinBatcher
  PROVE  TInv'
<1> USE DEF JoinBatcher, workerVars, modelVars
<1>1. IInv /\ Types /\ Chunks /\ Collecting
  BY DEF TInv
<1>2. Types'
  BY <1>1 DEF Types, MainStates, recordVars
<1>3. Collecting'
  <2>1. CASE failing
    BY <2>1 DEF Collecting
  <2>2. CASE ~failing
    <3>1. \A w \in Slots : pc[w] = "finished"
      BY <1>1, <2>2 DEF Collecting
    <3>2. \A w \in Slots : future[w] # "pending"
      BY <1>1, <3>1 DEF Chunks, WaitStates
    <3>3. thread = "stopped"
      BY <1>1, <3>2, DeadStrands DEF Ended
    <3>4. thread' = thread /\ pc' = pc
      BY DEF batcherVars, threadVars
    <3> QED BY <2>2, <3>1, <3>3, <3>4 DEF Collecting
  <2> QED BY <1>1, <2>1, <2>2 DEF Types
<1>4. Releasing'
  BY <1>1 DEF Releasing, Types
<1> QED BY <1>1, <1>2, <1>3, <1>4, MainMoves DEF Rollout, Types

LEMMA OptimizerTInv ==
  ASSUME TInv, OptimizerStep
  PROVE  TInv'
<1> USE DEF OptimizerStep, mainVars, workerVars, recordVars
<1>1. IInv /\ Types /\ Collecting
  BY DEF TInv
<1>2. Types'
  BY <1>1 DEF Types
<1>3. Collecting' /\ Releasing'
  <2>1. thread' = thread
    BY DEF batcherVars, threadVars
  <2> QED BY <1>1, <2>1 DEF Collecting, Releasing
<1> QED BY <1>2, <1>3, MainMoves DEF Rollout

\* The other steps up to the shutdown only move the main thread.
LEMMA TurnTInv ==
  ASSUME TInv, FinishUpdate \/ MainRaises \/ AllUpdatesDone
  PROVE  TInv'
<1>1. Types /\ Collecting
  BY DEF TInv
<1>2. /\ main \in {"begin", "optimize"} /\ main' \in {"begin", "shutdown"}
      /\ main' = "begin" => failing' = failing
      /\ failing' \in BOOLEAN /\ update' \in Nat /\ next' = next
      /\ UNCHANGED <<batcherVars, workerVars, modelVars, recordVars>>
  <2>1. failing \in BOOLEAN /\ update \in Nat
    BY <1>1 DEF Types
  <2>2. CASE FinishUpdate
    BY <2>1, <2>2 DEF FinishUpdate
  <2>3. CASE MainRaises
    BY <2>1, <2>3 DEF MainRaises
  <2>4. CASE AllUpdatesDone
    BY <2>1, <2>4 DEF AllUpdatesDone
  <2> QED BY <2>2, <2>3, <2>4
<1>3. UNCHANGED <<pc, decided, env, weights, forwarded, collector, provenance, evidence>>
  BY <1>2 DEF workerVars, modelVars, recordVars
<1>4. Types'
  BY <1>1, <1>2, <1>3 DEF Types, MainStates
<1>5. Collecting' /\ Releasing'
  <2>1. ~failing
    BY <1>1, <1>2 DEF Collecting
  <2> QED BY <1>2, <2>1 DEF Collecting, Releasing
<1> QED BY <1>2, <1>3, <1>4, <1>5, MainMoves DEF Rollout

LEMMA DrainedTInv ==
  ASSUME TInv, ExecutorDrained
  PROVE  TInv'
<1> USE DEF ExecutorDrained, workerVars, modelVars
<1>1. Types
  BY DEF TInv
<1>2. 0 \in Slots /\ 0 \in 0..WorkerCount /\ \A w \in Slots : ~(w < 0)
  BY TrainingAssumption
<1>3. Types'
  BY <1>1, <1>2 DEF Types, MainStates, recordVars
<1>4. Collecting' /\ Releasing'
  BY <1>2 DEF Collecting, Releasing
<1> QED BY <1>3, <1>4, MainMoves DEF Rollout

\* Each worker's environment is closed in turn, and stays closed.
LEMMA ReleaseTInv ==
  ASSUME TInv, ReleaseWorker
  PROVE  TInv'
<1> USE DEF ReleaseWorker, modelVars
<1>1. Types /\ Releasing
  BY DEF TInv
<1>2. next \in 0..(WorkerCount - 1) /\ WorkerCount \in Nat \ {0} /\ Slots = 0..(WorkerCount - 1)
  BY <1>1, TrainingAssumption DEF Releasing
<1>3. Types'
  BY <1>1, <1>2 DEF Types, MainStates, recordVars
<1>4. \A w \in Slots : w < next' => ~env'[w]
  <2> SUFFICES ASSUME NEW w \in Slots, w < next + 1
               PROVE  ~env'[w]
    OBVIOUS
  <2>1. w < next \/ w = next
    BY <1>2
  <2>2. env'[w] = IF w = next THEN FALSE ELSE env[w]
    BY <1>1 DEF Types
  <2>3. w < next => ~env[w]
    BY <1>1 DEF Releasing
  <2> QED BY <2>1, <2>2, <2>3
<1>5. Releasing'
  <2>1. \A w \in Slots : pc'[w] \in Parked
    BY <1>1 DEF Releasing
  <2>2. CASE next' = WorkerCount
    <3>1. \A w \in Slots : w < next'
      BY <1>2, <2>2
    <3>2. main' = "end"
      BY <2>2
    <3> QED BY <1>4, <2>1, <3>1, <3>2 DEF Releasing
  <2>3. CASE next' # WorkerCount
    <3>1. next' \in Slots /\ main' = "release"
      BY <1>2, <2>3
    <3> QED BY <1>4, <2>1, <3>1 DEF Releasing
  <2> QED BY <2>2, <2>3
<1>6. Collecting'
  BY DEF Collecting
<1> QED BY <1>3, <1>5, <1>6, MainMoves DEF Rollout

LEMMA ReleaseRaisesTInv ==
  ASSUME TInv, ReleaseRaises
  PROVE  TInv'
<1> USE DEF ReleaseRaises, workerVars, modelVars
<1>1. Types /\ Releasing
  BY DEF TInv
<1>2. Types'
  BY <1>1 DEF Types, MainStates, recordVars
<1>3. Collecting' /\ Releasing'
  BY <1>1 DEF Collecting, Releasing
<1> QED BY <1>2, <1>3, MainMoves DEF Rollout
-------------------------------------------------------------------------------
(* The theorems.                                                              *)

LEMMA TrainingInitTInv == TrainingInit => TInv
<1> SUFFICES ASSUME TrainingInit PROVE TInv
  OBVIOUS
<1> USE DEF TrainingInit
<1>1. IInv
  BY InitIInv
<1>2. 0 \in 0..WorkerCount /\ 0 <= Chunk
  BY TrainingAssumption
<1>3. Types
  BY <1>2, States DEF Types, MainStates
<1>4. Phases /\ Chunks /\ Collecting /\ Fixed /\ Releasing
  BY <1>2 DEF BatcherInit, Phases, Chunks, Collecting, Fixed, Releasing, Rollout
<1> QED BY <1>1, <1>3, <1>4 DEF TInv

LEMMA TrainingNextTInv ==
  ASSUME TInv, [TrainingNext]_trainingVars
  PROVE  TInv'
<1>1. CASE Main
  BY <1>1, BeginTInv, CollectedTInv, CollectRaisesTInv, CloseTInv, JoinTInv, OptimizerTInv,
     TurnTInv, DrainedTInv, ReleaseTInv, ReleaseRaisesTInv DEF Main
<1>2. CASE Infer
  BY <1>2, InferTInv
<1>3. CASE \E w \in Slots : Worker(w)
  BY <1>3, WorkerTInv
<1>4. CASE UNCHANGED trainingVars
  <2> USE <1>4 DEF trainingVars, mainVars, workerVars, modelVars, recordVars, TInv
  <2>1. Types' /\ Collecting' /\ Releasing'
    BY DEF Types, Collecting, Releasing, batcherVars, threadVars
  <2> QED BY <2>1, MainMoves
<1> QED BY <1>1, <1>2, <1>3, <1>4 DEF TrainingNext

LEMMA TrainingTInv == TrainingSpec => []TInv
<1> QED BY TrainingInitTInv, TrainingNextTInv, PTL DEF TrainingSpec

\* "The model is immutable during each rollout" (train_ppo), for any number of
\* workers, chunk length and minibatches: every recorded decision was sampled from the
\* weights of the collector checkpoint it names, and the parameters change only when no
\* chunk runs, no request waits and the rollout's inference thread is gone.
THEOREM ModelIsFixed == TrainingSpec => []ModelFixedInRollout
<1>1. TInv => ModelFixedInRollout
  <2> SUFFICES ASSUME TInv
               PROVE  ModelFixedInRollout
    OBVIOUS
  <2>1. IInv /\ Chunks /\ Collecting /\ Fixed
    BY DEF TInv
  <2>2. ASSUME main = "optimize"
        PROVE  /\ thread = "stopped" /\ requests = << >>
               /\ \A w \in Slots : pc[w] = "finished" /\ future[w] # "pending"
    <3>1. thread = "stopped" /\ \A w \in Slots : pc[w] = "finished"
      BY <2>1, <2>2 DEF Collecting
    <3>2. requests = << >>
      BY <2>1, <3>1 DEF IInv, NothingBehindSentinel, Ended
    <3>3. \A w \in Slots : future[w] # "pending"
      BY <2>1, <3>1 DEF Chunks, WaitStates
    <3> QED BY <3>1, <3>2, <3>3
  <2> QED BY <2>1, <2>2 DEF Fixed, ModelFixedInRollout
<1> QED BY <1>1, TrainingTInv, PTL

\* train_ppo that ends has closed the environment of every worker, whichever updates,
\* chunks and forwards failed on the way.
THEOREM GamesAreClosed == TrainingSpec => []NoGameOutlivesTraining
<1>1. TInv => NoGameOutlivesTraining
  BY DEF TInv, Releasing, NoGameOutlivesTraining
<1> QED BY <1>1, TrainingTInv, PTL

\* Whatever training does to its batchers is one of the batcher's steps or a new
\* batcher, so that what is proved of a batcher alone holds of those of train_ppo: no
\* future is lost, resolved twice or answered for another call.
THEOREM BatcherSoundInTraining ==
  TrainingSpec => [](PendingIffHeld /\ StopStrandsNobody /\ OwnRow /\ BatchSlotsUnique)
<1>1. TInv => PendingIffHeld /\ StopStrandsNobody /\ OwnRow /\ BatchSlotsUnique
  BY NobodyStranded, HeldSlotsUnique DEF TInv, IInv
<1> QED BY <1>1, TrainingTInv, PTL

\* Seen by the workers of train_ppo, an update's batcher is the service they rely on:
\* each step of training is a step of that service, or opens a new one.
THEOREM ServiceInTraining ==
  TrainingSpec => [][Service!Next \/ (Service!Init)']_(Service!serviceVars)
<1>1. ASSUME TInv, [TrainingNext]_trainingVars
      PROVE  [Service!Next \/ (Service!Init)']_(Service!serviceVars)
  <2>1. ASSUME [BatcherNext]_batcherVars
        PROVE  [Service!Next]_(Service!serviceVars)
    BY <1>1, <2>1, NextRefines DEF TInv
  <2>2. CASE BeginUpdate
    <3>1. NewBatcher
      BY <2>2 DEF BeginUpdate
    <3> QED BY <3>1 DEF NewBatcher, NoRows, Service!Init
  <2>3. CASE Main /\ ~BeginUpdate
    <3>1. Close \/ UNCHANGED batcherVars
      BY <2>3 DEF Main, Collected, CollectRaises, CloseBatcher, JoinBatcher, OptimizerStep,
         FinishUpdate, MainRaises, AllUpdatesDone, ExecutorDrained, ReleaseWorker, ReleaseRaises
    <3> QED BY <2>1, <3>1 DEF BatcherNext
  <2>4. CASE Infer
    BY <2>1, <2>4 DEF Infer, BatcherNext
  <2>5. CASE \E w \in Slots : Worker(w)
    <3>1. PICK w \in Slots : Worker(w)
      BY <2>5
    <3>2. Calls(w)
      BY <1>1, <3>1, WorkerMoves DEF TInv, IInv
    <3> QED BY <2>1, <3>2 DEF Calls, BatcherNext
  <2>6. CASE UNCHANGED trainingVars
    BY <2>1, <2>6 DEF trainingVars
  <2> QED BY <1>1, <2>2, <2>3, <2>4, <2>5, <2>6 DEF TrainingNext
<1> QED BY <1>1, TrainingTInv, PTL DEF TrainingSpec
===============================================================================
