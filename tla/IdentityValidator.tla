--------------------------- MODULE IdentityValidator ---------------------------
(* ExternalIdentityValidator: each request starts a helper process that hashes *)
(* the data tree and the binary; a semaphore bounds the helpers and a deadline *)
(* covers the wait for a permit as well as the helper.  The tree may be        *)
(* rebuilt at any time.                                                        *)
EXTENDS Integers, FiniteSets

CONSTANTS Processes,       \* whoever computes an identity
          Workers,         \* the threads among them that use the validator
          MaxConcurrency,  \* max_concurrency
          MaxVersion       \* bound: rebuilds of each part of the tree

ASSUME ValidatorAssumption ==
  Workers \subseteq Processes /\ MaxConcurrency \in Nat \ {0} /\ MaxVersion \in Nat

\* StaticDataIdentity: a digest of the data, with its modification times, and one
\* of the binary.  A rebuild never brings an earlier identity back, so versions
\* are numbers.
Parts == {"data", "binary"}
Identities == [Parts -> 0..MaxVersion]
NoIdentity == [p \in Parts |-> 0]

VARIABLES tree,     \* the binary and its data on disk
          permits,  \* _permits
          request,  \* where each thread's request is in validate
          expired,  \* its deadline has passed
          since,    \* the tree when a process began its validation
          seen      \* the identity it has read

validator == <<permits, request, expired>>

ValidatorInit ==
  /\ tree = NoIdentity
  /\ permits = MaxConcurrency
  /\ request = [w \in Workers |-> "none"]
  /\ expired = [w \in Workers |-> FALSE]
  /\ since = [p \in Processes |-> NoIdentity]
  /\ seen = [p \in Processes |-> NoIdentity]

Rebuilds ==
  /\ \E p \in Parts : tree[p] < MaxVersion /\ tree' = [tree EXCEPT ![p] = @ + 1]
  /\ UNCHANGED <<validator, since, seen>>
-------------------------------------------------------------------------------
(* static_data_identity, in the thread itself or in its helper: the data first.*)

Reads(q, p) ==
  /\ seen' = [seen EXCEPT ![q][p] = tree[p]]
  /\ UNCHANGED <<tree, since>>
-------------------------------------------------------------------------------
(* validate.                                                                  *)

Goes(w, next) == request' = [request EXCEPT ![w] = next]
Keeps == UNCHANGED <<permits, expired>>

Asks(w) ==
  /\ request[w] \notin {"queued", "acquired", "hashing", "hashed", "answered"}
  /\ Goes(w, "queued")
  /\ expired' = [expired EXCEPT ![w] = FALSE]
  /\ since' = [since EXCEPT ![w] = tree]
  /\ UNCHANGED <<tree, permits, seen>>

\* The request's 30 seconds pass.
Expires(w) ==
  /\ request[w] \in {"queued", "acquired", "hashing", "hashed", "answered"} /\ ~ expired[w]
  /\ expired' = [expired EXCEPT ![w] = TRUE]
  /\ UNCHANGED <<tree, permits, request, since, seen>>

Acquires(w) ==
  /\ request[w] = "queued" /\ ~ expired[w] /\ permits > 0
  /\ permits' = permits - 1
  /\ Goes(w, "acquired")
  /\ UNCHANGED <<tree, expired, since, seen>>

QueueTimesOut(w) ==
  /\ request[w] = "queued" /\ expired[w]
  /\ Goes(w, "raised") /\ Keeps
  /\ UNCHANGED <<tree, since, seen>>

\* The finally clause of a request that holds a permit.
Releases(w, how) ==
  /\ permits' = permits + 1
  /\ Goes(w, how)
  /\ UNCHANGED <<tree, expired, since, seen>>

\* "External identity validation deadline expired", before the helper is started
\* or after it has answered.
DeadlinePassed(w) == request[w] \in {"acquired", "answered"} /\ expired[w] /\ Releases(w, "raised")

Launches(w) ==
  /\ request[w] = "acquired" /\ ~ expired[w]
  /\ Goes(w, "hashing") /\ Keeps
  /\ UNCHANGED <<tree, since, seen>>

HashesData(w) == request[w] = "hashing" /\ Reads(w, "data") /\ Goes(w, "hashed") /\ Keeps
HashesBinary(w) == request[w] = "hashed" /\ Reads(w, "binary") /\ Goes(w, "answered") /\ Keeps

\* A return code, or a response that is malformed or not this request's.
HelperFails(w) == request[w] \in {"hashing", "hashed"} /\ Releases(w, "raised")

\* Faulty variant: the permit is not given back when the helper is killed.
TimesOutHolding(w) ==
  /\ request[w] \in {"hashing", "hashed"} /\ expired[w]
  /\ Goes(w, "raised") /\ Keeps
  /\ UNCHANGED <<tree, since, seen>>

\* Faulty variant: subprocess.run has no timeout; the deadline is noticed afterwards.
HelperOverruns(w) == request[w] = "answered" /\ expired[w] /\ Releases(w, "raised")

\* subprocess.run kills and reaps the helper.
HelperTimesOut(w) == request[w] \in {"hashing", "hashed"} /\ expired[w] /\ Releases(w, "raised")

Returns(w) == request[w] = "answered" /\ ~ expired[w] /\ Releases(w, "returned")

\* What the thread itself does once it has asked; the helper may hang.
Waits(w) ==
  \/ Acquires(w) \/ QueueTimesOut(w) \/ DeadlinePassed(w) \/ Launches(w) \/ HelperTimesOut(w)
  \/ Returns(w) \/ Expires(w)
Helper(w) == HashesData(w) \/ HashesBinary(w) \/ HelperFails(w)
-------------------------------------------------------------------------------
(* Properties.                                                                *)

Holding == {w \in Workers : request[w] \in {"acquired", "hashing", "hashed", "answered"}}

\* However a request ends (queue timeout, deadline, failed or killed helper), its
\* permit comes back exactly once.  One that leaks would stop every reset, one
\* released twice would raise and admit too many helpers.
PermitsConserved ==
  permits >= 0 /\ permits + Cardinality(Holding) = MaxConcurrency

\* Every request ends, although a helper may hang.
RequestEnds == \A w \in Workers : request[w] = "queued" ~> request[w] \in {"returned", "raised"}
===============================================================================
