------------------------------ MODULE MCEvaluation ------------------------------
(* A suite of two cases, one of one and one that names a case twice; the       *)
(* diagnostic suite is a redirect, and one configuration redirects to itself.  *)
EXTENDS Evaluation
CONSTANTS p1, p2, p3, a, b, dev, heldout, twice, c1, c2, d1, d2
MCProcesses == {p1, p2, p3}
MCPolicies == {a, b}
MCSuites == {dev, heldout, twice}
MCOutputs == {d1, d2}
MCCasesOf == dev :> <<c1, c2>> @@ heldout :> <<c1>> @@ twice :> <<c1, c1>>
MCConfig == [diagnostic |-> "pinned", pinned |-> dev, other |-> heldout, doubled |-> twice,
             loop |-> "loop"]
Symmetry == Permutations(MCProcesses) \union Permutations(MCOutputs)
===============================================================================
