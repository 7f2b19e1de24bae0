--------------------------- MODULE InteractionCosts ---------------------------
(* UiInteractionBudget and SemanticCycleTracker.  Tokens are counted in parts, *)
(* PerToken of them in a token.                                                *)
EXTENDS Integers, Sequences

CONSTANTS PerToken,   \* parts of a token
          Capacity,   \* capacity, in parts
          Refill,     \* refill_per_turn, in parts
          Window      \* the cycle tracker's window

ASSUME CostAssumption ==
  PerToken \in Nat \ {0} /\ Capacity \in Nat /\ Refill \in Nat /\ Window \in Nat \ {0}

Larger(a, b) == IF a > b THEN a ELSE b
Smaller(a, b) == IF a < b THEN a ELSE b

\* UiInteractionBudget.reset.
FullBudget(view) == [tokens |-> Capacity, turn |-> view.turn]

Refilled(budget, view) ==
  [tokens |-> Smaller(Capacity, budget.tokens + Larger(0, view.turn - budget.turn) * Refill),
   turn |-> view.turn]

IsUi(action) == action = "ui"

\* UiInteractionBudget.observe: the budget that is left.
Spent(budget, action, view) ==
  LET full == Refilled(budget, view) IN
  IF IsUi(action) /\ full.tokens >= PerToken THEN [full EXCEPT !.tokens = @ - PerToken] ELSE full

\* Faulty variant: an interaction that takes a turn is charged too.
OverflowsAnyway(budget, action, view) ==
  IsUi(action) /\ Refilled(budget, view).tokens < PerToken

\* UiInteractionBudget.observe: what it returns.
Overflows(budget, action, view) ==
  IsUi(action) /\ Refilled(budget, view).tokens < PerToken /\ view.turn <= budget.turn
-------------------------------------------------------------------------------
\* Faulty variant: the clock is part of the state.
DigestWithClock(view) == view

\* semantic_cycle_digest: the clocks and the messages are left out.
SemanticDigest(view) == view.place

\* SemanticCycleTracker.reset and observe.
Tracked(view) == <<SemanticDigest(view)>>
Repeats(recent, view) == \E i \in DOMAIN recent : recent[i] = SemanticDigest(view)
Remembered(recent, view) ==
  LET all == Append(recent, SemanticDigest(view)) IN
  SubSeq(all, Larger(1, Len(all) - Window + 1), Len(all))
===============================================================================
