------------------------------- MODULE Returns -------------------------------
(* generalized_advantage_estimate for one worker.  A factor is a fraction      *)
(* <<n, d>>; rewards and values are multiples of a unit that every power of the *)
(* factors met in a chunk divides, so that the divisions are exact.            *)
EXTENDS Integers, Sequences

Times(factor, amount) == (factor[1] * amount) \div factor[2]

\* Faulty variant: the advantage of the next episode flows back over its start.
GaeAcrossEpisodes(rows, final, discount, lambda) ==
  LET n == Len(rows)
      Next(t) == IF rows[t].done THEN rows[t].bootstrap ELSE IF t = n THEN final ELSE rows[t + 1].value
      Delta(t) == rows[t].reward + Times(discount, Next(t)) - rows[t].value
      advantage[t \in 1..n] ==
        Delta(t) + (IF t = n THEN 0 ELSE Times(discount, Times(lambda, advantage[t + 1]))) IN
  advantage

\* From the last step to the first: the advantages.
GeneralizedAdvantage(rows, final, discount, lambda) ==
  LET n == Len(rows)
      Next(t) == IF rows[t].done THEN rows[t].bootstrap ELSE IF t = n THEN final ELSE rows[t + 1].value
      Delta(t) == rows[t].reward + Times(discount, Next(t)) - rows[t].value
      advantage[t \in 1..n] ==
        Delta(t) + (IF t = n \/ rows[t].done THEN 0
                    ELSE Times(discount, Times(lambda, advantage[t + 1]))) IN
  advantage
-------------------------------------------------------------------------------
(* The definition it stands for: the lambda-weighted average of the n-step     *)
(* returns of the rest of the episode.                                         *)

Discounted(factor, n, amount) ==
  LET power[k \in Nat] == IF k = 0 THEN amount ELSE Times(factor, power[k - 1]) IN power[n]

\* f[1] + ... + f[n].
Total(f, n) ==
  LET sum[k \in 0..Len(f)] == IF k = 0 THEN 0 ELSE sum[k - 1] + f[k] IN sum[n]

\* after[t] is the value of what follows step t; the step that ends an episode is
\* the last one of it.
LambdaReturn(t, rewards, after, ends, discount, lambda) ==
  LET last == CHOOSE e \in t..Len(rewards) :
                /\ ends[e] \/ e = Len(rewards)
                /\ \A i \in t..(e - 1) : ~ ends[i]
      steps == last - t + 1
      rewarded == [i \in 1..steps |-> Discounted(discount, i - 1, rewards[t + i - 1])]
      NStep(n) == Total(rewarded, n) + Discounted(discount, n, after[t + n - 1])
      Weighted(n) == Discounted(lambda, n - 1, NStep(n)) IN
  Total([n \in 1..(steps - 1) |-> Weighted(n) - Times(lambda, Weighted(n))], steps - 1)
    + Weighted(steps)
===============================================================================
