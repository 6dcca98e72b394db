------------------------------- MODULE PassK -------------------------------
(***************************************************************************)
(* The estimator of run_eval in src/evaluation/pass_k_eval.py: from n      *)
(* samples of a task, c of them successful, the probability estimated for  *)
(* k samples.  The code multiplies floating-point factors 1 - k/i; here    *)
(* the product is kept as a fraction of two integers.                      *)
(***************************************************************************)
EXTENDS Integers, Sequences, FiniteSets, FiniteSetsExt

Product(S, k) == FoldSet(LAMBDA i, p : (i - k) * p, 1, S)

\* Defect: the range of the product starts one too early.
WideRange(n, c, k) ==
    IF n - c < k THEN [num |-> 1, den |-> 1]
    ELSE LET all == Product((n - c)..n, 0)
         IN  [num |-> all - Product((n - c)..n, k), den |-> all]

\* pass_at_k(n, c, k): 1 - prod(1 - k/i) over i in n-c+1..n.
PassAtK(n, c, k) ==
    IF n - c < k THEN [num |-> 1, den |-> 1]
    ELSE LET all == Product((n - c + 1)..n, 0)
         IN  [num |-> all - Product((n - c + 1)..n, k), den |-> all]

\* results[t]: the success of each trajectory of a task, in completion order.
Successes(trajs) == {i \in DOMAIN trajs : trajs[i]}

\* What the report takes from them.
Reported(trajs, k) == PassAtK(Len(trajs), Cardinality(Successes(trajs)), k)

-----------------------------------------------------------------------------
\* The choices of k of the samples, all equally likely.
Attempts(trajs, k) == kSubset(k, DOMAIN trajs)

Equals(q, a, b)  == q.den > 0 /\ q.num * b = a * q.den
Exceeds(q, a, b) == q.den > 0 /\ q.num * b > a * q.den

\* The estimate is the share of k-subsets of the samples that hold at least one
\* success: pass@k without bias, whatever the order of completion, with the early
\* return for n - c < k where the product would be wrong.
EstimatesPassAtK(trajs, k) ==
    LET some == {A \in Attempts(trajs, k) : A \cap Successes(trajs) # {}}
    IN  Equals(Reported(trajs, k), Cardinality(some), Cardinality(Attempts(trajs, k)))

\* It is not what pass_k_eval.py:54 and :98 call it, the probability that k samples in
\* a row all succeed, which is the share of k-subsets that are successes altogether: as
\* soon as a task has both been solved and been failed and k > 1, the report says more.
ExceedsPassHatK(trajs, k) ==
    LET every == {A \in Attempts(trajs, k) : A \subseteq Successes(trajs)}
    IN  k > 1 /\ k <= Len(trajs) /\ Successes(trajs) \notin {{}, DOMAIN trajs} =>
            Exceeds(Reported(trajs, k), Cardinality(every), Cardinality(Attempts(trajs, k)))
=============================================================================
