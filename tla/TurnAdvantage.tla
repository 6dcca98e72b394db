--------------------------- MODULE TurnAdvantage ---------------------------
(***************************************************************************)
(* From an agent loop's output to the advantages of its tokens:            *)
(* _agent_loop_postprocess and _postprocess of agent_loop.py and the       *)
(* grpo_turn_discounted estimator of core_algos.py.  A sample is a record  *)
(*   [uid, reward, mask]                                                   *)
(* of the prompt it belongs to, its reward_score and the response mask of  *)
(* its tokens (1: generated, 0: an observation).  The discount alpha is    *)
(* two, the division by the standard deviation, one positive factor for    *)
(* the whole group, is left out, and an advantage is a fraction.           *)
(***************************************************************************)
EXTENDS Integers, Sequences, FiniteSets, FiniteSetsExt

SumOver(S, f) == FoldSet(LAMBDA i, s : f[i] + s, 0, S)

\* The powers of alpha up to the n-th.
Alpha(n) ==
    LET power[m \in 0..n] == IF m = 0 THEN 1 ELSE 2 * power[m - 1]
    IN  power

\* response_mask and response_attention_mask, padded on the right to the length w.
Mask(sample, w) == [t \in 1..w |-> IF t <= Len(sample.mask) THEN sample.mask[t] ELSE 0]
Attended(sample, w) == [t \in 1..w |-> IF t <= Len(sample.mask) THEN 1 ELSE 0]

\* rm_scores: the reward at the position attention_mask.sum - 1, which for an empty
\* response is -1, the last one.
RmScores(sample, w) ==
    LET last == SumOver(1..w, Attended(sample, w))
    IN  [t \in 1..w |-> IF t = (IF last = 0 THEN w ELSE last) THEN sample.reward ELSE 0]

\* scores: token_level_rewards.sum(dim=-1).
Score(batch, i, w) == SumOver(1..w, RmScores(batch[i], w))

Group(batch, i) == {j \in DOMAIN batch : batch[j].uid = batch[i].uid}
Active(sample, w) == SumOver(1..w, Mask(sample, w))

\* scores - id2mean: the mean is zero for a group of one.
Centred(batch, i, w) ==
    LET g == Group(batch, i)
    IN  IF Cardinality(g) = 1 THEN [num |-> Score(batch, i, w), den |-> 1]
        ELSE [num |-> Cardinality(g) * Score(batch, i, w) - SumOver(g, [j \in g |-> Score(batch, j, w)]),
              den |-> Cardinality(g)]

\* Defect: the weights grow with the position.
LaterWeighsMore(sample, w) == [t \in 1..w |-> Mask(sample, w)[t] * Alpha(w)[t - 1]]

\* weights_stable: alpha^(L-1-t) at the trained positions, shifted to integers.
Weights(sample, w) == [t \in 1..w |-> Mask(sample, w)[t] * Alpha(w)[w - t]]

\* scores * weights * active_count / weight_sum; NaN where nothing is trained.
Advantage(batch, i, w) ==
    LET weight == Weights(batch[i], w)
        s == Centred(batch, i, w)
    IN  [num |-> [t \in 1..w |-> s.num * Active(batch[i], w) * weight[t]],
         den |-> s.den * SumOver(1..w, weight)]

-----------------------------------------------------------------------------
Trains(batch, i, w) == Active(batch[i], w) > 0

\* The rest of a sample's group, and the reward's distance from the mean of the group,
\* times the size of the group.
Others(batch, i) == {j \in Group(batch, i) : j # i}
GroupSize(batch, i) == Cardinality(Others(batch, i)) + 1
Gap(batch, i) ==
    IF Others(batch, i) = {} THEN batch[i].reward
    ELSE GroupSize(batch, i) * batch[i].reward
         - SumOver(Others(batch, i) \union {i}, [j \in Others(batch, i) \union {i} |-> batch[j].reward])

\* The discount moves credit between the tokens of a sample and never between samples:
\* the advantages of a sample's tokens sum to (reward - mean of its group) per trained
\* token, tokens of the environment and of the padding get none, and an earlier
\* trained token gets more than a later one.
CreditConserved(batch, w) ==
    \A i \in DOMAIN batch : Trains(batch, i, w) =>
        LET adv == Advantage(batch, i, w)
            mask == Mask(batch[i], w)
        IN  /\ SumOver(1..w, adv.num) * GroupSize(batch, i) = Gap(batch, i) * Active(batch[i], w) * adv.den
            /\ \A t \in 1..w : mask[t] = 0 => adv.num[t] = 0
            /\ \A t, u \in 1..w : t < u /\ mask[t] = 1 /\ mask[u] = 1 /\ Gap(batch, i) # 0 =>
                   adv.num[t] * adv.num[t] > adv.num[u] * adv.num[u]
=============================================================================
