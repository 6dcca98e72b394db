-------------------------- MODULE SeqlenBalancing --------------------------
(***************************************************************************)
(* How a batch is cut for the ranks and a rank's share for its passes:     *)
(* verl/utils/seqlen_balancing.py, _balance_batch of the trainer and       *)
(* compute_log_prob of the actor with dynamic batches.  A batch is the     *)
(* sequence of its samples' lengths, a partition lists samples by their    *)
(* positions in it.  No caller sets keep_minibatch, and the actor sets     *)
(* neither a minimum nor a divisor of the number of micro-batches.         *)
(***************************************************************************)
EXTENDS Integers, Sequences, FiniteSets, FiniteSetsExt, SequencesExt

calculate_workload(seqlen) == 24576 * seqlen + seqlen * seqlen

Workloads(batch) == [i \in DOMAIN batch |-> calculate_workload(batch[i])]

Total(numbers) == FoldSet(LAMBDA i, s : numbers[i] + s, 0, DOMAIN numbers)

\* sorted(): the place that the r-th of n elements comes from; before holds the pairs of
\* places whose elements are in order, and equal elements stay as they are.
Order(n, before) ==
    LET Precedes(j, i) == <<j, i>> \in before \/ (<<i, j>> \notin before /\ j < i)
    IN  [r \in 1..n |-> CHOOSE i \in 1..n : Cardinality({j \in 1..n : Precedes(j, i)}) = r - 1]

Places(s) == (DOMAIN s) \X (DOMAIN s)

\* (\o: TLC keeps the elements and not the expression.)
Arranged(s, before) ==
    LET order == Order(Len(s), before)
    IN  [r \in 1..Len(s) |-> s[order[r]]] \o <<>>

Ascending(numbers) == Arranged(numbers, {p \in Places(numbers) : numbers[p[1]] < numbers[p[2]]})

-----------------------------------------------------------------------------
(* karmarkar_karp: the k sets of a state are in decreasing order.          *)

\* Set.__lt__: two sets of one run share no item, so their first ones decide.
Smaller(a, b) ==
    \/ a.sum < b.sum
    \/ a.sum = b.sum /\ Len(a.items) < Len(b.items)
    \/ /\ a.sum = b.sum /\ Len(a.items) = Len(b.items) /\ a.items # <<>>
       /\ Head(a.items) < Head(b.items)

Decreasing(sets) == Arranged(sets, {p \in Places(sets) : Smaller(sets[p[2]], sets[p[1]])})

\* An item for each set, or for the first set only.
State(items, k, workload) ==
    Decreasing([i \in 1..k |-> IF i <= Len(items)
                               THEN [sum |-> workload[items[i]], items |-> <<items[i]>>]
                               ELSE [sum |-> 0, items |-> <<>>]])

\* Set.merge
JoinSets(a, b) == [sum |-> a.sum + b.sum, items |-> a.items \o b.items]

\* Defect: the heaviest set of one state joins the heaviest of the other.
MergeInStep(s, t) == Decreasing([i \in DOMAIN s |-> JoinSets(s[i], t[i])])

\* The heaviest set of one state joins the lightest of the other.
Merge(s, t) == Decreasing([i \in DOMAIN s |-> JoinSets(s[i], t[Len(s) + 1 - i])])

spread(s) == s[1].sum - s[Len(s)].sum

\* State.__lt__: a total order, so the heap holds no two states it may swap.
PopsFirst(s, t) ==
    spread(s) > spread(t) \/ (spread(s) = spread(t) /\ Smaller(t[1], s[1]))

Popped(states_pq) == CHOOSE s \in states_pq : \A t \in states_pq \ {s} : PopsFirst(s, t)

MergeTwo(states_pq) ==
    LET state0 == Popped(states_pq)
        state1 == Popped(states_pq \ {state0})
    IN  (states_pq \ {state0, state1}) \union {Merge(state0, state1)}

\* sorted([(seqlen, i) ...])
Lighter(i, j, workload) == workload[i] < workload[j] \/ (workload[i] = workload[j] /\ i < j)

Sorted(positions, workload) ==
    Arranged(positions, {p \in Places(positions) : Lighter(positions[p[1]], positions[p[2]], workload)})

Positions(n) == [i \in 1..n |-> i]

Chunks(sorted, width) ==
    {SubSeq(sorted, width * c + 1, width * c + width) : c \in 0..Len(sorted) \div width - 1}

\* The heap when it has come down to one state.
Merged(states) ==
    LET n == Cardinality(states) - 1
        states_pq[i \in 0..n] == IF i = 0 THEN states ELSE MergeTwo(states_pq[i - 1])
    IN  states_pq[n]

karmarkar_karp(workload, k, equal_size) ==
    LET sorted == Sorted(Positions(Len(workload)), workload)
        states == {State(items, k, workload) : items \in Chunks(sorted, IF equal_size THEN k ELSE 1)}
        final_state == CHOOSE s \in Merged(states) : TRUE
    IN  [p \in 1..k |-> final_state[p].items]

-----------------------------------------------------------------------------
(* _balance_batch.                                                         *)

\* partition[::2], and partition[1::2] backwards, or the other way round.
EvenPlaces(s) == [i \in 1..((Len(s) + 1) \div 2) |-> s[2 * i - 1]]
OddPlaces(s)  == [i \in 1..(Len(s) \div 2) |-> s[2 * i]]

\* global_idx
_balance_batch(batch, world_size) ==
    LET workload == Workloads(batch)
        partitions == karmarkar_karp(workload, world_size, TRUE)
        sorted(p) == Sorted(partitions[p], workload)
    IN  FlattenSeq([p \in 1..world_size |-> EvenPlaces(sorted(p)) \o Reverse(OddPlaces(sorted(p)))])

\* What dispatch gives the rank: the r-th of equal parts of the batch.
Share(order, r, world_size) ==
    LET n == Len(order) \div world_size
    IN  SubSeq(order, (r - 1) * n + 1, r * n)

-----------------------------------------------------------------------------
(* rearrange_micro_batches and restore_dynamic_batch.                      *)

ceildiv(a, b) == (a + b - 1) \div b

\* What a rank asks for before the ranks agree on the largest number.
Wanted(batch, max_token_len) ==
    LET n == ceildiv(Total(batch), max_token_len)
    IN  IF n < Len(batch) THEN n ELSE Len(batch)

Work(samples, workload) == Total([i \in DOMAIN samples |-> workload[samples[i]]])

\* Heavier first, then by the first position; and the lighter ones at both ends.
FirstPosition(p) == IF p = <<>> THEN 1 ELSE Head(p)

Heavier(p, q, workload) ==
    \/ Work(p, workload) > Work(q, workload)
    \/ Work(p, workload) = Work(q, workload) /\ FirstPosition(p) > FirstPosition(q)

HeavierFirst(parts, workload) ==
    Arranged(parts, {p \in Places(parts) : Heavier(parts[p[1]], parts[p[2]], workload)})

rearrange_micro_batches(batch, num_micro_batches) ==
    LET workload == Workloads(batch)
        parts == karmarkar_karp(workload, num_micro_batches, FALSE)
        sorted == HeavierFirst([p \in DOMAIN parts |-> Ascending(parts[p])], workload)
    IN  Reverse(EvenPlaces(sorted)) \o OddPlaces(sorted)

\* Defect: the index list is taken for its own inverse.
SameIdx(idx_map) == idx_map

get_reverse_idx(idx_map) ==
    [j \in DOMAIN idx_map |-> CHOOSE i \in DOMAIN idx_map : idx_map[i] = j]

\* data holds a value for each sample in the order of the micro-batches.
restore_dynamic_batch(data, batch_idx_list) ==
    LET revert_indices == get_reverse_idx(FlattenSeq(batch_idx_list))
    IN  [i \in DOMAIN data |-> data[revert_indices[i]]]

-----------------------------------------------------------------------------
Once(order, batch) == Len(order) = Len(batch) /\ {order[i] : i \in DOMAIN order} = DOMAIN batch

\* The work of the samples, least first, is cut into groups of world_size: what the two
\* ends of the c-th group differ by.
Span(batch, world_size, c) ==
    LET sorted == Ascending(Workloads(batch))
    IN  sorted[world_size * c + world_size] - sorted[world_size * c + 1]

\* The ranks share a batch: each sample goes to one rank, each rank gets as many, and the
\* work of two ranks differs by no more than that of two samples of one group.
RanksBalanced(batch, world_size) ==
    LET order == _balance_batch(batch, world_size)
        work(r) == Work(Share(order, r, world_size), Workloads(batch))
    IN  /\ Once(order, batch)
        /\ \A r, s \in 1..world_size : \E c \in 0..Len(batch) \div world_size - 1 :
              work(r) - work(s) <= Span(batch, world_size, c)

\* What a rank computes pass by pass: no pass is empty, none has more work than another
\* and the longest sample together, and every result goes back to the sample it is of.
PassesFit(local, num_micro_batches) ==
    LET workload == Workloads(local)
        passes == rearrange_micro_batches(local, num_micro_batches)
        indices == FlattenSeq(passes)
    IN  /\ Once(indices, local)
        /\ restore_dynamic_batch(indices, passes) = Positions(Len(local))
        /\ \A p \in DOMAIN passes : passes[p] # <<>>
        /\ \A p, q \in DOMAIN passes : \E i \in DOMAIN local :
              Work(passes[p], workload) - Work(passes[q], workload) <= workload[i]

\* The part of a batch that has the samples of a share.
Part(batch, share) == [i \in DOMAIN share |-> batch[share[i]]]

\* The ranks agree on the largest number of passes that one of them wants.
PassesRestored(batch, world_size, max_token_len) ==
    LET order == _balance_batch(batch, world_size)
        local(r) == Part(batch, Share(order, r, world_size))
        wanted == {Wanted(local(r), max_token_len) : r \in 1..world_size}
        agreed == CHOOSE m \in wanted : \A w \in wanted : w <= m
    IN  \A r \in 1..world_size : PassesFit(local(r), agreed)
=============================================================================
