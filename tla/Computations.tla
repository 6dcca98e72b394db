---------------------------- MODULE Computations ----------------------------
(***************************************************************************)
(* The pure functions of the project on all their inputs up to a length:   *)
(* an input is a sequence that grows by one element, the samples of a task *)
(* or of a batch, the steps of a trajectory, the messages of a             *)
(* conversation.                                                           *)
(***************************************************************************)
EXTENDS PassK, PrmLite, SftLabels, TurnAdvantage, SeqlenBalancing

CONSTANTS
    Inputs,     \* [function -> its set of elements]
    Longest,    \* bound: [function -> the length of its longest input]
    Ks,         \* the k of the report
    MaxLength,  \* the token limit of an SFT example
    Width,      \* response_length
    Worlds,     \* the numbers of ranks
    MaxTokens   \* max_token_len of a dynamic batch

ASSUME ComputationsAssumption ==
    /\ DOMAIN Inputs = {"pass_at_k", "prm_lite", "sft_labels", "advantage", "balance"}
    /\ Longest \in [DOMAIN Inputs -> Nat]
    /\ Ks \subseteq Nat \ {0} /\ MaxLength \in Nat /\ Width \in Nat \ {0}
    /\ Worlds \subseteq Nat \ {0} /\ MaxTokens \in Nat \ {0}
    /\ \A m \in Inputs["sft_labels"] : m.size \in Nat /\ m.newline \in BOOLEAN
    /\ \A s \in Inputs["advantage"] : s.mask \in Seq({0, 1}) /\ s.reward \in Int
    /\ Inputs["balance"] \subseteq Nat \ {0}

VARIABLES fn, input

Init == fn \in DOMAIN Inputs /\ input = <<>>

Extend(x) ==
    /\ Len(input) < Longest[fn]
    /\ input' = Append(input, x)
    /\ UNCHANGED fn

Next == \E x \in Inputs[fn] : Extend(x)

Spec == Init /\ [][Next]_<<fn, input>>

-----------------------------------------------------------------------------
\* The estimate of pass_k_eval.py is the share of the k-subsets with a success, and more
\* than the documented share of those that are successes altogether.
IsPassAtK ==
    fn = "pass_at_k" =>
        \A k \in Ks : k <= Len(input) => EstimatesPassAtK(input, k) /\ ExceedsPassHatK(input, k)

\* No history makes repeating an error or giving up worth its while in prm_lite.
NoPayForGivingUp == fn = "prm_lite" => GivingUpNeverPays(input)

\* The labels of an SFT example are the assistant's tokens and no others.
LabelsAreAssistants == fn = "sft_labels" => LabelsAreAssistant(input, MaxLength)

\* The turn discount conserves the credit of every sample of a batch.
CreditIsConserved == fn = "advantage" => CreditConserved(input, Width)

\* The numbers of ranks that a batch can be cut for: the code asserts it.
Divides == {w \in Worlds : input # <<>> /\ Len(input) % w = 0}

\* The ranks get as many samples each, and about the same work.
BatchIsShared == fn = "balance" => \A w \in Divides : RanksBalanced(input, w)

\* Dynamic batches neither lose nor swap a sample's log-probabilities, and no rank is
\* left with an empty pass, whatever number of passes the ranks agree on.
PassesReturnAll == fn = "balance" => \A w \in Divides : PassesRestored(input, w, MaxTokens)
=============================================================================
