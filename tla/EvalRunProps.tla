---------------------------- MODULE EvalRunProps ----------------------------
(***************************************************************************)
(* What is claimed of EvalRun, and the statements of docs and comments     *)
(* that the code does not keep.                                            *)
(***************************************************************************)
EXTENDS EvalRun

Turns == 0..max_turns

\* Every job has a policy object of its own (collect_sft_data.py makes one per
\* sample; run_baseline_eval.py and eval_sft.py do not).
OwnPolicies == \A i, j \in Jobs : policy[i] = policy[j] => i = j

\* The type of every variable; a job has an env from env.reset on.
TypeOK ==
    /\ pc \in [Jobs -> {"queued"} \cup Running \cup Ended]
    /\ was_truncated \in [Policies -> BOOLEAN]
    /\ env \in [Jobs -> Envs \cup {None}]
    /\ total_reward \in [Jobs -> {0, 1}]
    /\ turn_idx \in [Jobs -> Turns] /\ tool_call_count \in [Jobs -> Nat]
    /\ recent_tool_calls \in [Jobs -> Seq(Calls)] /\ tool_calls \in [Jobs -> Seq(Calls)]
    /\ executed \in [Jobs -> Seq(Calls)]
    /\ was_contaminated_from_turn \in [Jobs -> Turns \cup {None}]
    /\ error \in [Jobs -> {"none", "loop", "exception"}]
    /\ long \in [Jobs -> BOOLEAN]
    /\ results \subseteq Jobs
    /\ main \in {"collecting", "leaving", "reported", "raised"}
    /\ flagged \in [Jobs -> Turns \cup {None}]
    /\ native \in [Jobs -> {0, 1, None}]

-----------------------------------------------------------------------------
\* The contamination mark of a stored result tells of its own calls: it is the
\* first turn whose truncation or forbidden token flagged the policy, never the
\* flag of another thread; and no flagged trajectory passes as a clean success
\* (collect_sft_data.py trains on the successes without a mark).
MarkIsOwn ==
    \A j \in results :
        /\ was_contaminated_from_turn[j] \in {flagged[j], None}
        /\ Success(j) => was_contaminated_from_turn[j] = flagged[j]

\* The evaluation counts a success exactly when tau-bench's first done step pays:
\* the trajectory stops there, so the replayed ground truth that calculate_reward
\* leaves behind is never compared with itself.
SuccessIsNative ==
    \A j \in Jobs : pc[j] \in Ended => (Success(j) <=> native[j] = 1)

\* Loop detection runs per message over the last loop_window calls asked for, so
\* the environment never sees loop_limit equal calls within loop_window of them,
\* shortened by what one message can hold.
NoRepeatedCalls ==
    \A j \in Jobs :
        LET n == Len(executed[j])
            width == loop_window + 1 - MaxCalls
        IN  \A i \in 1..n :
                \A x \in Calls :
                    Cardinality({k \in i..n : k < i + width /\ executed[j][k] = x}) < loop_limit

\* The evaluation ends, with a report or with the exception of a job that raised,
\* whatever the model server and the user simulator answer.
EvalEnds == <>(main \in {"reported", "raised"})

-----------------------------------------------------------------------------
(* Statements of the repository that the code does not keep.               *)

\* "VLLMPolicy is thread-safe, so it is simply reused": a mark is never the doing of
\* another job on the same policy object.
SharedPolicyIsSafe ==
    \A j \in results : was_contaminated_from_turn[j] # None => flagged[j] # None
=============================================================================
