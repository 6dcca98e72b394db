------------------------- MODULE ToolAgentLoopProps -------------------------
(***************************************************************************)
(* What is claimed of ToolAgentLoop: properties of every behaviour, and    *)
(* the statements of docs and comments that the code does not keep.        *)
(***************************************************************************)
EXTENDS ToolAgentLoop, FiniteSets

AgentStates == {"created", "pending", "generating", "processing_tools", "calling",
                "interacting", "terminated", "finished", "raised"}

StateDicts ==
    [total_reward : Nat, num_tool_calls : Nat, num_user_turns : Nat,
     done : BOOLEAN, contaminated : BOOLEAN,
     action_history : Seq([tool : HistoryTools, content : Nat]),
     transferred_to_human : BOOLEAN]

ToolTasks == [kind : CallKinds, ctx : Trajs \cup {None}, content : Nat]

Outputs == [prompt : Nat, response : Nat, mask : Seq({0, 1}), logprobs : Nat,
            score : {0, 1, None}, turns : Nat]

\* The type of every variable; env and state exist from start_interaction on.
TypeOK ==
    /\ interaction_config_file \in {None, "yaml"}
    /\ pc \in [Trajs -> AgentStates]
    /\ instance_dict \subseteq Trajs
    /\ env \in [Trajs -> Envs \cup {None}]
    /\ state \in [Trajs -> StateDicts \cup {None}]
    /\ ctx \in [Trajs -> Trajs \cup {None}]
    /\ content \in [Trajs -> Nat]
    /\ prompt_ids \in [Trajs -> Nat]
    /\ response_mask \in [Trajs -> Seq({0, 1})]
    /\ response_logprobs \in [Trajs -> Nat]
    /\ user_turns \in [Trajs -> Nat] /\ assistant_turns \in [Trajs -> Nat]
    /\ total_tool_calls \in [Trajs -> Nat] /\ total_errors \in [Trajs -> Nat]
    /\ tool_calls \in [Trajs -> Seq(CallKinds)]
    /\ tool_tasks \in [Trajs -> Seq(ToolTasks)]
    /\ errors \in [Trajs -> Nat]
    /\ output \in [Trajs -> Outputs \cup {None}]
    /\ batch \in {"running", "returned", "raised"}
    /\ native \in [Trajs -> {0, 1, None}]

-----------------------------------------------------------------------------
(* Safety: invariants.                                                     *)

\* The three token lists of a trajectory stay parallel through every path of the
\* state machine: prompt_ids is the prompt followed by one token per mask bit,
\* the log-probabilities are as long as the mask or not kept at all, and the
\* first bit is a token of the policy (ToolAgentLoop.run slices prompt_ids by
\* the length of the mask; a mask of zeros makes the loss weights divide by 0).
TokensAligned ==
    \A t \in Trajs :
        LET n == Len(response_mask[t])
        IN  /\ \/ n = 0 /\ prompt_ids[t] \in {0, PromptLen}
               \/ prompt_ids[t] = PromptLen + n /\ response_mask[t][1] = 1
            /\ response_logprobs[t] = IF LogProbs THEN n ELSE 0

\* Every user or tool message answers exactly one assistant message, and neither
\* counter passes its cap although the caps are tested in one handler only.
TurnsAlternate ==
    \A t \in Trajs :
        LET gap == assistant_turns[t] - user_turns[t]
        IN  /\ gap \in {0, 1}
            /\ pc[t] \in {"created", "pending", "generating"} => gap = 0
            /\ pc[t] \in {"processing_tools", "calling", "interacting"} => gap = 1
            /\ max_assistant_turns > 0 => assistant_turns[t] <= max_assistant_turns
            /\ max_user_turns > 0 => user_turns[t] <= max_user_turns

\* The env a tool call will step is the one its own trajectory started, on every
\* task gather made and at every time; and a trajectory that reaches
\* generate_response finds its entry, so the RuntimeError there is unreachable.
OwnEnvironment ==
    \A t \in Trajs :
        /\ ctx[t] \in {t, None}
        /\ \A i \in 1..Len(tool_tasks[t]) : tool_tasks[t][i].ctx = ctx[t]
        /\ interaction_config_file # None /\ pc[t] \notin {"created", "raised"} =>
                ctx[t] = t /\ t \in instance_dict
        /\ pc[t] = "interacting" => t \in instance_dict

\* Reward is backed by the environment: a positive total needs a done step and
\* all the outputs told to the user, and an episode tau-bench pays is paid here.
RewardBacked ==
    \A t \in Trajs : state[t] # None =>
        /\ state[t].total_reward > 0 => state[t].done /\ env[t].said
        /\ native[t] = 1 => state[t].total_reward >= 1
        /\ native[t] # None => state[t].done

\* The counters of agent_data and of the state dict tell one story: a history
\* entry per executed tool call, no more executed or failed calls than the
\* messages held, no more user turns than the interaction's budget, and the
\* calls run per message stay within max_parallel_calls.
CountersAgree ==
    \A t \in Trajs :
        /\ total_errors[t] <= total_tool_calls[t]
        /\ errors[t] + Len(tool_tasks[t]) <= Len(tool_calls[t])
        /\ state[t] # None =>
             LET s == state[t]
                 called(h) == {i \in 1..Len(h) : h[i].tool # "implicit_think"}
                 executing == IF pc[t] = "calling" THEN Len(tool_calls[t]) ELSE 0
             IN  /\ s.num_tool_calls + Len(tool_tasks[t]) <= total_tool_calls[t] + executing
                 /\ s.num_tool_calls + Len(tool_tasks[t]) <= max_parallel_calls * assistant_turns[t]
                 /\ Cardinality(called(s.action_history)) = s.num_tool_calls
                 /\ s.num_user_turns <= user_turns[t] /\ s.num_user_turns <= max_turns

-----------------------------------------------------------------------------
(* Safety: what a step may never do.                                       *)

\* A step changes the env or the state dict of a trajectory only when it is a
\* step of that trajectory: rollouts of one group share the interaction object,
\* the tools and the event loop, and nothing of each other's episode.
EnvIsolation ==
    [][\A t \in Trajs :
         env'[t] # env[t] \/ state'[t] # state[t] =>
             pc'[t] # pc[t] \/ tool_tasks'[t] # tool_tasks[t]]_vars

\* An action recorded in the history carries the assistant message of the turn
\* that is running, never one left in CURRENT_ASSISTANT_CONTENT by an earlier
\* turn (the process reward reads the text beside the action).
ContentOfThisTurn ==
    [][\A t \in Trajs :
         state[t] # None /\ state'[t] # None =>
             LET h == state[t].action_history
                 g == state'[t].action_history
             IN  /\ SubSeq(g, 1, Len(h)) = h
                 /\ \A i \in Len(h)+1..Len(g) : g[i].content = assistant_turns[t]]_vars

\* Once scored, an episode is over: no late tool task or reply changes what the
\* score was computed from, and a contaminated episode is never stepped again.
EpisodeFrozen ==
    [][\A t \in Trajs :
         output[t] # None \/ (state[t] # None /\ state[t].contaminated) =>
             /\ env'[t] = env[t] /\ state'[t] = state[t]
             /\ output[t] # None => output'[t] = output[t]]_vars

-----------------------------------------------------------------------------
(* Refinement and liveness.                                                *)

\* The batch abstraction: what the awaiting generate_sequences can see of a task.
Status(t) ==
    CASE pc[t] = "raised"   -> "raised"
      [] pc[t] = "finished" -> "delivered"
      [] OTHER              -> "open"

Batch == INSTANCE RolloutBatch WITH status <- [t \in Trajs |-> Status(t)]

\* The batch of rollouts implements the abstract batch: one legal output per
\* trajectory, delivered once, all of them before the batch returns.
ImplementsBatch == Batch!Spec

\* Every rollout ends and so does the batch, even with both turn caps off: each
\* generation adds a trained token, and response_length stops it.
RolloutsEnd ==
    <>(/\ batch # "running"
       /\ \A t \in Trajs : pc[t] \in {"finished", "raised"})

-----------------------------------------------------------------------------
(* Statements of the repository that the code does not keep.               *)

\* "reward strictly equals tau-bench's native outcome reward (0/1)": the score of
\* a trajectory is the reward tau-bench gives the episode, 0 if it never ended.
NativeOutcome ==
    \A t \in Trajs : output[t] # None /\ interaction_config_file # None =>
        output[t].score = IF native[t] = 1 THEN 1 ELSE 0

\* "lock reward=0": a trajectory whose message held a forbidden token scores 0.
ContaminatedScoresZero ==
    \A t \in Trajs : output[t] # None /\ interaction_config_file # None =>
        (state[t].contaminated => output[t].score = 0)
=============================================================================
