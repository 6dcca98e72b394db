---------------------------- MODULE ToolAgentLoop ----------------------------
(***************************************************************************)
(* One batch of rollouts on the event loop of an AgentLoopWorker: every    *)
(* trajectory is an asyncio task running ToolAgentLoop.run, the state      *)
(* machine of verl/experimental/agent_loop/tool_agent_loop.py, against its *)
(* own tau-bench environment.  The tasks share one TauBenchInteraction     *)
(* object with its _instance_dict; what belongs to a trajectory reaches    *)
(* the tools through context variables only.                               *)
(*                                                                         *)
(* An action is the code a task runs between two awaits that let another   *)
(* task touch something shared.  Token lists are counted; the response     *)
(* mask is kept bit by bit.  The reward mode is "binary".                  *)
(***************************************************************************)
EXTENDS TauEnv, Sequences

CONSTANTS
    Trajs,               \* the trajectories of the batch
    None,                \* Python's None
    LogProbs,            \* rollout.calculate_log_probs
    PromptLen,           \* tokens of the rendered initial prompt
    GenLens,             \* how many tokens one generate call may return
    ObsLens,             \* how many tokens a tool or user message may add
    MaxCalls,            \* bound: tool calls the parser finds in one message
    response_length,     \* rollout.response_length
    max_assistant_turns, \* rollout.multi_turn caps; 0 stands for "no cap"
    max_user_turns,
    max_parallel_calls,
    max_turns            \* the interaction's own budget

ASSUME LoopAssumption ==
    /\ None \notin Trajs \cup {0, 1}
    /\ LogProbs \in BOOLEAN
    /\ PromptLen \in Nat /\ MaxCalls \in Nat
    /\ GenLens \subseteq Nat \ {0} /\ ObsLens \subseteq Nat
    /\ response_length \in Nat \ {0}
    /\ max_assistant_turns \in Nat /\ max_user_turns \in Nat
    /\ max_parallel_calls \in Nat \ {0} /\ max_turns \in Nat \ {0}

VARIABLES
    interaction_config_file,  \* read by init_class: a file, or None
    pc,                 \* pc[t]: AgentState, and where run() stands around the loop
    instance_dict,      \* keys of TauBenchInteraction._instance_dict
    env,                \* env[t]: the env start_interaction made for t, or None
    state,              \* state[t]: the state dict of that env, or None
    ctx,                \* CURRENT_TAU_ENV and CURRENT_TAU_STATE in t's context
    content,            \* CURRENT_ASSISTANT_CONTENT: the turn of that message
    prompt_ids,         \* len(agent_data.prompt_ids)
    response_mask,      \* agent_data.response_mask
    response_logprobs,  \* len(agent_data.response_logprobs)
    user_turns, assistant_turns, total_tool_calls, total_errors,
    tool_calls,         \* agent_data.tool_calls, each as what becomes of it
    tool_tasks,         \* tasks of the running asyncio.gather not yet executed
    errors,             \* "Error:" responses that gather has collected
    output,             \* the AgentLoopOutput of t, or None
    batch,              \* generate_sequences: "running", "returned", "raised"
    native              \* history: reward of the first done step of t's env, or None

tokenVars  == <<prompt_ids, response_mask, response_logprobs>>
turnVars   == <<user_turns, assistant_turns>>
toolVars   == <<tool_calls, tool_tasks, errors>>
metricVars == <<total_tool_calls, total_errors>>
envVars    == <<interaction_config_file, instance_dict, env, state, native>>
ctxVars    == <<ctx, content>>
vars == <<pc, tokenVars, turnVars, toolVars, metricVars, envVars, ctxVars, output, batch>>

-----------------------------------------------------------------------------
\* What becomes of a tool call inside _call_tool: "malformed" raises before the
\* tool runs (bad JSON, unknown name), "rejected" makes Action(...) raise inside
\* execute, "tool" is an ordinary environment tool, "transfer" the terminate tool.
CallKinds == {"malformed", "rejected", "tool", "transfer"}
CallSeqs  == UNION {[1..k -> CallKinds] : k \in 0..MaxCalls}

HistoryTools == {"tool", "transfer", "implicit_think"}

\* make_initial_state
InitialState ==
    [total_reward |-> 0, num_tool_calls |-> 0, num_user_turns |-> 0,
     done |-> FALSE, contaminated |-> FALSE, action_history |-> <<>>,
     transferred_to_human |-> FALSE]

\* The tokens of a policy message are trained on, those of an observation not.
Trained(n) == [i \in 1..n |-> 1]
Masked(n)  == [i \in 1..n |-> 0]

\* Defect: the mask is handed over whole.
Unclipped(m) == m

\* x[: response_length]
Clip(n)     == IF n > response_length THEN response_length ELSE n
ClipMask(m) == SubSeq(m, 1, Clip(Len(m)))

-----------------------------------------------------------------------------
Init ==
    /\ interaction_config_file \in {None, "yaml"}
    /\ pc = [t \in Trajs |-> "created"]
    /\ instance_dict = {}
    /\ env = [t \in Trajs |-> None]
    /\ state = [t \in Trajs |-> None]
    /\ ctx = [t \in Trajs |-> None]
    /\ content = [t \in Trajs |-> 0]
    /\ prompt_ids = [t \in Trajs |-> 0]
    /\ response_mask = [t \in Trajs |-> <<>>]
    /\ response_logprobs = [t \in Trajs |-> 0]
    /\ user_turns = [t \in Trajs |-> 0]
    /\ assistant_turns = [t \in Trajs |-> 0]
    /\ total_tool_calls = [t \in Trajs |-> 0]
    /\ total_errors = [t \in Trajs |-> 0]
    /\ tool_calls = [t \in Trajs |-> <<>>]
    /\ tool_tasks = [t \in Trajs |-> <<>>]
    /\ errors = [t \in Trajs |-> 0]
    /\ output = [t \in Trajs |-> None]
    /\ batch = "running"
    /\ native = [t \in Trajs |-> None]

\* Defect: the env is bound to a module global, which all tasks read.
BindGlobal(t) == [u \in Trajs |-> t]

\* CURRENT_TAU_ENV.set and CURRENT_TAU_STATE.set, in the context of the task of t.
Bind(t) == [ctx EXCEPT ![t] = t]

Goto(t, l) == pc' = [pc EXCEPT ![t] = l]

\* An exception escapes run(): the task of t ends and nothing of it is undone.
Raises(t) ==
    /\ Goto(t, "raised")
    /\ UNCHANGED <<tokenVars, turnVars, toolVars, metricVars, envVars, ctxVars, output, batch>>

\* run() up to the state machine: start_interaction makes and resets the env,
\* binds env and state to the task's context and registers both.
StartInteraction(t) ==
    /\ pc[t] = "created"
    /\ Goto(t, "pending")
    /\ IF interaction_config_file # None
       THEN /\ \E trivial \in BOOLEAN : env' = [env EXCEPT ![t] = Reset(trivial)]
            /\ state' = [state EXCEPT ![t] = InitialState]
            /\ ctx' = Bind(t)
            /\ instance_dict' = instance_dict \cup {t}
       ELSE UNCHANGED <<env, state, ctx, instance_dict>>
    /\ UNCHANGED <<interaction_config_file, tokenVars, turnVars, toolVars, metricVars, native,
                   content, output, batch>>

\* The user simulator's first message, asked for by env.reset, does not arrive.
StartRaises(t) == interaction_config_file # None /\ pc[t] = "created" /\ Raises(t)

HandlePending(t) ==
    /\ pc[t] = "pending"
    /\ prompt_ids' = [prompt_ids EXCEPT ![t] = PromptLen]
    /\ Goto(t, "generating")
    /\ UNCHANGED <<response_mask, response_logprobs, turnVars, toolVars, metricVars,
                   envVars, ctxVars, output, batch>>

-----------------------------------------------------------------------------
\* prompt_ids, response_mask and response_logprobs grow together: by n tokens
\* of the policy, or by n tokens it did not write.
ExtendByPolicy(t, n) ==
    /\ prompt_ids' = [prompt_ids EXCEPT ![t] = @ + n]
    /\ response_mask' = [response_mask EXCEPT ![t] = @ \o Trained(n)]
    /\ response_logprobs' = [response_logprobs EXCEPT ![t] = IF LogProbs THEN @ + n ELSE @]

\* Defect: observation tokens get no placeholder log-probabilities.
ExtendWithoutLogprobs(t, n) ==
    /\ prompt_ids' = [prompt_ids EXCEPT ![t] = @ + n]
    /\ response_mask' = [response_mask EXCEPT ![t] = @ \o Masked(n)]
    /\ UNCHANGED response_logprobs

ExtendByObservation(t, n) ==
    /\ prompt_ids' = [prompt_ids EXCEPT ![t] = @ + n]
    /\ response_mask' = [response_mask EXCEPT ![t] = @ \o Masked(n)]
    /\ response_logprobs' = [response_logprobs EXCEPT ![t] = IF @ > 0 THEN @ + n ELSE @]

\* Defect: the user-turn cap is tested with > and lets one round too many in.
StopsLate(t, n) ==
    \/ Len(response_mask[t]) + n >= response_length
    \/ max_assistant_turns > 0 /\ assistant_turns[t] + 1 >= max_assistant_turns
    \/ max_user_turns > 0 /\ user_turns[t] > max_user_turns

\* The three early returns of _handle_generating_state, after n more tokens.
MustStop(t, n) ==
    \/ Len(response_mask[t]) + n >= response_length
    \/ max_assistant_turns > 0 /\ assistant_turns[t] + 1 >= max_assistant_turns
    \/ max_user_turns > 0 /\ user_turns[t] >= max_user_turns

\* Defect: without tool calls the user is asked, interaction or not.
AlwaysInteract(calls) == IF calls # <<>> THEN "processing_tools" ELSE "interacting"

\* Where a message with the given tool calls leads.
AfterMessage(calls) ==
    CASE calls # <<>> -> "processing_tools"
      [] calls = <<>> /\ interaction_config_file # None -> "interacting"
      [] calls = <<>> /\ interaction_config_file = None -> "terminated"

\* Defect: the content is recorded before the turn is counted.
RecordPrevious(t, calls) ==
    IF interaction_config_file # None /\ calls # <<>>
    THEN [content EXCEPT ![t] = assistant_turns[t]]
    ELSE content

\* record_assistant_content: the message of this turn, when it holds tool calls.
RecordContent(t, calls) ==
    IF interaction_config_file # None /\ calls # <<>>
    THEN [content EXCEPT ![t] = assistant_turns[t] + 1]
    ELSE content

HandleGenerating(t, n) ==
    /\ pc[t] = "generating"
    /\ ExtendByPolicy(t, n)
    /\ assistant_turns' = [assistant_turns EXCEPT ![t] = @ + 1]
    /\ \/ /\ MustStop(t, n)
          /\ Goto(t, "terminated")
          /\ UNCHANGED <<tool_calls, content>>
       \/ /\ ~MustStop(t, n)
          /\ \E calls \in CallSeqs :
                /\ tool_calls' = [tool_calls EXCEPT ![t] = calls]
                /\ content' = RecordContent(t, calls)
                /\ Goto(t, AfterMessage(calls))
    /\ UNCHANGED <<user_turns, tool_tasks, errors, metricVars, envVars, ctx, output, batch>>

\* server_manager.generate raises (a dead server, an aborted request).
GenerateRaises(t) == pc[t] = "generating" /\ Raises(t)

-----------------------------------------------------------------------------
\* Defect: a task for every call of the message.
GatherAll(t) ==
    [i \in 1..Len(tool_calls[t]) |->
        [kind |-> tool_calls[t][i], ctx |-> ctx[t], content |-> content[t]]]

\* tool_calls[: max_parallel_calls], one task each; asyncio gives every task a
\* copy of the context of the task that creates it.
GatheredTasks(t) ==
    LET calls == tool_calls[t]
        k == IF Len(calls) > max_parallel_calls THEN max_parallel_calls ELSE Len(calls)
    IN  [i \in 1..k |-> [kind |-> calls[i], ctx |-> ctx[t], content |-> content[t]]]

SpawnTools(t) ==
    /\ pc[t] = "processing_tools"
    /\ tool_tasks' = [tool_tasks EXCEPT ![t] = GatheredTasks(t)]
    /\ Goto(t, "calling")
    /\ UNCHANGED <<tool_calls, errors, tokenVars, turnVars, metricVars, envVars, ctxVars, output, batch>>

\* Defect: the done flag of the step is not kept in the state.
ExecutedNotDone(s, task, r) ==
    [s EXCEPT !.total_reward = @ + r.reward,
              !.num_tool_calls = @ + 1,
              !.action_history = Append(@, [tool |-> task.kind, content |-> task.content])]

\* TauBenchTool.execute on a state dict, after env.step gave r.
Executed(s, task, r) ==
    [s EXCEPT !.total_reward = @ + r.reward,
              !.num_tool_calls = @ + 1,
              !.done = @ \/ r.done,
              !.action_history = Append(@, [tool |-> task.kind, content |-> task.content]),
              !.transferred_to_human = @ \/ task.kind = "transfer"]

ToolResults(e, kind) == IF kind = "transfer" THEN TransferStep(env[e]) ELSE ToolStep(env[e])

\* The reward tau-bench itself gives an episode, which ends with the first done.
FirstDone(e, r) ==
    IF r.done /\ native[e] = None THEN [native EXCEPT ![e] = r.reward] ELSE native

NextTask(t) ==
    /\ pc[t] = "calling" /\ tool_tasks[t] # <<>>
    /\ tool_tasks' = [tool_tasks EXCEPT ![t] = Tail(@)]
    /\ UNCHANGED <<interaction_config_file, pc, tool_calls, tokenVars, turnVars, metricVars,
                   instance_dict, ctxVars, output, batch>>

\* _call_tool swallows what is raised before env.step: a malformed call, and the
\* RuntimeError of a tool that finds no env in its context.  The answer reads
\* "Error when executing tool: ...", which is no "Error:" response.
CallToolSwallowed(t) ==
    /\ NextTask(t)
    /\ LET task == Head(tool_tasks[t]) IN task.kind = "malformed" \/ task.ctx = None
    /\ UNCHANGED <<env, state, native, errors>>

\* Action(...) raises in execute: an "Error:" response and an untouched state.
CallToolRejected(t) ==
    /\ NextTask(t)
    /\ LET task == Head(tool_tasks[t]) IN task.kind = "rejected" /\ task.ctx # None
    /\ errors' = [errors EXCEPT ![t] = @ + 1]
    /\ UNCHANGED <<env, state, native>>

CallTool(t) ==
    /\ NextTask(t)
    /\ LET task == Head(tool_tasks[t])
           e == task.ctx
       IN  /\ task.kind \in {"tool", "transfer"} /\ e # None
           /\ \E r \in ToolResults(e, task.kind) :
                /\ env' = [env EXCEPT ![e] = r.env]
                /\ state' = [state EXCEPT ![e] = Executed(@, task, r)]
                /\ native' = FirstDone(e, r)
                /\ errors' = [errors EXCEPT ![t] = IF r.error THEN @ + 1 ELSE @]

\* The rest of _handle_processing_tools_state, with n tokens of tool messages.
GatherTools(t, n) ==
    /\ pc[t] = "calling" /\ tool_tasks[t] = <<>>
    /\ total_tool_calls' = [total_tool_calls EXCEPT ![t] = @ + Len(tool_calls[t])]
    /\ total_errors' = [total_errors EXCEPT ![t] = @ + errors[t]]
    /\ errors' = [errors EXCEPT ![t] = 0]
    /\ \/ /\ Len(response_mask[t]) + n >= response_length
          /\ Goto(t, "terminated")
          /\ UNCHANGED <<tokenVars, user_turns>>
       \/ /\ Len(response_mask[t]) + n < response_length
          /\ ExtendByObservation(t, n)
          /\ user_turns' = [user_turns EXCEPT ![t] = @ + 1]
          /\ Goto(t, "generating")
    /\ UNCHANGED <<assistant_turns, tool_calls, tool_tasks, envVars, ctxVars, output, batch>>

-----------------------------------------------------------------------------
\* generate_response records a long message as implicit_think, unless the same
\* text is already the last entry.
HistoriesAfterMessage(t) ==
    LET h == state[t].action_history
        think == [tool |-> "implicit_think", content |-> assistant_turns[t]]
    IN  {h, Append(h, think)}

\* _handle_interacting_state around generate_response: the answer becomes n
\* tokens of the prompt, whether the conversation goes on or not.
Interacting(t, n) ==
    /\ pc[t] = "interacting"
    /\ t \in instance_dict
    /\ ctx' = Bind(t)
    /\ user_turns' = [user_turns EXCEPT ![t] = @ + 1]
    /\ ExtendByObservation(t, n)
    /\ UNCHANGED <<interaction_config_file, assistant_turns, toolVars, metricVars, instance_dict,
                   content, output, batch>>

\* Defect: a contaminated trajectory is flagged and goes on.
ContaminatedGoesOn(t, n) ==
    /\ Interacting(t, n)
    /\ \E h \in HistoriesAfterMessage(t) :
          state' = [state EXCEPT ![t].action_history = h, ![t].contaminated = TRUE]
    /\ Goto(t, "generating")
    /\ UNCHANGED <<env, native>>

\* The message holds a forbidden template token: terminate, no env.step.
RespondContaminated(t, n) ==
    /\ Interacting(t, n)
    /\ \E h \in HistoriesAfterMessage(t) :
          state' = [state EXCEPT ![t].action_history = h,
                                 ![t].contaminated = TRUE, ![t].done = TRUE]
    /\ Goto(t, "terminated")
    /\ UNCHANGED <<env, native>>

\* The user simulator raises in env.step: terminate.
RespondRaises(t, n) ==
    /\ Interacting(t, n)
    /\ \E h \in HistoriesAfterMessage(t) :
          state' = [state EXCEPT ![t].action_history = h, ![t].done = TRUE]
    /\ \E h \in Heard(env[t]) : env' = [env EXCEPT ![t] = h]
    /\ Goto(t, "terminated")
    /\ UNCHANGED native

\* generate_response stops the conversation on a done step or a spent budget.
Ends(s, r) == r.done \/ s.num_user_turns + s.num_tool_calls >= max_turns

\* The state dict after env.step(RESPOND) gave r and the history became h.
Responded(s, h, r) ==
    [s EXCEPT !.total_reward = @ + r.reward, !.num_user_turns = @ + 1, !.action_history = h]

Respond(t, n) ==
    /\ Interacting(t, n)
    /\ \E h \in HistoriesAfterMessage(t), r \in RespondStep(env[t]) :
          LET s == Responded(state[t], h, r)
          IN  /\ env' = [env EXCEPT ![t] = r.env]
              /\ native' = FirstDone(t, r)
              /\ state' = [state EXCEPT ![t] = [s EXCEPT !.done = @ \/ Ends(s, r)]]
              /\ Goto(t, IF Ends(s, r) THEN "terminated" ELSE "generating")

-----------------------------------------------------------------------------
\* Defect: the accumulated reward itself is the score.
RawReward(t) == IF t \in instance_dict THEN state[t].total_reward ELSE 0

\* calculate_score in binary mode: outcome, from the accumulated reward alone.
CalculateScore(t) ==
    IF t \in instance_dict THEN IF state[t].total_reward >= 1 THEN 1 ELSE 0 ELSE 0

\* prompt_ids[-len(mask):] is the whole prompt when the mask is empty.
ResponseLen(t) ==
    IF response_mask[t] = <<>> THEN prompt_ids[t] ELSE Len(response_mask[t])

\* run() after the state machine.
Finish(t) ==
    /\ pc[t] = "terminated"
    /\ output' = [output EXCEPT ![t] =
          [prompt   |-> prompt_ids[t] - Len(response_mask[t]),
           response |-> Clip(ResponseLen(t)),
           mask     |-> ClipMask(response_mask[t]),
           logprobs |-> Clip(response_logprobs[t]),
           score    |-> IF interaction_config_file # None THEN CalculateScore(t) ELSE None,
           turns    |-> user_turns[t] + assistant_turns[t] + 1]]
    /\ Goto(t, "finished")
    /\ UNCHANGED <<tokenVars, turnVars, toolVars, metricVars, envVars, ctxVars, batch>>

\* Defect: the batch returns with the first output.
ReturnsEarly ==
    /\ batch = "running"
    /\ \E t \in Trajs : pc[t] = "finished"
    /\ batch' = "returned"
    /\ UNCHANGED <<pc, tokenVars, turnVars, toolVars, metricVars, envVars, ctxVars, output>>

\* asyncio.gather in generate_sequences: all outputs, or the first exception
\* while the other tasks run on.
BatchReturns ==
    /\ batch = "running"
    /\ \A t \in Trajs : pc[t] = "finished"
    /\ batch' = "returned"
    /\ UNCHANGED <<pc, tokenVars, turnVars, toolVars, metricVars, envVars, ctxVars, output>>

\* Defect: gather waits for every task to raise.
RaisesLate ==
    /\ batch = "running"
    /\ \A t \in Trajs : pc[t] = "raised"
    /\ batch' = "raised"
    /\ UNCHANGED <<pc, tokenVars, turnVars, toolVars, metricVars, envVars, ctxVars, output>>

BatchRaises ==
    /\ batch = "running"
    /\ \E t \in Trajs : pc[t] = "raised"
    /\ batch' = "raised"
    /\ UNCHANGED <<pc, tokenVars, turnVars, toolVars, metricVars, envVars, ctxVars, output>>

-----------------------------------------------------------------------------
Step(t) ==
    \/ StartInteraction(t)
    \/ StartRaises(t)
    \/ HandlePending(t)
    \/ \E n \in GenLens : HandleGenerating(t, n)
    \/ GenerateRaises(t)
    \/ SpawnTools(t)
    \/ CallToolSwallowed(t)
    \/ CallToolRejected(t)
    \/ CallTool(t)
    \/ \E n \in ObsLens : GatherTools(t, n)
    \/ \E n \in ObsLens : RespondContaminated(t, n)
    \/ \E n \in ObsLens : RespondRaises(t, n)
    \/ \E n \in ObsLens : Respond(t, n)
    \/ Finish(t)

Next == BatchReturns \/ BatchRaises \/ \E t \in Trajs : Step(t)

\* The event loop runs every ready task, and an awaited generate call answers or
\* raises; which of the two, and what it says, is left open.
Fairness == WF_vars(BatchReturns \/ BatchRaises) /\ \A t \in Trajs : WF_vars(Step(t))

Spec == Init /\ [][Next]_vars /\ Fairness
=============================================================================
