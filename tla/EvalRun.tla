------------------------------- MODULE EvalRun -------------------------------
(***************************************************************************)
(* One evaluation: run_eval in src/evaluation/pass_k_eval.py hands a job   *)
(* per sample to a pool of threads, and every job runs one trajectory,     *)
(* TauBenchWrapper.run_single_task, against a VLLMPolicy object.  The      *)
(* contamination mark of a trajectory travels through the attribute        *)
(* was_truncated of that object; policy says which jobs share one.         *)
(*                                                                         *)
(* An action touches the flag once: threads interleave between any two.    *)
(***************************************************************************)
EXTENDS TauEnv, Sequences, FiniteSets

CONSTANTS
    Jobs,         \* the samples of all tasks
    Policies,     \* the VLLMPolicy objects
    policy,       \* policy[j]: what policy_factory returns for job j
    None,         \* Python's None
    Calls,        \* tool calls a message may hold, told apart by their signature
    Transfers,    \* those that name the terminate tool
    Malformed,    \* those whose arguments are no JSON object
    MaxCalls,     \* bound: tool calls in one message
    Messages,     \* bound: Messages[j], the tool calls a message to job j may hold, by order
    num_workers,  \* threads of the pool
    max_turns,    \* messages a trajectory may take
    loop_window,  \* how many recent calls loop detection looks at: 20
    loop_limit    \* how many equal ones it allows to come together: 3

ASSUME EvalAssumption ==
    /\ Jobs # {} /\ policy \in [Jobs -> Policies]
    /\ None \notin Nat
    /\ Transfers \subseteq Calls /\ Malformed \subseteq Calls \ Transfers
    /\ \A j \in Jobs : Messages[j] \subseteq UNION {[1..k -> Calls] : k \in 0..MaxCalls}
    /\ MaxCalls \in Nat /\ num_workers \in Nat \ {0} /\ max_turns \in Nat \ {0}
    /\ loop_window \in Nat \ {0} /\ loop_limit \in Nat \ {0}

VARIABLES
    pc,                \* where the thread of job j stands in run_single_task
    was_truncated,     \* was_truncated[p], the flag of policy object p
    env,               \* env[j], or None
    total_reward, turn_idx, tool_call_count,
    recent_tool_calls, \* signatures of the last calls
    tool_calls,        \* calls of the last message not yet executed
    was_contaminated_from_turn,
    error,             \* "none", "loop" or "exception"
    long,              \* the history of j is longer than max_chars
    results,           \* jobs whose TrajectoryResult run_eval has stored
    main,              \* run_eval: "collecting", "leaving", "reported", "raised"
    executed,          \* history: the calls of j that reached env.step
    flagged,           \* history: turn of the first message of j that its own call flagged
    native             \* history: reward of the done step of env[j], or None

flagVars == <<was_truncated, was_contaminated_from_turn, flagged, long>>
callVars == <<tool_calls, recent_tool_calls, tool_call_count, executed>>
envVars  == <<env, total_reward, native>>
mainVars == <<results, main>>
vars == <<pc, flagVars, callVars, envVars, turn_idx, error, mainVars>>

-----------------------------------------------------------------------------
Running == {"starting", "looping", "asking", "waiting", "returned", "tools", "responding"}
Ended   == {"finished", "raised"}

Init ==
    /\ pc = [j \in Jobs |-> "queued"]
    /\ was_truncated = [p \in Policies |-> FALSE]
    /\ env = [j \in Jobs |-> None]
    /\ total_reward = [j \in Jobs |-> 0]
    /\ turn_idx = [j \in Jobs |-> 0]
    /\ tool_call_count = [j \in Jobs |-> 0]
    /\ recent_tool_calls = [j \in Jobs |-> <<>>]
    /\ tool_calls = [j \in Jobs |-> <<>>]
    /\ was_contaminated_from_turn = [j \in Jobs |-> None]
    /\ error = [j \in Jobs |-> "none"]
    /\ long = [j \in Jobs |-> FALSE]
    /\ executed = [j \in Jobs |-> <<>>]
    /\ results = {}
    /\ main = "collecting"
    /\ flagged = [j \in Jobs |-> None]
    /\ native = [j \in Jobs |-> None]

Goto(j, l) == pc' = [pc EXCEPT ![j] = l]

\* Defect: the loop ends on done only.
UntilDone(j, done) ==
    /\ turn_idx' = turn_idx
    /\ Goto(j, IF ~done THEN "looping" ELSE "finished")

\* Defect: the loop runs while turn_idx <= max_turns.
OneTurnMore(j, done) ==
    /\ turn_idx' = [turn_idx EXCEPT ![j] = @ + 1]
    /\ Goto(j, IF ~done /\ turn_idx[j] + 1 <= max_turns THEN "looping" ELSE "finished")

\* while not done and turn_idx < max_turns, tested with the new turn_idx.
NextTurn(j, done) ==
    /\ turn_idx' = [turn_idx EXCEPT ![j] = @ + 1]
    /\ Goto(j, IF ~done /\ turn_idx[j] + 1 < max_turns THEN "looping" ELSE "finished")

\* An exception inside the try block ends the trajectory, with a result.
Caught(j) ==
    /\ error' = [error EXCEPT ![j] = "exception"]
    /\ Goto(j, "finished")

-----------------------------------------------------------------------------
(* run_single_task up to its loop.                                         *)

\* A thread of the pool takes a job.
Begin(j) ==
    /\ pc[j] = "queued"
    /\ Cardinality({i \in Jobs : pc[i] \in Running}) < num_workers
    /\ Goto(j, "starting")
    /\ UNCHANGED <<flagVars, callVars, envVars, turn_idx, error, mainVars>>

\* env.reset has the user's first message; the flag of the policy is cleared.
ResetTask(j) ==
    /\ pc[j] = "starting"
    /\ \E trivial \in BOOLEAN : env' = [env EXCEPT ![j] = Reset(trivial)]
    /\ was_truncated' = [was_truncated EXCEPT ![policy[j]] = FALSE]
    /\ Goto(j, "looping")
    /\ UNCHANGED <<was_contaminated_from_turn, flagged, long, callVars, total_reward, native,
                   turn_idx, error, mainVars>>

\* get_env or env.reset raises outside the try block: no result.
StartRaises(j) ==
    /\ pc[j] = "starting"
    /\ Goto(j, "raised")
    /\ UNCHANGED <<flagVars, callVars, envVars, turn_idx, error, mainVars>>

-----------------------------------------------------------------------------
(* VLLMPolicy.__call__.                                                    *)

\* The own call of j flags the message of this turn.
Flag(j) == [flagged EXCEPT ![j] = IF @ = None THEN turn_idx[j] ELSE @]

Cleared(j) == [was_truncated EXCEPT ![policy[j]] = FALSE]

Call(j) ==
    /\ pc[j] = "looping"
    /\ was_truncated' = Cleared(j)
    /\ Goto(j, "asking")
    /\ UNCHANGED <<was_contaminated_from_turn, flagged, long, callVars, envVars, turn_idx, error,
                   mainVars>>

\* _truncate_messages sets the flag for a history over max_chars, and the request
\* goes out; a history that was too long once stays too long.
Ask(j) ==
    /\ pc[j] = "asking"
    /\ \/ UNCHANGED <<was_truncated, flagged, long>> /\ ~long[j]
       \/ /\ was_truncated' = [was_truncated EXCEPT ![policy[j]] = TRUE]
          /\ flagged' = Flag(j)
          /\ long' = [long EXCEPT ![j] = TRUE]
    /\ Goto(j, "waiting")
    /\ UNCHANGED <<was_contaminated_from_turn, callVars, envVars, turn_idx, error, mainVars>>

\* A forbidden template token in the answer sets the flag as well.
Filter(j, forbidden) ==
    IF forbidden
    THEN /\ was_truncated' = [was_truncated EXCEPT ![policy[j]] = TRUE]
         /\ flagged' = Flag(j)
    ELSE UNCHANGED <<was_truncated, flagged>>

\* The server answers; an error other than the context length reads like an
\* answer without tool calls.
Answer(j) ==
    /\ pc[j] = "waiting"
    /\ \E forbidden \in BOOLEAN, calls \in Messages[j] :
          /\ Filter(j, forbidden)
          /\ tool_calls' = [tool_calls EXCEPT ![j] = calls]
    /\ Goto(j, "returned")
    /\ UNCHANGED <<was_contaminated_from_turn, long, recent_tool_calls, tool_call_count, executed,
                   envVars, turn_idx, error, mainVars>>

\* The context length is exceeded: RuntimeError.
ContextExceeded(j) ==
    /\ pc[j] = "waiting"
    /\ Caught(j)
    /\ UNCHANGED <<flagVars, callVars, envVars, turn_idx, mainVars>>

-----------------------------------------------------------------------------
(* The body of the loop after policy(messages).                            *)

\* Defect: a later turn overwrites the mark.
MarkLast(j) ==
    IF was_truncated[policy[j]]
    THEN [was_contaminated_from_turn EXCEPT ![j] = turn_idx[j]]
    ELSE was_contaminated_from_turn

Mark(j) ==
    IF was_truncated[policy[j]] /\ was_contaminated_from_turn[j] = None
    THEN [was_contaminated_from_turn EXCEPT ![j] = turn_idx[j]]
    ELSE was_contaminated_from_turn

\* Defect: the cut keeps the oldest calls, [:20] for [-20:].
OldestKept(j) ==
    LET all == recent_tool_calls[j] \o tool_calls[j]
    IN  IF Len(all) > loop_window THEN SubSeq(all, 1, loop_window) ELSE all

\* recent_tool_calls with the calls of this message, cut to the window.
Recent(j) ==
    LET all == recent_tool_calls[j] \o tool_calls[j]
        n == Len(all)
    IN  IF n > loop_window THEN SubSeq(all, n - loop_window + 1, n) ELSE all

Occurrences(s, x) == Cardinality({i \in 1..Len(s) : s[i] = x})

Looped(j) == \E x \in Calls : Occurrences(Recent(j), x) >= loop_limit

\* The flag is read, then the calls of the message are counted.
Inspect(j) ==
    /\ pc[j] = "returned"
    /\ was_contaminated_from_turn' = Mark(j)
    /\ recent_tool_calls' = [recent_tool_calls EXCEPT ![j] = Recent(j)]
    /\ \/ /\ tool_calls[j] = <<>>
          /\ Goto(j, "responding")
          /\ UNCHANGED error
       \/ /\ tool_calls[j] # <<>> /\ ~Looped(j)
          /\ Goto(j, "tools")
          /\ UNCHANGED error
       \/ /\ tool_calls[j] # <<>> /\ Looped(j)
          /\ error' = [error EXCEPT ![j] = "loop"]
          /\ Goto(j, "finished")
    /\ UNCHANGED <<was_truncated, flagged, long, tool_calls, tool_call_count, executed, envVars,
                   turn_idx, mainVars>>

\* What env.step returned is added up.
Stepped(j, r) ==
    /\ env' = [env EXCEPT ![j] = r.env]
    /\ total_reward' = [total_reward EXCEPT ![j] = @ + r.reward]
    /\ native' = IF r.done /\ native[j] = None THEN [native EXCEPT ![j] = r.reward] ELSE native

\* Defect: a done step does not leave the loop over the calls of the message.
Exhausted(j, done) == Len(tool_calls[j]) = 1

\* After this call the message is dealt with.
LastCall(j, done) == done \/ Len(tool_calls[j]) = 1

ExecuteCall(j) ==
    /\ pc[j] = "tools"
    /\ Head(tool_calls[j]) \notin Malformed
    /\ tool_call_count' = [tool_call_count EXCEPT ![j] = @ + 1]
    /\ tool_calls' = [tool_calls EXCEPT ![j] = Tail(@)]
    /\ executed' = [executed EXCEPT ![j] = Append(@, Head(tool_calls[j]))]
    /\ \E r \in IF Head(tool_calls[j]) \in Transfers THEN TransferStep(env[j]) ELSE ToolStep(env[j]) :
          /\ Stepped(j, r)
          /\ IF LastCall(j, r.done)
             THEN NextTurn(j, r.done)
             ELSE UNCHANGED <<pc, turn_idx>>
    /\ UNCHANGED <<flagVars, recent_tool_calls, error, mainVars>>

\* json.loads or Action(...) raises on the arguments.
MalformedCall(j) ==
    /\ pc[j] = "tools"
    /\ Head(tool_calls[j]) \in Malformed
    /\ tool_call_count' = [tool_call_count EXCEPT ![j] = @ + 1]
    /\ Caught(j)
    /\ UNCHANGED <<flagVars, tool_calls, recent_tool_calls, executed, envVars, turn_idx, mainVars>>

\* The message goes to the user, and the reward of a done step is added.
RespondToUser(j) ==
    /\ pc[j] = "responding"
    /\ \E r \in RespondStep(env[j]) : Stepped(j, r) /\ NextTurn(j, r.done)
    /\ UNCHANGED <<flagVars, callVars, error, mainVars>>

\* The user simulator raises in env.step.
UserRaises(j) ==
    /\ pc[j] = "responding"
    /\ \E h \in Heard(env[j]) : env' = [env EXCEPT ![j] = h]
    /\ Caught(j)
    /\ UNCHANGED <<flagVars, callVars, total_reward, native, turn_idx, mainVars>>

-----------------------------------------------------------------------------
(* run_eval.                                                               *)

Success(j) == total_reward[j] >= 1

\* as_completed yields a job that returned.
Store(j) ==
    /\ main = "collecting" /\ pc[j] = "finished" /\ j \notin results
    /\ results' = results \cup {j}
    /\ UNCHANGED <<pc, flagVars, callVars, envVars, turn_idx, error, main>>

\* as_completed yields a job that raised: fut.result() raises, and the with
\* statement lets the pool run all submitted jobs before the exception goes on.
StoreRaises(j) ==
    /\ main = "collecting" /\ pc[j] = "raised"
    /\ main' = "leaving"
    /\ UNCHANGED <<pc, flagVars, callVars, envVars, turn_idx, error, results>>

Report ==
    /\ main = "collecting" /\ results = Jobs
    /\ main' = "reported"
    /\ UNCHANGED <<pc, flagVars, callVars, envVars, turn_idx, error, results>>

Leave ==
    /\ main = "leaving" /\ \A j \in Jobs : pc[j] \in Ended
    /\ main' = "raised"
    /\ UNCHANGED <<pc, flagVars, callVars, envVars, turn_idx, error, results>>

-----------------------------------------------------------------------------
Work(j) ==
    \/ Begin(j) \/ ResetTask(j) \/ StartRaises(j)
    \/ Call(j) \/ Ask(j) \/ Answer(j) \/ ContextExceeded(j)
    \/ Inspect(j) \/ ExecuteCall(j) \/ MalformedCall(j)
    \/ RespondToUser(j) \/ UserRaises(j)

Collect == Report \/ Leave \/ \E j \in Jobs : Store(j) \/ StoreRaises(j)

Next == Collect \/ \E j \in Jobs : Work(j)

\* Threads are scheduled and every request of a thread returns or raises: the
\* clients of the model and of the user simulator give up in the end.
Fairness == WF_vars(Collect) /\ \A j \in Jobs : WF_vars(Work(j))

Spec == Init /\ [][Next]_vars /\ Fairness
=============================================================================
