---------------------------- MODULE EvalRunProofs ----------------------------
(***************************************************************************)
(* Theorems about EvalRun for any number of jobs, threads, turns and calls *)
(* per message: what the report counts as a success is tau-bench's own     *)
(* reward, and with a policy object per job a contamination mark is exact. *)
(***************************************************************************)
EXTENDS EvalRunProps, SequenceTheorems, FiniteSetTheorems, TLAPS

-----------------------------------------------------------------------------
(* Success.  Inductive is that a done step ends the trajectory at once, so that  *)
(* nothing is added to the reward after it.                                      *)

RewardTypes ==
    /\ pc \in [Jobs -> {"queued"} \cup Running \cup Ended]
    /\ total_reward \in [Jobs -> {0, 1}]
    /\ native \in [Jobs -> {0, 1, None}]

Paid(j) ==
    /\ total_reward[j] = IF native[j] = 1 THEN 1 ELSE 0
    /\ native[j] # None => pc[j] = "finished"

PaidInv == RewardTypes /\ \A j \in Jobs : Paid(j)

\* A job that moves among the places of run_single_task without a step of its env.
LEMMA PaidMove ==
    ASSUME PaidInv, NEW j \in Jobs, NEW l \in {"queued"} \cup Running \cup Ended,
           pc[j] # "finished", Goto(j, l), UNCHANGED <<total_reward, native>>
    PROVE  PaidInv'
  BY DEF PaidInv, RewardTypes, Paid, Goto

\* Where a turn may lead.
LEMMA NextTurnGoes ==
    ASSUME NEW j \in Jobs, NEW done \in BOOLEAN, NextTurn(j, done)
    PROVE  \E l \in {"looping", "finished"} : Goto(j, l) /\ (done => l = "finished")
  BY DEF NextTurn

\* A step of the env is paid, and ends the trajectory when it is done.
LEMMA PaidStep ==
    ASSUME PaidInv, NEW j \in Jobs, pc[j] # "finished", NEW r, Stepped(j, r),
           r.done \in BOOLEAN, r.reward \in {0, 1}, ~r.done => r.reward = 0,
           NEW l \in Running \cup {"finished"}, Goto(j, l), r.done => l = "finished"
    PROVE  PaidInv'
  <1>1. native[j] = None /\ total_reward[j] = 0
    BY EvalAssumption DEF PaidInv, Paid
  <1>2. total_reward' = [total_reward EXCEPT ![j] = r.reward]
    <2>1. total_reward[j] + r.reward = r.reward
      BY <1>1
    <2>2. total_reward' = [total_reward EXCEPT ![j] = total_reward[j] + r.reward]
      BY DEF Stepped
    <2> QED
      BY <2>1, <2>2
  <1>3. CASE r.done
    <2>1. native' = [native EXCEPT ![j] = r.reward] /\ l = "finished"
      BY <1>1, <1>3 DEF Stepped
    <2> QED
      BY <1>1, <1>2, <2>1 DEF PaidInv, RewardTypes, Paid, Goto, Ended
  <1>4. CASE ~r.done
    <2>1. native' = native /\ r.reward = 0
      BY <1>1, <1>4 DEF Stepped
    <2> QED
      BY <1>1, <1>2, <2>1, EvalAssumption DEF PaidInv, RewardTypes, Paid, Goto, Running, Ended
  <1> QED
    BY <1>3, <1>4

\* Every result of env.step has these fields, whatever the env holds.
LEMMA ResultFields ==
    ASSUME NEW e, NEW r, r \in ToolStep(e) \cup TransferStep(e) \cup RespondStep(e)
    PROVE  r.done \in BOOLEAN /\ r.reward \in {0, 1} /\ (~r.done => r.reward = 0)
  <1>1. CASE r \in ToolStep(e)
    <2>1. PICK d \in Data, x \in BOOLEAN :
            r = [env |-> [e EXCEPT !.data = d], reward |-> 0, done |-> FALSE, error |-> x]
      BY <1>1 DEF ToolStep
    <2> QED
      BY <2>1
  <1>2. CASE r \in TransferStep(e)
    <2>1. PICK x \in BOOLEAN :
            r = [env |-> AfterReplay(e), reward |-> CalculateReward(e), done |-> TRUE, error |-> x]
      BY <1>2 DEF TransferStep
    <2> QED
      BY <2>1 DEF CalculateReward
  <1>3. CASE r \in RespondStep(e)
    <2>1. PICK h \in Heard(e) :
            r \in {[env |-> h, reward |-> 0, done |-> FALSE, error |-> FALSE],
                  [env |-> AfterReplay(h), reward |-> CalculateReward(h),
                   done |-> TRUE, error |-> FALSE]}
      BY <1>3, Zenon DEF RespondStep
    <2>2. \/ r.reward = 0 /\ r.done = FALSE
          \/ r.reward = CalculateReward(h) /\ r.done = TRUE
      BY <2>1
    <2> QED
      BY <2>2 DEF CalculateReward
  <1> QED
    BY <1>1, <1>2, <1>3

LEMMA PaidNext == PaidInv /\ [Next]_vars => PaidInv'
  <1> SUFFICES ASSUME PaidInv, [Next]_vars PROVE PaidInv'
    OBVIOUS
  <1> USE DEF Running, Ended
  <1>1. CASE Collect
    BY <1>1 DEF Collect, Report, Leave, Store, StoreRaises, PaidInv, RewardTypes, Paid, envVars
  <1>2. ASSUME NEW j \in Jobs, Work(j) PROVE PaidInv'
    <2>1. CASE Begin(j)
      BY <2>1, PaidMove DEF Begin, envVars
    <2>2. CASE ResetTask(j)
      BY <2>2, PaidMove DEF ResetTask
    <2>3. CASE StartRaises(j)
      BY <2>3, PaidMove DEF StartRaises, envVars
    <2>4. CASE Call(j)
      BY <2>4, PaidMove DEF Call, envVars
    <2>5. CASE Ask(j)
      BY <2>5, PaidMove DEF Ask, envVars
    <2>6. CASE Answer(j)
      BY <2>6, PaidMove DEF Answer, envVars
    <2>7. CASE ContextExceeded(j)
      BY <2>7, PaidMove DEF ContextExceeded, Caught, envVars
    <2>8. CASE Inspect(j)
      BY <2>8, PaidMove DEF Inspect, envVars
    <2>9. CASE ExecuteCall(j)
      <3>1. PICK r \in ToolStep(env[j]) \cup TransferStep(env[j]) :
                /\ Stepped(j, r)
                /\ IF LastCall(j, r.done) THEN NextTurn(j, r.done) ELSE UNCHANGED <<pc, turn_idx>>
        BY <2>9 DEF ExecuteCall
      <3>2. r.done \in BOOLEAN /\ r.reward \in {0, 1} /\ (~r.done => r.reward = 0)
        BY <3>1, ResultFields
      <3>3. pc[j] = "tools"
        BY <2>9 DEF ExecuteCall
      <3>4. CASE LastCall(j, r.done)
        BY <3>1, <3>2, <3>3, <3>4, NextTurnGoes, PaidStep
      <3>5. CASE ~LastCall(j, r.done)
        <4>1. ~r.done /\ Goto(j, "tools")
          BY <3>1, <3>2, <3>3, <3>5 DEF LastCall, Goto, PaidInv, RewardTypes
        <4> QED
          BY <3>1, <3>2, <3>3, <4>1, PaidStep
      <3> QED
        BY <3>4, <3>5
    <2>10. CASE MalformedCall(j)
      BY <2>10, PaidMove DEF MalformedCall, Caught, envVars
    <2>11. CASE RespondToUser(j)
      <3>1. PICK r \in RespondStep(env[j]) : Stepped(j, r) /\ NextTurn(j, r.done)
        BY <2>11 DEF RespondToUser
      <3>2. r.done \in BOOLEAN /\ r.reward \in {0, 1} /\ (~r.done => r.reward = 0)
        BY <3>1, ResultFields
      <3> QED
        BY <2>11, <3>1, <3>2, NextTurnGoes, PaidStep DEF RespondToUser
    <2>12. CASE UserRaises(j)
      BY <2>12, PaidMove DEF UserRaises, Caught
    <2> QED
      BY <1>2, <2>1, <2>2, <2>3, <2>4, <2>5, <2>6, <2>7, <2>8, <2>9, <2>10, <2>11, <2>12 DEF Work
  <1>3. CASE UNCHANGED vars
    BY <1>3 DEF vars, envVars, PaidInv, RewardTypes, Paid
  <1> QED
    BY <1>1, <1>2, <1>3 DEF Next

THEOREM PaidInvariant == Spec => []PaidInv
  <1>1. Init => PaidInv
    BY EvalAssumption DEF Init, PaidInv, RewardTypes, Paid
  <1> QED
    BY <1>1, PaidNext, PTL DEF Spec

\* A trajectory counts as a success exactly when the first done step of its env,
\* where tau-bench ends the episode, pays.
THEOREM SuccessCountsNative == Spec => []SuccessIsNative
  <1>1. PaidInv => SuccessIsNative
    BY DEF PaidInv, Paid, SuccessIsNative, Success
  <1> QED
    BY <1>1, PaidInvariant, PTL

-----------------------------------------------------------------------------
(* Marks.  Between a call of the policy and the reading of its flag the mark may *)
(* lag behind by the turn that is running; a trajectory that ends there does so  *)
(* through an exception and is no success.                                       *)

MarkTypes ==
    /\ pc \in [Jobs -> {"queued"} \cup Running \cup Ended]
    /\ was_truncated \in [Policies -> BOOLEAN]
    /\ was_contaminated_from_turn \in [Jobs -> Nat \cup {None}]
    /\ flagged \in [Jobs -> Nat \cup {None}]
    /\ turn_idx \in [Jobs -> Nat]

\* The mark of j is up to date.
Exact(j) == was_contaminated_from_turn[j] = flagged[j]

\* The mark of j is up to date but for a flag, f, that this turn has set.
Lagging(j, f) ==
    IF was_contaminated_from_turn[j] # None THEN Exact(j)
    ELSE flagged[j] = IF f THEN turn_idx[j] ELSE None

Marked(j) ==
    /\ pc[j] \in {"queued", "starting", "looping", "asking", "tools", "responding"} => Exact(j)
    /\ pc[j] = "asking" => was_truncated[policy[j]] = FALSE
    /\ pc[j] \in {"waiting", "returned"} => Lagging(j, was_truncated[policy[j]])
    /\ pc[j] \in Ended => was_contaminated_from_turn[j] \in {flagged[j], None}
    /\ pc[j] \in Ended /\ native[j] # None => Exact(j)

MarkInv == MarkTypes /\ \A j \in Jobs : Marked(j)

\* A step of j that leaves flag and mark alone, from a place where the mark is
\* exact to one where that is all that is asked.
LEMMA MarkMove ==
    ASSUME MarkInv, NEW j \in Jobs, NEW l \in {"starting", "looping", "tools", "finished", "raised"},
           pc[j] \in {"queued", "starting", "looping", "tools", "responding"}, Goto(j, l),
           UNCHANGED <<was_truncated, was_contaminated_from_turn, flagged>>,
           turn_idx' \in [Jobs -> Nat], \A u \in Jobs \ {j} : turn_idx'[u] = turn_idx[u],
           \A u \in Jobs \ {j} : native'[u] = native[u]
    PROVE  MarkInv'
  <1>1. MarkTypes'
    BY DEF MarkInv, MarkTypes, Goto, Running, Ended
  <1>2. Marked(j)'
    BY DEF MarkInv, MarkTypes, Marked, Exact, Lagging, Goto, Ended
  <1>3. ASSUME NEW u \in Jobs \ {j} PROVE Marked(u)'
    BY <1>3 DEF MarkInv, MarkTypes, Marked, Exact, Lagging, Goto
  <1> QED
    BY <1>1, <1>2, <1>3 DEF MarkInv

\* Writing the flag of its own policy object, a job touches nothing the others
\* read.
LEMMA OthersMarked ==
    ASSUME MarkInv, OwnPolicies, NEW j \in Jobs, NEW u \in Jobs \ {j}, NEW b \in BOOLEAN,
           NEW l, Goto(j, l), was_truncated' = [was_truncated EXCEPT ![policy[j]] = b],
           was_contaminated_from_turn'[u] = was_contaminated_from_turn[u],
           flagged'[u] = flagged[u], turn_idx'[u] = turn_idx[u], native'[u] = native[u]
    PROVE  Marked(u)'
  <1>1. policy[u] # policy[j] /\ policy[u] \in Policies /\ policy[j] \in Policies
    BY EvalAssumption DEF OwnPolicies
  <1>2. was_truncated'[policy[u]] = was_truncated[policy[u]]
    BY <1>1 DEF MarkInv, MarkTypes
  <1>3. pc'[u] = pc[u]
    BY DEF Goto, MarkInv, MarkTypes
  <1> QED
    BY <1>2, <1>3 DEF MarkInv, Marked, Exact, Lagging

\* The flag is cleared: at the start of a task, and before every call.
LEMMA MarkCleared ==
    ASSUME MarkInv, OwnPolicies, NEW j \in Jobs, ResetTask(j) \/ Call(j)
    PROVE  MarkInv'
  <1>1. /\ was_truncated' = [was_truncated EXCEPT ![policy[j]] = FALSE]
        /\ UNCHANGED <<was_contaminated_from_turn, flagged, turn_idx, native>>
    BY DEF ResetTask, Call, Cleared, envVars
  <1>2. PICK l \in {"looping", "asking"} : Goto(j, l)
    BY DEF ResetTask, Call
  <1>3. pc[j] \in {"starting", "looping"} /\ policy[j] \in Policies
    BY EvalAssumption DEF ResetTask, Call
  <1>4. MarkTypes'
    BY <1>1, <1>2 DEF MarkInv, MarkTypes, Goto, Running
  <1>5. was_truncated'[policy[j]] = FALSE /\ pc'[j] = l
    BY <1>1, <1>2, <1>3 DEF MarkInv, MarkTypes, Goto
  <1>6. Marked(j)'
    BY <1>1, <1>2, <1>3, <1>5 DEF MarkInv, Marked, Exact, Ended
  <1>7. \A u \in Jobs \ {j} : Marked(u)'
    BY <1>1, <1>2, OthersMarked
  <1> QED
    BY <1>4, <1>6, <1>7 DEF MarkInv

\* The own call of j flags its turn, or not, and the mark lags behind.
LEMMA MarkFlagged ==
    ASSUME MarkInv, OwnPolicies, NEW j \in Jobs, NEW l \in {"waiting", "returned"}, Goto(j, l),
           pc[j] \in {"asking", "waiting"}, UNCHANGED <<was_contaminated_from_turn, turn_idx, native>>,
           \/ UNCHANGED <<was_truncated, flagged>>
           \/ was_truncated' = [was_truncated EXCEPT ![policy[j]] = TRUE] /\ flagged' = Flag(j)
    PROVE  MarkInv'
  <1>1. policy[j] \in Policies /\ None \notin Nat
    BY EvalAssumption
  <1>2. Lagging(j, was_truncated[policy[j]])
    BY <1>1 DEF MarkInv, Marked, Lagging, Exact
  <1>3. pc'[j] = l
    BY DEF MarkInv, MarkTypes, Goto
  <1>4. CASE UNCHANGED <<was_truncated, flagged>>
    <2>1. MarkTypes'
      BY <1>4 DEF MarkInv, MarkTypes, Goto, Running
    <2>2. Marked(j)'
      BY <1>2, <1>3, <1>4 DEF Marked, Lagging, Exact, Ended
    <2>3. ASSUME NEW u \in Jobs \ {j} PROVE Marked(u)'
      BY <1>4, <2>3 DEF MarkInv, MarkTypes, Marked, Exact, Lagging, Goto
    <2> QED
      BY <2>1, <2>2, <2>3 DEF MarkInv
  <1>5. CASE was_truncated' = [was_truncated EXCEPT ![policy[j]] = TRUE] /\ flagged' = Flag(j)
    <2>1. flagged' = [flagged EXCEPT ![j] = IF flagged[j] = None THEN turn_idx[j] ELSE flagged[j]]
      BY <1>5 DEF Flag
    <2>2. flagged'[j] = IF flagged[j] = None THEN turn_idx[j] ELSE flagged[j]
      BY <2>1 DEF MarkInv, MarkTypes
    <2>3. MarkTypes'
      BY <1>5, <2>1 DEF MarkInv, MarkTypes, Goto, Running
    <2>4. was_truncated'[policy[j]] = TRUE
      BY <1>1, <1>5 DEF MarkInv, MarkTypes
    <2>5. Lagging(j, TRUE)'
      BY <1>1, <1>2, <2>2 DEF MarkInv, MarkTypes, Lagging, Exact
    <2>6. Marked(j)'
      BY <1>3, <2>4, <2>5 DEF Marked, Lagging, Ended
    <2>7. \A u \in Jobs \ {j} : flagged'[u] = flagged[u]
      BY <2>1 DEF MarkInv, MarkTypes
    <2>8. \A u \in Jobs \ {j} : Marked(u)'
      BY <1>5, <2>7, OthersMarked
    <2> QED
      BY <2>3, <2>6, <2>8 DEF MarkInv
  <1> QED
    BY <1>4, <1>5

\* Reading the flag makes the mark exact.
LEMMA MarkRead == ASSUME MarkInv, NEW j \in Jobs, Inspect(j) PROVE MarkInv'
  <1>1. /\ pc[j] = "returned" /\ was_contaminated_from_turn' = Mark(j)
        /\ UNCHANGED <<was_truncated, flagged, turn_idx, native>>
    BY DEF Inspect, envVars
  <1>2. PICK l \in {"responding", "tools", "finished"} : Goto(j, l)
    BY DEF Inspect
  <1>3. Lagging(j, was_truncated[policy[j]])
    BY <1>1 DEF MarkInv, Marked
  <1>4. /\ was_contaminated_from_turn' \in [Jobs -> Nat \cup {None}]
        /\ \A u \in Jobs \ {j} : was_contaminated_from_turn'[u] = was_contaminated_from_turn[u]
    BY <1>1 DEF Mark, MarkInv, MarkTypes
  <1>5. was_contaminated_from_turn'[j] = flagged[j]
    <2>1. CASE was_contaminated_from_turn[j] # None
      BY <1>1, <1>3, <2>1 DEF Mark, Lagging, Exact
    <2>2. CASE was_contaminated_from_turn[j] = None /\ was_truncated[policy[j]]
      BY <1>1, <1>3, <2>2 DEF Mark, Lagging, MarkInv, MarkTypes
    <2>3. CASE was_contaminated_from_turn[j] = None /\ ~was_truncated[policy[j]]
      BY <1>1, <1>3, <2>3 DEF Mark, Lagging
    <2> QED
      BY <2>1, <2>2, <2>3
  <1>6. MarkTypes'
    BY <1>1, <1>2, <1>4 DEF MarkInv, MarkTypes, Goto, Running, Ended
  <1>7. Marked(j)'
    BY <1>1, <1>2, <1>5 DEF MarkInv, MarkTypes, Marked, Exact, Goto, Ended
  <1>8. ASSUME NEW u \in Jobs \ {j} PROVE Marked(u)'
    BY <1>1, <1>2, <1>4, <1>8 DEF MarkInv, MarkTypes, Marked, Exact, Lagging, Goto
  <1> QED
    BY <1>6, <1>7, <1>8 DEF MarkInv

\* An exception between the call and the reading of the flag leaves the mark
\* behind, but the env has paid nothing.
LEMMA MarkLost ==
    ASSUME MarkInv, PaidInv, NEW j \in Jobs, ContextExceeded(j)
    PROVE  MarkInv'
  <1>1. /\ pc[j] = "waiting" /\ Goto(j, "finished")
        /\ UNCHANGED <<was_truncated, was_contaminated_from_turn, flagged, turn_idx, native>>
    BY DEF ContextExceeded, Caught, flagVars, envVars
  <1>2. native[j] = None /\ was_contaminated_from_turn[j] \in {flagged[j], None}
    BY <1>1 DEF MarkInv, Marked, Lagging, Exact, PaidInv, Paid
  <1>3. MarkTypes'
    BY <1>1 DEF MarkInv, MarkTypes, Goto, Running, Ended
  <1>4. Marked(j)'
    BY <1>1, <1>2 DEF MarkInv, MarkTypes, Marked, Goto, Ended
  <1>5. ASSUME NEW u \in Jobs \ {j} PROVE Marked(u)'
    BY <1>1, <1>5 DEF MarkInv, MarkTypes, Marked, Exact, Lagging, Goto
  <1> QED
    BY <1>3, <1>4, <1>5 DEF MarkInv

\* A turn that ends counts one more turn of its own job.
LEMMA TurnCounted ==
    ASSUME MarkInv, NEW j \in Jobs, NEW done, NextTurn(j, done)
    PROVE  turn_idx' \in [Jobs -> Nat] /\ \A u \in Jobs \ {j} : turn_idx'[u] = turn_idx[u]
  BY DEF NextTurn, MarkInv, MarkTypes

LEMMA MarkNext == MarkInv /\ PaidInv /\ OwnPolicies /\ [Next]_vars => MarkInv'
  <1> SUFFICES ASSUME MarkInv, PaidInv, OwnPolicies, [Next]_vars PROVE MarkInv'
    OBVIOUS
  <1> USE DEF flagVars, envVars
  <1>1. CASE Collect
    BY <1>1 DEF Collect, Report, Leave, Store, StoreRaises, MarkInv, MarkTypes, Marked, Exact, Lagging
  <1>2. ASSUME NEW j \in Jobs, Work(j) PROVE MarkInv'
    <2> turn_idx \in [Jobs -> Nat]
      BY DEF MarkInv, MarkTypes
    <2>1. CASE Begin(j)
      BY <2>1, MarkMove DEF Begin
    <2>2. CASE ResetTask(j) \/ Call(j)
      BY <2>2, MarkCleared
    <2>3. CASE StartRaises(j)
      BY <2>3, MarkMove DEF StartRaises
    <2>4. CASE Ask(j)
      BY <2>4, MarkFlagged DEF Ask
    <2>5. CASE Answer(j)
      <3>1. \/ UNCHANGED <<was_truncated, flagged>>
            \/ was_truncated' = [was_truncated EXCEPT ![policy[j]] = TRUE] /\ flagged' = Flag(j)
        BY <2>5 DEF Answer, Filter
      <3>2. /\ pc[j] = "waiting" /\ Goto(j, "returned")
            /\ UNCHANGED <<was_contaminated_from_turn, turn_idx, native>>
        BY <2>5 DEF Answer
      <3> QED
        BY <3>1, <3>2, MarkFlagged
    <2>6. CASE ContextExceeded(j)
      BY <2>6, MarkLost
    <2>7. CASE Inspect(j)
      BY <2>7, MarkRead
    <2>8. CASE ExecuteCall(j)
      <3>1. PICK r \in ToolStep(env[j]) \cup TransferStep(env[j]) :
                /\ Stepped(j, r)
                /\ IF LastCall(j, r.done) THEN NextTurn(j, r.done) ELSE UNCHANGED <<pc, turn_idx>>
        BY <2>8 DEF ExecuteCall
      <3>2. \A u \in Jobs \ {j} : native'[u] = native[u]
        BY <3>1 DEF Stepped, PaidInv, RewardTypes
      <3>3. pc[j] = "tools" /\ UNCHANGED <<was_truncated, was_contaminated_from_turn, flagged>>
        BY <2>8 DEF ExecuteCall
      <3>4. CASE LastCall(j, r.done)
        <4>1. PICK l \in {"looping", "finished"} : Goto(j, l)
          BY <3>1, <3>4 DEF NextTurn
        <4>2. turn_idx' \in [Jobs -> Nat] /\ \A u \in Jobs \ {j} : turn_idx'[u] = turn_idx[u]
          BY <3>1, <3>4, TurnCounted
        <4> QED
          BY <3>2, <3>3, <4>1, <4>2, MarkMove
      <3>5. CASE ~LastCall(j, r.done)
        <4>1. Goto(j, "tools") /\ turn_idx' = turn_idx
          BY <3>1, <3>3, <3>5 DEF Goto, MarkInv, MarkTypes
        <4> QED
          BY <3>2, <3>3, <4>1, MarkMove
      <3> QED
        BY <3>4, <3>5
    <2>9. CASE MalformedCall(j)
      BY <2>9, MarkMove DEF MalformedCall, Caught
    <2>10. CASE RespondToUser(j)
      <3>1. PICK r \in RespondStep(env[j]) : Stepped(j, r) /\ NextTurn(j, r.done)
        BY <2>10 DEF RespondToUser
      <3>2. \A u \in Jobs \ {j} : native'[u] = native[u]
        BY <3>1 DEF Stepped, PaidInv, RewardTypes
      <3>3. PICK l \in {"looping", "finished"} : Goto(j, l)
        BY <3>1 DEF NextTurn
      <3>4. turn_idx' \in [Jobs -> Nat] /\ \A u \in Jobs \ {j} : turn_idx'[u] = turn_idx[u]
        BY <3>1, TurnCounted
      <3> QED
        BY <2>10, <3>2, <3>3, <3>4, MarkMove DEF RespondToUser
    <2>11. CASE UserRaises(j)
      BY <2>11, MarkMove DEF UserRaises, Caught
    <2> QED
      BY <1>2, <2>1, <2>2, <2>3, <2>4, <2>5, <2>6, <2>7, <2>8, <2>9, <2>10, <2>11 DEF Work
  <1>3. CASE UNCHANGED vars
    BY <1>3 DEF vars, MarkInv, MarkTypes, Marked, Exact, Lagging
  <1> QED
    BY <1>1, <1>2, <1>3 DEF Next

\* Only results of finished jobs are stored.
StoredInv == results \subseteq {j \in Jobs : pc[j] = "finished"}

LEMMA StoredNext == PaidInv /\ StoredInv /\ [Next]_vars => StoredInv'
  <1> SUFFICES ASSUME PaidInv, StoredInv, [Next]_vars PROVE StoredInv'
    OBVIOUS
  <1>1. CASE Collect
    BY <1>1 DEF Collect, Report, Leave, Store, StoreRaises, StoredInv
  <1>2. ASSUME NEW j \in Jobs, Work(j) PROVE StoredInv'
    <2>1. results' = results /\ pc[j] # "finished"
      BY <1>2 DEF Work, Begin, ResetTask, StartRaises, Call, Ask, Answer, ContextExceeded, Inspect,
                  ExecuteCall, MalformedCall, RespondToUser, UserRaises, mainVars
    <2>2. \A u \in Jobs \ {j} : pc'[u] = pc[u]
      BY <1>2 DEF Work, Begin, ResetTask, StartRaises, Call, Ask, Answer, ContextExceeded, Inspect,
                  ExecuteCall, MalformedCall, RespondToUser, UserRaises, NextTurn, Caught, Goto,
                  PaidInv, RewardTypes
    <2> QED
      BY <2>1, <2>2 DEF StoredInv
  <1>3. CASE UNCHANGED vars
    BY <1>3 DEF vars, mainVars, StoredInv
  <1> QED
    BY <1>1, <1>2, <1>3 DEF Next

\* With a policy object per job the mark of a stored result is exact or missing,
\* and it is exact for every success: what collect_sft_data.py takes for clean was
\* never truncated and held no template token.
THEOREM MarksAreOwn == ASSUME OwnPolicies PROVE Spec => []MarkIsOwn
  <1>1. Init => MarkInv /\ StoredInv
    BY EvalAssumption DEF Init, MarkInv, MarkTypes, Marked, Exact, Lagging, Ended, StoredInv
  <1>2. MarkInv /\ PaidInv /\ StoredInv => MarkIsOwn
    <2> SUFFICES ASSUME MarkInv, PaidInv, StoredInv, NEW j \in results
                 PROVE  /\ was_contaminated_from_turn[j] \in {flagged[j], None}
                        /\ Success(j) => was_contaminated_from_turn[j] = flagged[j]
      BY DEF MarkIsOwn
    <2>1. j \in Jobs /\ pc[j] \in Ended
      BY DEF StoredInv, Ended
    <2>2. Success(j) => native[j] # None
      <3>1. native[j] # 1 => total_reward[j] = 0
        BY <2>1 DEF PaidInv, Paid
      <3> QED
        BY <3>1, EvalAssumption DEF Success
    <2> QED
      BY <2>1, <2>2 DEF MarkInv, Marked, Exact
  <1>3. MarkInv /\ PaidInv /\ StoredInv /\ [Next]_vars => MarkInv' /\ StoredInv'
    BY MarkNext, StoredNext
  <1> QED
    BY <1>1, <1>2, <1>3, PaidInvariant, PTL DEF Spec

-----------------------------------------------------------------------------
(* Types.  A turn is counted and a call taken off a message where these are not  *)
(* bounded by any type: what a job that is in its loop knows makes it inductive. *)

FlagTypes ==
    /\ was_truncated \in [Policies -> BOOLEAN]
    /\ was_contaminated_from_turn \in [Jobs -> Turns \cup {None}]
    /\ flagged \in [Jobs -> Turns \cup {None}]
    /\ long \in [Jobs -> BOOLEAN]

CallTypes ==
    /\ tool_calls \in [Jobs -> Seq(Calls)] /\ recent_tool_calls \in [Jobs -> Seq(Calls)]
    /\ executed \in [Jobs -> Seq(Calls)] /\ tool_call_count \in [Jobs -> Nat]

RunTypes ==
    /\ env \in [Jobs -> Envs \cup {None}] /\ turn_idx \in [Jobs -> Turns]
    /\ error \in [Jobs -> {"none", "loop", "exception"}]
    /\ results \subseteq Jobs /\ main \in {"collecting", "leaving", "reported", "raised"}

InLoop == {"looping", "asking", "waiting", "returned", "tools", "responding"}

\* A job that has not ended has a turn left; in its loop it has an env, and among the
\* calls of a message there is one to execute.
Started(j) ==
    /\ pc[j] \notin Ended => turn_idx[j] < max_turns
    /\ pc[j] \in InLoop => env[j] \in Envs
    /\ pc[j] = "tools" => tool_calls[j] # <<>>

TypeInv == FlagTypes /\ CallTypes /\ RunTypes /\ \A j \in Jobs : Started(j)

\* The steps of an env stay among the envs.
LEMMA EnvSteps ==
    ASSUME NEW e \in Envs, NEW r, r \in ToolStep(e) \cup TransferStep(e) \cup RespondStep(e)
    PROVE  r.env \in Envs
  <1>1. \A d \in Data : [e EXCEPT !.data = d] \in Envs
    BY DEF Envs
  <1>2. \A h \in Heard(e) : h \in Envs
    BY DEF Heard, Envs
  <1>3. \A h \in Envs : AfterReplay(h) \in Envs
    BY DataAssumption DEF AfterReplay, Envs
  <1>4. CASE r \in ToolStep(e)
    BY <1>1, <1>4 DEF ToolStep
  <1>5. CASE r \in TransferStep(e)
    BY <1>3, <1>5 DEF TransferStep
  <1>6. CASE r \in RespondStep(e)
    <2>1. PICK h \in Heard(e) :
            r \in {[env |-> h, reward |-> 0, done |-> FALSE, error |-> FALSE],
                  [env |-> AfterReplay(h), reward |-> CalculateReward(h),
                   done |-> TRUE, error |-> FALSE]}
      BY <1>6, Zenon DEF RespondStep
    <2>2. r.env = h \/ r.env = AfterReplay(h)
      BY <2>1
    <2> QED
      BY <1>2, <1>3, <2>1, <2>2
  <1> QED
    BY <1>4, <1>5, <1>6

LEMMA MessagesAreSequences ==
    ASSUME NEW j \in Jobs, NEW m \in Messages[j]
    PROVE  m \in Seq(Calls) /\ Len(m) <= MaxCalls
  <1>0. PICK k \in 0..MaxCalls : m \in [1..k -> Calls]
    BY EvalAssumption
  <1>1. k \in Nat /\ k <= MaxCalls
    BY EvalAssumption
  <1>2. m \in Seq(Calls)
    BY <1>0, <1>1
  <1>3. Len(m) = k
    BY <1>0, <1>1, <1>2
  <1> QED
    BY <1>1, <1>2, <1>3

\* The flags and marks of a job hold turns.
LEMMA FlagTypesKept ==
    ASSUME FlagTypes, RunTypes, NEW j \in Jobs, Work(j)
    PROVE  FlagTypes'
  <1>1. policy[j] \in Policies /\ turn_idx[j] \in Turns
    BY EvalAssumption DEF RunTypes
  <1>2. Flag(j) \in [Jobs -> Turns \cup {None}]
    BY <1>1 DEF Flag, FlagTypes
  <1>3. Mark(j) \in [Jobs -> Turns \cup {None}]
    BY <1>1 DEF Mark, FlagTypes
  <1>4. CASE ResetTask(j) \/ Call(j)
    BY <1>1, <1>4 DEF ResetTask, Call, Cleared, FlagTypes
  <1>5. CASE Ask(j)
    BY <1>1, <1>2, <1>5 DEF Ask, FlagTypes
  <1>6. CASE Answer(j)
    BY <1>1, <1>2, <1>6 DEF Answer, Filter, FlagTypes
  <1>7. CASE Inspect(j)
    BY <1>3, <1>7 DEF Inspect, FlagTypes
  <1>8. CASE UNCHANGED flagVars
    BY <1>8 DEF flagVars, FlagTypes
  <1> QED
    BY <1>4, <1>5, <1>6, <1>7, <1>8 DEF Work, Begin, StartRaises, ContextExceeded, ExecuteCall,
       MalformedCall, RespondToUser, UserRaises

LEMMA RecentTyped == ASSUME CallTypes, NEW j \in Jobs PROVE Recent(j) \in Seq(Calls)
  <1>1. recent_tool_calls[j] \o tool_calls[j] \in Seq(Calls)
    BY DEF CallTypes
  <1>2. ASSUME NEW all \in Seq(Calls), Len(all) > loop_window
        PROVE  SubSeq(all, Len(all) - loop_window + 1, Len(all)) \in Seq(Calls)
    BY <1>2, EvalAssumption
  <1> QED
    BY <1>1, <1>2 DEF Recent

\* The calls of a message and the window of recent ones are sequences of calls.
LEMMA CallTypesKept ==
    ASSUME CallTypes, NEW j \in Jobs, Started(j), Work(j)
    PROVE  CallTypes'
  <1>1. CASE Answer(j)
    BY <1>1, MessagesAreSequences DEF Answer, CallTypes
  <1>2. CASE Inspect(j)
    BY <1>2, RecentTyped DEF Inspect, CallTypes
  <1>3. CASE ExecuteCall(j)
    <2>1. tool_calls[j] \in Seq(Calls) /\ tool_calls[j] # <<>>
      BY <1>3 DEF ExecuteCall, Started, CallTypes
    <2>2. Head(tool_calls[j]) \in Calls /\ Tail(tool_calls[j]) \in Seq(Calls)
      BY <2>1
    <2> QED
      BY <1>3, <2>2 DEF ExecuteCall, CallTypes
  <1>4. CASE MalformedCall(j)
    BY <1>4 DEF MalformedCall, CallTypes
  <1>5. CASE UNCHANGED callVars
    BY <1>5 DEF callVars, CallTypes
  <1> QED
    BY <1>1, <1>2, <1>3, <1>4, <1>5 DEF Work, Begin, ResetTask, StartRaises, Call, Ask,
       ContextExceeded, RespondToUser, UserRaises

\* A turn that ends leaves the loop when it was the last one.
LEMMA TurnTyped ==
    ASSUME RunTypes, PaidInv, NEW j \in Jobs, turn_idx[j] < max_turns, NEW done \in BOOLEAN,
           NextTurn(j, done)
    PROVE  /\ turn_idx' \in [Jobs -> Turns]
           /\ pc'[j] \in {"looping", "finished"}
           /\ pc'[j] = "looping" => turn_idx'[j] < max_turns
  BY EvalAssumption DEF NextTurn, Goto, RunTypes, Turns, PaidInv, RewardTypes

\* What a job knows of itself after its step.
Goes(j) ==
    /\ pc'[j] \notin Ended => turn_idx'[j] < max_turns
    /\ pc'[j] \in InLoop => env'[j] \in Envs

\* A step of a job that leaves env and turn alone and does not enter the loop.
LEMMA RunTypesMove ==
    ASSUME RunTypes, PaidInv, NEW j \in Jobs, Started(j), pc[j] \notin Ended,
           NEW l, Goto(j, l), l \in InLoop => pc[j] \in InLoop,
           UNCHANGED <<env, turn_idx, results, main>>,
           error' \in [Jobs -> {"none", "loop", "exception"}]
    PROVE  RunTypes' /\ Goes(j)
  <1>1. pc'[j] = l
    BY DEF Goto, PaidInv, RewardTypes
  <1> QED
    BY <1>1 DEF RunTypes, Goes, Started

\* Env, turn and error of a job are typed after its step.
LEMMA RunTypesKept ==
    ASSUME RunTypes, PaidInv, NEW j \in Jobs, Started(j), Work(j)
    PROVE  RunTypes' /\ Goes(j)
  <1> USE DEF mainVars, envVars
  <1> error \in [Jobs -> {"none", "loop", "exception"}]
    BY DEF RunTypes
  <1>1. CASE Begin(j) \/ StartRaises(j)
    BY <1>1, RunTypesMove DEF Begin, StartRaises, InLoop, Ended
  <1>2. CASE ResetTask(j)
    <2>1. PICK trivial \in BOOLEAN : env' = [env EXCEPT ![j] = Reset(trivial)]
      BY <1>2 DEF ResetTask
    <2>2. Reset(trivial) \in Envs
      BY DataAssumption DEF Reset, Envs
    <2>3. pc[j] = "starting" /\ UNCHANGED <<turn_idx, error, results, main>>
      BY <1>2 DEF ResetTask
    <2>4. env' \in [Jobs -> Envs \cup {None}] /\ env'[j] \in Envs
      BY <2>1, <2>2 DEF RunTypes
    <2>5. turn_idx'[j] < max_turns
      BY <2>3 DEF Started, Ended
    <2> QED
      BY <2>3, <2>4, <2>5 DEF RunTypes, Goes
  <1>3. CASE Call(j) \/ Ask(j) \/ Answer(j)
    BY <1>3, RunTypesMove DEF Call, Ask, Answer, InLoop, Ended
  <1>4. CASE ContextExceeded(j) \/ MalformedCall(j)
    BY <1>4, RunTypesMove DEF ContextExceeded, MalformedCall, Caught, InLoop, Ended
  <1>5. CASE Inspect(j)
    <2>1. PICK l \in {"responding", "tools", "finished"} : Goto(j, l)
      BY <1>5 DEF Inspect
    <2>2. error' \in [Jobs -> {"none", "loop", "exception"}] /\ pc[j] = "returned"
      BY <1>5 DEF Inspect
    <2> QED
      BY <1>5, <2>1, <2>2, RunTypesMove DEF Inspect, InLoop, Ended
  <1>6. ASSUME ExecuteCall(j) \/ RespondToUser(j) PROVE RunTypes' /\ Goes(j)
    <2>1. PICK r \in ToolStep(env[j]) \cup TransferStep(env[j]) \cup RespondStep(env[j]) :
              Stepped(j, r) /\ (NextTurn(j, r.done) \/ UNCHANGED <<pc, turn_idx>>)
      BY <1>6 DEF ExecuteCall, RespondToUser
    <2>2. pc[j] \in {"tools", "responding"} /\ UNCHANGED <<error, results, main>>
      BY <1>6 DEF ExecuteCall, RespondToUser
    <2>3. env[j] \in Envs /\ turn_idx[j] < max_turns
      BY <2>2 DEF Started, InLoop, Ended
    <2>4. r.env \in Envs /\ r.done \in BOOLEAN
      BY <2>1, <2>3, EnvSteps, ResultFields
    <2>5. env' \in [Jobs -> Envs \cup {None}] /\ env'[j] \in Envs
      BY <2>1, <2>4 DEF Stepped, RunTypes
    <2>6. CASE NextTurn(j, r.done)
      <3>1. /\ turn_idx' \in [Jobs -> Turns] /\ pc'[j] \in {"looping", "finished"}
            /\ pc'[j] = "looping" => turn_idx'[j] < max_turns
        BY <2>3, <2>4, <2>6, TurnTyped
      <3> QED
        BY <2>2, <2>5, <3>1 DEF RunTypes, Goes, Ended
    <2>7. CASE UNCHANGED <<pc, turn_idx>>
      BY <2>2, <2>3, <2>5, <2>7 DEF RunTypes, Goes
    <2> QED
      BY <2>1, <2>6, <2>7
  <1>7. CASE UserRaises(j)
    <2>1. PICK h \in Heard(env[j]) : env' = [env EXCEPT ![j] = h]
      BY <1>7 DEF UserRaises
    <2>2. pc[j] = "responding" /\ pc'[j] = "finished" /\ UNCHANGED <<turn_idx, results, main>>
      BY <1>7 DEF UserRaises, Caught, Goto, PaidInv, RewardTypes
    <2>3. h \in Envs
      BY <2>1, <2>2 DEF Started, InLoop, Heard, Envs
    <2>4. error' \in [Jobs -> {"none", "loop", "exception"}]
      BY <1>7 DEF UserRaises, Caught
    <2> QED
      BY <2>1, <2>2, <2>3, <2>4 DEF RunTypes, Goes, InLoop, Ended
  <1> QED
    BY <1>1, <1>2, <1>3, <1>4, <1>5, <1>6, <1>7 DEF Work

LEMMA TypeNext == TypeInv /\ PaidInv /\ [Next]_vars => TypeInv'
  <1> SUFFICES ASSUME TypeInv, PaidInv, [Next]_vars PROVE TypeInv'
    OBVIOUS
  <1>1. CASE Collect
    BY <1>1 DEF Collect, Report, Leave, Store, StoreRaises, TypeInv, FlagTypes, CallTypes, RunTypes,
       Started, flagVars, callVars, envVars
  <1>2. ASSUME NEW j \in Jobs, Work(j) PROVE TypeInv'
    <2>1. FlagTypes' /\ CallTypes' /\ RunTypes' /\ Goes(j)
      BY <1>2, FlagTypesKept, CallTypesKept, RunTypesKept DEF TypeInv
    <2>2. pc'[j] = "tools" => tool_calls'[j] # <<>>
      <3>1. CASE Inspect(j)
        BY <3>1 DEF Inspect, Goto, PaidInv, RewardTypes
      <3>2. CASE ExecuteCall(j)
        <4>1. PICK r : Stepped(j, r) /\ IF LastCall(j, r.done) THEN NextTurn(j, r.done)
                                       ELSE UNCHANGED <<pc, turn_idx>>
          BY <3>2 DEF ExecuteCall
        <4>2. CASE LastCall(j, r.done)
          BY <4>1, <4>2 DEF NextTurn, Goto, PaidInv, RewardTypes
        <4>3. CASE ~LastCall(j, r.done)
          <5>1. tool_calls[j] \in Seq(Calls) /\ tool_calls[j] # <<>> /\ Len(tool_calls[j]) # 1
            BY <3>2, <4>3 DEF ExecuteCall, LastCall, Started, TypeInv, CallTypes
          <5>2. ASSUME NEW q \in Seq(Calls), q # <<>>, Len(q) # 1 PROVE Tail(q) # <<>>
            <6>1. Len(q) \in Nat \ {0}
              BY <5>2, EmptySeq, Zenon
            <6>2. Len(Tail(q)) = Len(q) - 1
              BY <5>2
            <6>3. Len(Tail(q)) # 0
              BY <5>2, <6>1, <6>2
            <6>4. Len(<<>>) = 0
              BY EmptySeq
            <6> QED
              BY <6>3, <6>4, Zenon
          <5> QED
            BY <3>2, <5>1, <5>2 DEF ExecuteCall, TypeInv, CallTypes
        <4> QED
          BY <4>2, <4>3
      <3>3. CASE ~Inspect(j) /\ ~ExecuteCall(j)
        BY <1>2, <3>3 DEF Work, Begin, ResetTask, StartRaises, Call, Ask, Answer, ContextExceeded,
           MalformedCall, RespondToUser, UserRaises, NextTurn, Caught, Goto, PaidInv, RewardTypes
      <3> QED
        BY <3>1, <3>2, <3>3
    <2>3. ASSUME NEW u \in Jobs \ {j}
          PROVE  pc'[u] = pc[u] /\ turn_idx'[u] = turn_idx[u] /\ env'[u] = env[u]
                 /\ tool_calls'[u] = tool_calls[u]
      BY <1>2 DEF Work, Begin, ResetTask, StartRaises, Call, Ask, Answer, ContextExceeded, Inspect,
         ExecuteCall, MalformedCall, RespondToUser, UserRaises, NextTurn, Caught, Goto, Stepped,
         PaidInv, RewardTypes, TypeInv, RunTypes, CallTypes, flagVars, callVars, envVars
    <2>4. \A u \in Jobs : Started(u)'
      BY <2>1, <2>2, <2>3 DEF Goes, Started, TypeInv
    <2> QED
      BY <2>1, <2>4 DEF TypeInv
  <1>3. CASE UNCHANGED vars
    BY <1>3 DEF vars, TypeInv, FlagTypes, CallTypes, RunTypes, Started, flagVars, callVars, envVars,
       mainVars
  <1> QED
    BY <1>1, <1>2, <1>3 DEF Next

\* What a job in its loop knows holds of every job.
THEOREM TypesInvariant == Spec => []TypeInv
  <1>1. Init => TypeInv
    BY EvalAssumption DEF Init, TypeInv, FlagTypes, CallTypes, RunTypes, Started, Turns, InLoop
  <1> QED
    BY <1>1, TypeNext, PaidInvariant, PTL DEF Spec

\* Every variable keeps its type: no turn is counted beyond max_turns, no reward is
\* ever added twice, and every step is one of an env that was reset.
THEOREM EvalTypeCorrect == Spec => []TypeOK
  <1>1. TypeInv /\ PaidInv => TypeOK
    BY DEF TypeInv, PaidInv, FlagTypes, CallTypes, RunTypes, RewardTypes, TypeOK
  <1> QED
    BY <1>1, TypesInvariant, PaidInvariant, PTL

-----------------------------------------------------------------------------
(* Repetitions.  What loop detection keeps is the end of what has been executed, *)
(* followed by what is left of the message; so a window of executed calls, short *)
(* by one message, lies in the window that was searched before the last of them. *)

\* Call i of the calls e followed by the calls t.
Nth(e, t, i) == IF i <= Len(e) THEN e[i] ELSE t[i - Len(e)]

\* r holds the last calls of e and t together, loop_window of them if there are.
EndOf(r, e, t) ==
    LET n == Len(e) + Len(t)
    IN  /\ Len(r) <= n
        /\ Len(r) >= loop_window \/ Len(r) = n
        /\ \A i \in 1..Len(r) : r[i] = Nth(e, t, n - Len(r) + i)

Pending(j) == IF pc[j] = "tools" THEN tool_calls[j] ELSE <<>>

Width == loop_window + 1 - MaxCalls

\* In no window of the calls e is there a call loop_limit times.
Unrepeated(e) ==
    \A i \in 1..Len(e) : \A x \in Calls :
        Cardinality({k \in i..Len(e) : k < i + Width /\ e[k] = x}) < loop_limit

Watched(j) ==
    /\ Unrepeated(executed[j])
    /\ pc[j] \notin Ended => EndOf(recent_tool_calls[j], executed[j], Pending(j))
    /\ pc[j] \in {"returned", "tools"} => Len(tool_calls[j]) <= MaxCalls
    /\ pc[j] = "tools" => \A x \in Calls : Occurrences(recent_tool_calls[j], x) < loop_limit

WatchInv == \A j \in Jobs : Watched(j)

LEMMA EmptyLength == Len(<<>>) = 0
  BY EmptySeq

LEMMA TailFacts ==
    ASSUME NEW t \in Seq(Calls), t # <<>>
    PROVE  /\ Len(t) \in Nat \ {0} /\ Head(t) = t[1] /\ Head(t) \in Calls
           /\ Tail(t) \in Seq(Calls) /\ Len(Tail(t)) = Len(t) - 1
           /\ \A i \in 1..(Len(t) - 1) : Tail(t)[i] = t[i + 1]
  <1>1. Len(t) \in Nat \ {0}
    BY EmptySeq, Zenon
  <1>2. Tail(t) \in Seq(Calls) /\ Len(Tail(t)) = Len(t) - 1 /\ Head(t) = t[1]
    BY <1>1
  <1>3. \A i \in 1..(Len(t) - 1) : Tail(t)[i] = t[i + 1]
    BY <1>1, <1>2
  <1> QED
    BY <1>1, <1>2, <1>3

LEMMA SingleCall == ASSUME NEW t \in Seq(Calls), Len(t) = 1 PROVE Tail(t) = <<>>
  <1>1. t # <<>>
    BY EmptyLength
  <1>2. Tail(t) \in Seq(Calls) /\ Len(Tail(t)) = 0
    BY <1>1, TailFacts
  <1> QED
    BY <1>2, EmptySeq

LEMMA OccurrencesTyped == ASSUME NEW r \in Seq(Calls), NEW x PROVE Occurrences(r, x) \in Nat
  <1>1. IsFiniteSet(1..Len(r)) /\ {m \in 1..Len(r) : r[m] = x} \in SUBSET (1..Len(r))
    BY FS_Interval
  <1>2. IsFiniteSet({m \in 1..Len(r) : r[m] = x})
    BY <1>1, FS_Subset
  <1> QED
    BY <1>2, FS_CardinalityType DEF Occurrences

\* The window is cut to its last calls.
Cut(all) ==
    IF Len(all) > loop_window THEN SubSeq(all, Len(all) - loop_window + 1, Len(all)) ELSE all

LEMMA CutFacts ==
    ASSUME NEW all \in Seq(Calls), Len(all) > loop_window
    PROVE  Len(Cut(all)) = loop_window
           /\ \A i \in 1..loop_window : Cut(all)[i] = all[Len(all) - loop_window + i]
  <1>1. loop_window \in Nat \ {0} /\ Len(all) \in Nat
    BY EvalAssumption
  <1> DEFINE c == SubSeq(all, Len(all) - loop_window + 1, Len(all))
  <1>2. Len(c) = loop_window
    BY <1>1
  <1>3. \A i \in 1..loop_window : c[i] = all[(Len(all) - loop_window + 1) + i - 1]
    BY <1>1
  <1>4. \A i \in 1..loop_window : (Len(all) - loop_window + 1) + i - 1 = Len(all) - loop_window + i
    BY <1>1
  <1> QED
    BY <1>2, <1>3, <1>4 DEF Cut

\* A message joins the window, which is then cut.
LEMMA EndOfMessage ==
    ASSUME NEW r \in Seq(Calls), NEW e \in Seq(Calls), NEW t \in Seq(Calls), EndOf(r, e, <<>>)
    PROVE  EndOf(Cut(r \o t), e, t)
  <1> DEFINE all == r \o t
             n == Len(e) + Len(t)
  <1>1. loop_window \in Nat /\ Len(r) \in Nat /\ Len(e) \in Nat /\ Len(t) \in Nat
    BY EvalAssumption
  <1>2. all \in Seq(Calls) /\ Len(all) = Len(r) + Len(t)
    OBVIOUS
  <1>3. Len(r) <= Len(e) /\ (Len(r) >= loop_window \/ Len(r) = Len(e))
    BY <1>1, EmptyLength DEF EndOf
  <1>4. \A i \in 1..Len(r) : r[i] = e[Len(e) - Len(r) + i]
    BY <1>1, EmptyLength DEF EndOf, Nth
  <1>5. \A i \in 1..Len(all) : all[i] = IF i <= Len(r) THEN r[i] ELSE t[i - Len(r)]
    BY <1>1, <1>2
  <1>6. \A i \in 1..Len(all) : all[i] = Nth(e, t, n - Len(all) + i)
    BY <1>1, <1>2, <1>3, <1>4, <1>5 DEF Nth
  <1> HIDE DEF all
  <1>7. CASE Len(all) <= loop_window
    <2>1. Cut(all) = all
      BY <1>1, <1>2, <1>7 DEF Cut
    <2>2. Len(all) <= n /\ (Len(all) >= loop_window \/ Len(all) = n)
      BY <1>1, <1>2, <1>3
    <2> QED
      BY <1>6, <2>1, <2>2 DEF EndOf, all
  <1>8. CASE Len(all) > loop_window
    <2>1. Len(Cut(all)) = loop_window
          /\ \A i \in 1..loop_window : Cut(all)[i] = all[Len(all) - loop_window + i]
      BY <1>2, <1>8, CutFacts
    <2>2. loop_window <= n
      BY <1>1, <1>2, <1>3, <1>8
    <2>3. ASSUME NEW i \in 1..loop_window PROVE Cut(all)[i] = Nth(e, t, n - loop_window + i)
      <3>1. Len(all) - loop_window + i \in 1..Len(all)
        BY <1>1, <1>2, <1>8
      <3>2. n - Len(all) + (Len(all) - loop_window + i) = n - loop_window + i
        BY <1>1, <1>2
      <3> QED
        BY <1>6, <2>1, <3>1, <3>2
    <2> QED
      BY <1>1, <2>1, <2>2, <2>3 DEF EndOf, all
  <1> QED
    BY <1>1, <1>2, <1>7, <1>8

\* A call of the message is executed.
LEMMA EndOfExecuted ==
    ASSUME NEW r \in Seq(Calls), NEW e \in Seq(Calls), NEW t \in Seq(Calls), t # <<>>, EndOf(r, e, t)
    PROVE  EndOf(r, Append(e, Head(t)), Tail(t))
  <1>1. /\ Len(r) \in Nat /\ Len(e) \in Nat /\ Len(t) \in Nat \ {0}
        /\ Len(Append(e, Head(t))) = Len(e) + 1 /\ Len(Tail(t)) = Len(t) - 1
    BY TailFacts
  <1>2. ASSUME NEW i \in 1..(Len(e) + Len(t))
        PROVE  Nth(Append(e, Head(t)), Tail(t), i) = Nth(e, t, i)
    <2>1. CASE i <= Len(e)
      BY <1>1, <2>1, TailFacts DEF Nth
    <2>2. CASE i = Len(e) + 1
      BY <1>1, <2>2, TailFacts DEF Nth
    <2>3. CASE i > Len(e) + 1
      BY <1>1, <1>2, <2>3, TailFacts DEF Nth
    <2> QED
      BY <1>1, <2>1, <2>2, <2>3
  <1> QED
    BY <1>1, <1>2 DEF EndOf

\* The calls among the last ones of e, as often as they occur, are in r.
LEMMA WindowCounts ==
    ASSUME NEW r \in Seq(Calls), NEW e \in Seq(Calls), NEW t \in Seq(Calls), EndOf(r, e, t),
           NEW i \in Nat, i > Len(e) + Len(t) - Len(r), NEW x \in Calls,
           NEW S \in SUBSET {k \in i..Len(e) : e[k] = x}
    PROVE  Cardinality(S) <= Occurrences(r, x)
  <1> DEFINE d == Len(e) + Len(t) - Len(r)
             T == {m \in 1..Len(r) : r[m] = x}
             f == [k \in S |-> k - d]
  <1>1. Len(r) \in Nat /\ Len(e) \in Nat /\ Len(t) \in Nat /\ d \in Nat
    BY DEF EndOf
  <1>2. ASSUME NEW k \in S PROVE k - d \in T
    <2>1. k \in Nat /\ k > d /\ k <= Len(e) /\ e[k] = x
      BY <1>1
    <2>2. k - d \in 1..Len(r)
      BY <1>1, <2>1
    <2>3. r[k - d] = Nth(e, t, d + (k - d))
      BY <2>2 DEF EndOf
    <2>4. d + (k - d) = k
      BY <1>1, <2>1
    <2>5. r[k - d] = x
      BY <2>1, <2>3, <2>4 DEF Nth
    <2> QED
      BY <2>2, <2>5
  <1>3. f \in Injection(S, T)
    <2>1. f \in [S -> T]
      BY <1>2
    <2>2. \A k, l \in S : f[k] = f[l] => k = l
      BY <1>1
    <2> QED
      BY <2>1, <2>2 DEF Injection, IsInjective
  <1>4. IsFiniteSet(T)
    <2>1. IsFiniteSet(1..Len(r)) /\ T \in SUBSET (1..Len(r))
      BY <1>1, FS_Interval
    <2> QED
      BY <2>1, FS_Subset
  <1> HIDE DEF f
  <1>5. Cardinality(S) <= Cardinality(T)
    BY <1>3, <1>4, FS_Injection
  <1> QED
    BY <1>5 DEF Occurrences

\* One more call, watched, repeats none.
LEMMA OneMoreCall ==
    ASSUME NEW r \in Seq(Calls), NEW e \in Seq(Calls), NEW t \in Seq(Calls), t # <<>>,
           Len(t) <= MaxCalls, EndOf(r, e, t), Unrepeated(e),
           \A x \in Calls : Occurrences(r, x) < loop_limit
    PROVE  Unrepeated(Append(e, Head(t)))
  <1> DEFINE a == Append(e, Head(t))
             W(q, i, x) == {k \in i..Len(q) : k < i + Width /\ q[k] = x}
  <1>1. /\ Len(e) \in Nat /\ Len(t) \in Nat \ {0} /\ Len(r) \in Nat /\ MaxCalls \in Nat
        /\ loop_window \in Nat \ {0} /\ loop_limit \in Nat \ {0} /\ Width \in Int
    BY EvalAssumption, TailFacts DEF Width
  <1>2. /\ a \in Seq(Calls) /\ Len(a) = Len(e) + 1
        /\ \A k \in 1..Len(e) : a[k] = e[k]
    BY TailFacts
  <1> HIDE DEF a
  <1>3. SUFFICES ASSUME NEW i \in 1..Len(a), NEW x \in Calls PROVE Cardinality(W(a, i, x)) < loop_limit
    BY DEF Unrepeated, a
  <1>4. CASE i + Width <= Len(a)
    <2>1. CASE i <= Len(e)
      <3>1. W(a, i, x) = W(e, i, x)
        BY <1>1, <1>2, <1>4
      <3>2. i \in 1..Len(e)
        BY <1>1, <1>2, <2>1
      <3>3. Cardinality(W(e, i, x)) < loop_limit
        BY <3>2 DEF Unrepeated
      <3> HIDE DEF W
      <3> QED
        BY <3>1, <3>3
    <2>2. CASE i > Len(e)
      <3>1. W(a, i, x) = {}
        BY <1>1, <1>2, <1>4, <2>2
      <3>2. Cardinality({}) = 0 /\ 0 < loop_limit
        BY <1>1, FS_EmptySet
      <3> HIDE DEF W
      <3> QED
        BY <3>1, <3>2
    <2> QED
      BY <1>1, <1>2, <2>1, <2>2
  <1>5. CASE i + Width > Len(a)
    <2>1. EndOf(r, a, Tail(t))
      BY EndOfExecuted DEF a
    <2>2. Len(Tail(t)) = Len(t) - 1 /\ Tail(t) \in Seq(Calls)
      BY TailFacts
    <2>3. i > Len(a) + Len(Tail(t)) - Len(r)
      <3>1. Len(r) >= loop_window \/ Len(r) = Len(e) + Len(t)
        BY DEF EndOf
      <3>2. CASE Len(r) >= loop_window
        BY <1>1, <1>2, <1>5, <2>2, <3>2 DEF Width
      <3>3. CASE Len(r) = Len(e) + Len(t)
        BY <1>1, <1>2, <2>2, <3>3
      <3> QED
        BY <3>1, <3>2, <3>3
    <2>4. W(a, i, x) \in SUBSET {k \in i..Len(a) : a[k] = x}
      OBVIOUS
    <2>5. Cardinality(W(a, i, x)) <= Occurrences(r, x)
      <3> HIDE DEF W
      <3>1. i \in Nat
        BY <1>1, <1>2
      <3> QED
        BY <1>2, <2>1, <2>2, <2>3, <2>4, <3>1, WindowCounts, Zenon
    <2>6. Occurrences(r, x) \in Nat /\ Occurrences(r, x) < loop_limit
      BY OccurrencesTyped
    <2>7. Cardinality(W(a, i, x)) \in Nat
      <3>1. IsFiniteSet(i..Len(a)) /\ W(a, i, x) \in SUBSET (i..Len(a))
        BY <1>1, <1>2, FS_Interval
      <3> QED
        BY <3>1, FS_Subset, FS_CardinalityType
    <2> QED
      BY <1>1, <2>5, <2>6, <2>7
  <1> QED
    BY <1>1, <1>2, <1>4, <1>5

LEMMA WatchNext == WatchInv /\ TypeInv /\ PaidInv /\ [Next]_vars => WatchInv'
  <1> SUFFICES ASSUME WatchInv, TypeInv, PaidInv, [Next]_vars PROVE WatchInv'
    OBVIOUS
  <1> USE DEF WatchInv
  <1>1. CASE Collect
    BY <1>1 DEF Collect, Report, Leave, Store, StoreRaises, callVars, Watched, Pending
  <1>2. ASSUME NEW j \in Jobs, Work(j) PROVE WatchInv'
    <2> pc \in [Jobs -> {"queued"} \cup Running \cup Ended]
      BY DEF PaidInv, RewardTypes
    <2> CallTypes /\ Started(j) /\ Watched(j)
      BY DEF TypeInv
    <2>1. ASSUME NEW u \in Jobs \ {j} PROVE Watched(u)'
      <3>1. /\ pc'[u] = pc[u] /\ tool_calls'[u] = tool_calls[u] /\ executed'[u] = executed[u]
            /\ recent_tool_calls'[u] = recent_tool_calls[u]
        BY <1>2 DEF Work, Begin, ResetTask, StartRaises, Call, Ask, Answer, ContextExceeded, Inspect,
           ExecuteCall, MalformedCall, RespondToUser, UserRaises, NextTurn, Caught, Goto, CallTypes,
           callVars
      <3> QED
        BY <3>1 DEF Watched, Pending
    <2>2. CASE Begin(j) \/ ResetTask(j) \/ StartRaises(j) \/ Call(j) \/ Ask(j) \/ RespondToUser(j)
      <3>1. UNCHANGED callVars /\ pc[j] # "tools" /\ pc'[j] \notin {"returned", "tools"}
            /\ (pc'[j] \notin Ended => pc[j] \notin Ended)
        BY <2>2 DEF Begin, ResetTask, StartRaises, Call, Ask, RespondToUser, NextTurn, Goto, Ended
      <3> QED
        BY <2>1, <3>1 DEF Watched, Pending, callVars
    <2>3. CASE ContextExceeded(j) \/ MalformedCall(j) \/ UserRaises(j)
      <3>1. UNCHANGED <<executed, recent_tool_calls>> /\ pc'[j] = "finished"
        BY <2>3 DEF ContextExceeded, MalformedCall, UserRaises, Caught, Goto, callVars
      <3> QED
        BY <2>1, <3>1 DEF Watched, Ended
    <2>4. CASE Answer(j)
      <3>1. PICK calls \in Messages[j] : tool_calls' = [tool_calls EXCEPT ![j] = calls]
        BY <2>4 DEF Answer
      <3>2. Len(calls) <= MaxCalls
        BY <3>1, MessagesAreSequences
      <3>3. UNCHANGED <<executed, recent_tool_calls>> /\ pc'[j] = "returned" /\ pc[j] = "waiting"
        BY <2>4 DEF Answer, Goto
      <3>4. tool_calls'[j] = calls
        BY <3>1 DEF CallTypes
      <3> QED
        BY <2>1, <3>2, <3>3, <3>4 DEF Watched, Pending, Ended
    <2>5. CASE Inspect(j)
      <3>1. /\ pc[j] = "returned" /\ UNCHANGED <<executed, tool_calls>>
            /\ recent_tool_calls' = [recent_tool_calls EXCEPT ![j] = Recent(j)]
            /\ \/ pc'[j] = "responding" /\ tool_calls[j] = <<>>
               \/ pc'[j] = "tools" /\ ~Looped(j)
               \/ pc'[j] = "finished"
        BY <2>5 DEF Inspect, Goto
      <3>2. recent_tool_calls'[j] = Recent(j)
        BY <3>1 DEF CallTypes
      <3>3. EndOf(Recent(j), executed[j], tool_calls[j])
        <4>1. EndOf(recent_tool_calls[j], executed[j], <<>>)
          BY <3>1 DEF Watched, Pending, Ended
        <4> QED
          BY <4>1, EndOfMessage DEF Recent, Cut, CallTypes
      <3>4. ~Looped(j) => \A x \in Calls : Occurrences(Recent(j), x) < loop_limit
        <4>1. Recent(j) \in Seq(Calls)
          BY RecentTyped
        <4> QED
          BY <4>1, OccurrencesTyped, EvalAssumption DEF Looped
      <3> QED
        BY <2>1, <3>1, <3>2, <3>3, <3>4 DEF Watched, Pending, Ended
    <2>6. CASE ExecuteCall(j)
      <3> DEFINE e == executed[j]
                 t == tool_calls[j]
      <3>1. /\ pc[j] = "tools" /\ t # <<>> /\ UNCHANGED recent_tool_calls
            /\ executed'[j] = Append(e, Head(t)) /\ tool_calls'[j] = Tail(t)
        BY <2>6 DEF ExecuteCall, Started, CallTypes
      <3>2. EndOf(recent_tool_calls[j], e, t) /\ Len(t) <= MaxCalls
            /\ \A x \in Calls : Occurrences(recent_tool_calls[j], x) < loop_limit
        BY <3>1 DEF Watched, Pending, Ended
      <3>3. Unrepeated(executed[j])'
        BY <3>1, <3>2, OneMoreCall DEF Watched, CallTypes
      <3>4. EndOf(recent_tool_calls[j], executed[j], tool_calls[j])'
        BY <3>1, <3>2, EndOfExecuted DEF CallTypes
      <3>5. pc'[j] \in Ended \cup {"tools"} \/ (pc'[j] = "looping" /\ Tail(t) = <<>>)
        <4>1. PICK r : Stepped(j, r) /\ IF LastCall(j, r.done) THEN NextTurn(j, r.done)
                                       ELSE UNCHANGED <<pc, turn_idx>>
          BY <2>6 DEF ExecuteCall
        <4>2. Len(t) = 1 => Tail(t) = <<>>
          BY <3>1, SingleCall DEF CallTypes
        <4>3. CASE LastCall(j, r.done)
          <5>1. Goto(j, IF ~r.done /\ turn_idx[j] + 1 < max_turns THEN "looping" ELSE "finished")
            BY <4>1, <4>3 DEF NextTurn
          <5>2. r.done \/ Len(t) = 1
            BY <4>3 DEF LastCall
          <5> QED
            BY <4>2, <5>1, <5>2 DEF Goto, Ended
        <4>4. CASE ~LastCall(j, r.done)
          BY <3>1, <4>1, <4>4
        <4> QED
          BY <4>3, <4>4
      <3>6. Len(Tail(t)) <= MaxCalls
        BY <3>1, <3>2, TailFacts, EvalAssumption DEF CallTypes
      <3> QED
        BY <2>1, <3>1, <3>2, <3>3, <3>4, <3>5, <3>6 DEF Watched, Pending, Ended
    <2> QED
      BY <1>2, <2>2, <2>3, <2>4, <2>5, <2>6 DEF Work
  <1>3. CASE UNCHANGED vars
    BY <1>3 DEF vars, callVars, Watched, Pending
  <1> QED
    BY <1>1, <1>2, <1>3 DEF Next

\* However many calls a message holds and wherever the window is cut, the
\* environment never executes loop_limit equal calls within a window.
THEOREM NoCallRepeats == Spec => []NoRepeatedCalls
  <1>1. Init => WatchInv
    <2>1. Unrepeated(<<>>) /\ EndOf(<<>>, <<>>, <<>>)
      BY EmptyLength, EvalAssumption DEF Unrepeated, EndOf, Nth
    <2> QED
      BY <2>1 DEF Init, WatchInv, Watched, Pending, Ended
  <1>2. WatchInv => NoRepeatedCalls
    BY DEF WatchInv, Watched, Unrepeated, Width, NoRepeatedCalls
  <1>3. Spec => []TypeInv
    BY TypesInvariant
  <1> QED
    BY <1>1, <1>2, <1>3, WatchNext, PaidInvariant, PTL DEF Spec
=============================================================================
