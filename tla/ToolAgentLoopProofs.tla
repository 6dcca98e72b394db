------------------------ MODULE ToolAgentLoopProofs ------------------------
(***************************************************************************)
(* Theorems about ToolAgentLoop, for every batch, every set of lengths and *)
(* every cap: its token lists stay parallel and its turns alternate, which *)
(* does not depend on what an environment does; every trajectory uses its  *)
(* own environment; it implements RolloutBatch; and about its episodes:    *)
(* reward is backed by the environment, a scored episode is over, the      *)
(* counters kept in three places agree, and a history holds what was said  *)
(* in the turn of each entry.                                              *)
(***************************************************************************)
EXTENDS ToolAgentLoopProps, FiniteSetTheorems, TLAPS

-----------------------------------------------------------------------------
(* Tokens.  TokensAligned alone is not inductive: that the first observation   *)
(* comes after the first policy token is known from pc only.                   *)

TokenTypes ==
    /\ pc \in [Trajs -> AgentStates]
    /\ prompt_ids \in [Trajs -> Nat]
    /\ response_mask \in [Trajs -> Seq({0, 1})]
    /\ response_logprobs \in [Trajs -> Nat]

\* A message of the policy has been generated.
Spoken == {"processing_tools", "calling", "interacting", "terminated", "finished"}

Aligned(t) ==
    LET n == Len(response_mask[t])
    IN  /\ \/ n = 0 /\ prompt_ids[t] \in {0, PromptLen}
           \/ prompt_ids[t] = PromptLen + n /\ response_mask[t][1] = 1
        /\ pc[t] \in {"created", "pending"} => n = 0
        /\ pc[t] = "generating" => prompt_ids[t] = PromptLen + n
        /\ pc[t] \in Spoken => n > 0

Kept(t) == response_logprobs[t] = IF LogProbs THEN Len(response_mask[t]) ELSE 0

TokenInv == TokenTypes /\ \A t \in Trajs : Aligned(t) /\ Kept(t)

\* Appending to a mask adds the lengths; the first bit is the first bit of the
\* old mask, or of the appended part when the old mask is empty.
LEMMA AppendedMask ==
    ASSUME NEW m \in Seq({0, 1}), NEW a \in Seq({0, 1})
    PROVE  /\ m \o a \in Seq({0, 1})
           /\ Len(m \o a) = Len(m) + Len(a)
           /\ Len(m) > 0 => (m \o a)[1] = m[1]
           /\ Len(m) = 0 /\ Len(a) > 0 => (m \o a)[1] = a[1]
  OBVIOUS

\* The bits of n tokens of the policy, and of n tokens of an observation.
LEMMA MaskTypes ==
    ASSUME NEW n \in Nat
    PROVE  /\ Trained(n) \in Seq({0, 1}) /\ Len(Trained(n)) = n
           /\ Masked(n) \in Seq({0, 1}) /\ Len(Masked(n)) = n
           /\ n > 0 => Trained(n)[1] = 1
  BY DEF Trained, Masked

\* A step that leaves the token lists and every pc but that of t alone, and moves
\* t without skipping the first generation, keeps the invariant.
LEMMA TokensUntouched ==
    ASSUME TokenInv, NEW t \in Trajs, NEW l \in AgentStates, Goto(t, l), UNCHANGED tokenVars,
           l # "generating", l \in Spoken => pc[t] \in Spoken,
           l \in {"created", "pending"} => pc[t] \in {"created", "pending"}
    PROVE  TokenInv'
  BY DEF TokenInv, TokenTypes, Aligned, Kept, Goto, tokenVars

\* The log-probabilities of t grow by n when they are kept, and else stay.
KeptStep(t, n) ==
    IF LogProbs
    THEN response_logprobs' = [response_logprobs EXCEPT ![t] = response_logprobs[t] + n]
    ELSE response_logprobs' = response_logprobs

\* The three lists of t grow by n tokens and the mask becomes c, whose first bit
\* is trained on.
LEMMA MaskGrows ==
    ASSUME TokenInv, NEW t \in Trajs, NEW n \in Nat, NEW c \in Seq({0, 1}),
           NEW l \in Spoken \cup {"generating"}, PromptLen \in Nat,
           Len(c) = Len(response_mask[t]) + n, Len(c) > 0, c[1] = 1,
           prompt_ids[t] = PromptLen + Len(response_mask[t]),
           prompt_ids' = [prompt_ids EXCEPT ![t] = prompt_ids[t] + n],
           response_mask' = [response_mask EXCEPT ![t] = c],
           pc' = [pc EXCEPT ![t] = l], KeptStep(t, n)
    PROVE  TokenInv'
  <1>1. /\ pc' \in [Trajs -> AgentStates] /\ prompt_ids' \in [Trajs -> Nat]
        /\ response_mask' \in [Trajs -> Seq({0, 1})]
    BY DEF TokenInv, TokenTypes, Spoken, AgentStates
  <1>2. response_logprobs' \in [Trajs -> Nat] /\ \A u \in Trajs : Kept(u)'
    <2>1. CASE LogProbs
      BY <2>1 DEF TokenInv, TokenTypes, Kept, KeptStep
    <2>2. CASE ~LogProbs
      BY <2>2 DEF TokenInv, TokenTypes, Kept, KeptStep
    <2>3. QED
      BY <2>1, <2>2
  <1>3. Aligned(t)'
    <2>1. /\ response_mask'[t] = c /\ prompt_ids'[t] = PromptLen + Len(c) /\ pc'[t] = l
      BY DEF TokenInv, TokenTypes
    <2>2. QED
      BY <2>1 DEF Aligned, Spoken
  <1>4. ASSUME NEW u \in Trajs, u # t PROVE Aligned(u)'
    BY <1>4 DEF TokenInv, TokenTypes, Aligned
  <1>5. QED
    BY <1>1, <1>2, <1>3, <1>4 DEF TokenInv, TokenTypes

\* The policy's tokens: n more of them, the first of the trajectory trained on.
LEMMA PolicySpeaks ==
    ASSUME TokenInv, NEW t \in Trajs, NEW n \in GenLens, NEW l \in Spoken,
           pc[t] = "generating", Goto(t, l), ExtendByPolicy(t, n)
    PROVE  TokenInv'
  <1> DEFINE m == response_mask[t]
             a == Trained(n)
             c == m \o a
  <1>1. n \in Nat /\ n > 0 /\ PromptLen \in Nat
    BY LoopAssumption
  <1>2. m \in Seq({0, 1}) /\ a \in Seq({0, 1}) /\ Len(a) = n /\ a[1] = 1
    BY <1>1, MaskTypes DEF TokenInv, TokenTypes
  <1>3. /\ c \in Seq({0, 1}) /\ Len(c) = Len(m) + n /\ Len(m) \in Nat
        /\ Len(m) > 0 => c[1] = m[1]
        /\ Len(m) = 0 => c[1] = 1
    <2> HIDE DEF m, a
    <2>1. /\ c \in Seq({0, 1}) /\ Len(c) = Len(m) + Len(a) /\ Len(m) \in Nat
          /\ Len(m) > 0 => c[1] = m[1]
          /\ Len(m) = 0 /\ Len(a) > 0 => c[1] = a[1]
      BY <1>2, AppendedMask
    <2> HIDE DEF c
    <2>2. QED
      BY <1>1, <1>2, <2>1
  <1>4. /\ prompt_ids[t] = PromptLen + Len(m) /\ prompt_ids[t] \in Nat
        /\ Len(m) > 0 => m[1] = 1
    BY <1>1, <1>3 DEF TokenInv, TokenTypes, Aligned
  <1>5. c[1] = 1
    <2> HIDE DEF m, a, c
    <2>1. QED
      BY <1>3, <1>4
  <1>6. /\ prompt_ids' = [prompt_ids EXCEPT ![t] = prompt_ids[t] + n]
        /\ response_mask' = [response_mask EXCEPT ![t] = c]
        /\ pc' = [pc EXCEPT ![t] = l]
    BY DEF ExtendByPolicy, Goto
  <1> HIDE DEF m, a, c
  <1>7. KeptStep(t, n)
    <2>1. CASE LogProbs
      BY <2>1 DEF ExtendByPolicy, KeptStep
    <2>2. CASE ~LogProbs
      <3>1. response_logprobs' = [response_logprobs EXCEPT ![t] = response_logprobs[t]]
        BY <2>2 DEF ExtendByPolicy
      <3>2. QED
        BY <2>2, <3>1 DEF KeptStep, TokenInv, TokenTypes
    <2>3. QED
      BY <2>1, <2>2
  <1>8. QED
    <2>1. /\ Len(c) = Len(response_mask[t]) + n /\ Len(c) > 0 /\ c[1] = 1
          /\ prompt_ids[t] = PromptLen + Len(response_mask[t])
          /\ l \in Spoken \cup {"generating"}
      BY <1>1, <1>3, <1>4, <1>5 DEF Spoken, m
    <2>2. QED
      BY <1>1, <1>3, <1>4, <1>6, <1>7, <2>1, MaskGrows

\* An observation of n tokens, none of them trained on, after a policy message.
LEMMA ObservationHeard ==
    ASSUME TokenInv, NEW t \in Trajs, NEW n \in ObsLens, NEW l \in {"generating", "terminated"},
           pc[t] \in Spoken, Goto(t, l), ExtendByObservation(t, n)
    PROVE  TokenInv'
  <1> DEFINE m == response_mask[t]
             a == Masked(n)
             c == m \o a
  <1>1. n \in Nat /\ PromptLen \in Nat
    BY LoopAssumption
  <1>2. m \in Seq({0, 1}) /\ a \in Seq({0, 1}) /\ Len(a) = n
    BY <1>1, MaskTypes DEF TokenInv, TokenTypes
  <1>3. /\ Len(m) \in Nat /\ Len(m) > 0 /\ m[1] = 1
        /\ prompt_ids[t] = PromptLen + Len(m) /\ prompt_ids[t] \in Nat
    BY <1>1, <1>2 DEF TokenInv, TokenTypes, Aligned
  <1>4. c \in Seq({0, 1}) /\ Len(c) = Len(m) + n /\ c[1] = 1
    <2>1. c \in Seq({0, 1}) /\ Len(c) = Len(m) + Len(a) /\ (Len(m) > 0 => c[1] = m[1])
      BY <1>2, AppendedMask
    <2> HIDE DEF m, a, c
    <2>2. QED
      BY <1>2, <1>3, <2>1
  <1>5. /\ prompt_ids' = [prompt_ids EXCEPT ![t] = prompt_ids[t] + n]
        /\ response_mask' = [response_mask EXCEPT ![t] = c]
        /\ pc' = [pc EXCEPT ![t] = l]
    BY DEF ExtendByObservation, Goto
  <1> HIDE DEF m, a, c
  <1>6. KeptStep(t, n)
    <2>1. response_logprobs[t] = IF LogProbs THEN Len(m) ELSE 0
      BY DEF TokenInv, Kept, m
    <2>2. CASE LogProbs
      <3>1. response_logprobs[t] > 0
        BY <1>3, <2>1, <2>2
      <3>2. QED
        BY <2>2, <3>1 DEF ExtendByObservation, KeptStep
    <2>3. CASE ~LogProbs
      <3>1. ~(response_logprobs[t] > 0)
        BY <2>1, <2>3
      <3>2. response_logprobs' = [response_logprobs EXCEPT ![t] = response_logprobs[t]]
        BY <3>1 DEF ExtendByObservation
      <3>3. QED
        BY <2>3, <3>2 DEF KeptStep, TokenInv, TokenTypes
    <2>4. QED
      BY <2>2, <2>3
  <1>7. QED
    <2>1. /\ Len(c) = Len(response_mask[t]) + n /\ Len(c) > 0 /\ c[1] = 1
          /\ prompt_ids[t] = PromptLen + Len(response_mask[t])
          /\ l \in Spoken \cup {"generating"}
      BY <1>1, <1>3, <1>4 DEF Spoken, m
    <2>2. QED
      BY <1>1, <1>3, <1>4, <1>5, <1>6, <2>1, MaskGrows

\* Every step keeps the token lists parallel.
LEMMA TokenStep == TokenInv /\ [Next]_vars => TokenInv'
  <1> SUFFICES ASSUME TokenInv, [Next]_vars PROVE TokenInv'
    OBVIOUS
  <1> USE DEF AgentStates, Spoken, tokenVars
  <1>1. ASSUME NEW t \in Trajs, StartInteraction(t) PROVE TokenInv'
    BY <1>1, TokensUntouched DEF StartInteraction
  <1>2. ASSUME NEW t \in Trajs, Raises(t) PROVE TokenInv'
    BY <1>2, TokensUntouched DEF Raises
  <1>3. ASSUME NEW t \in Trajs, HandlePending(t) PROVE TokenInv'
    <2>1. /\ pc' = [pc EXCEPT ![t] = "generating"]
          /\ prompt_ids' = [prompt_ids EXCEPT ![t] = PromptLen]
          /\ UNCHANGED <<response_mask, response_logprobs>> /\ pc[t] = "pending"
      BY <1>3 DEF HandlePending, Goto
    <2>2. TokenTypes' /\ \A u \in Trajs : Kept(u)'
      BY <2>1, LoopAssumption DEF TokenInv, TokenTypes, Kept
    <2>3. Aligned(t)'
      <3>1. Len(response_mask[t]) = 0 /\ PromptLen \in Nat
        BY <2>1, LoopAssumption DEF TokenInv, Aligned
      <3>2. QED
        BY <2>1, <3>1 DEF TokenInv, TokenTypes, Aligned
    <2>4. ASSUME NEW u \in Trajs, u # t PROVE Aligned(u)'
      BY <2>1, <2>4 DEF TokenInv, TokenTypes, Aligned
    <2>5. QED
      BY <2>2, <2>3, <2>4 DEF TokenInv
  <1>4. ASSUME NEW t \in Trajs, NEW n \in GenLens, HandleGenerating(t, n) PROVE TokenInv'
    <2>1. \E l \in Spoken : Goto(t, l)
      BY <1>4 DEF HandleGenerating, AfterMessage
    <2>2. QED
      BY <1>4, <2>1, PolicySpeaks DEF HandleGenerating
  <1>5. ASSUME NEW t \in Trajs, SpawnTools(t) PROVE TokenInv'
    BY <1>5, TokensUntouched DEF SpawnTools
  <1>6. ASSUME NEW t \in Trajs, NextTask(t) PROVE TokenInv'
    BY <1>6 DEF NextTask, TokenInv, TokenTypes, Aligned, Kept
  <1>7. ASSUME NEW t \in Trajs, NEW n \in ObsLens, GatherTools(t, n) PROVE TokenInv'
    <2>1. CASE Goto(t, "terminated") /\ UNCHANGED tokenVars
      BY <1>7, <2>1, TokensUntouched DEF GatherTools
    <2>2. CASE Goto(t, "generating") /\ ExtendByObservation(t, n)
      BY <1>7, <2>2, ObservationHeard DEF GatherTools
    <2>3. QED
      BY <1>7, <2>1, <2>2 DEF GatherTools
  <1>8. ASSUME NEW t \in Trajs, NEW n \in ObsLens, Interacting(t, n),
               \E l \in {"generating", "terminated"} : Goto(t, l)
        PROVE  TokenInv'
    BY <1>8, ObservationHeard DEF Interacting
  <1>9. ASSUME NEW t \in Trajs, NEW n \in ObsLens,
               RespondContaminated(t, n) \/ RespondRaises(t, n) \/ Respond(t, n)
        PROVE  TokenInv'
    <2>1. Interacting(t, n)
      BY <1>9 DEF RespondContaminated, RespondRaises, Respond
    <2>2. \E l \in {"generating", "terminated"} : Goto(t, l)
      BY <1>9 DEF RespondContaminated, RespondRaises, Respond
    <2>3. QED
      BY <1>8, <2>1, <2>2
  <1>10. ASSUME NEW t \in Trajs, Finish(t) PROVE TokenInv'
    BY <1>10, TokensUntouched DEF Finish
  <1>11. CASE BatchReturns \/ BatchRaises
    BY <1>11 DEF BatchReturns, BatchRaises, TokenInv, TokenTypes, Aligned, Kept
  <1>12. CASE UNCHANGED vars
    BY <1>12 DEF vars, TokenInv, TokenTypes, Aligned, Kept
  <1>13. QED
    BY <1>1, <1>2, <1>3, <1>4, <1>5, <1>6, <1>7, <1>9, <1>10, <1>11, <1>12
       DEF Next, Step, StartRaises, GenerateRaises, CallToolSwallowed, CallToolRejected, CallTool

\* The invariant of the token lists, which the other proofs use.
THEOREM TokensInvariant == Spec => []TokenInv
  <1>1. Init => TokenInv
    BY LoopAssumption DEF Init, TokenInv, TokenTypes, Aligned, Kept, AgentStates, Spoken
  <1>2. QED
    BY <1>1, TokenStep, PTL DEF Spec

\* prompt_ids, response_mask and response_logprobs stay parallel, and a mask
\* that has bits starts with a trained one.
THEOREM TokensStayAligned == Spec => []TokensAligned
  <1>1. TokenInv => TokensAligned
    BY DEF TokenInv, Aligned, Kept, TokensAligned
  <1>2. QED
    BY <1>1, TokensInvariant, PTL

-----------------------------------------------------------------------------
(* Turns.  The caps are tested in _handle_generating_state only; that neither  *)
(* counter passes its cap in another handler needs the room left there.        *)

TurnTypes ==
    /\ pc \in [Trajs -> AgentStates]
    /\ user_turns \in [Trajs -> Nat] /\ assistant_turns \in [Trajs -> Nat]

\* An assistant message waits for its answer.
Answering == {"processing_tools", "calling", "interacting"}

Alternate(t) ==
    /\ assistant_turns[t] = user_turns[t] \/ assistant_turns[t] = user_turns[t] + 1
    /\ pc[t] \in {"created", "pending", "generating"} => assistant_turns[t] = user_turns[t]
    /\ pc[t] \in Answering => assistant_turns[t] = user_turns[t] + 1

\* While the rollout goes on there is room for one more message of each side.
Room(t) ==
    /\ max_assistant_turns > 0 =>
          /\ assistant_turns[t] <= max_assistant_turns
          /\ pc[t] \in {"created", "pending", "generating"} \cup Answering =>
                assistant_turns[t] < max_assistant_turns
    /\ max_user_turns > 0 =>
          /\ user_turns[t] <= max_user_turns
          /\ pc[t] \in Answering => user_turns[t] < max_user_turns

TurnInv == TurnTypes /\ \A t \in Trajs : Alternate(t) /\ Room(t)

\* A step that counts no turn and does not move t into another phase.
LEMMA TurnsUntouched ==
    ASSUME TurnInv, NEW t \in Trajs, NEW l \in AgentStates, Goto(t, l), UNCHANGED turnVars,
           l \in {"created", "pending", "generating"} => pc[t] \in {"created", "pending"},
           l \in Answering => pc[t] \in Answering
    PROVE  TurnInv'
  BY DEF TurnInv, TurnTypes, Alternate, Room, Goto, turnVars

\* The user or the tools answer the assistant message.
LEMMA TurnAnswered ==
    ASSUME TurnInv, NEW t \in Trajs, NEW l \in {"generating", "terminated"}, Goto(t, l),
           pc[t] \in Answering, UNCHANGED assistant_turns,
           user_turns' = [user_turns EXCEPT ![t] = @ + 1]
    PROVE  TurnInv'
  <1>1. TurnTypes'
    BY DEF TurnInv, TurnTypes, Goto, AgentStates
  <1>2. pc'[t] = l /\ user_turns'[t] = user_turns[t] + 1 /\ user_turns[t] \in Nat
    BY DEF TurnInv, TurnTypes, Goto
  <1>3. Alternate(t)' /\ Room(t)'
    BY <1>2, LoopAssumption DEF TurnInv, TurnTypes, Alternate, Room, Answering
  <1>4. ASSUME NEW u \in Trajs, u # t PROVE Alternate(u)' /\ Room(u)'
    BY <1>4 DEF TurnInv, TurnTypes, Alternate, Room, Goto
  <1>5. QED
    BY <1>1, <1>3, <1>4 DEF TurnInv

\* The assistant speaks: with a cap reached the rollout terminates.
LEMMA TurnSpoken ==
    ASSUME TurnInv, NEW t \in Trajs, NEW n \in GenLens, HandleGenerating(t, n)
    PROVE  TurnInv'
  <1>1. /\ pc[t] = "generating" /\ assistant_turns[t] \in Nat
        /\ assistant_turns' = [assistant_turns EXCEPT ![t] = assistant_turns[t] + 1]
        /\ user_turns' = user_turns
    BY DEF HandleGenerating, TurnInv, TurnTypes
  <1>2. PICK l \in Answering \cup {"terminated"} :
            pc' = [pc EXCEPT ![t] = l] /\ (l \in Answering => ~MustStop(t, n))
    <2>1. CASE MustStop(t, n) /\ Goto(t, "terminated")
      BY <2>1 DEF Goto, Answering
    <2>2. CASE ~MustStop(t, n) /\ \E calls \in CallSeqs : Goto(t, AfterMessage(calls))
      BY <2>2, LoopAssumption DEF Goto, Answering, AfterMessage
    <2>3. QED
      BY <2>1, <2>2 DEF HandleGenerating
  <1>3. TurnTypes'
    BY <1>1, <1>2 DEF TurnInv, TurnTypes, AgentStates, Answering
  <1>4. pc'[t] = l /\ assistant_turns'[t] = assistant_turns[t] + 1 /\ user_turns'[t] = user_turns[t]
    BY <1>1, <1>2 DEF TurnInv, TurnTypes
  <1>5. Alternate(t)'
    BY <1>1, <1>2, <1>4 DEF TurnInv, TurnTypes, Alternate, Answering
  <1>6. Room(t)'
    <2>1. /\ max_assistant_turns \in Nat /\ max_user_turns \in Nat /\ user_turns[t] \in Nat
          /\ max_assistant_turns > 0 => assistant_turns[t] < max_assistant_turns
          /\ max_user_turns > 0 => user_turns[t] <= max_user_turns
      BY <1>1, LoopAssumption DEF TurnInv, TurnTypes, Room
    <2>2. l \in Answering =>
              /\ max_assistant_turns > 0 => assistant_turns[t] + 1 < max_assistant_turns
              /\ max_user_turns > 0 => user_turns[t] < max_user_turns
      BY <1>1, <1>2, <2>1 DEF MustStop
    <2>3. QED
      BY <1>1, <1>2, <1>4, <2>1, <2>2 DEF Room, Answering
  <1>7. ASSUME NEW u \in Trajs, u # t PROVE Alternate(u)' /\ Room(u)'
    BY <1>1, <1>2, <1>7 DEF TurnInv, TurnTypes, Alternate, Room
  <1>8. QED
    BY <1>3, <1>5, <1>6, <1>7 DEF TurnInv

\* Every step keeps the turns alternating and inside their caps.
LEMMA TurnStep == TurnInv /\ [Next]_vars => TurnInv'
  <1> SUFFICES ASSUME TurnInv, [Next]_vars PROVE TurnInv'
    OBVIOUS
  <1> USE DEF AgentStates, Answering, turnVars
  <1>1. ASSUME NEW t \in Trajs, StartInteraction(t) PROVE TurnInv'
    BY <1>1, TurnsUntouched DEF StartInteraction
  <1>2. ASSUME NEW t \in Trajs, Raises(t) PROVE TurnInv'
    BY <1>2, TurnsUntouched DEF Raises
  <1>3. ASSUME NEW t \in Trajs, HandlePending(t) PROVE TurnInv'
    BY <1>3, TurnsUntouched DEF HandlePending
  <1>4. ASSUME NEW t \in Trajs, SpawnTools(t) PROVE TurnInv'
    BY <1>4, TurnsUntouched DEF SpawnTools
  <1>5. ASSUME NEW t \in Trajs, NextTask(t) PROVE TurnInv'
    BY <1>5 DEF NextTask, TurnInv, TurnTypes, Alternate, Room
  <1>6. ASSUME NEW t \in Trajs, NEW n \in ObsLens, GatherTools(t, n) PROVE TurnInv'
    <2>1. CASE Goto(t, "terminated") /\ UNCHANGED user_turns
      BY <1>6, <2>1, TurnsUntouched DEF GatherTools
    <2>2. CASE Goto(t, "generating") /\ user_turns' = [user_turns EXCEPT ![t] = @ + 1]
      BY <1>6, <2>2, TurnAnswered DEF GatherTools
    <2>3. QED
      BY <1>6, <2>1, <2>2 DEF GatherTools
  <1>7. ASSUME NEW t \in Trajs, NEW n \in ObsLens,
               RespondContaminated(t, n) \/ RespondRaises(t, n) \/ Respond(t, n)
        PROVE  TurnInv'
    <2>1. Interacting(t, n)
      BY <1>7 DEF RespondContaminated, RespondRaises, Respond
    <2>2. \E l \in {"generating", "terminated"} : Goto(t, l)
      BY <1>7 DEF RespondContaminated, RespondRaises, Respond
    <2>3. QED
      BY <2>1, <2>2, TurnAnswered DEF Interacting
  <1>8. ASSUME NEW t \in Trajs, Finish(t) PROVE TurnInv'
    BY <1>8, TurnsUntouched DEF Finish
  <1>9. CASE BatchReturns \/ BatchRaises
    BY <1>9 DEF BatchReturns, BatchRaises, TurnInv, TurnTypes, Alternate, Room
  <1>10. CASE UNCHANGED vars
    BY <1>10 DEF vars, TurnInv, TurnTypes, Alternate, Room
  <1>11. QED
    BY <1>1, <1>2, <1>3, <1>4, <1>5, <1>6, <1>7, <1>8, <1>9, <1>10, TurnSpoken
       DEF Next, Step, StartRaises, GenerateRaises, CallToolSwallowed, CallToolRejected, CallTool

\* Each tool or user message answers one assistant message, and the turn caps
\* hold at every time.
THEOREM TurnsKeepAlternating == Spec => []TurnsAlternate
  <1>1. Init => TurnInv
    BY LoopAssumption DEF Init, TurnInv, TurnTypes, Alternate, Room, AgentStates, Answering
  <1>2. TurnInv => TurnsAlternate
    BY DEF TurnInv, TurnTypes, Alternate, Room, Answering, TurnsAlternate
  <1>3. QED
    BY <1>1, <1>2, TurnStep, PTL DEF Spec

-----------------------------------------------------------------------------
(* The inductive invariant for types and ownership.  CallTool writes the   *)
(* entry its task's context names, so the types of env and state cannot be *)
(* kept without knowing whose context that is.                             *)

Inside == {"pending", "generating", "processing_tools", "calling", "interacting",
           "terminated", "finished"}

\* What exists of trajectory t's episode, and who can reach it.
Owned(t) ==
    /\ ctx[t] \in {t, None}
    /\ \A i \in 1..Len(tool_tasks[t]) : tool_tasks[t][i].ctx = ctx[t]
    /\ pc[t] # "calling" => tool_tasks[t] = <<>>
    /\ ctx[t] = t => t \in instance_dict
    /\ t \in instance_dict => env[t] \in Envs /\ state[t] \in StateDicts
    /\ interaction_config_file # None /\ pc[t] \in Inside => ctx[t] = t
    /\ pc[t] = "interacting" => interaction_config_file # None

Ownership == \A t \in Trajs : Owned(t)

IInv == TypeOK /\ Ownership

-----------------------------------------------------------------------------
(* Lemmas on the operators.                                                *)

\* The environment after any step is an environment, the reward is 0 or 1, and
\* a reward needs a done step and outputs that were told, now and hereafter.
LEMMA StepTypes ==
    ASSUME NEW e \in Envs
    PROVE  /\ \A r \in ToolStep(e) \cup TransferStep(e) \cup RespondStep(e) :
                  /\ r \in StepResults
                  /\ r.reward = 1 => r.done /\ r.env.said
                  /\ e.said => r.env.said
           /\ \A h \in Heard(e) : h \in Envs /\ (e.said => h.said)
  <1>1. \A h \in Heard(e) : h \in Envs /\ (e.said => h.said)
    BY DEF Heard, Envs
  <1>2. \A h \in Envs : AfterReplay(h) \in Envs /\ AfterReplay(h).said = h.said
    BY DataAssumption DEF AfterReplay, Envs
  <1>3. \A h \in Envs : /\ CalculateReward(h) \in {0, 1}
                        /\ CalculateReward(h) = 1 => h.said
    BY DEF CalculateReward
  <1>4. ASSUME NEW r \in ToolStep(e)
        PROVE  r \in StepResults /\ r.reward = 0 /\ (e.said => r.env.said)
    <2>1. PICK d \in Data, x \in BOOLEAN :
              r = [env |-> [e EXCEPT !.data = d], reward |-> 0, done |-> FALSE, error |-> x]
      BY DEF ToolStep
    <2>2. [e EXCEPT !.data = d] \in Envs /\ [e EXCEPT !.data = d].said = e.said
      BY DEF Envs
    <2>3. QED
      BY <2>1, <2>2 DEF StepResults
  <1>5. ASSUME NEW r \in TransferStep(e)
        PROVE  r \in StepResults /\ (r.reward = 1 => r.done /\ r.env.said)
                 /\ (e.said => r.env.said)
    <2>1. PICK x \in BOOLEAN :
              r = [env |-> AfterReplay(e), reward |-> CalculateReward(e), done |-> TRUE, error |-> x]
      BY DEF TransferStep
    <2>2. AfterReplay(e) \in Envs /\ AfterReplay(e).said = e.said /\ CalculateReward(e) \in {0, 1}
          /\ (CalculateReward(e) = 1 => e.said)
      BY <1>2, <1>3
    <2>3. QED
      BY <2>1, <2>2 DEF StepResults
  <1>6. ASSUME NEW r \in RespondStep(e)
        PROVE  r \in StepResults /\ (r.reward = 1 => r.done /\ r.env.said)
                 /\ (e.said => r.env.said)
    <2>1. PICK h \in Heard(e) :
              \/ r = [env |-> h, reward |-> 0, done |-> FALSE, error |-> FALSE]
              \/ r = [env |-> AfterReplay(h), reward |-> CalculateReward(h),
                      done |-> TRUE, error |-> FALSE]
      BY DEF RespondStep
    <2>2. h \in Envs /\ (e.said => h.said)
      BY <1>1
    <2>3. AfterReplay(h) \in Envs /\ AfterReplay(h).said = h.said /\ CalculateReward(h) \in {0, 1}
          /\ (CalculateReward(h) = 1 => h.said)
      BY <2>2, <1>2, <1>3
    <2>4. CASE r = [env |-> h, reward |-> 0, done |-> FALSE, error |-> FALSE]
      BY <2>2, <2>4 DEF StepResults
    <2>5. CASE r = [env |-> AfterReplay(h), reward |-> CalculateReward(h),
                    done |-> TRUE, error |-> FALSE]
      BY <2>2, <2>3, <2>5 DEF StepResults
    <2>6. QED
      BY <2>1, <2>4, <2>5
  <1>7. QED
    BY <1>1, <1>4, <1>5, <1>6

\* The result of a tool step, in the same words.
LEMMA ToolResultTypes ==
    ASSUME NEW t \in Trajs, env[t] \in Envs, NEW kind, NEW r \in ToolResults(t, kind)
    PROVE  /\ r \in StepResults
           /\ r.reward = 1 => r.done /\ r.env.said
           /\ env[t].said => r.env.said
  BY StepTypes DEF ToolResults

\* Executing a tool and hearing the user keep a state dict a state dict.
LEMMA ExecutedType ==
    ASSUME NEW s \in StateDicts, NEW task \in ToolTasks, task.kind \in {"tool", "transfer"},
           NEW r \in StepResults
    PROVE  Executed(s, task, r) \in StateDicts
  <1> DEFINE entry == [tool |-> task.kind, content |-> task.content]
  <1>1. entry \in [tool : HistoryTools, content : Nat]
    BY DEF ToolTasks, HistoryTools
  <1>2. Append(s.action_history, entry) \in Seq([tool : HistoryTools, content : Nat])
    BY <1>1 DEF StateDicts
  <1>3. s.total_reward + r.reward \in Nat /\ s.num_tool_calls + 1 \in Nat
    BY DEF StateDicts, StepResults
  <1>4. (s.done \/ r.done) \in BOOLEAN
        /\ (s.transferred_to_human \/ task.kind = "transfer") \in BOOLEAN
    BY DEF StateDicts, StepResults
  <1>5. QED
    BY <1>2, <1>3, <1>4 DEF Executed, StateDicts

LEMMA HistoryType ==
    ASSUME NEW t \in Trajs, state[t] \in StateDicts, assistant_turns[t] \in Nat,
           NEW h \in HistoriesAfterMessage(t)
    PROVE  h \in Seq([tool : HistoryTools, content : Nat])
  <1> DEFINE think == [tool |-> "implicit_think", content |-> assistant_turns[t]]
  <1>1. think \in [tool : HistoryTools, content : Nat]
    BY DEF HistoryTools
  <1>2. state[t].action_history \in Seq([tool : HistoryTools, content : Nat])
    BY DEF StateDicts
  <1>3. Append(state[t].action_history, think) \in Seq([tool : HistoryTools, content : Nat])
    BY <1>1, <1>2
  <1>4. QED
    BY <1>2, <1>3 DEF HistoriesAfterMessage

\* Clipping a mask leaves a prefix of it that fits the response.
LEMMA ClippedMask ==
    ASSUME NEW m \in Seq({0, 1})
    PROVE  /\ ClipMask(m) \in Seq({0, 1}) /\ Len(ClipMask(m)) = Clip(Len(m))
           /\ Clip(Len(m)) \in 0..response_length
           /\ Len(m) > 0 => Clip(Len(m)) > 0 /\ ClipMask(m)[1] = m[1]
  <1>1. Clip(Len(m)) \in 0..Len(m) /\ Clip(Len(m)) <= response_length
        /\ (Len(m) > 0 => Clip(Len(m)) > 0)
    BY LoopAssumption DEF Clip
  <1>2. QED
    BY <1>1, LoopAssumption DEF ClipMask

\* The calls of a message are a sequence of calls.
LEMMA CallSeqsType == \A calls \in CallSeqs : calls \in Seq(CallKinds)
  BY LoopAssumption DEF CallSeqs

-----------------------------------------------------------------------------
(* Type correctness and ownership.                                         *)

\* The batch starts with nothing owned.
LEMMA InitIInv == Init => IInv
  <1> SUFFICES ASSUME Init PROVE IInv
    OBVIOUS
  <1>1. TypeOK
    BY LoopAssumption DEF Init, TypeOK, AgentStates
  <1>2. ASSUME NEW t \in Trajs PROVE Owned(t)
    BY LoopAssumption DEF Init, Owned, Inside
  <1>3. QED
    BY <1>1, <1>2 DEF IInv, Ownership

\* The environment part of a step of CallTool: the task writes its own episode.
LEMMA CallToolWrites ==
    ASSUME IInv, NEW t \in Trajs, CallTool(t)
    PROVE  /\ Head(tool_tasks[t]).ctx = t /\ ctx[t] = t /\ t \in instance_dict
           /\ Head(tool_tasks[t]) \in ToolTasks
           /\ env[t] \in Envs /\ state[t] \in StateDicts
           /\ \E r \in StepResults :
                /\ r \in ToolResults(t, Head(tool_tasks[t]).kind)
                /\ env' = [env EXCEPT ![t] = r.env]
                /\ state' = [state EXCEPT ![t] = Executed(state[t], Head(tool_tasks[t]), r)]
                /\ native' = FirstDone(t, r)
                /\ errors' = [errors EXCEPT ![t] = IF r.error THEN @ + 1 ELSE @]
  <1> DEFINE task == Head(tool_tasks[t])
  <1>1. Owned(t) /\ TypeOK
    BY DEF IInv, Ownership
  <1>2. tool_tasks[t] \in Seq(ToolTasks) /\ tool_tasks[t] # <<>>
    BY <1>1 DEF TypeOK, CallTool, NextTask
  <1>3. task \in ToolTasks /\ task = tool_tasks[t][1] /\ 1 \in 1..Len(tool_tasks[t])
    BY <1>2
  <1>4. task.ctx = ctx[t] /\ task.ctx # None
    BY <1>1, <1>3 DEF Owned, CallTool
  <1>5. ctx[t] = t /\ t \in instance_dict /\ env[t] \in Envs /\ state[t] \in StateDicts
    BY <1>1, <1>4 DEF Owned
  <1>6. PICK r \in ToolResults(t, task.kind) :
                /\ env' = [env EXCEPT ![t] = r.env]
                /\ state' = [state EXCEPT ![t] = Executed(@, task, r)]
                /\ native' = FirstDone(t, r)
                /\ errors' = [errors EXCEPT ![t] = IF r.error THEN @ + 1 ELSE @]
    BY <1>4, <1>5 DEF CallTool
  <1>7. r \in StepResults
    BY <1>5, <1>6, ToolResultTypes
  <1>8. state' = [state EXCEPT ![t] = Executed(state[t], task, r)]
    BY <1>6
  <1>9. QED
    BY <1>3, <1>4, <1>5, <1>6, <1>7, <1>8

\* Whether there is an interaction is decided once for all trajectories: no step
\* of a rollout changes it.
LEMMA ConfigKept ==
    ASSUME NEW t \in Trajs, Step(t)
    PROVE  interaction_config_file' = interaction_config_file
  BY DEF Step, StartInteraction, StartRaises, GenerateRaises, Raises, HandlePending,
         HandleGenerating, SpawnTools, NextTask, CallToolSwallowed, CallToolRejected, CallTool,
         GatherTools, Interacting, RespondContaminated, RespondRaises, Respond, Finish, envVars

\* Every step keeps types and ownership.
LEMMA NextIInv == IInv /\ TokenInv /\ [Next]_vars => IInv'
  <1> SUFFICES ASSUME IInv, TokenInv, [Next]_vars PROVE IInv'
    OBVIOUS
  <1> USE LoopAssumption DEF AgentStates, Inside, tokenVars, turnVars, toolVars, metricVars,
                              envVars, ctxVars
  <1>a. TypeOK /\ \A u \in Trajs : Owned(u)
    BY DEF IInv, Ownership
  <1>0. interaction_config_file' = interaction_config_file
    BY ConfigKept DEF Next, BatchReturns, BatchRaises, vars
  <1> USE <1>0
  <1>c. /\ prompt_ids' \in [Trajs -> Nat] /\ response_mask' \in [Trajs -> Seq({0, 1})]
        /\ response_logprobs' \in [Trajs -> Nat]
    BY TokenStep DEF TokenInv, TokenTypes
  <1>1. ASSUME NEW t \in Trajs, StartInteraction(t) PROVE IInv'
    <2>1. Reset(TRUE) \in Envs /\ Reset(FALSE) \in Envs
      BY DataAssumption DEF Reset, Envs
    <2>2. InitialState \in StateDicts
      BY DEF InitialState, StateDicts
    <2>3. CASE interaction_config_file # None
      <3>1. PICK trivial \in BOOLEAN : env' = [env EXCEPT ![t] = Reset(trivial)]
        BY <1>1, <2>3 DEF StartInteraction
      <3>2. Reset(trivial) \in Envs
        BY <2>1
      <3>3. /\ state' = [state EXCEPT ![t] = InitialState] /\ ctx' = [ctx EXCEPT ![t] = t]
            /\ instance_dict' = instance_dict \cup {t} /\ pc' = [pc EXCEPT ![t] = "pending"]
            /\ pc[t] = "created"
        BY <1>1, <2>3 DEF StartInteraction, Bind, Goto
      <3>4. TypeOK'
        BY <1>a, <1>1, <2>2, <3>1, <3>2, <3>3 DEF TypeOK, StartInteraction
      <3>5. ASSUME NEW u \in Trajs, u # t PROVE Owned(u)'
        BY <1>a, <1>1, <3>1, <3>3, <3>5 DEF TypeOK, Owned, StartInteraction
      <3>6. Owned(t)'
        BY <1>a, <1>1, <2>2, <3>1, <3>2, <3>3 DEF TypeOK, Owned, StartInteraction
      <3>7. QED
        BY <3>4, <3>5, <3>6 DEF IInv, Ownership
    <2>4. CASE interaction_config_file = None
      <3>1. /\ UNCHANGED <<env, state, ctx, instance_dict>> /\ pc[t] = "created"
            /\ pc' = [pc EXCEPT ![t] = "pending"]
        BY <1>1, <2>4 DEF StartInteraction, Goto
      <3>2. TypeOK'
        BY <1>a, <1>1, <3>1 DEF TypeOK, StartInteraction
      <3>3. ASSUME NEW u \in Trajs PROVE Owned(u)'
        BY <1>a, <1>1, <2>4, <3>1 DEF TypeOK, Owned, StartInteraction
      <3>4. QED
        BY <3>2, <3>3 DEF IInv, Ownership
    <2>5. QED
      BY <2>3, <2>4
  <1>2. ASSUME NEW t \in Trajs, pc[t] \in {"created", "generating"}, Raises(t) PROVE IInv'
    BY <1>a, <1>2 DEF IInv, Ownership, TypeOK, Owned, Raises, Goto
  <1>3. ASSUME NEW t \in Trajs, HandlePending(t) PROVE IInv'
    BY <1>a, <1>3 DEF IInv, Ownership, TypeOK, Owned, HandlePending, Goto
  <1>4. ASSUME NEW t \in Trajs, NEW n \in GenLens, HandleGenerating(t, n) PROVE IInv'
    <2>1. PICK l \in {"processing_tools", "interacting", "terminated"}, calls \in Seq(CallKinds),
               k \in Nat :
            /\ pc' = [pc EXCEPT ![t] = l]
            /\ tool_calls' = [tool_calls EXCEPT ![t] = calls]
            /\ content' = [content EXCEPT ![t] = k]
            /\ l = "interacting" => interaction_config_file # None
      <3>1. /\ tool_calls[t] \in Seq(CallKinds) /\ content[t] \in Nat
            /\ assistant_turns[t] + 1 \in Nat
            /\ tool_calls = [tool_calls EXCEPT ![t] = tool_calls[t]]
            /\ content = [content EXCEPT ![t] = content[t]]
        BY <1>a DEF TypeOK
      <3>2. CASE MustStop(t, n) /\ Goto(t, "terminated") /\ UNCHANGED <<tool_calls, content>>
        BY <3>1, <3>2 DEF Goto
      <3>3. CASE \E calls \in CallSeqs :
                    /\ tool_calls' = [tool_calls EXCEPT ![t] = calls]
                    /\ content' = RecordContent(t, calls)
                    /\ Goto(t, AfterMessage(calls))
        <4>1. PICK calls \in CallSeqs :
                    /\ tool_calls' = [tool_calls EXCEPT ![t] = calls]
                    /\ content' = RecordContent(t, calls)
                    /\ Goto(t, AfterMessage(calls))
          BY <3>3
        <4>2. PICK k \in Nat : content' = [content EXCEPT ![t] = k]
          BY <3>1, <4>1 DEF RecordContent
        <4>3. /\ AfterMessage(calls) \in {"processing_tools", "interacting", "terminated"}
              /\ AfterMessage(calls) = "interacting" => interaction_config_file # None
          BY DEF AfterMessage
        <4>4. QED
          BY <4>1, <4>2, <4>3, CallSeqsType DEF Goto
      <3>4. QED
        BY <1>4, <3>2, <3>3 DEF HandleGenerating
    <2>2. pc[t] = "generating" /\ assistant_turns' \in [Trajs -> Nat]
      BY <1>a, <1>4 DEF TypeOK, HandleGenerating
    <2>3. TypeOK'
      BY <1>a, <1>c, <1>4, <2>1, <2>2 DEF TypeOK, HandleGenerating
    <2>4. ASSUME NEW u \in Trajs PROVE Owned(u)'
      BY <1>a, <1>4, <2>1, <2>2 DEF TypeOK, Owned, HandleGenerating
    <2>5. QED
      BY <2>3, <2>4 DEF IInv, Ownership
  <1>5. ASSUME NEW t \in Trajs, SpawnTools(t) PROVE IInv'
    <2>1. /\ GatheredTasks(t) \in Seq(ToolTasks)
          /\ \A i \in 1..Len(GatheredTasks(t)) : GatheredTasks(t)[i].ctx = ctx[t]
      BY <1>a DEF TypeOK, GatheredTasks, ToolTasks
    <2>2. TypeOK'
      BY <1>a, <1>5, <2>1 DEF TypeOK, SpawnTools, Goto
    <2>3. ASSUME NEW u \in Trajs PROVE Owned(u)'
      BY <1>a, <1>5, <2>1 DEF TypeOK, Owned, SpawnTools, Goto
    <2>4. QED
      BY <2>2, <2>3 DEF IInv, Ownership
  <1>6. ASSUME NEW t \in Trajs, NextTask(t), errors' \in [Trajs -> Nat],
               env' \in [Trajs -> Envs \cup {None}],
               state' \in [Trajs -> StateDicts \cup {None}], native' \in [Trajs -> {0, 1, None}],
               \A u \in instance_dict : env'[u] \in Envs /\ state'[u] \in StateDicts
        PROVE  IInv'
    <2>1. tool_tasks[t] \in Seq(ToolTasks) /\ tool_tasks[t] # <<>>
      BY <1>a, <1>6 DEF TypeOK, NextTask
    <2>2. /\ Tail(tool_tasks[t]) \in Seq(ToolTasks)
          /\ \A i \in 1..Len(Tail(tool_tasks[t])) :
                /\ i + 1 \in 1..Len(tool_tasks[t])
                /\ Tail(tool_tasks[t])[i] = tool_tasks[t][i + 1]
      BY <2>1
    <2>3. TypeOK'
      BY <1>a, <1>6, <2>2 DEF TypeOK, NextTask
    <2>4. ASSUME NEW u \in Trajs PROVE Owned(u)'
      <3>1. CASE u = t
        <4>1. tool_tasks'[t] = Tail(tool_tasks[t]) /\ UNCHANGED <<pc, ctx, instance_dict>>
              /\ pc[t] = "calling"
          BY <1>a, <1>6 DEF TypeOK, NextTask
        <4>2. \A i \in 1..Len(tool_tasks'[t]) : tool_tasks'[t][i].ctx = ctx'[t]
          <5>1. \A i \in 1..Len(tool_tasks[t]) : tool_tasks[t][i].ctx = ctx[t]
            BY <1>a DEF Owned
          <5>2. QED
            BY <2>2, <4>1, <5>1
        <4>3. t \in instance_dict => env'[t] \in Envs /\ state'[t] \in StateDicts
          BY <1>6
        <4>4. QED
          BY <1>a, <3>1, <4>1, <4>2, <4>3 DEF Owned
      <3>2. CASE u # t
        BY <1>a, <1>6, <3>2 DEF TypeOK, Owned, NextTask
      <3>3. QED
        BY <3>1, <3>2
    <2>5. QED
      BY <2>3, <2>4 DEF IInv, Ownership
  <1>7. ASSUME NEW t \in Trajs, CallToolSwallowed(t) PROVE IInv'
    BY <1>a, <1>6, <1>7 DEF TypeOK, Owned, CallToolSwallowed
  <1>8. ASSUME NEW t \in Trajs, CallToolRejected(t) PROVE IInv'
    <2>1. errors' \in [Trajs -> Nat] /\ NextTask(t) /\ UNCHANGED <<env, state, native>>
      BY <1>a, <1>8 DEF TypeOK, CallToolRejected
    <2>2. QED
      BY <1>a, <1>6, <2>1 DEF TypeOK, Owned
  <1>9. ASSUME NEW t \in Trajs, CallTool(t) PROVE IInv'
    <2>1. PICK r \in StepResults :
                /\ env' = [env EXCEPT ![t] = r.env]
                /\ state' = [state EXCEPT ![t] = Executed(state[t], Head(tool_tasks[t]), r)]
                /\ native' = FirstDone(t, r)
                /\ errors' = [errors EXCEPT ![t] = IF r.error THEN @ + 1 ELSE @]
      BY <1>9, CallToolWrites
    <2>2. Executed(state[t], Head(tool_tasks[t]), r) \in StateDicts
      BY <1>9, CallToolWrites, ExecutedType DEF CallTool
    <2>3. r.env \in Envs /\ r.reward \in {0, 1}
      BY DEF StepResults
    <2>4. /\ errors' \in [Trajs -> Nat] /\ env' \in [Trajs -> Envs \cup {None}]
          /\ state' \in [Trajs -> StateDicts \cup {None}] /\ native' \in [Trajs -> {0, 1, None}]
          /\ \A u \in instance_dict : env'[u] \in Envs /\ state'[u] \in StateDicts
      BY <1>a, <2>1, <2>2, <2>3 DEF TypeOK, Owned, FirstDone
    <2>5. NextTask(t)
      BY <1>9 DEF CallTool
    <2>6. QED
      BY <1>6, <2>4, <2>5
  <1>10. ASSUME NEW t \in Trajs, NEW n \in ObsLens, GatherTools(t, n) PROVE IInv'
    <2>1. PICK l \in {"generating", "terminated"} : pc' = [pc EXCEPT ![t] = l]
      BY <1>10 DEF GatherTools, Goto
    <2>2. user_turns' \in [Trajs -> Nat]
      <3>1. user_turns' = user_turns \/ user_turns' = [user_turns EXCEPT ![t] = user_turns[t] + 1]
        BY <1>10 DEF GatherTools
      <3>2. user_turns \in [Trajs -> Nat]
        BY <1>a DEF TypeOK
      <3>3. QED
        BY <3>1, <3>2
    <2>b. tool_calls[t] \in Seq(CallKinds) /\ Len(tool_calls[t]) \in Nat
      BY <1>a DEF TypeOK
    <2>d. /\ total_tool_calls' \in [Trajs -> Nat] /\ total_errors' \in [Trajs -> Nat]
          /\ errors' \in [Trajs -> Nat]
      <3>1. /\ total_tool_calls' = [total_tool_calls EXCEPT ![t] = @ + Len(tool_calls[t])]
            /\ total_errors' = [total_errors EXCEPT ![t] = @ + errors[t]]
            /\ errors' = [errors EXCEPT ![t] = 0]
        BY <1>10 DEF GatherTools
      <3>2. QED
        BY <1>a, <2>b, <3>1 DEF TypeOK
    <2>3. TypeOK'
      BY <1>a, <1>c, <1>10, <2>1, <2>2, <2>d DEF TypeOK, GatherTools
    <2>4. ASSUME NEW u \in Trajs PROVE Owned(u)'
      BY <1>a, <1>10, <2>1 DEF TypeOK, Owned, GatherTools
    <2>5. QED
      BY <2>3, <2>4 DEF IInv, Ownership
  <1>11. ASSUME NEW t \in Trajs, NEW n \in ObsLens, Interacting(t, n),
                \E l \in {"generating", "terminated"} : Goto(t, l),
                NEW e \in Envs, env' = [env EXCEPT ![t] = e],
                NEW s \in StateDicts, state' = [state EXCEPT ![t] = s],
                native' \in [Trajs -> {0, 1, None}]
         PROVE  IInv'
    <2>2. TypeOK'
      <3>1. /\ pc' \in [Trajs -> AgentStates] /\ ctx' \in [Trajs -> Trajs \cup {None}]
            /\ user_turns' \in [Trajs -> Nat]
        BY <1>a, <1>11 DEF TypeOK, Interacting, Goto, Bind
      <3>2. env' \in [Trajs -> Envs \cup {None}] /\ state' \in [Trajs -> StateDicts \cup {None}]
        BY <1>a, <1>11 DEF TypeOK
      <3>3. QED
        BY <1>a, <1>c, <1>11, <3>1, <3>2 DEF TypeOK, Interacting
    <2>3. ASSUME NEW u \in Trajs PROVE Owned(u)'
      <3>1. /\ tool_tasks' = tool_tasks /\ instance_dict' = instance_dict
            /\ ctx'[t] = t /\ t \in instance_dict /\ pc[t] = "interacting"
            /\ pc'[t] \in {"generating", "terminated"}
            /\ env'[t] \in Envs /\ state'[t] \in StateDicts
        BY <1>a, <1>11 DEF TypeOK, Interacting, Goto, Bind
      <3>2. CASE u = t
        BY <1>a, <3>1, <3>2 DEF Owned
      <3>3. CASE u # t
        <4>1. /\ ctx'[u] = ctx[u] /\ pc'[u] = pc[u] /\ env'[u] = env[u] /\ state'[u] = state[u]
          BY <1>a, <1>11, <3>3 DEF TypeOK, Interacting, Goto, Bind
        <4>2. QED
          BY <1>a, <3>1, <4>1 DEF Owned
      <3>4. QED
        BY <3>2, <3>3
    <2>4. QED
      BY <2>2, <2>3 DEF IInv, Ownership
  <1>b. ASSUME NEW t \in Trajs, NEW n, Interacting(t, n)
        PROVE  /\ env[t] \in Envs /\ state[t] \in StateDicts
               /\ \A h \in HistoriesAfterMessage(t) : h \in Seq([tool : HistoryTools, content : Nat])
    BY <1>a, <1>b, HistoryType DEF Owned, Interacting, TypeOK
  <1>12. ASSUME NEW t \in Trajs, NEW n \in ObsLens, RespondContaminated(t, n) PROVE IInv'
    <2>1. PICK h \in HistoriesAfterMessage(t) :
              state' = [state EXCEPT ![t] = [state[t] EXCEPT !.action_history = h,
                                                !.contaminated = TRUE, !.done = TRUE]]
      BY <1>12 DEF RespondContaminated
    <2>2. [state[t] EXCEPT !.action_history = h, !.contaminated = TRUE, !.done = TRUE] \in StateDicts
      BY <1>12, <1>b DEF RespondContaminated, StateDicts
    <2>3. env' = [env EXCEPT ![t] = env[t]] /\ env[t] \in Envs /\ native' \in [Trajs -> {0, 1, None}]
      BY <1>12, <1>a, <1>b DEF RespondContaminated, TypeOK
    <2>4. QED
      BY <1>12, <2>1, <2>2, <2>3, <1>11 DEF RespondContaminated
  <1>13. ASSUME NEW t \in Trajs, NEW n \in ObsLens, RespondRaises(t, n) PROVE IInv'
    <2>1. PICK h \in HistoriesAfterMessage(t) :
              state' = [state EXCEPT ![t] = [state[t] EXCEPT !.action_history = h, !.done = TRUE]]
      BY <1>13 DEF RespondRaises
    <2>2. [state[t] EXCEPT !.action_history = h, !.done = TRUE] \in StateDicts
      BY <1>13, <1>b DEF RespondRaises, StateDicts
    <2>3. PICK e \in Envs : env' = [env EXCEPT ![t] = e]
      BY <1>13, <1>b, StepTypes DEF RespondRaises
    <2>4. native' \in [Trajs -> {0, 1, None}]
      BY <1>13, <1>a DEF RespondRaises, TypeOK
    <2>5. QED
      BY <1>13, <2>1, <2>2, <2>3, <2>4, <1>11 DEF RespondRaises
  <1>14. ASSUME NEW t \in Trajs, NEW n \in ObsLens, Respond(t, n) PROVE IInv'
    <2>1. env[t] \in Envs /\ state[t] \in StateDicts
      BY <1>14, <1>b DEF Respond
    <2> DEFINE S(h, r) == [Responded(state[t], h, r) EXCEPT !.done = @ \/ Ends(Responded(state[t], h, r), r)]
    <2>2. PICK h \in HistoriesAfterMessage(t), r \in RespondStep(env[t]) :
              /\ env' = [env EXCEPT ![t] = r.env]
              /\ native' = FirstDone(t, r)
              /\ state' = [state EXCEPT ![t] = S(h, r)]
              /\ \E l \in {"generating", "terminated"} : Goto(t, l)
      BY <1>14 DEF Respond
    <2>3. r \in StepResults /\ h \in Seq([tool : HistoryTools, content : Nat])
      BY <1>14, <1>b, <2>1, StepTypes DEF Respond
    <2>4. Responded(state[t], h, r) \in StateDicts
      <3>1. state[t].total_reward + r.reward \in Nat /\ state[t].num_user_turns + 1 \in Nat
        BY <2>1, <2>3 DEF StateDicts, StepResults
      <3>2. QED
        BY <2>1, <2>3, <3>1 DEF Responded, StateDicts
    <2>5. Ends(Responded(state[t], h, r), r) \in BOOLEAN
      BY <2>3 DEF Ends, StepResults
    <2>6. S(h, r) \in StateDicts
      BY <2>4, <2>5 DEF StateDicts
    <2>7. native' \in [Trajs -> {0, 1, None}] /\ r.env \in Envs
      BY <1>a, <2>2, <2>3 DEF FirstDone, TypeOK, StepResults
    <2>8. Interacting(t, n)
      BY <1>14 DEF Respond
    <2> HIDE DEF S
    <2>9. QED
      BY <2>2, <2>6, <2>7, <2>8, <1>11
  <1>15. ASSUME NEW t \in Trajs, Finish(t) PROVE IInv'
    <2> DEFINE o == [prompt   |-> prompt_ids[t] - Len(response_mask[t]),
                     response |-> Clip(ResponseLen(t)),
                     mask     |-> ClipMask(response_mask[t]),
                     logprobs |-> Clip(response_logprobs[t]),
                     score    |-> IF interaction_config_file # None THEN CalculateScore(t) ELSE None,
                     turns    |-> user_turns[t] + assistant_turns[t] + 1]
    <2>1. o \in Outputs
      <3>1. /\ prompt_ids[t] \in Nat /\ response_mask[t] \in Seq({0, 1})
            /\ response_logprobs[t] \in Nat /\ Len(response_mask[t]) \in Nat
            /\ prompt_ids[t] - Len(response_mask[t]) \in Nat
        BY DEF TokenInv, TokenTypes, Aligned
      <3>2. Clip(ResponseLen(t)) \in Nat /\ Clip(response_logprobs[t]) \in Nat
        BY <3>1 DEF Clip, ResponseLen
      <3>3. ClipMask(response_mask[t]) \in Seq({0, 1})
        BY <3>1, ClippedMask
      <3>4. CalculateScore(t) \in {0, 1}
        BY DEF CalculateScore
      <3>5. user_turns[t] + assistant_turns[t] + 1 \in Nat
        BY <1>a DEF TypeOK
      <3>6. QED
        BY <3>1, <3>2, <3>3, <3>4, <3>5 DEF Outputs
    <2>2. TypeOK'
      BY <1>a, <1>15, <2>1 DEF TypeOK, Finish, Goto
    <2>3. ASSUME NEW u \in Trajs PROVE Owned(u)'
      BY <1>a, <1>15 DEF TypeOK, Owned, Finish, Goto
    <2>4. QED
      BY <2>2, <2>3 DEF IInv, Ownership
  <1>16. CASE BatchReturns \/ BatchRaises
    <2>1. /\ UNCHANGED <<pc, tokenVars, turnVars, toolVars, metricVars, envVars, ctxVars, output>>
          /\ batch' \in {"returned", "raised"}
      BY <1>16 DEF BatchReturns, BatchRaises
    <2>2. TypeOK'
      BY <1>a, <2>1 DEF TypeOK
    <2>3. ASSUME NEW u \in Trajs PROVE Owned(u)'
      BY <1>a, <2>1 DEF Owned
    <2>4. QED
      BY <2>2, <2>3 DEF IInv, Ownership
  <1>17. CASE UNCHANGED vars
    BY <1>a, <1>17 DEF IInv, Ownership, TypeOK, Owned, vars
  <1>18. QED
    BY <1>1, <1>2, <1>3, <1>4, <1>5, <1>7, <1>8, <1>9, <1>10, <1>12, <1>13, <1>14, <1>15,
       <1>16, <1>17 DEF Next, Step, StartRaises, GenerateRaises

\* The inductive invariant, in one theorem for the proofs that build on it.
THEOREM OwnershipInvariant == Spec => [](IInv /\ TokenInv)
  <1>1. Spec => []TokenInv
    BY TokensInvariant
  <1>2. Spec => []IInv
    BY <1>1, InitIInv, NextIInv, PTL DEF Spec
  <1>3. QED
    BY <1>1, <1>2, PTL

\* Every variable keeps its type, for every batch and every cap: in particular
\* whatever generate_response and the tools read of env and state is there.
THEOREM TypeCorrect == Spec => []TypeOK
  <1>1. IInv => TypeOK
    BY DEF IInv
  <1>2. QED
    BY <1>1, OwnershipInvariant, PTL

\* A tool call reaches no env but the one its own trajectory started, however
\* the tasks of the batch interleave.
THEOREM OwnEnvironmentHolds == Spec => []OwnEnvironment
  <1>1. IInv => OwnEnvironment
    <2> SUFFICES ASSUME IInv, NEW t \in Trajs
                 PROVE  /\ ctx[t] \in {t, None}
                        /\ \A i \in 1..Len(tool_tasks[t]) : tool_tasks[t][i].ctx = ctx[t]
                        /\ interaction_config_file # None /\ pc[t] \notin {"created", "raised"} =>
                                ctx[t] = t /\ t \in instance_dict
                        /\ pc[t] = "interacting" => t \in instance_dict
      BY DEF OwnEnvironment
    <2>1. Owned(t) /\ pc[t] \in AgentStates
      BY DEF IInv, Ownership, TypeOK
    <2>2. pc[t] \in Inside \cup {"created", "raised"}
      BY <2>1 DEF AgentStates, Inside
    <2>3. interaction_config_file # None /\ pc[t] \in Inside => ctx[t] = t /\ t \in instance_dict
      BY <2>1 DEF Owned
    <2>4. pc[t] = "interacting" => t \in instance_dict
      BY <2>1, <2>3 DEF Owned, Inside
    <2>5. QED
      BY <2>1, <2>2, <2>3, <2>4 DEF Owned
  <1>2. QED
    BY <1>1, OwnershipInvariant, PTL

-----------------------------------------------------------------------------
(* The batch of rollouts implements RolloutBatch: what the trainer is      *)
(* promised of generate_sequences follows from the state machine.          *)

\* The status of every trajectory, as the refinement mapping gives it.
Bar == [t \in Trajs |-> Status(t)]

\* The output of Finish is legal: clipped to response_length, as long as its
\* mask, and starting with a token of the policy.
LEMMA FinishIsLegal ==
    ASSUME TypeOK, TokenInv, NEW t \in Trajs, Finish(t)
    PROVE  Batch!Legal(output'[t])
  <1> DEFINE m == response_mask[t]
             o == output'[t]
  <1>1. m \in Seq({0, 1}) /\ Len(m) \in Nat /\ Len(m) > 0 /\ m[1] = 1
    BY LoopAssumption DEF TokenInv, TokenTypes, Aligned, Spoken, Finish
  <1>2. response_logprobs[t] \in {0, Len(m)}
    BY DEF TokenInv, Kept
  <1>3. m # <<>>
    BY <1>1
  <1>4. /\ o.response = Clip(ResponseLen(t)) /\ o.mask = ClipMask(m)
        /\ o.logprobs = Clip(response_logprobs[t])
    BY DEF TypeOK, Finish
  <1>5. /\ Len(ClipMask(m)) = Clip(Len(m)) /\ Clip(Len(m)) \in 0..response_length
        /\ Clip(Len(m)) > 0 /\ ClipMask(m)[1] = 1
    BY <1>1, ClippedMask
  <1>6. o.response = Len(o.mask)
    BY <1>3, <1>4, <1>5 DEF ResponseLen
  <1>7. o.logprobs \in {0, Len(o.mask)}
    <2>1. Clip(0) = 0
      BY LoopAssumption DEF Clip
    <2>2. QED
      BY <1>2, <1>4, <1>5, <2>1
  <1>8. Len(o.mask) \in 1..response_length
    BY <1>4, <1>5, LoopAssumption
  <1>9. o.mask[1] = 1
    BY <1>4, <1>5
  <1>10. QED
    BY <1>6, <1>7, <1>8, <1>9 DEF Batch!Legal

\* A step that moves t between two states of the state machine is a stutter of
\* the batch.
LEMMA InsideStutters ==
    ASSUME TypeOK, NEW t \in Trajs, NEW l, Goto(t, l), UNCHANGED <<output, batch>>,
           l \notin {"raised", "finished"}, pc[t] \notin {"raised", "finished"}
    PROVE  UNCHANGED <<Bar, output, batch>>
  <1>1. \A u \in Trajs : Status(u)' = Status(u)
    BY DEF TypeOK, Goto, Status
  <1>2. QED
    BY <1>1 DEF Bar

\* An exception that leaves run() fails the trajectory.
LEMMA RaisingFails ==
    ASSUME TypeOK, NEW t \in Trajs, Raises(t), pc[t] \notin {"raised", "finished"}
    PROVE  Batch!Fail(t)
  <1>1. /\ Status(t) = "open" /\ Status(t)' = "raised"
        /\ \A u \in Trajs : u # t => Status(u)' = Status(u)
    BY DEF TypeOK, Raises, Goto, Status
  <1>2. Bar' = [Bar EXCEPT ![t] = "raised"] /\ Bar[t] = "open"
    BY <1>1 DEF Bar
  <1>3. QED
    BY <1>2 DEF Batch!Fail, Raises, Bar

\* Finish delivers the output of the trajectory.
LEMMA FinishDelivers ==
    ASSUME TypeOK, TokenInv, NEW t \in Trajs, Finish(t)
    PROVE  Batch!Deliver(t)
  <1>1. /\ Status(t) = "open" /\ Status(t)' = "delivered"
        /\ \A u \in Trajs : u # t => Status(u)' = Status(u)
    BY DEF TypeOK, Finish, Goto, Status
  <1>2. Bar' = [Bar EXCEPT ![t] = "delivered"] /\ Bar[t] = "open"
    BY <1>1 DEF Bar
  <1>3. output' = [output EXCEPT ![t] = output'[t]] /\ batch' = batch
    BY DEF TypeOK, Finish
  <1>4. QED
    BY <1>2, <1>3, FinishIsLegal DEF Batch!Deliver, Bar

\* Every step of a trajectory delivers, fails or is not seen by the batch.
LEMMA TrajectoryStep ==
    ASSUME TypeOK, TokenInv, NEW t \in Trajs, Step(t)
    PROVE  Batch!Deliver(t) \/ Batch!Fail(t) \/ UNCHANGED <<Bar, output, batch>>
  <1>1. CASE Finish(t)
    BY <1>1, FinishDelivers
  <1>2. CASE StartRaises(t) \/ GenerateRaises(t)
    BY <1>2, RaisingFails DEF StartRaises, GenerateRaises
  <1>3. CASE StartInteraction(t)
    BY <1>3, InsideStutters DEF StartInteraction
  <1>4. CASE HandlePending(t)
    BY <1>4, InsideStutters DEF HandlePending
  <1>5. CASE \E n \in GenLens : HandleGenerating(t, n)
    <2>1. \E l \in {"processing_tools", "interacting", "terminated"} : Goto(t, l)
      BY <1>5 DEF HandleGenerating, AfterMessage
    <2>2. QED
      BY <1>5, <2>1, InsideStutters DEF HandleGenerating
  <1>6. CASE SpawnTools(t)
    BY <1>6, InsideStutters DEF SpawnTools
  <1>7. CASE NextTask(t)
    BY <1>7 DEF NextTask, Bar, Status
  <1>8. CASE \E n \in ObsLens : GatherTools(t, n)
    BY <1>8, InsideStutters DEF GatherTools
  <1>9. CASE \E n \in ObsLens : RespondContaminated(t, n) \/ RespondRaises(t, n) \/ Respond(t, n)
    <2>1. \E l \in {"generating", "terminated"} : Goto(t, l)
      BY <1>9 DEF RespondContaminated, RespondRaises, Respond
    <2>2. pc[t] = "interacting" /\ UNCHANGED <<output, batch>>
      BY <1>9 DEF RespondContaminated, RespondRaises, Respond, Interacting
    <2>3. QED
      BY <2>1, <2>2, InsideStutters
  <1>10. QED
    BY <1>1, <1>2, <1>3, <1>4, <1>5, <1>6, <1>7, <1>8, <1>9
       DEF Step, CallToolSwallowed, CallToolRejected, CallTool

\* The rollouts implement the abstract batch: one legal output per trajectory,
\* delivered once and never touched again, all of them before the batch returns.
THEOREM BatchImplemented == Spec => ImplementsBatch
  <1>1. Init => Batch!Init
    BY DEF Init, Batch!Init, Status
  <1>2. ASSUME TypeOK, TokenInv, [Next]_vars PROVE [Batch!Next]_(Batch!vars)
    <2>1. CASE UNCHANGED vars
      BY <2>1 DEF vars, Batch!vars, Status
    <2>2. CASE BatchReturns
      <3>1. UNCHANGED <<pc, output>> /\ \A t \in Trajs : Status(t) = "delivered"
        BY <2>2 DEF BatchReturns, Status
      <3>2. Batch!Return
        BY <2>2, <3>1 DEF BatchReturns, Batch!Return, Status
      <3>3. QED
        BY <3>2 DEF Batch!Next
    <2>3. CASE BatchRaises
      <3>1. UNCHANGED <<pc, output>> /\ \E t \in Trajs : Status(t) = "raised"
        BY <2>3 DEF BatchRaises, Status
      <3>2. Batch!Raise
        BY <2>3, <3>1 DEF BatchRaises, Batch!Raise, Status
      <3>3. QED
        BY <3>2 DEF Batch!Next
    <2>4. ASSUME NEW t \in Trajs, Step(t) PROVE [Batch!Next]_(Batch!vars)
      <3>1. CASE Batch!Deliver(t) \/ Batch!Fail(t)
        BY <3>1 DEF Batch!Next
      <3>2. CASE UNCHANGED <<Bar, output, batch>>
        BY <3>2 DEF Batch!vars, Bar
      <3>3. QED
        BY <1>2, <2>4, <3>1, <3>2, TrajectoryStep
    <2>5. QED
      BY <1>2, <2>1, <2>2, <2>3, <2>4 DEF Next
  <1>3. IInv => TypeOK
    BY DEF IInv
  <1>4. QED
    BY <1>1, <1>2, <1>3, OwnershipInvariant, PTL DEF Spec, ImplementsBatch, Batch!Spec

-----------------------------------------------------------------------------
(* What a step of trajectory t may do to the episodes.                     *)

\* The episode of u, and what became of it, stay as they are.
Untouched(u) ==
    env'[u] = env[u] /\ state'[u] = state[u] /\ native'[u] = native[u] /\ output'[u] = output[u]

\* No step of t touches the episode of another trajectory, nor moves its pc or
\* enters it into _instance_dict.
LEMMA OthersUntouched ==
    ASSUME IInv, NEW t \in Trajs, Step(t), NEW u \in Trajs, u # t
    PROVE  /\ Untouched(u) /\ pc'[u] = pc[u] /\ tool_tasks'[u] = tool_tasks[u]
           /\ u \in instance_dict' <=> u \in instance_dict
  <1> USE DEF Untouched, Goto, envVars, ctxVars, toolVars
  <1>a. TypeOK
    BY DEF IInv
  <1>1. CASE StartInteraction(t)
    <2>1. env'[u] = env[u]
      BY <1>a, <1>1 DEF TypeOK, StartInteraction
    <2>2. state'[u] = state[u]
      BY <1>a, <1>1 DEF TypeOK, StartInteraction
    <2>3. pc'[u] = pc[u]
      BY <1>a, <1>1 DEF TypeOK, StartInteraction
    <2>4. /\ u \in instance_dict' <=> u \in instance_dict
          /\ native' = native /\ output' = output /\ tool_tasks' = tool_tasks
      BY <1>1 DEF StartInteraction
    <2>5. QED
      BY <2>1, <2>2, <2>3, <2>4
  <1>2. CASE StartRaises(t) \/ GenerateRaises(t)
    BY <1>a, <1>2 DEF TypeOK, StartRaises, GenerateRaises, Raises
  <1>3. CASE HandlePending(t) \/ SpawnTools(t) \/ Finish(t)
    BY <1>a, <1>3 DEF TypeOK, HandlePending, SpawnTools, Finish
  <1>4. CASE \E n \in GenLens : HandleGenerating(t, n)
    BY <1>a, <1>4 DEF TypeOK, HandleGenerating
  <1>5. CASE CallToolSwallowed(t) \/ CallToolRejected(t)
    BY <1>a, <1>5 DEF TypeOK, CallToolSwallowed, CallToolRejected, NextTask
  <1>6. CASE CallTool(t)
    <2>1. PICK r \in StepResults : /\ env' = [env EXCEPT ![t] = r.env]
                                   /\ state' = [state EXCEPT ![t] = Executed(state[t], Head(tool_tasks[t]), r)]
                                   /\ native' = FirstDone(t, r)
      BY <1>6, CallToolWrites
    <2>2. env'[u] = env[u] /\ state'[u] = state[u]
      BY <1>a, <2>1 DEF TypeOK
    <2>3. native'[u] = native[u]
      BY <1>a, <2>1 DEF TypeOK, FirstDone
    <2>4. /\ output' = output /\ pc' = pc /\ instance_dict' = instance_dict
          /\ tool_tasks'[u] = tool_tasks[u]
      BY <1>a, <1>6 DEF TypeOK, CallTool, NextTask
    <2>5. QED
      BY <2>2, <2>3, <2>4
  <1>7. CASE \E n \in ObsLens : GatherTools(t, n)
    BY <1>a, <1>7 DEF TypeOK, GatherTools
  <1>8. CASE \E n \in ObsLens : RespondContaminated(t, n)
    BY <1>a, <1>8 DEF TypeOK, RespondContaminated, Interacting
  <1>9. CASE \E n \in ObsLens : RespondRaises(t, n)
    BY <1>a, <1>9 DEF TypeOK, RespondRaises, Interacting
  <1>10. CASE \E n \in ObsLens : Respond(t, n)
    BY <1>a, <1>10 DEF TypeOK, Respond, Interacting, FirstDone
  <1>11. QED
    BY <1>1, <1>2, <1>3, <1>4, <1>5, <1>6, <1>7, <1>8, <1>9, <1>10 DEF Step

\* A step of t that touches its own episode moves t: it leaves its pc, or takes
\* a task off the running gather.
LEMMA OwnStep ==
    ASSUME IInv, NEW t \in Trajs, Step(t), env'[t] # env[t] \/ state'[t] # state[t]
    PROVE  pc'[t] # pc[t] \/ tool_tasks'[t] # tool_tasks[t]
  <1>a. TypeOK
    BY DEF IInv
  <1>1. CASE NextTask(t)
    <2>1. tool_tasks[t] \in Seq(ToolTasks) /\ tool_tasks[t] # <<>>
          /\ tool_tasks'[t] = Tail(tool_tasks[t])
      BY <1>a, <1>1 DEF TypeOK, NextTask
    <2>2. Len(Tail(tool_tasks[t])) # Len(tool_tasks[t])
      BY <2>1
    <2>3. QED
      BY <2>1, <2>2
  <1>2. CASE ~NextTask(t)
    BY <1>a, <1>2 DEF TypeOK, Step, StartInteraction, StartRaises, Raises, HandlePending,
       HandleGenerating, GenerateRaises, SpawnTools, CallToolSwallowed, CallToolRejected, CallTool,
       GatherTools, RespondContaminated, RespondRaises, Respond, Interacting, Finish, Goto, envVars
  <1>3. QED
    BY <1>1, <1>2

\* The same for a step of the batch: only the trajectory that moves changes.
LEMMA EpisodeStep ==
    ASSUME IInv, [Next]_vars, NEW u \in Trajs,
           env'[u] # env[u] \/ state'[u] # state[u]
    PROVE  pc'[u] # pc[u] \/ tool_tasks'[u] # tool_tasks[u]
  <1>1. CASE UNCHANGED vars \/ BatchReturns \/ BatchRaises
    BY <1>1 DEF vars, envVars, BatchReturns, BatchRaises
  <1>2. ASSUME NEW t \in Trajs, Step(t) PROVE pc'[u] # pc[u] \/ tool_tasks'[u] # tool_tasks[u]
    BY <1>2, OthersUntouched, OwnStep DEF Untouched
  <1>3. QED
    BY <1>1, <1>2 DEF Next

\* Rollouts share the interaction object, the tools and the event loop, and
\* nothing of each other's episode.
THEOREM EpisodesAreIsolated == Spec => EnvIsolation
  <1>1. IInv /\ [Next]_vars =>
            [\A t \in Trajs : env'[t] # env[t] \/ state'[t] # state[t] =>
                 pc'[t] # pc[t] \/ tool_tasks'[t] # tool_tasks[t]]_vars
    BY EpisodeStep
  <1>2. QED
    BY <1>1, OwnershipInvariant, PTL DEF Spec, EnvIsolation

-----------------------------------------------------------------------------
(* Reward.  An episode exists for the keys of _instance_dict only; its total   *)
(* is compared with what the environment itself says.                          *)

Backed(t) ==
    /\ t \notin instance_dict => state[t] = None /\ native[t] = None
    /\ pc[t] = "created" => t \notin instance_dict
    /\ t \in instance_dict =>
          /\ state[t].total_reward > 0 => state[t].done /\ env[t].said
          /\ native[t] = 1 => state[t].total_reward >= 1
          /\ native[t] # None => state[t].done

RewardInv == \A t \in Trajs : Backed(t)

\* An episode whose step gave r: the state dict adds the reward, is done when the
\* step is, and native is the reward of the first done step.
LEMMA EpisodePays ==
    ASSUME TypeOK, NEW t \in Trajs, Backed(t), t \in instance_dict, t \in instance_dict',
           state[t] \in StateDicts,
           NEW r \in StepResults, r.reward = 1 => r.done /\ r.env.said, env[t].said => r.env.said,
           NEW s \in StateDicts, s.total_reward = state[t].total_reward + r.reward,
           state[t].done \/ r.done => s.done,
           env'[t] = r.env, state'[t] = s, native'[t] = FirstDone(t, r)[t],
           pc'[t] # "created"
    PROVE  Backed(t)'
  <1>1. /\ state[t].total_reward \in Nat /\ r.reward \in {0, 1} /\ s.total_reward \in Nat
        /\ native[t] \in {0, 1, None}
    BY DEF StateDicts, StepResults, TypeOK
  <1>2. s.total_reward > 0 => s.done /\ r.env.said
    <2>1. CASE r.reward = 1
      BY <2>1
    <2>2. CASE r.reward = 0
      BY <1>1, <2>2 DEF Backed
    <2>3. QED
      BY <1>1, <2>1, <2>2
  <1>3. (native'[t] = 1 => s.total_reward >= 1) /\ (native'[t] # None => s.done)
    <2>1. CASE r.done /\ native[t] = None
      BY <1>1, <2>1, LoopAssumption DEF FirstDone, TypeOK
    <2>2. CASE ~(r.done /\ native[t] = None)
      BY <1>1, <2>2, LoopAssumption DEF FirstDone, TypeOK, Backed
    <2>3. QED
      BY <2>1, <2>2
  <1>4. QED
    BY <1>2, <1>3 DEF Backed

\* Every step keeps the reward backed.
LEMMA RewardStep == IInv /\ RewardInv /\ [Next]_vars => RewardInv'
  <1> SUFFICES ASSUME IInv, RewardInv, [Next]_vars PROVE RewardInv'
    OBVIOUS
  <1> USE LoopAssumption DEF Goto, envVars, ctxVars
  <1>a. TypeOK /\ \A u \in Trajs : Owned(u) /\ Backed(u)
    BY DEF IInv, Ownership, RewardInv
  <1>b. ASSUME NEW u \in Trajs, Untouched(u), u \in instance_dict' <=> u \in instance_dict,
               pc'[u] = "created" => pc[u] = "created"
        PROVE  Backed(u)'
    BY <1>a, <1>b DEF Backed, Untouched
  <1>1. ASSUME NEW t \in Trajs, StartInteraction(t) PROVE Backed(t)'
    <2>1. pc'[t] = "pending" /\ native'[t] = None
      BY <1>a, <1>1 DEF StartInteraction, TypeOK, Backed
    <2>2. CASE interaction_config_file # None
      <3>1. state'[t] = InitialState
        BY <1>a, <1>1, <2>2 DEF StartInteraction, TypeOK
      <3>2. t \in instance_dict'
        BY <1>1, <2>2 DEF StartInteraction
      <3>3. QED
        BY <2>1, <3>1, <3>2 DEF Backed, InitialState
    <2>3. CASE interaction_config_file = None
      BY <1>a, <1>1, <2>1, <2>3 DEF StartInteraction, Backed
    <2>4. QED
      BY <2>2, <2>3
  <1>2. ASSUME NEW t \in Trajs, UNCHANGED <<env, state, native, instance_dict>>,
               pc'[t] = "created" => pc[t] = "created"
        PROVE  Backed(t)'
    BY <1>a, <1>2 DEF Backed
  <1>3. ASSUME NEW t \in Trajs, CallTool(t) PROVE Backed(t)'
    <2>1. /\ t \in instance_dict /\ env[t] \in Envs /\ state[t] \in StateDicts
          /\ Head(tool_tasks[t]) \in ToolTasks
          /\ Head(tool_tasks[t]).kind \in {"tool", "transfer"}
      BY <1>3, CallToolWrites DEF CallTool
    <2>2. PICK r \in StepResults :
                /\ r \in ToolResults(t, Head(tool_tasks[t]).kind)
                /\ env' = [env EXCEPT ![t] = r.env]
                /\ state' = [state EXCEPT ![t] = Executed(state[t], Head(tool_tasks[t]), r)]
                /\ native' = FirstDone(t, r)
      BY <1>3, CallToolWrites
    <2> DEFINE s == Executed(state[t], Head(tool_tasks[t]), r)
    <2>3. s \in StateDicts
      BY <2>1, ExecutedType
    <2>4. /\ s.total_reward = state[t].total_reward + r.reward
          /\ state[t].done \/ r.done => s.done
      BY <2>1 DEF Executed, StateDicts
    <2>5. (r.reward = 1 => r.done /\ r.env.said) /\ (env[t].said => r.env.said)
      BY <2>1, <2>2, ToolResultTypes
    <2>6. /\ env'[t] = r.env /\ state'[t] = s /\ native'[t] = FirstDone(t, r)[t]
          /\ pc'[t] # "created" /\ t \in instance_dict'
      BY <1>a, <1>3, <2>1, <2>2 DEF TypeOK, CallTool, NextTask
    <2> HIDE DEF s
    <2>7. QED
      BY <1>a, <2>1, <2>3, <2>4, <2>5, <2>6, EpisodePays
  <1>c. ASSUME NEW t \in Trajs, NEW n, Interacting(t, n)
        PROVE  /\ t \in instance_dict /\ t \in instance_dict'
               /\ env[t] \in Envs /\ state[t] \in StateDicts /\ assistant_turns[t] \in Nat
    BY <1>a, <1>c DEF Owned, Interacting, TypeOK
  <1>4. ASSUME NEW t \in Trajs, NEW n \in ObsLens, RespondContaminated(t, n) PROVE Backed(t)'
    <2>1. PICK h \in HistoriesAfterMessage(t) :
              state' = [state EXCEPT ![t] = [state[t] EXCEPT !.action_history = h,
                                                !.contaminated = TRUE, !.done = TRUE]]
      BY <1>4 DEF RespondContaminated
    <2>2. Interacting(t, n) /\ UNCHANGED <<env, native>> /\ pc'[t] = "terminated"
      BY <1>4, <1>a DEF RespondContaminated, TypeOK
    <2>3. /\ state'[t].total_reward = state[t].total_reward /\ state'[t].done
      BY <1>a, <1>c, <2>1, <2>2 DEF TypeOK, StateDicts
    <2>4. QED
      BY <1>a, <1>c, <2>2, <2>3 DEF Backed
  <1>5. ASSUME NEW t \in Trajs, NEW n \in ObsLens, RespondRaises(t, n) PROVE Backed(t)'
    <2>1. PICK h \in HistoriesAfterMessage(t) :
              state' = [state EXCEPT ![t] = [state[t] EXCEPT !.action_history = h, !.done = TRUE]]
      BY <1>5 DEF RespondRaises
    <2>2. Interacting(t, n) /\ UNCHANGED native /\ pc'[t] = "terminated"
      BY <1>5, <1>a DEF RespondRaises, TypeOK
    <2>3. PICK e \in Heard(env[t]) : env' = [env EXCEPT ![t] = e]
      BY <1>5 DEF RespondRaises
    <2>4. env'[t] = e /\ (env[t].said => e.said)
      BY <1>a, <1>c, <2>2, <2>3, StepTypes DEF TypeOK
    <2>5. /\ state'[t].total_reward = state[t].total_reward /\ state'[t].done
      BY <1>a, <1>c, <2>1, <2>2 DEF TypeOK, StateDicts
    <2>6. QED
      BY <1>a, <1>c, <2>2, <2>4, <2>5 DEF Backed
  <1>6. ASSUME NEW t \in Trajs, NEW n \in ObsLens, Respond(t, n) PROVE Backed(t)'
    <2>1. Interacting(t, n) /\ env[t] \in Envs /\ state[t] \in StateDicts
      BY <1>6, <1>c DEF Respond
    <2> DEFINE S(h, r) == [Responded(state[t], h, r) EXCEPT !.done = @ \/ Ends(Responded(state[t], h, r), r)]
    <2>2. PICK h \in HistoriesAfterMessage(t), r \in RespondStep(env[t]) :
              /\ env' = [env EXCEPT ![t] = r.env]
              /\ native' = FirstDone(t, r)
              /\ state' = [state EXCEPT ![t] = S(h, r)]
              /\ pc'[t] # "created"
      BY <1>6, <1>a DEF Respond, TypeOK
    <2>3. /\ r \in StepResults /\ (r.reward = 1 => r.done /\ r.env.said)
          /\ (env[t].said => r.env.said) /\ h \in Seq([tool : HistoryTools, content : Nat])
      BY <2>1, <1>c, StepTypes, HistoryType
    <2>4. /\ Responded(state[t], h, r) \in StateDicts
          /\ Responded(state[t], h, r).total_reward = state[t].total_reward + r.reward
          /\ Responded(state[t], h, r).done = state[t].done
      <3>1. state[t].total_reward + r.reward \in Nat /\ state[t].num_user_turns + 1 \in Nat
        BY <2>1, <2>3 DEF StateDicts, StepResults
      <3>2. QED
        BY <2>1, <2>3, <3>1 DEF Responded, StateDicts
    <2>5. /\ Ends(Responded(state[t], h, r), r) \in BOOLEAN
          /\ r.done => Ends(Responded(state[t], h, r), r)
      BY <2>3 DEF Ends, StepResults
    <2>6. /\ S(h, r) \in StateDicts /\ S(h, r).total_reward = state[t].total_reward + r.reward
          /\ state[t].done \/ r.done => S(h, r).done
      BY <2>4, <2>5 DEF StateDicts
    <2>7. env'[t] = r.env /\ state'[t] = S(h, r) /\ native'[t] = FirstDone(t, r)[t]
      BY <1>a, <2>1, <2>2 DEF TypeOK
    <2> HIDE DEF S
    <2>8. QED
      BY <1>a, <1>c, <2>1, <2>2, <2>3, <2>6, <2>7, EpisodePays
  <1>7. ASSUME NEW t \in Trajs, Step(t) PROVE Backed(t)'
    <2>1. CASE \/ StartRaises(t) \/ GenerateRaises(t) \/ HandlePending(t) \/ SpawnTools(t)
               \/ \E n \in GenLens : HandleGenerating(t, n)
               \/ CallToolSwallowed(t) \/ CallToolRejected(t)
               \/ \E n \in ObsLens : GatherTools(t, n)
               \/ Finish(t)
      <3>1. pc'[t] = "created" => pc[t] = "created"
        BY <1>a, <2>1 DEF TypeOK, StartRaises, GenerateRaises, Raises, HandlePending, SpawnTools,
           HandleGenerating, AfterMessage, CallToolSwallowed, CallToolRejected, NextTask,
           GatherTools, Finish
      <3>2. UNCHANGED <<env, state, native, instance_dict>>
        BY <2>1 DEF StartRaises, GenerateRaises, Raises, HandlePending, SpawnTools,
           HandleGenerating, CallToolSwallowed, CallToolRejected, NextTask, GatherTools, Finish
      <3>3. QED
        BY <1>2, <3>1, <3>2
    <2>2. QED
      BY <1>7, <1>1, <1>3, <1>4, <1>5, <1>6, <2>1 DEF Step
  <1>8. ASSUME NEW t \in Trajs, Step(t), NEW u \in Trajs PROVE Backed(u)'
    BY <1>7, <1>8, <1>b, OthersUntouched
  <1>9. CASE UNCHANGED vars \/ BatchReturns \/ BatchRaises
    BY <1>2, <1>9 DEF vars, BatchReturns, BatchRaises, RewardInv
  <1>10. QED
    BY <1>8, <1>9 DEF Next, RewardInv

\* A positive total needs a done step and all outputs told to the user, and an
\* episode tau-bench pays is paid in the state dict.
THEOREM RewardIsBacked == Spec => []RewardBacked
  <1>1. Init => RewardInv
    BY LoopAssumption DEF Init, RewardInv, Backed
  <1>2. RewardInv => RewardBacked
    <2> SUFFICES ASSUME RewardInv, NEW t \in Trajs, state[t] # None
                 PROVE  /\ state[t].total_reward > 0 => state[t].done /\ env[t].said
                        /\ native[t] = 1 => state[t].total_reward >= 1
                        /\ native[t] # None => state[t].done
      BY DEF RewardBacked
    <2>1. Backed(t)
      BY Zenon DEF RewardInv
    <2>2. QED
      BY <2>1, Zenon DEF Backed
  <1>3. QED
    BY <1>1, <1>2, RewardStep, OwnershipInvariant, PTL DEF Spec

-----------------------------------------------------------------------------
(* The end of an episode.                                                      *)

Ended(t) ==
    /\ output[t] # None => pc[t] = "finished"
    /\ t \in instance_dict /\ state[t].contaminated => pc[t] \in {"terminated", "finished"}

EndInv == \A t \in Trajs : Ended(t)

\* A trajectory that has terminated can only be finished.
LEMMA OnlyFinish ==
    ASSUME NEW t \in Trajs, Step(t), pc[t] \in {"terminated", "finished"}
    PROVE  Finish(t)
  BY DEF Step, StartInteraction, StartRaises, HandlePending, HandleGenerating, GenerateRaises,
         SpawnTools, CallToolSwallowed, CallToolRejected, CallTool, NextTask, GatherTools,
         RespondContaminated, RespondRaises, Respond, Interacting

\* The state dict is flagged contaminated by generate_response only, which then
\* terminates the rollout.
LEMMA FlagTerminates ==
    ASSUME IInv, NEW t \in Trajs, Step(t), t \in instance_dict', state'[t].contaminated,
           ~(t \in instance_dict /\ state[t].contaminated)
    PROVE  pc'[t] = "terminated"
  <1> USE DEF envVars, ctxVars
  <1>a. TypeOK /\ Owned(t)
    BY DEF IInv, Ownership
  <1>1. CASE StartInteraction(t)
    <2>1. interaction_config_file # None => state'[t] = InitialState
      BY <1>a, <1>1 DEF TypeOK, StartInteraction
    <2>2. interaction_config_file = None => UNCHANGED <<state, instance_dict>>
      BY <1>1 DEF StartInteraction
    <2>3. QED
      BY <2>1, <2>2 DEF InitialState
  <1>2. CASE CallTool(t)
    <2>1. PICK r \in StepResults :
              state' = [state EXCEPT ![t] = Executed(state[t], Head(tool_tasks[t]), r)]
      BY <1>2, CallToolWrites
    <2>2. state[t] \in StateDicts /\ t \in instance_dict
      BY <1>2, CallToolWrites
    <2>3. state'[t].contaminated = state[t].contaminated
      BY <1>a, <2>1, <2>2 DEF TypeOK, Executed, StateDicts
    <2>4. QED
      BY <2>2, <2>3
  <1>3. CASE \E n \in ObsLens : RespondContaminated(t, n)
    BY <1>a, <1>3 DEF TypeOK, RespondContaminated, Goto
  <1>4. CASE \E n \in ObsLens : RespondRaises(t, n)
    BY <1>a, <1>4 DEF TypeOK, RespondRaises, Goto
  <1>5. CASE \E n \in ObsLens : Respond(t, n)
    <2>1. t \in instance_dict /\ state[t] \in StateDicts
      BY <1>a, <1>5 DEF Owned, Respond, Interacting
    <2>2. PICK h \in HistoriesAfterMessage(t), r \in RespondStep(env[t]) :
              state' = [state EXCEPT ![t] = [Responded(state[t], h, r) EXCEPT
                                                !.done = @ \/ Ends(Responded(state[t], h, r), r)]]
      BY <1>5 DEF Respond
    <2>3. state'[t].contaminated = Responded(state[t], h, r).contaminated
      BY <1>a, <2>1, <2>2 DEF TypeOK, Responded, StateDicts
    <2>4. Responded(state[t], h, r).contaminated = state[t].contaminated
      BY <2>1 DEF Responded, StateDicts
    <2>5. QED
      BY <2>1, <2>3, <2>4
  <1>6. CASE UNCHANGED <<state, instance_dict>>
    BY <1>6
  <1>7. QED
    BY <1>1, <1>2, <1>3, <1>4, <1>5, <1>6 DEF Step, StartRaises, GenerateRaises, Raises,
       HandlePending, SpawnTools, HandleGenerating, CallToolSwallowed, CallToolRejected, NextTask,
       GatherTools, Finish

\* Every step keeps it.
LEMMA EndStep == IInv /\ EndInv /\ [Next]_vars => EndInv'
  <1> SUFFICES ASSUME IInv, EndInv, [Next]_vars PROVE EndInv'
    OBVIOUS
  <1>a. TypeOK /\ \A u \in Trajs : Ended(u)
    BY DEF IInv, EndInv
  <1>1. ASSUME NEW t \in Trajs, Step(t) PROVE Ended(t)'
    <2>1. CASE pc[t] \in {"terminated", "finished"}
      <3>1. Finish(t)
        BY <1>1, <2>1, OnlyFinish
      <3>2. pc'[t] = "finished"
        BY <1>a, <3>1 DEF TypeOK, Finish, Goto
      <3>3. QED
        BY <3>2 DEF Ended
    <2>2. CASE pc[t] \notin {"terminated", "finished"}
      <3>1. UNCHANGED output /\ output[t] = None
        BY <1>1, <1>a, <2>2 DEF Ended, Step, StartInteraction, StartRaises, Raises, HandlePending,
           HandleGenerating, GenerateRaises, SpawnTools, CallToolSwallowed, CallToolRejected,
           CallTool, NextTask, GatherTools, RespondContaminated, RespondRaises, Respond,
           Interacting, Finish
      <3>2. ~(t \in instance_dict /\ state[t].contaminated)
        BY <1>a, <2>2 DEF Ended
      <3>3. t \in instance_dict' /\ state'[t].contaminated => pc'[t] \in {"terminated", "finished"}
        BY <1>1, <3>2, FlagTerminates
      <3>4. output'[t] # None => pc'[t] = "finished"
        BY <3>1
      <3>5. QED
        BY <3>3, <3>4, Zenon DEF Ended
    <2>3. QED
      BY <2>1, <2>2
  <1>2. ASSUME NEW t \in Trajs, Step(t), NEW u \in Trajs, u # t PROVE Ended(u)'
    BY <1>a, <1>2, OthersUntouched DEF Ended, Untouched
  <1>3. CASE UNCHANGED vars \/ BatchReturns \/ BatchRaises
    BY <1>3 DEF vars, envVars, BatchReturns, BatchRaises, EndInv, Ended
  <1>4. QED
    BY <1>1, <1>2, <1>3 DEF Next, EndInv

\* Once scored, an episode is over, and a contaminated one is never stepped
\* again: the score is computed from an episode nothing can change any more.
THEOREM ScoredEpisodesAreFrozen == Spec => EpisodeFrozen
  <1>1. Init => EndInv
    BY DEF Init, EndInv, Ended
  <1>2. ASSUME IInv, RewardInv, EndInv, [Next]_vars, NEW t \in Trajs,
               output[t] # None \/ (state[t] # None /\ state[t].contaminated)
        PROVE  /\ env'[t] = env[t] /\ state'[t] = state[t]
               /\ output[t] # None => output'[t] = output[t]
    <2>1. /\ pc[t] \in {"terminated", "finished"}
          /\ output[t] # None => pc[t] = "finished"
      BY <1>2 DEF EndInv, Ended, RewardInv, Backed
    <2>2. CASE Step(t)
      BY <2>1, <2>2, OnlyFinish DEF Finish, envVars
    <2>3. ASSUME NEW u \in Trajs, Step(u), u # t PROVE Untouched(t)
      BY <1>2, <2>3, OthersUntouched
    <2>4. CASE UNCHANGED vars \/ BatchReturns \/ BatchRaises
      BY <2>4 DEF vars, envVars, BatchReturns, BatchRaises
    <2>5. QED
      BY <1>2, <2>2, <2>3, <2>4 DEF Next, Untouched
  <1>3. IInv /\ RewardInv /\ EndInv /\ [Next]_vars =>
            [\A t \in Trajs :
                output[t] # None \/ (state[t] # None /\ state[t].contaminated) =>
                    /\ env'[t] = env[t] /\ state'[t] = state[t]
                    /\ output[t] # None => output'[t] = output[t]]_vars
    BY <1>2
  <1>4. Init => RewardInv
    BY LoopAssumption DEF Init, RewardInv, Backed
  <1>5. QED
    BY <1>1, <1>3, <1>4, EndStep, RewardStep, OwnershipInvariant, PTL DEF Spec, EpisodeFrozen

-----------------------------------------------------------------------------
(* Counters and contents.  What is counted while a message's calls run is      *)
(* related to what has been counted for the messages before it.                *)

\* The entries of the history that are tool calls.
Called(h) == {i \in 1..Len(h) : h[i].tool # "implicit_think"}

\* Calls that total_tool_calls will count, and calls that are still to be made.
Executing(t) == IF pc[t] = "calling" THEN Len(tool_calls[t]) ELSE 0
Coming(t)    == IF pc[t] = "processing_tools" THEN max_parallel_calls ELSE 0

\* The counters of the state dict beside those of agent_data.
Tallied(t) ==
    LET s == state[t]
    IN  /\ s.num_tool_calls + Len(tool_tasks[t]) <= total_tool_calls[t] + Executing(t)
        /\ s.num_tool_calls + Len(tool_tasks[t]) + Coming(t) <= max_parallel_calls * assistant_turns[t]
        /\ Cardinality(Called(s.action_history)) = s.num_tool_calls
        /\ s.num_user_turns <= user_turns[t] /\ s.num_user_turns <= max_turns
        /\ pc[t] \notin {"terminated", "finished", "raised"} => s.num_user_turns < max_turns

\* The counters of agent_data, and the content that a running call records.
Counted(t) ==
    /\ total_errors[t] <= total_tool_calls[t]
    /\ errors[t] + Len(tool_tasks[t]) <= Len(tool_calls[t])
    /\ pc[t] # "calling" => errors[t] = 0
    /\ t \in instance_dict => Tallied(t)

Written(t) ==
    /\ ctx[t] = t => interaction_config_file # None
    /\ interaction_config_file # None /\ pc[t] \in {"processing_tools", "calling"} =>
           content[t] = assistant_turns[t]
    /\ \A i \in 1..Len(tool_tasks[t]) : tool_tasks[t][i].content = content[t]

CounterInv == \A t \in Trajs : Counted(t) /\ Written(t)

\* A history that gets one more entry.
LEMMA CalledAppend ==
    ASSUME NEW S, NEW h \in Seq(S), NEW e \in S, Cardinality(Called(h)) \in Nat
    PROVE  Cardinality(Called(Append(h, e))) =
              IF e.tool = "implicit_think" THEN Cardinality(Called(h)) ELSE Cardinality(Called(h)) + 1
  <1> DEFINE a == Append(h, e)
  <1>1. /\ Len(h) \in Nat /\ Len(a) = Len(h) + 1 /\ a[Len(h) + 1] = e
        /\ \A i \in 1..Len(h) : a[i] = h[i]
    OBVIOUS
  <1>2. \A n \in Nat : 1..(n + 1) = 1..n \cup {n + 1} /\ n + 1 \notin 1..n
    OBVIOUS
  <1> HIDE DEF a
  <1>3. Called(h) \subseteq 1..Len(h)
    BY DEF Called
  <1>4. IsFiniteSet(Called(h))
    <2>1. IsFiniteSet(1..Len(h))
      BY <1>1, FS_Interval
    <2> QED
      BY <1>3, <2>1, FS_Subset
  <1>5. CASE e.tool = "implicit_think"
    <2>1. Called(a) = Called(h)
      BY <1>1, <1>2, <1>5 DEF Called
    <2> QED
      BY <1>5, <2>1 DEF a
  <1>6. CASE e.tool # "implicit_think"
    <2>1. Called(a) = Called(h) \cup {Len(h) + 1} /\ Len(h) + 1 \notin Called(h)
      BY <1>1, <1>2, <1>6 DEF Called
    <2>2. Cardinality(Called(h) \cup {Len(h) + 1}) = Cardinality(Called(h)) + 1
      BY <1>4, <2>1, FS_AddElement
    <2> QED
      BY <1>6, <2>1, <2>2 DEF a
  <1> QED
    BY <1>5, <1>6

\* What a step of t leaves of the counters and the content of another trajectory.
SameCounters(u) ==
    /\ errors'[u] = errors[u] /\ tool_calls'[u] = tool_calls[u]
    /\ total_tool_calls'[u] = total_tool_calls[u] /\ total_errors'[u] = total_errors[u]
    /\ user_turns'[u] = user_turns[u] /\ assistant_turns'[u] = assistant_turns[u]
    /\ content'[u] = content[u] /\ ctx'[u] = ctx[u]

\* No step of t touches the counters or the content of another trajectory.
LEMMA OthersCounters ==
    ASSUME TypeOK, NEW t \in Trajs, Step(t), NEW u \in Trajs, u # t
    PROVE  SameCounters(u)
  <1> USE DEF SameCounters, toolVars, metricVars, turnVars, ctxVars
  <1>1. CASE StartInteraction(t)
    BY <1>1 DEF TypeOK, StartInteraction, Bind
  <1>2. CASE StartRaises(t) \/ GenerateRaises(t)
    BY <1>2 DEF TypeOK, StartRaises, GenerateRaises, Raises
  <1>3. CASE HandlePending(t) \/ SpawnTools(t) \/ Finish(t)
    BY <1>3 DEF TypeOK, HandlePending, SpawnTools, Finish
  <1>4. CASE \E n \in GenLens : HandleGenerating(t, n)
    BY <1>4 DEF TypeOK, HandleGenerating, RecordContent
  <1>5. CASE CallToolSwallowed(t) \/ CallToolRejected(t)
    BY <1>5 DEF TypeOK, CallToolSwallowed, CallToolRejected, NextTask
  <1>6. CASE CallTool(t)
    BY <1>6 DEF TypeOK, CallTool, NextTask
  <1>7. CASE \E n \in ObsLens : GatherTools(t, n)
    BY <1>7 DEF TypeOK, GatherTools
  <1>8. CASE \E n \in ObsLens : Interacting(t, n)
    BY <1>8 DEF TypeOK, Interacting, Bind
  <1>9. QED
    BY <1>1, <1>2, <1>3, <1>4, <1>5, <1>6, <1>7, <1>8
       DEF Step, RespondContaminated, RespondRaises, Respond

\* The other trajectories keep what is known of them.
LEMMA OthersCounted ==
    ASSUME IInv, NEW t \in Trajs, Step(t), NEW u \in Trajs, u # t, Counted(u), Written(u)
    PROVE  Counted(u)' /\ Written(u)'
  <1>1. SameCounters(u)
    BY OthersCounters DEF IInv
  <1>2. /\ state'[u] = state[u] /\ pc'[u] = pc[u] /\ tool_tasks'[u] = tool_tasks[u]
        /\ u \in instance_dict' <=> u \in instance_dict
    BY OthersUntouched DEF Untouched
  <1>3. Tallied(u) => Tallied(u)'
    BY <1>1, <1>2 DEF SameCounters, Tallied, Executing, Coming
  <1>4. interaction_config_file' = interaction_config_file
    BY ConfigKept
  <1>5. QED
    BY <1>1, <1>2, <1>3, <1>4 DEF SameCounters, Counted, Written

-----------------------------------------------------------------------------
(* The trajectory that moves.                                                  *)

\* What the type invariant and ownership say of the counters of t.
CountTypes(t) ==
    /\ pc[t] \in AgentStates
    /\ total_tool_calls[t] \in Nat /\ total_errors[t] \in Nat
    /\ user_turns[t] \in Nat /\ assistant_turns[t] \in Nat /\ content[t] \in Nat /\ errors[t] \in Nat
    /\ tool_calls[t] \in Seq(CallKinds) /\ tool_tasks[t] \in Seq(ToolTasks)
    /\ Len(tool_tasks[t]) \in Nat /\ Len(tool_calls[t]) \in Nat
    /\ pc[t] # "calling" => tool_tasks[t] = <<>> /\ Len(tool_tasks[t]) = 0
    /\ t \in instance_dict => /\ state[t] \in StateDicts
                              /\ state[t].num_tool_calls \in Nat /\ state[t].num_user_turns \in Nat

\* Types and ownership, in the words of the counters.
LEMMA CountersTyped ==
    ASSUME IInv, NEW t \in Trajs
    PROVE  CountTypes(t) /\ Owned(t)
  <1>1. TypeOK /\ Owned(t)
    BY DEF IInv, Ownership
  <1>2. /\ tool_calls[t] \in Seq(CallKinds) /\ tool_tasks[t] \in Seq(ToolTasks)
        /\ Len(tool_tasks[t]) \in Nat /\ Len(tool_calls[t]) \in Nat
    BY <1>1 DEF TypeOK
  <1>3. pc[t] # "calling" => tool_tasks[t] = <<>> /\ Len(tool_tasks[t]) = 0
    BY <1>1 DEF Owned
  <1>4. t \in instance_dict => state[t] \in StateDicts
    BY <1>1 DEF Owned
  <1>5. \A s \in StateDicts : s.num_tool_calls \in Nat /\ s.num_user_turns \in Nat
    BY DEF StateDicts
  <1>6. QED
    BY <1>1, <1>2, <1>3, <1>4, <1>5 DEF TypeOK, CountTypes

\* A step that leaves the counters, the gather and the episode of t alone, and
\* does not enter a place where calls are counted or a turn begins.
Idles(t) ==
    /\ SameCounters(t) /\ tool_tasks'[t] = tool_tasks[t] /\ state'[t] = state[t]
    /\ interaction_config_file' = interaction_config_file
    /\ t \in instance_dict' <=> t \in instance_dict
    /\ pc[t] \notin {"processing_tools", "calling"} /\ pc'[t] \notin {"processing_tools", "calling"}
    /\ pc[t] \in {"terminated", "finished", "raised"} =>
           pc'[t] \in {"terminated", "finished", "raised"}

\* Where nothing is counted, the counters go on agreeing.
LEMMA IdleCounted ==
    ASSUME NEW t \in Trajs, Counted(t), Written(t), Idles(t)
    PROVE  Counted(t)' /\ Written(t)'
  <1>1. Executing(t) = 0 /\ Executing(t)' = 0 /\ Coming(t) = 0 /\ Coming(t)' = 0
    BY DEF Idles, Executing, Coming
  <1>2. Tallied(t) => Tallied(t)'
    BY <1>1 DEF Idles, SameCounters, Tallied
  <1>3. QED
    BY <1>2 DEF Idles, SameCounters, Counted, Written

\* The steps outside a message's calls: start without an interaction, an
\* exception, the prompt, the output.
LEMMA IdleSteps ==
    ASSUME IInv, NEW t \in Trajs,
           \/ StartRaises(t) \/ GenerateRaises(t) \/ HandlePending(t) \/ Finish(t)
           \/ StartInteraction(t) /\ interaction_config_file = None
    PROVE  Idles(t)
  <1> USE DEF Idles, SameCounters, Goto, toolVars, metricVars, turnVars, ctxVars, envVars
  <1>1. TypeOK
    BY DEF IInv
  <1>2. CASE StartRaises(t) \/ GenerateRaises(t)
    BY <1>1, <1>2 DEF TypeOK, StartRaises, GenerateRaises, Raises
  <1>3. CASE HandlePending(t)
    BY <1>1, <1>3 DEF TypeOK, HandlePending
  <1>4. CASE Finish(t)
    BY <1>1, <1>4 DEF TypeOK, Finish
  <1>5. CASE StartInteraction(t) /\ interaction_config_file = None
    BY <1>1, <1>5 DEF TypeOK, StartInteraction
  <1>6. QED
    BY <1>2, <1>3, <1>4, <1>5

\* An episode starts with every counter of the state dict at zero.
LEMMA StartCounted ==
    ASSUME IInv, NEW t \in Trajs, StartInteraction(t), interaction_config_file # None,
           Counted(t), Written(t)
    PROVE  Counted(t)' /\ Written(t)'
  <1>1. TypeOK /\ CountTypes(t)
    BY CountersTyped DEF IInv
  <1>2. /\ pc[t] = "created" /\ pc'[t] = "pending" /\ t \in instance_dict'
        /\ state'[t] = InitialState
    BY <1>1 DEF TypeOK, StartInteraction, Goto
  <1>3. /\ errors'[t] = errors[t] /\ tool_calls'[t] = tool_calls[t] /\ tool_tasks'[t] = tool_tasks[t]
        /\ total_tool_calls'[t] = total_tool_calls[t] /\ total_errors'[t] = total_errors[t]
        /\ user_turns'[t] = user_turns[t] /\ assistant_turns'[t] = assistant_turns[t]
        /\ content'[t] = content[t] /\ interaction_config_file' = interaction_config_file
    BY DEF StartInteraction, toolVars, metricVars, turnVars
  <1>4. Len(tool_tasks[t]) = 0 /\ Executing(t)' = 0 /\ Coming(t)' = 0
    BY <1>1, <1>2 DEF CountTypes, Executing, Coming
  <1>5. max_parallel_calls * assistant_turns[t] \in Nat
    BY <1>1, LoopAssumption DEF CountTypes
  <1>6. /\ InitialState.num_tool_calls = 0 /\ InitialState.num_user_turns = 0
        /\ InitialState.action_history = <<>>
    BY DEF InitialState
  <1>7. Cardinality(Called(<<>>)) = 0
    <2>1. Called(<<>>) = {}
      BY DEF Called
    <2> QED
      BY <2>1, FS_EmptySet
  <1>8. Tallied(t)'
    BY <1>1, <1>2, <1>3, <1>4, <1>5, <1>6, <1>7, LoopAssumption DEF Tallied, CountTypes
  <1>9. QED
    BY <1>2, <1>3, <1>8 DEF Counted, Written

\* The policy's message: a turn more, and its calls are all still to be made.
LEMMA GeneratingCounted ==
    ASSUME IInv, NEW t \in Trajs, NEW n \in GenLens, HandleGenerating(t, n), Counted(t), Written(t)
    PROVE  Counted(t)' /\ Written(t)'
  <1>1. TypeOK /\ CountTypes(t)
    BY CountersTyped DEF IInv
  <1>2. /\ errors'[t] = errors[t] /\ tool_tasks'[t] = tool_tasks[t] /\ state'[t] = state[t]
        /\ total_tool_calls'[t] = total_tool_calls[t] /\ total_errors'[t] = total_errors[t]
        /\ user_turns'[t] = user_turns[t] /\ ctx'[t] = ctx[t]
        /\ assistant_turns'[t] = assistant_turns[t] + 1
        /\ t \in instance_dict' <=> t \in instance_dict
        /\ pc[t] = "generating" /\ interaction_config_file' = interaction_config_file
    BY <1>1 DEF TypeOK, HandleGenerating, metricVars, envVars
  <1>3. PICK calls \in Seq(CallKinds) :
            /\ tool_calls'[t] = calls
            /\ pc'[t] \in {"terminated", "processing_tools", "interacting"}
            /\ interaction_config_file # None /\ pc'[t] = "processing_tools" =>
                   content'[t] = assistant_turns[t] + 1
    <2>1. CASE MustStop(t, n) /\ Goto(t, "terminated") /\ UNCHANGED <<tool_calls, content>>
      BY <1>1, <2>1 DEF TypeOK, CountTypes, Goto
    <2>2. ASSUME NEW calls \in CallSeqs, tool_calls' = [tool_calls EXCEPT ![t] = calls],
                 content' = RecordContent(t, calls), Goto(t, AfterMessage(calls))
          PROVE  /\ tool_calls'[t] = calls /\ calls \in Seq(CallKinds)
                 /\ pc'[t] \in {"terminated", "processing_tools", "interacting"}
                 /\ interaction_config_file # None /\ pc'[t] = "processing_tools" =>
                   content'[t] = assistant_turns[t] + 1
      BY <1>1, <2>2, CallSeqsType, LoopAssumption DEF TypeOK, Goto, AfterMessage, RecordContent
    <2> QED
      BY <2>1, <2>2 DEF HandleGenerating
  <1>4. Len(tool_tasks[t]) = 0 /\ Executing(t) = 0 /\ Executing(t)' = 0 /\ Coming(t) = 0
    BY <1>1, <1>2, <1>3 DEF CountTypes, Executing, Coming
  <1>5. Coming(t)' \in {0, max_parallel_calls}
    BY DEF Coming
  <1>6. tool_tasks[t] = <<>> /\ errors[t] = 0 /\ Len(calls) \in Nat
    BY <1>1, <1>2 DEF CountTypes, Counted
  <1>7. Tallied(t) /\ t \in instance_dict => Tallied(t)'
    <2>1. \A mp, at \in Nat : mp * at \in Nat /\ mp * (at + 1) = mp * at + mp
      OBVIOUS
    <2>2. /\ max_parallel_calls * assistant_turns[t] \in Nat
          /\ max_parallel_calls * (assistant_turns[t] + 1)
                = max_parallel_calls * assistant_turns[t] + max_parallel_calls
      BY <1>1, <2>1, LoopAssumption DEF CountTypes
    <2>3. \A k, m, p \in Nat : \A c \in {0, p} : k + 0 + 0 <= m => k + 0 + c <= m + p
      OBVIOUS
    <2>4. SUFFICES ASSUME Tallied(t), t \in instance_dict PROVE Tallied(t)'
      OBVIOUS
    <2>5. state[t].num_tool_calls \in Nat
      BY <1>1, <2>4 DEF CountTypes
    <2>6. state[t].num_tool_calls + 0 + Coming(t)'
             <= max_parallel_calls * assistant_turns[t] + max_parallel_calls
      BY <1>4, <1>5, <2>2, <2>3, <2>4, <2>5, LoopAssumption DEF Tallied
    <2> QED
      BY <1>2, <1>3, <1>4, <2>2, <2>4, <2>6 DEF Tallied
  <1>8. QED
    BY <1>1, <1>2, <1>3, <1>4, <1>6, <1>7 DEF Counted, Written, CountTypes

\* The gather: at most max_parallel_calls tasks, which carry this turn's content.
LEMMA SpawnCounted ==
    ASSUME IInv, NEW t \in Trajs, SpawnTools(t), Counted(t), Written(t)
    PROVE  Counted(t)' /\ Written(t)'
  <1>1. TypeOK /\ CountTypes(t)
    BY CountersTyped DEF IInv
  <1> DEFINE tasks == GatheredTasks(t)
             k == IF Len(tool_calls[t]) > max_parallel_calls THEN max_parallel_calls ELSE Len(tool_calls[t])
  <1>2. /\ SameCounters(t) /\ state'[t] = state[t] /\ tool_tasks'[t] = tasks
        /\ t \in instance_dict' <=> t \in instance_dict
        /\ pc[t] = "processing_tools" /\ pc'[t] = "calling"
        /\ interaction_config_file' = interaction_config_file
    BY <1>1 DEF TypeOK, SpawnTools, Goto, SameCounters, metricVars, turnVars, ctxVars, envVars
  <1>3. k \in Nat /\ k <= Len(tool_calls[t]) /\ k <= max_parallel_calls
    BY <1>1, LoopAssumption DEF CountTypes
  <1>4. Len(tasks) = k /\ \A i \in 1..k : tasks[i].content = content[t]
    BY <1>3 DEF GatheredTasks
  <1>5. /\ Len(tool_tasks[t]) = 0 /\ Executing(t) = 0 /\ Executing(t)' = Len(tool_calls[t])
        /\ Coming(t) = max_parallel_calls /\ Coming(t)' = 0 /\ errors[t] = 0
    BY <1>1, <1>2 DEF CountTypes, Executing, Coming, SameCounters, Counted
  <1> HIDE DEF tasks, k
  <1>6. t \in instance_dict /\ Tallied(t) => Tallied(t)'
    <2>1. SUFFICES ASSUME Tallied(t), t \in instance_dict PROVE Tallied(t)'
      OBVIOUS
    <2>2. state[t].num_tool_calls \in Nat /\ max_parallel_calls * assistant_turns[t] \in Nat
      BY <1>1, <2>1, LoopAssumption DEF CountTypes
    <2>3. \A a, b, c, d, m, q \in Nat : (a + 0 <= b + 0) /\ d <= c /\ (a + 0 + m <= q) /\ d <= m
                                     => (a + d <= b + c) /\ (a + d + 0 <= q)
      OBVIOUS
    <2>4. /\ state[t].num_tool_calls + k <= total_tool_calls[t] + Len(tool_calls[t])
          /\ state[t].num_tool_calls + k + 0 <= max_parallel_calls * assistant_turns[t]
      <3>1. total_tool_calls[t] \in Nat /\ Len(tool_calls[t]) \in Nat
        BY <1>1 DEF CountTypes
      <3>2. /\ state[t].num_tool_calls + 0 <= total_tool_calls[t] + 0
            /\ state[t].num_tool_calls + 0 + max_parallel_calls
                  <= max_parallel_calls * assistant_turns[t]
        BY <1>5, <2>1 DEF Tallied
      <3> QED
        BY <1>3, <2>2, <2>3, <3>1, <3>2, LoopAssumption
    <2> QED
      BY <1>2, <1>4, <1>5, <2>1, <2>4 DEF Tallied, SameCounters
  <1>7. QED
    BY <1>1, <1>2, <1>3, <1>4, <1>5, <1>6 DEF Counted, Written, SameCounters, CountTypes

\* What a call adds to the state dict of t: x entries, and as many executed calls.
Executes(t, x) ==
    t \in instance_dict =>
        /\ state'[t].num_tool_calls = state[t].num_tool_calls + x
        /\ state'[t].num_user_turns = state[t].num_user_turns
        /\ Cardinality(Called(state'[t].action_history)) = Cardinality(Called(state[t].action_history)) + x

\* A call: a task less, at most an error more, at most an executed call more.
LEMMA TaskCounted ==
    ASSUME IInv, NEW t \in Trajs, Counted(t), Written(t),
           NextTask(t), errors'[t] \in {errors[t], errors[t] + 1}, NEW x \in {0, 1}, Executes(t, x)
    PROVE  Counted(t)' /\ Written(t)'
  <1>1. TypeOK /\ CountTypes(t)
    BY CountersTyped DEF IInv
  <1> DEFINE tasks == tool_tasks[t]
  <1>2. /\ pc[t] = "calling" /\ pc'[t] = "calling" /\ tasks # <<>> /\ tool_tasks'[t] = Tail(tasks)
        /\ t \in instance_dict' <=> t \in instance_dict
        /\ total_tool_calls'[t] = total_tool_calls[t] /\ total_errors'[t] = total_errors[t]
        /\ user_turns'[t] = user_turns[t] /\ assistant_turns'[t] = assistant_turns[t]
        /\ content'[t] = content[t] /\ ctx'[t] = ctx[t] /\ tool_calls'[t] = tool_calls[t]
        /\ interaction_config_file' = interaction_config_file
    BY <1>1 DEF TypeOK, NextTask, metricVars, turnVars, ctxVars
  <1>3. PICK k \in Nat : Len(tasks) = k + 1 /\ Len(Tail(tasks)) = k
    <2>1. Len(tasks) \in Nat \ {0} /\ Len(Tail(tasks)) = Len(tasks) - 1
      BY <1>1, <1>2 DEF CountTypes
    <2> WITNESS Len(tasks) - 1 \in Nat
    <2> QED
      BY <2>1
  <1>4. \A i \in 1..Len(Tail(tasks)) : Tail(tasks)[i] = tasks[i + 1] /\ i + 1 \in 1..Len(tasks)
    BY <1>1, <1>2, <1>3 DEF CountTypes
  <1> HIDE DEF tasks
  <1>5. /\ Executing(t) = Len(tool_calls[t]) /\ Executing(t)' = Len(tool_calls[t])
        /\ Coming(t) = 0 /\ Coming(t)' = 0
    BY <1>2 DEF Executing, Coming
  <1>6. t \in instance_dict /\ Tallied(t) => Tallied(t)'
    <2>1. SUFFICES ASSUME Tallied(t), t \in instance_dict PROVE Tallied(t)'
      OBVIOUS
    <2>2. state[t].num_tool_calls \in Nat /\ max_parallel_calls * assistant_turns[t] \in Nat
      BY <1>1, <2>1, LoopAssumption DEF CountTypes
    <2>3. \A a, b, c, d \in Nat : (a + (d + 1) <= b + c => a + x + d <= b + c)
                                  /\ (a + (d + 1) + 0 <= b => a + x + d + 0 <= b)
      OBVIOUS
    <2>4. /\ state[t].num_tool_calls + x + k <= total_tool_calls[t] + Len(tool_calls[t])
          /\ state[t].num_tool_calls + x + k + 0 <= max_parallel_calls * assistant_turns[t]
      BY <1>1, <1>3, <1>5, <2>1, <2>2, <2>3 DEF CountTypes, Tallied, tasks
    <2>5. /\ state'[t].num_tool_calls = state[t].num_tool_calls + x
          /\ state'[t].num_user_turns = state[t].num_user_turns
          /\ Cardinality(Called(state'[t].action_history)) = state[t].num_tool_calls + x
      BY <2>1 DEF Executes, Tallied
    <2> HIDE DEF Executes
    <2>6. /\ state[t].num_user_turns <= user_turns[t] /\ state[t].num_user_turns <= max_turns
          /\ pc[t] \notin {"terminated", "finished", "raised"} => state[t].num_user_turns < max_turns
      BY <2>1 DEF Tallied
    <2> QED
      BY <1>2, <1>3, <1>5, <2>4, <2>5, <2>6 DEF Tallied
  <1>7. errors'[t] + k <= Len(tool_calls[t])
    <2>1. \A a, b, c, d \in Nat : d \in {a, a + 1} /\ a + (b + 1) <= c => d + b <= c
      OBVIOUS
    <2>2. errors[t] + (k + 1) <= Len(tool_calls[t]) /\ errors'[t] \in Nat
      BY <1>1, <1>2, <1>3 DEF Counted, CountTypes, tasks
    <2> QED
      BY <1>1, <1>2, <2>1, <2>2 DEF CountTypes
  <1>8. \A i \in 1..Len(Tail(tasks)) : Tail(tasks)[i].content = content[t]
    BY <1>4 DEF Written, tasks
  <1>9. Counted(t)'
    <2>1. (errors[t] + Len(tool_tasks[t]) <= Len(tool_calls[t]))'
      BY <1>2, <1>3, <1>7
    <2>2. (total_errors[t] <= total_tool_calls[t])'
      BY <1>2 DEF Counted
    <2>3. (pc[t] # "calling" => errors[t] = 0)' /\ (t \in instance_dict => Tallied(t))'
      BY <1>2, <1>6 DEF Counted
    <2> QED
      BY <2>1, <2>2, <2>3 DEF Counted
  <1>10. QED
    BY <1>2, <1>8, <1>9 DEF Written

\* A call that does not reach env.step, and one that does.
LEMMA CallCounted ==
    ASSUME IInv, NEW t \in Trajs, Counted(t), Written(t),
           CallToolSwallowed(t) \/ CallToolRejected(t) \/ CallTool(t)
    PROVE  Counted(t)' /\ Written(t)'
  <1>1. TypeOK /\ CountTypes(t)
    BY CountersTyped DEF IInv
  <1>2. CASE CallToolSwallowed(t) \/ CallToolRejected(t)
    <2>1. NextTask(t) /\ errors'[t] \in {errors[t], errors[t] + 1} /\ state'[t] = state[t]
      BY <1>1, <1>2 DEF TypeOK, CallToolSwallowed, CallToolRejected
    <2>2. Executes(t, 0)
      <3>1. SUFFICES ASSUME t \in instance_dict PROVE Executes(t, 0)
        BY DEF Executes
      <3>2. state[t].num_tool_calls \in Nat
        BY <1>1, <3>1 DEF CountTypes
      <3>3. Cardinality(Called(state[t].action_history)) = state[t].num_tool_calls
        BY <3>1 DEF Counted, Tallied
      <3> QED
        BY <2>1, <3>2, <3>3 DEF Executes
    <2> QED
      BY <2>1, <2>2, TaskCounted
  <1>3. CASE CallTool(t)
    <2> DEFINE task == Head(tool_tasks[t])
               e == [tool |-> task.kind, content |-> task.content]
    <2>1. /\ t \in instance_dict /\ state[t] \in StateDicts /\ task \in ToolTasks
          /\ task.kind \in {"tool", "transfer"}
      BY <1>3, CallToolWrites DEF CallTool
    <2>2. PICK r \in StepResults :
                /\ state' = [state EXCEPT ![t] = Executed(state[t], task, r)]
                /\ errors' = [errors EXCEPT ![t] = IF r.error THEN @ + 1 ELSE @]
      BY <1>3, CallToolWrites
    <2>3. /\ e \in [tool : HistoryTools, content : Nat] /\ e.tool # "implicit_think"
          /\ state[t].action_history \in Seq([tool : HistoryTools, content : Nat])
          /\ state[t].num_tool_calls \in Nat
      BY <2>1 DEF ToolTasks, HistoryTools, StateDicts
    <2>4. /\ state'[t].num_tool_calls = state[t].num_tool_calls + 1
          /\ state'[t].num_user_turns = state[t].num_user_turns
          /\ state'[t].action_history = Append(state[t].action_history, e)
      BY <1>1, <2>1, <2>2 DEF TypeOK, Executed, StateDicts
    <2> HIDE DEF task, e
    <2>5. Cardinality(Called(state[t].action_history)) \in Nat
      BY <2>1, <2>3 DEF Counted, Tallied
    <2>6. Cardinality(Called(Append(state[t].action_history, e)))
              = Cardinality(Called(state[t].action_history)) + 1
      BY <2>3, <2>5, CalledAppend
    <2>7. Executes(t, 1)
      BY <2>4, <2>6 DEF Executes
    <2>8. NextTask(t) /\ errors'[t] \in {errors[t], errors[t] + 1}
      BY <1>1, <1>3, <2>2 DEF TypeOK, CallTool
    <2> QED
      BY <2>7, <2>8, TaskCounted
  <1>4. QED
    BY <1>2, <1>3

\* The gather is over: its calls and errors join the totals.
LEMMA GatherCounted ==
    ASSUME IInv, NEW t \in Trajs, NEW n \in ObsLens, GatherTools(t, n), Counted(t), Written(t)
    PROVE  Counted(t)' /\ Written(t)'
  <1>1. TypeOK /\ CountTypes(t)
    BY CountersTyped DEF IInv
  <1>2. /\ pc[t] = "calling" /\ tool_tasks[t] = <<>> /\ tool_tasks'[t] = <<>>
        /\ tool_calls'[t] = tool_calls[t] /\ state'[t] = state[t]
    BY <1>1 DEF TypeOK, GatherTools, envVars
  <1>3. /\ t \in instance_dict' <=> t \in instance_dict
        /\ content'[t] = content[t] /\ ctx'[t] = ctx[t] /\ assistant_turns'[t] = assistant_turns[t]
        /\ interaction_config_file' = interaction_config_file
    BY <1>1 DEF TypeOK, GatherTools, envVars, ctxVars
  <1>4. /\ total_tool_calls'[t] = total_tool_calls[t] + Len(tool_calls[t])
        /\ total_errors'[t] = total_errors[t] + errors[t] /\ errors'[t] = 0
    BY <1>1 DEF TypeOK, GatherTools
  <1>5. user_turns'[t] \in {user_turns[t], user_turns[t] + 1} /\ pc'[t] \in {"terminated", "generating"}
    BY <1>1 DEF TypeOK, GatherTools, Goto
  <1>6. /\ Executing(t) = Len(tool_calls[t]) /\ Executing(t)' = 0 /\ Coming(t) = 0 /\ Coming(t)' = 0
        /\ Len(tool_tasks[t]) = 0 /\ Len(tool_tasks'[t]) = 0
    BY <1>2, <1>5 DEF Executing, Coming
  <1>7. t \in instance_dict /\ Tallied(t) => Tallied(t)'
    <2>1. SUFFICES ASSUME Tallied(t), t \in instance_dict PROVE Tallied(t)'
      OBVIOUS
    <2>2. state[t].num_tool_calls \in Nat /\ state[t].num_user_turns \in Nat
      BY <1>1, <2>1 DEF CountTypes
    <2>3. \A a, b \in Nat : \A c \in {b, b + 1} : a <= b => a <= c
      OBVIOUS
    <2>4. state[t].num_user_turns <= user_turns'[t]
      <3> HIDE DEF IInv
      <3>1. user_turns[t] \in Nat /\ state[t].num_user_turns <= user_turns[t]
        BY <1>1, <2>1 DEF CountTypes, Tallied
      <3> QED
        BY <1>5, <2>2, <2>3, <3>1
    <2>5. /\ state[t].num_tool_calls + 0 <= total_tool_calls[t] + Len(tool_calls[t])
          /\ state[t].num_tool_calls + 0 + 0 <= max_parallel_calls * assistant_turns[t]
          /\ Cardinality(Called(state[t].action_history)) = state[t].num_tool_calls
          /\ state[t].num_user_turns <= max_turns /\ state[t].num_user_turns < max_turns
      BY <1>2, <1>6, <2>1 DEF Tallied
    <2>6. (state[t].num_tool_calls + Len(tool_tasks[t]) <= total_tool_calls[t] + Executing(t))'
      <3>1. \A a, b, c \in Nat : a + 0 <= b + c => a + 0 <= (b + c) + 0
        OBVIOUS
      <3>2. state[t].num_tool_calls + 0 <= (total_tool_calls[t] + Len(tool_calls[t])) + 0
        BY <1>1, <2>2, <2>5, <3>1 DEF CountTypes
      <3> QED
        BY <1>2, <1>4, <1>6, <3>2
    <2> QED
      BY <1>2, <1>3, <1>6, <2>4, <2>5, <2>6 DEF Tallied
  <1>8. total_errors[t] + errors[t] <= total_tool_calls[t] + Len(tool_calls[t])
        /\ 0 + Len(tool_tasks[t]) <= Len(tool_calls[t])
    BY <1>1, <1>6 DEF Counted, CountTypes
  <1>9. Counted(t)'
    <2>1. (total_errors[t] <= total_tool_calls[t])' /\ (errors[t] + Len(tool_tasks[t]) <= Len(tool_calls[t]))'
      BY <1>2, <1>4, <1>6, <1>8
    <2>2. (pc[t] # "calling" => errors[t] = 0)'
      BY <1>4
    <2>3. (t \in instance_dict => Tallied(t))'
      BY <1>3, <1>7 DEF Counted
    <2> QED
      BY <2>1, <2>2, <2>3 DEF Counted
  <1>10. Written(t)'
    BY <1>2, <1>3, <1>5 DEF Written
  <1>11. QED
    BY <1>9, <1>10

\* A message to the user: the history gains at most a thought, which is no call.
LEMMA MessageCounted ==
    ASSUME NEW t \in Trajs, t \in instance_dict, state[t] \in StateDicts, assistant_turns[t] \in Nat,
           Counted(t), NEW h \in HistoriesAfterMessage(t)
    PROVE  Cardinality(Called(h)) = state[t].num_tool_calls
  <1> DEFINE think == [tool |-> "implicit_think", content |-> assistant_turns[t]]
  <1>1. /\ state[t].action_history \in Seq([tool : HistoryTools, content : Nat])
        /\ think \in [tool : HistoryTools, content : Nat] /\ think.tool = "implicit_think"
        /\ state[t].num_tool_calls \in Nat
    BY DEF StateDicts, HistoryTools
  <1>2. h \in {state[t].action_history, Append(state[t].action_history, think)}
    BY DEF HistoriesAfterMessage
  <1> HIDE DEF think
  <1>3. Cardinality(Called(state[t].action_history)) = state[t].num_tool_calls
    BY DEF Counted, Tallied
  <1> QED
    BY <1>1, <1>2, <1>3, CalledAppend

\* The answer of the user: a user turn in the counters of agent_data, and in the
\* state dict one more at most, which the budget bounds while the talk goes on.
Answered(t) ==
    /\ Cardinality(Called(state'[t].action_history)) = state[t].num_tool_calls
    /\ state'[t].num_tool_calls = state[t].num_tool_calls
    /\ state'[t].num_user_turns \in {state[t].num_user_turns, state[t].num_user_turns + 1}
    /\ \/ pc'[t] = "terminated"
       \/ pc'[t] = "generating" /\ state'[t].num_user_turns < max_turns

\* The answer keeps the counters in agreement.
LEMMA AnswerCounted ==
    ASSUME IInv, NEW t \in Trajs, NEW n, Interacting(t, n), Answered(t), Counted(t), Written(t),
           tool_tasks'[t] = tool_tasks[t]
    PROVE  Counted(t)' /\ Written(t)'
  <1>1. TypeOK /\ CountTypes(t) /\ Owned(t)
    BY CountersTyped DEF IInv
  <1>2. /\ pc[t] = "interacting" /\ t \in instance_dict /\ t \in instance_dict'
        /\ interaction_config_file # None
        /\ errors'[t] = errors[t] /\ tool_calls'[t] = tool_calls[t] /\ tool_tasks'[t] = tool_tasks[t]
        /\ total_tool_calls'[t] = total_tool_calls[t] /\ total_errors'[t] = total_errors[t]
        /\ assistant_turns'[t] = assistant_turns[t] /\ content'[t] = content[t]
        /\ user_turns'[t] = user_turns[t] + 1
        /\ state[t] \in StateDicts /\ interaction_config_file' = interaction_config_file
    BY <1>1 DEF TypeOK, Owned, Interacting, toolVars, metricVars
  <1>3. /\ Executing(t) = 0 /\ Executing(t)' = 0 /\ Coming(t) = 0 /\ Coming(t)' = 0
        /\ pc'[t] \in {"terminated", "generating"}
    BY <1>2 DEF Executing, Coming, Answered
  <1>4. Tallied(t)
    BY <1>2 DEF Counted
  <1>5. /\ state[t].num_user_turns \in Nat /\ user_turns[t] \in Nat
        /\ state[t].num_user_turns <= user_turns[t] /\ state[t].num_user_turns < max_turns
    BY <1>1, <1>2, <1>4 DEF Tallied, CountTypes
  <1>6. \A a, b \in Nat : \A c \in {a, a + 1} : (a <= b => c <= b + 1) /\ (a < b => c <= b)
    OBVIOUS
  <1>7. state'[t].num_user_turns <= user_turns[t] + 1 /\ state'[t].num_user_turns <= max_turns
    BY <1>5, <1>6, LoopAssumption DEF Answered
  <1>8. /\ state[t].num_tool_calls + Len(tool_tasks[t]) <= total_tool_calls[t] + 0
        /\ state[t].num_tool_calls + Len(tool_tasks[t]) + 0 <= max_parallel_calls * assistant_turns[t]
    BY <1>3, <1>4 DEF Tallied
  <1>9. Tallied(t)'
    <2>1. /\ (state[t].num_tool_calls + Len(tool_tasks[t]) <= total_tool_calls[t] + Executing(t))'
          /\ (state[t].num_tool_calls + Len(tool_tasks[t]) + Coming(t)
                   <= max_parallel_calls * assistant_turns[t])'
      BY <1>2, <1>3, <1>8 DEF Answered
    <2>2. /\ (state[t].num_user_turns <= user_turns[t])'
          /\ (state[t].num_user_turns <= max_turns)'
      BY <1>2, <1>7
    <2>3. /\ (pc[t] \notin {"terminated", "finished", "raised"} => state[t].num_user_turns < max_turns)'
          /\ (Cardinality(Called(state[t].action_history)) = state[t].num_tool_calls)'
      BY DEF Answered
    <2> QED
      BY <2>1, <2>2, <2>3 DEF Tallied
  <1>10. (total_errors[t] <= total_tool_calls[t])' /\ (errors[t] + Len(tool_tasks[t]) <= Len(tool_calls[t]))'
    BY <1>2 DEF Counted
  <1>11. (pc[t] # "calling" => errors[t] = 0)'
    BY <1>2 DEF Counted
  <1>12. Counted(t)'
    BY <1>9, <1>10, <1>11 DEF Counted
  <1>13. Written(t)'
    BY <1>2, <1>3 DEF Written
  <1>14. QED
    BY <1>12, <1>13

\* A message that ends the talk by force writes its history and no counter.
LEMMA ForcedEnd ==
    ASSUME TypeOK, NEW t \in Trajs, NEW n \in ObsLens, state[t] \in StateDicts,
           RespondContaminated(t, n) \/ RespondRaises(t, n)
    PROVE  /\ \E h \in HistoriesAfterMessage(t) : state'[t].action_history = h
           /\ state'[t].num_tool_calls = state[t].num_tool_calls
           /\ state'[t].num_user_turns = state[t].num_user_turns
           /\ pc'[t] = "terminated"
  <1>1. PICK h \in HistoriesAfterMessage(t) :
            \/ state' = [state EXCEPT ![t] = [state[t] EXCEPT !.action_history = h,
                                                !.contaminated = TRUE, !.done = TRUE]]
            \/ state' = [state EXCEPT ![t] = [state[t] EXCEPT !.action_history = h, !.done = TRUE]]
    BY DEF RespondContaminated, RespondRaises
  <1>2. \/ state'[t] = [state[t] EXCEPT !.action_history = h, !.contaminated = TRUE, !.done = TRUE]
        \/ state'[t] = [state[t] EXCEPT !.action_history = h, !.done = TRUE]
    BY <1>1 DEF TypeOK
  <1>3. /\ state'[t].action_history = h
        /\ state'[t].num_tool_calls = state[t].num_tool_calls
        /\ state'[t].num_user_turns = state[t].num_user_turns
    <2>1. CASE state'[t] = [state[t] EXCEPT !.action_history = h, !.contaminated = TRUE, !.done = TRUE]
      BY <2>1 DEF StateDicts
    <2>2. CASE state'[t] = [state[t] EXCEPT !.action_history = h, !.done = TRUE]
      BY <2>2 DEF StateDicts
    <2> QED
      BY <1>2, <2>1, <2>2
  <1>4. pc'[t] = "terminated"
    BY DEF TypeOK, RespondContaminated, RespondRaises, Goto
  <1> QED
    BY <1>3, <1>4

\* What the three answers write in the state dict.
LEMMA RespondAnswers ==
    ASSUME IInv, NEW t \in Trajs, NEW n \in ObsLens, Counted(t),
           RespondContaminated(t, n) \/ RespondRaises(t, n) \/ Respond(t, n)
    PROVE  Interacting(t, n) /\ Answered(t) /\ tool_tasks'[t] = tool_tasks[t]
  <1>1. TypeOK /\ CountTypes(t)
    BY CountersTyped DEF IInv
  <1>2. Interacting(t, n)
    BY DEF RespondContaminated, RespondRaises, Respond
  <1>3. /\ t \in instance_dict /\ state[t] \in StateDicts /\ assistant_turns[t] \in Nat
        /\ tool_tasks'[t] = tool_tasks[t]
        /\ state[t].num_user_turns \in Nat /\ state[t].num_tool_calls \in Nat
    BY <1>1, <1>2 DEF Interacting, CountTypes, toolVars, StateDicts
  <1>4. ASSUME NEW h \in HistoriesAfterMessage(t), state'[t].action_history = h
        PROVE  Cardinality(Called(state'[t].action_history)) = state[t].num_tool_calls
    BY <1>3, <1>4, MessageCounted
  <1>5. CASE RespondContaminated(t, n) \/ RespondRaises(t, n)
    <2>1. /\ \E h \in HistoriesAfterMessage(t) : state'[t].action_history = h
          /\ state'[t].num_tool_calls = state[t].num_tool_calls
          /\ state'[t].num_user_turns = state[t].num_user_turns
          /\ pc'[t] = "terminated"
      BY <1>1, <1>3, <1>5, ForcedEnd
    <2> QED
      BY <1>2, <1>3, <1>4, <2>1 DEF Answered
  <1>6. CASE Respond(t, n)
    <2>1. PICK h \in HistoriesAfterMessage(t), r \in RespondStep(env[t]) :
            LET s == Responded(state[t], h, r)
            IN  /\ state' = [state EXCEPT ![t] = [s EXCEPT !.done = @ \/ Ends(s, r)]]
                /\ Goto(t, IF Ends(s, r) THEN "terminated" ELSE "generating")
      BY <1>6 DEF Respond
    <2> DEFINE s == Responded(state[t], h, r)
    <2>2. /\ s.num_user_turns = state[t].num_user_turns + 1 /\ s.action_history = h
          /\ s.num_tool_calls = state[t].num_tool_calls
      BY <1>3 DEF Responded, StateDicts
    <2>3. /\ state'[t].num_user_turns = s.num_user_turns /\ state'[t].action_history = s.action_history
          /\ state'[t].num_tool_calls = s.num_tool_calls
      BY <1>1, <1>3, <2>1 DEF TypeOK, StateDicts, Responded
    <2>4. pc'[t] = IF Ends(s, r) THEN "terminated" ELSE "generating"
      BY <1>1, <2>1 DEF TypeOK, Goto
    <2> HIDE DEF s
    <2>5. ~Ends(s, r) => s.num_user_turns < max_turns
      <3>1. \A a, b, m \in Nat : ~(a + 1 + b >= m) => a + 1 < m
        OBVIOUS
      <3> QED
        BY <1>3, <2>2, <3>1, LoopAssumption DEF Ends
    <2> QED
      BY <1>2, <1>3, <1>4, <2>2, <2>3, <2>4, <2>5 DEF Answered
  <1>7. QED
    BY <1>5, <1>6

\* Every step keeps the counters in agreement.
LEMMA CounterStep == IInv /\ CounterInv /\ [Next]_vars => CounterInv'
  <1> SUFFICES ASSUME IInv, CounterInv, [Next]_vars PROVE CounterInv'
    OBVIOUS
  <1>1. \A t \in Trajs : Counted(t) /\ Written(t)
    BY DEF CounterInv
  <1>2. ASSUME NEW t \in Trajs, Step(t) PROVE Counted(t)' /\ Written(t)'
    <2>1. CASE \/ StartRaises(t) \/ GenerateRaises(t) \/ HandlePending(t) \/ Finish(t)
               \/ StartInteraction(t) /\ interaction_config_file = None
      BY <1>1, <2>1, IdleSteps, IdleCounted
    <2>2. CASE StartInteraction(t) /\ interaction_config_file # None
      BY <1>1, <2>2, StartCounted
    <2>3. CASE \E n \in GenLens : HandleGenerating(t, n)
      BY <1>1, <2>3, GeneratingCounted
    <2>4. CASE SpawnTools(t)
      BY <1>1, <2>4, SpawnCounted
    <2>5. CASE CallToolSwallowed(t) \/ CallToolRejected(t) \/ CallTool(t)
      BY <1>1, <2>5, CallCounted
    <2>6. CASE \E n \in ObsLens : GatherTools(t, n)
      BY <1>1, <2>6, GatherCounted
    <2>7. CASE \E n \in ObsLens : RespondContaminated(t, n) \/ RespondRaises(t, n) \/ Respond(t, n)
      BY <1>1, <2>7, RespondAnswers, AnswerCounted
    <2> QED
      BY <1>2, <2>1, <2>2, <2>3, <2>4, <2>5, <2>6, <2>7 DEF Step
  <1>3. ASSUME NEW t \in Trajs, Step(t), NEW u \in Trajs PROVE Counted(u)' /\ Written(u)'
    BY <1>1, <1>2, <1>3, OthersCounted
  <1>4. CASE UNCHANGED vars \/ BatchReturns \/ BatchRaises
    <2>1. UNCHANGED <<pc, turnVars, toolVars, metricVars, envVars, ctxVars>>
      BY <1>4 DEF vars, BatchReturns, BatchRaises
    <2> QED
      BY <1>1, <2>1 DEF CounterInv, Counted, Written, Tallied, Executing, Coming,
         turnVars, toolVars, metricVars, envVars, ctxVars
  <1>5. QED
    BY <1>3, <1>4 DEF Next, CounterInv

\* Nothing is counted in the beginning.
LEMMA InitCounterInv == Init => CounterInv
  BY LoopAssumption DEF Init, CounterInv, Counted, Written

\* Without an episode there is nothing to count.
LEMMA CountersFollow == IInv /\ RewardInv /\ CounterInv => CountersAgree
  <1> SUFFICES ASSUME IInv, RewardInv, CounterInv, NEW t \in Trajs
               PROVE  /\ total_errors[t] <= total_tool_calls[t]
                      /\ errors[t] + Len(tool_tasks[t]) <= Len(tool_calls[t])
                      /\ state[t] # None =>
                           LET s == state[t]
                               called(h) == {i \in 1..Len(h) : h[i].tool # "implicit_think"}
                               executing == IF pc[t] = "calling" THEN Len(tool_calls[t]) ELSE 0
                           IN  /\ s.num_tool_calls + Len(tool_tasks[t]) <= total_tool_calls[t] + executing
                               /\ s.num_tool_calls + Len(tool_tasks[t]) <= max_parallel_calls * assistant_turns[t]
                               /\ Cardinality(called(s.action_history)) = s.num_tool_calls
                               /\ s.num_user_turns <= user_turns[t] /\ s.num_user_turns <= max_turns
    BY DEF CountersAgree
  <1>1. CountTypes(t) /\ Backed(t) /\ Counted(t)
    BY CountersTyped DEF RewardInv, CounterInv
  <1>2. CASE state[t] = None
    BY <1>1, <1>2 DEF Counted
  <1>3. CASE state[t] # None
    <2>1. t \in instance_dict /\ state[t] \in StateDicts /\ Tallied(t)
      BY <1>1, <1>3 DEF Backed, CountTypes, Counted
    <2>2. /\ state[t].num_tool_calls \in Nat /\ Coming(t) \in Nat
          /\ max_parallel_calls * assistant_turns[t] \in Nat
      BY <1>1, <2>1, LoopAssumption DEF Coming, CountTypes
    <2>3. \A a, b, c, d \in Nat : a + b + c <= d => a + b <= d
      OBVIOUS
    <2>4. state[t].num_tool_calls + Len(tool_tasks[t]) <= max_parallel_calls * assistant_turns[t]
      BY <1>1, <2>1, <2>2, <2>3 DEF Tallied, CountTypes
    <2>5. state[t].num_tool_calls + Len(tool_tasks[t])
              <= total_tool_calls[t] + (IF pc[t] = "calling" THEN Len(tool_calls[t]) ELSE 0)
      BY <2>1 DEF Tallied, Executing
    <2>6. Cardinality({i \in 1..Len(state[t].action_history) :
                          state[t].action_history[i].tool # "implicit_think"}) = state[t].num_tool_calls
      BY <2>1 DEF Tallied, Called
    <2>7. state[t].num_user_turns <= user_turns[t] /\ state[t].num_user_turns <= max_turns
      BY <2>1 DEF Tallied
    <2>8. total_errors[t] <= total_tool_calls[t] /\ errors[t] + Len(tool_tasks[t]) <= Len(tool_calls[t])
      BY <1>1 DEF Counted
    <2> QED
      BY <2>4, <2>5, <2>6, <2>7, <2>8
  <1>4. QED
    BY <1>2, <1>3

\* The counters of agent_data and those of the state dict, kept by two pieces of
\* code that never meet, tell one story at every step of every batch.
THEOREM CountersTellOneStory == Spec => []CountersAgree
  <1>1. Init => RewardInv
    BY LoopAssumption DEF Init, RewardInv, Backed
  <1>2. QED
    BY <1>1, InitCounterInv, CounterStep, CountersFollow, RewardStep, OwnershipInvariant, PTL DEF Spec

-----------------------------------------------------------------------------
(* Contents.                                                                   *)

\* A history is left as it is, or gains one entry of the turn that is running.
Recorded(t) ==
    LET h == state[t].action_history
    IN  \/ state'[t].action_history = h
        \/ \E e \in [tool : HistoryTools, content : Nat] :
              state'[t].action_history = Append(h, e) /\ e.content = assistant_turns[t]

\* A step of t records what belongs to t's turn: a call carries the content its
\* gather found, and a message goes to generate_response itself.
LEMMA StepRecords ==
    ASSUME IInv, CounterInv, NEW t \in Trajs, Step(t), state[t] \in StateDicts, pc[t] # "created"
    PROVE  Recorded(t)
  <1>1. TypeOK /\ CountTypes(t) /\ Owned(t) /\ Written(t)
    BY CountersTyped DEF IInv, CounterInv
  <1>2. CASE CallTool(t)
    <2> DEFINE task == Head(tool_tasks[t])
               e == [tool |-> task.kind, content |-> task.content]
    <2>1. task \in ToolTasks /\ task.kind \in {"tool", "transfer"} /\ ctx[t] = t
      BY <1>2, CallToolWrites DEF CallTool
    <2>2. PICK r \in StepResults : state' = [state EXCEPT ![t] = Executed(state[t], task, r)]
      BY <1>2, CallToolWrites
    <2>3. state'[t].action_history = Append(state[t].action_history, e)
      BY <1>1, <2>2 DEF TypeOK, Executed, StateDicts
    <2>4. task = tool_tasks[t][1] /\ 1 \in 1..Len(tool_tasks[t]) /\ pc[t] = "calling"
      BY <1>1, <1>2 DEF CountTypes, CallTool, NextTask
    <2>5. e \in [tool : HistoryTools, content : Nat] /\ e.content = task.content
      BY <2>1 DEF ToolTasks, HistoryTools
    <2> HIDE DEF e
    <2>6. e.content = assistant_turns[t]
      BY <1>1, <2>1, <2>4, <2>5 DEF Written
    <2> QED
      BY <2>3, <2>5, <2>6 DEF Recorded
  <1>3. CASE \E n \in ObsLens : RespondContaminated(t, n) \/ RespondRaises(t, n) \/ Respond(t, n)
    <2> DEFINE think == [tool |-> "implicit_think", content |-> assistant_turns[t]]
    <2>1. \E h \in HistoriesAfterMessage(t) : state'[t].action_history = h
      <3>1. CASE \E n \in ObsLens : RespondContaminated(t, n) \/ RespondRaises(t, n)
        BY <1>1, <3>1, ForcedEnd
      <3>2. CASE \E n \in ObsLens : Respond(t, n)
        <4>1. PICK h \in HistoriesAfterMessage(t), r \in RespondStep(env[t]) :
                state' = [state EXCEPT ![t] = [Responded(state[t], h, r) EXCEPT
                                                  !.done = @ \/ Ends(Responded(state[t], h, r), r)]]
          BY <3>2 DEF Respond
        <4>2. state'[t].action_history = h
          BY <1>1, <4>1 DEF TypeOK, StateDicts, Responded
        <4> QED
          BY <4>2
      <3> QED
        BY <1>3, <3>1, <3>2
    <2>2. think \in [tool : HistoryTools, content : Nat] /\ think.content = assistant_turns[t]
      BY <1>1 DEF CountTypes, HistoryTools
    <2>3. \/ state'[t].action_history = state[t].action_history
          \/ state'[t].action_history = Append(state[t].action_history, think)
      BY <2>1 DEF HistoriesAfterMessage
    <2> HIDE DEF think
    <2> QED
      BY <2>2, <2>3 DEF Recorded
  <1>4. CASE state' = state
    BY <1>4 DEF Recorded
  <1>5. QED
    BY <1>2, <1>3, <1>4 DEF Step, StartInteraction, StartRaises, GenerateRaises, Raises, HandlePending,
       SpawnTools, HandleGenerating, CallToolSwallowed, CallToolRejected, GatherTools, Finish, envVars

\* The same for a step of the batch, in the words of the property.
LEMMA ContentStep ==
    ASSUME IInv, RewardInv, CounterInv, [Next]_vars, NEW t \in Trajs, state[t] # None, state'[t] # None
    PROVE  LET h == state[t].action_history
               g == state'[t].action_history
           IN  /\ SubSeq(g, 1, Len(h)) = h
               /\ \A i \in Len(h)+1..Len(g) : g[i].content = assistant_turns[t]
  <1> DEFINE h == state[t].action_history
             g == state'[t].action_history
  <1>1. state[t] \in StateDicts /\ pc[t] # "created"
    BY CountersTyped DEF RewardInv, Backed, CountTypes
  <1>2. h \in Seq([tool : HistoryTools, content : Nat])
    BY <1>1 DEF StateDicts
  <1>3. ASSUME NEW u \in Trajs, Step(u) PROVE Recorded(t)
    <2>1. CASE u = t
      BY <1>1, <1>3, <2>1, StepRecords
    <2>2. CASE u # t
      <3>1. state'[t] = state[t]
        BY <1>3, <2>2, OthersUntouched DEF Untouched
      <3> QED
        BY <3>1 DEF Recorded
    <2> QED
      BY <2>1, <2>2
  <1>4. ASSUME UNCHANGED vars \/ BatchReturns \/ BatchRaises PROVE Recorded(t)
    <2>1. state' = state
      BY <1>4 DEF vars, envVars, BatchReturns, BatchRaises
    <2> QED
      BY <2>1 DEF Recorded
  <1>5. Recorded(t)
    BY <1>3, <1>4 DEF Next
  <1> HIDE DEF h, g
  <1>6. ASSUME g = h
        PROVE  /\ SubSeq(g, 1, Len(h)) = h
               /\ \A i \in Len(h)+1..Len(g) : g[i].content = assistant_turns[t]
    <2>1. Len(h) \in Nat /\ SubSeq(h, 1, Len(h)) = h
      BY <1>2
    <2>2. \A n \in Nat : n+1..n = {}
      OBVIOUS
    <2> QED
      BY <1>6, <2>1, <2>2
  <1>7. ASSUME NEW e \in [tool : HistoryTools, content : Nat],
               g = Append(h, e) /\ e.content = assistant_turns[t]
        PROVE  /\ SubSeq(g, 1, Len(h)) = h
               /\ \A i \in Len(h)+1..Len(g) : g[i].content = assistant_turns[t]
    <2>1. /\ Len(h) \in Nat /\ Len(g) = Len(h) + 1 /\ g[Len(h) + 1] = e
          /\ SubSeq(g, 1, Len(h)) = h
      BY <1>2, <1>7
    <2>2. \A n \in Nat : \A i \in n+1..n+1 : i = n + 1
      OBVIOUS
    <2> QED
      BY <1>7, <2>1, <2>2
  <1>8. QED
    BY <1>5, <1>6, <1>7 DEF Recorded, h, g

\* Histories only grow, and by entries of the turn that is running.
THEOREM HistoriesKeepTheirTurn == Spec => ContentOfThisTurn
  <1>1. Init => RewardInv
    BY LoopAssumption DEF Init, RewardInv, Backed
  <1>2. IInv /\ RewardInv /\ CounterInv /\ [Next]_vars =>
            [\A t \in Trajs :
                state[t] # None /\ state'[t] # None =>
                    LET h == state[t].action_history
                        g == state'[t].action_history
                    IN  /\ SubSeq(g, 1, Len(h)) = h
                        /\ \A i \in Len(h)+1..Len(g) : g[i].content = assistant_turns[t]]_vars
    BY ContentStep
  <1>3. QED
    BY <1>1, <1>2, InitCounterInv, CounterStep, RewardStep, OwnershipInvariant, PTL
       DEF Spec, ContentOfThisTurn
=============================================================================
