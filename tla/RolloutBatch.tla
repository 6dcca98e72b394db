---------------------------- MODULE RolloutBatch ----------------------------
(***************************************************************************)
(* What AgentLoopWorker.generate_sequences promises the trainer, with no   *)
(* word on how a trajectory is rolled out: every trajectory is opened      *)
(* once, delivers at most one output, the output is legal and is never     *)
(* touched again; the batch returns when all have delivered, and raises    *)
(* when one of them has raised.                                            *)
(***************************************************************************)
EXTENDS Naturals, Sequences

CONSTANTS
    Trajs,           \* the samples of the batch
    None,            \* no output yet
    response_length  \* config.actor_rollout_ref.rollout.response_length

VARIABLES
    status,  \* status[t]: "open", "delivered" or "raised"
    output,  \* the output of t, or None
    batch    \* "running", "returned" or "raised"

vars == <<status, output, batch>>

\* An output the batch can be padded and trained on: response, mask and (when
\* recorded) log-probabilities have the same length, none longer than the
\* padded tensors, and the first token is one the policy generated, so the
\* mean over trainable tokens divides by at least one.
Legal(o) ==
    /\ Len(o.mask) \in 1..response_length
    /\ o.mask[1] = 1
    /\ o.response = Len(o.mask)
    /\ o.logprobs \in {0, Len(o.mask)}

Init ==
    /\ status = [t \in Trajs |-> "open"]
    /\ output = [t \in Trajs |-> None]
    /\ batch = "running"

Deliver(t) ==
    /\ status[t] = "open"
    /\ status' = [status EXCEPT ![t] = "delivered"]
    /\ Legal(output'[t])
    /\ output' = [output EXCEPT ![t] = output'[t]]
    /\ UNCHANGED batch

Fail(t) ==
    /\ status[t] = "open"
    /\ status' = [status EXCEPT ![t] = "raised"]
    /\ UNCHANGED <<output, batch>>

Return ==
    /\ batch = "running"
    /\ \A t \in Trajs : status[t] = "delivered"
    /\ batch' = "returned"
    /\ UNCHANGED <<status, output>>

Raise ==
    /\ batch = "running"
    /\ \E t \in Trajs : status[t] = "raised"
    /\ batch' = "raised"
    /\ UNCHANGED <<status, output>>

Next == Return \/ Raise \/ \E t \in Trajs : Deliver(t) \/ Fail(t)

Spec == Init /\ [][Next]_vars
=============================================================================
