-------------------------- MODULE FullyAsyncProps --------------------------
(***************************************************************************)
(* What the asynchronous recipe promises, and what it does not.            *)
(***************************************************************************)
EXTENDS FullyAsync

Messages == [sample : Samples, param_version : Nat]
IsSeq(q, S) == DOMAIN q = 1..Len(q) /\ \A i \in 1..Len(q) : q[i] \in S

ProcessorPlaces ==
    {"top", "getting", "pausing", "idling", "parked", "parked_sample", "woken", "woken_sample",
     "submitting", "exited", "raised"} \cup Reaping

\* Every variable has its type, and the requests for the lock are those of coroutines
\* that stand where the code asks for it, once each.
TypeOK ==
    /\ fed \in 0..DONE /\ taken \in 0..fed
    /\ processor \in ProcessorPlaces /\ rollout_sample \in Samples \cup {NoSample}
    /\ {done_tasks_bound, busy, raising, paused, monitor_loop_trigger, server_paused} \subseteq BOOLEAN
    /\ running \subseteq Samples /\ failed \subseteq Samples /\ ended \in Nat
    /\ IsSeq(cancel_queue, Samples) /\ IsSeq(result_queue, Messages)
    /\ IsSeq(queue, Messages \cup {EndOfStream}) /\ IsSeq(batch, Messages)
    /\ Len(queue) <= max_queue_size /\ Len(batch) <= required_samples
    /\ putting \in Messages \cup {EndOfStream} /\ dropped \subseteq Samples \cup {NoSample}
    /\ {staleness_samples, rollout_version, current_version, current_param_version, in_flight}
          \subseteq Nat
    /\ monitor \in {"sleeping", "resuming", "checking", "stopped"}
    /\ main \in {"feeding", "processing", "joining", "ending", "closing", "stopped"}
    /\ trainer \in {"collecting", "training", "waiting", "syncing", "leaving", "waiting_last",
                    "syncing_last", "validating", "finished"}
    /\ local_trigger_step \in 1..trigger_parameter_sync_step /\ trained \subseteq Samples
    /\ sync \in {"idle", "pausing", "gathering", "copying", "updating", "sizing", "reporting",
                 "updated", "resuming"}
    /\ \A i \in 1..Len(lock) :
          /\ lock[i] = "processor" =>
                processor \in {"pausing", "idling", "submitting"} \cup Reaping
          /\ lock[i] = "monitor" => monitor \in {"resuming", "checking"}
          /\ lock[i] = "main" => main = "closing"
          /\ lock[i] = "sync" => sync \in {"pausing", "gathering", "updating", "sizing", "reporting",
                                             "resuming"}
          /\ \A j \in 1..Len(lock) : lock[i] = lock[j] => i = j

-----------------------------------------------------------------------------
SamplesOf(q) == {q[i].sample : i \in 1..Len(q)} \ {NoSample}
Count(q)     == Cardinality({i \in 1..Len(q) : q[i] # EndOfStream})
OneIf(c)     == IF c THEN 1 ELSE 0

TakenSamples == 1..taken \ {DONE}

\* Samples on their way between pending_queue and the trainer.
Outstanding ==
    OneIf(rollout_sample # NoSample) + Cardinality(running) + Len(cancel_queue)
    + Len(result_queue) + OneIf(putting # EndOfStream) + Count(queue)

\* Every sample taken from pending_queue is in exactly one place: in the hand of the
\* processor, generated, interrupted, finished, on its way to the message queue, in it,
\* in the trainer's batch (for good, when the stream ends inside one), trained on, or lost
\* to a raised generation or a full queue.
\* No pause, interruption or sync duplicates one or makes one disappear.
SamplesAccounted ==
    /\ TakenSamples =
          ({rollout_sample} \ {NoSample}) \cup running \cup {cancel_queue[i] : i \in 1..Len(cancel_queue)}
          \cup SamplesOf(result_queue) \cup SamplesOf(<<putting>>) \cup SamplesOf(queue)
          \cup SamplesOf(batch) \cup trained \cup failed \cup (dropped \ {NoSample})
    /\ Cardinality(TakenSamples) =
          Outstanding + Len(batch) + Cardinality(trained) + Cardinality(failed)
          + Cardinality(dropped \ {NoSample})

\* The staleness limit holds however pauses, syncs and self-imposed pauses interleave
\* and whatever a += 1 of the processor the recount of a sync overwrites: at most
\* max_required_samples samples are ahead of the trainer, and two that the recount does
\* not see, the one in the processor's hand and the one on its way to the message queue.
BoundedLead == Outstanding <= max_required_samples + 2

\* The limit on active tasks also holds across the loops that wait for a place.
BoundedConcurrency == ActiveTasks <= max_concurrent_samples

\* Samples the trainer has fetched, as its counters have it: so many make up a version.
SamplesOfVersion == required_samples * trigger_parameter_sync_step
Fetched == current_param_version * SamplesOfVersion + (local_trigger_step - 1) * required_samples + Len(batch)

\* What the limit is for.  With one version the rollouter never gets further ahead than the
\* samples of the next one, which the trainer may have fetched before the recount, and the
\* limit.  So a sample that is trained on is older than the trainer's weights by at most
\* the versions the limit makes up, and one more.
BoundedStaleness ==
    /\ trainer \in {"collecting", "training", "waiting", "syncing"} =>
          Fetched + Outstanding <= (rollout_version + 1) * SamplesOfVersion + max_required_samples + 2
    /\ trainer = "training" => \A i \in 1..Len(batch) :
          current_param_version - batch[i].param_version
              <= (max_required_samples + 1) \div SamplesOfVersion + 1

\* Although samples are finished in any order and across syncs, the message queue
\* holds them in the order of their versions, so what a full queue drops is the stalest.
QueueInVersionOrder ==
    \A i, j \in 1..Len(queue) :
        i < j /\ queue[j] # EndOfStream => queue[i].param_version <= queue[j].param_version

\* The rollouter waits for its count of samples to fall, the trainer for samples, and no
\* request is under way that could help either.
Starved ==
    /\ staleness_samples >= max_required_samples /\ processor = "parked"
    /\ running = {} /\ result_queue = <<>> /\ putting = EndOfStream /\ queue = <<>>
    /\ lock = <<>> /\ sync = "idle" /\ trainer = "collecting"

\* The processor has raised while the feeder waits for room, and main waits for the feeder.
Abandoned == processor = "raised" /\ fed < DONE /\ main = "feeding"

\* The training ends, whatever is interrupted, retried or raised, but for two ways to
\* hang: the rollouter starves, or it is abandoned.
StreamEnds == <>(trainer = "finished") \/ <>[]Starved \/ <>[]Abandoned

\* README.md, "The interrupted samples will continue to be generated after
\* synchronization": an interrupted sample is taken again while the processor goes on.
InterruptedResume ==
    \A s \in Samples :
        (\E i \in 1..Len(cancel_queue) : cancel_queue[i] = s)
        ~> (\/ processor \in {"exited", "raised"}
            \/ \A i \in 1..Len(cancel_queue) : cancel_queue[i] # s)
=============================================================================
