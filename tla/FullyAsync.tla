----------------------------- MODULE FullyAsync -----------------------------
(***************************************************************************)
(* Fully asynchronous training, verl/recipe/fully_async_policy: the        *)
(* rollouter streams samples through the message queue to the trainer, and *)
(* the trainer has its weights copied to the rollouter every               *)
(* trigger_parameter_sync_step batches.                                    *)
(*                                                                         *)
(* The rollouter is one event loop: its coroutines (feeder, processor, one *)
(* task per sample, consumer, monitor, main, and the remote calls pause,   *)
(* update_param_version and resume) interleave where they await, and an    *)
(* action is what one of them does between two awaits.  The trainer and    *)
(* the message queue are actors of their own.  lock is the queue of those  *)
(* that hold (its head) or wait for self.lock, which asyncio grants in     *)
(* the order of the requests.  busy: the processor has not given the       *)
(* event loop back since its last step, so no other coroutine moves.       *)
(*                                                                         *)
(* Samples are numbered in the order they are fed; DONE comes after them.  *)
(***************************************************************************)
EXTENDS Integers, Sequences, FiniteSets

CONSTANTS
    total_rollout_steps,         \* samples of the whole training
    pending_size,                \* maxsize of pending_queue: 128 in the code
    required_samples,            \* samples of one training step
    trigger_parameter_sync_step, \* training steps between two syncs
    staleness_percent,           \* staleness_threshold in hundredths
    concurrency,                 \* 16 for each server
    partial_rollout,             \* pause interrupts running samples
    MaxFailures                  \* bound: generations that raise

max_required_samples ==
    (required_samples * (100 + staleness_percent) * trigger_parameter_sync_step) \div 100

max_queue_size == max_required_samples

max_concurrent_samples ==
    IF concurrency < max_required_samples THEN concurrency ELSE max_required_samples

ASSUME AsyncAssumption ==
    /\ total_rollout_steps \in Nat \ {0} /\ pending_size \in Nat \ {0}
    /\ required_samples \in Nat \ {0} /\ trigger_parameter_sync_step \in Nat \ {0}
    /\ staleness_percent \in Nat /\ concurrency \in Nat \ {0}
    /\ partial_rollout \in BOOLEAN /\ MaxFailures \in Nat

VARIABLES
    fed,                \* items the feeder has put into pending_queue
    taken,              \* items the processor has got from it
    processor,          \* where _processor_worker stands
    rollout_sample,     \* the sample it has in hand, or NoSample
    done_tasks_bound,   \* its local done_tasks has been assigned
    busy,               \* it goes on before any other coroutine does
    running,            \* samples with a task that has not ended
    ended,              \* tasks of active_tasks that have ended
    raising,            \* one of these has raised
    failed,             \* samples whose generation has raised
    cancel_queue, result_queue,
    server_paused,      \* the flag of the LLM servers
    lock,
    paused, monitor_loop_trigger, staleness_samples,
    rollout_version,    \* current_param_version of the rollouter
    monitor, main,      \* where _async_monitor_loop and _streaming_generation_main stand
    putting,            \* the put_sample of the consumer on its way, or EndOfStream
    queue,              \* the message queue
    dropped,            \* samples it has dropped
    trainer,            \* where the trainer stands
    batch,              \* queue_samples
    local_trigger_step,
    current_param_version,
    trained,            \* samples trained on
    sync,               \* where the ParameterSynchronizer and its remote calls stand
    current_version,    \* of the weights it copies
    in_flight           \* staleness_samples as counted before the queue's size is known

feedVars  == <<fed, taken>>
procVars  == <<processor, done_tasks_bound, busy>>
taskVars  == <<running, ended, raising, failed>>
heldVars  == <<cancel_queue, result_queue>>
pauseVars == <<paused, monitor_loop_trigger, server_paused>>
countVars == <<staleness_samples, rollout_version>>
restVars  == <<monitor, main>>
queueVars == <<putting, queue, dropped>>
trainVars == <<trainer, batch, local_trigger_step, current_param_version, trained>>
syncVars  == <<sync, current_version, in_flight>>
vars == <<feedVars, procVars, rollout_sample, taskVars, heldVars, lock, pauseVars, countVars,
          restVars, queueVars, trainVars, syncVars>>

NoSample == 0
Samples  == 1..total_rollout_steps
DONE     == total_rollout_steps + 1

\* What the message queue holds: a sample and the version it was finished with; the
\* end of the stream is the sample None.
Message(s, version) == [sample |-> s, param_version |-> version]
EndOfStream == Message(NoSample, 0)

Init ==
    /\ fed = 0 /\ taken = 0
    /\ processor = "getting" /\ done_tasks_bound = FALSE /\ busy = FALSE
    /\ rollout_sample = NoSample
    /\ running = {} /\ ended = 0 /\ raising = FALSE /\ failed = {}
    /\ cancel_queue = <<>> /\ result_queue = <<>>
    /\ lock = <<>>
    /\ paused = FALSE /\ monitor_loop_trigger = TRUE /\ server_paused = FALSE
    /\ staleness_samples = 0 /\ rollout_version = 0
    /\ monitor = "sleeping" /\ main = "feeding"
    /\ putting = EndOfStream /\ queue = <<>> /\ dropped = {}
    /\ trainer = "collecting" /\ batch = <<>> /\ local_trigger_step = 1
    /\ current_param_version = 0 /\ trained = {}
    /\ sync = "idle" /\ current_version = 0 /\ in_flight = 0

-----------------------------------------------------------------------------
(* self.lock, self.condition and what several coroutines use.              *)

Yielded == ~busy

Holds(c)   == lock # <<>> /\ Head(lock) = c
Acquire(c) == lock' = Append(lock, c)
Release    == lock' = Tail(lock)

ActiveTasks == Cardinality(running) + ended

ShouldPause ==
    \/ Len(queue) >= max_queue_size
    \/ staleness_samples >= max_required_samples

\* condition.notify_all(): the processor, if it waits for the condition, is woken.
Notify ==
    processor' = CASE processor = "parked" -> "woken"
                   [] processor = "parked_sample" -> "woken_sample"
                   [] OTHER -> processor

-----------------------------------------------------------------------------
(* _feed_samples.                                                          *)

\* put() does not wait while there is room.
Feed ==
    /\ Yielded
    /\ fed < DONE /\ fed < taken + pending_size
    /\ fed' = IF DONE < taken + pending_size THEN DONE ELSE taken + pending_size
    /\ UNCHANGED <<taken, procVars, rollout_sample, taskVars, heldVars, lock, pauseVars, countVars,
                   restVars, queueVars, trainVars, syncVars>>

-----------------------------------------------------------------------------
(* _processor_worker.                                                      *)

\* The three loops that wait for active_tasks, and where they lead.
Reaping == {"limiting", "draining", "finishing"}
Beyond  == [limiting |-> "submitting", draining |-> "idling", finishing |-> "exited"]

\* The processor asks for the lock to go on at place; others hold or await it.  A free
\* lock is granted at once, and only asyncio.wait gives the event loop back.
Ask(place, others) ==
    /\ processor' = place
    /\ lock' = Append(others, "processor")
    /\ busy' = (others = <<>> /\ place \notin Reaping)

\* The processor lets the event loop go, or goes back to the top of its loop.
Stop(place, others) == processor' = place /\ lock' = others /\ busy' = FALSE
Continue            == processor' = "top" /\ Release /\ busy' = TRUE

AtTop == processor = "top" /\ ~paused /\ ~ShouldPause

\* The own pause takes effect; then the running tasks are waited for.
SetPaused(others) ==
    /\ paused' = TRUE
    /\ Ask(IF ActiveTasks > 0 THEN "draining" ELSE "idling", others)

PauseSelf ==
    /\ \/ processor = "top" /\ (paused \/ ShouldPause) /\ lock = <<>> /\ SetPaused(lock)
       \/ processor = "top" /\ (paused \/ ShouldPause) /\ lock # <<>>
          /\ Ask("pausing", lock) /\ UNCHANGED paused
       \/ processor = "pausing" /\ Holds("processor") /\ SetPaused(Tail(lock))
    /\ UNCHANGED <<feedVars, done_tasks_bound, rollout_sample, taskVars, heldVars,
                   monitor_loop_trigger, server_paused, countVars, restVars, queueVars, trainVars,
                   syncVars>>

\* Defect: the limit is compared with > instead of >=.
PlaceOneMore == IF ActiveTasks > max_concurrent_samples THEN "limiting" ELSE "submitting"

\* With a sample in hand the processor waits for a place, then for the lock.
Place == IF ActiveTasks >= max_concurrent_samples THEN "limiting" ELSE "submitting"

\* Samples that a sync has interrupted go first.
TakeInterrupted ==
    /\ AtTop
    /\ cancel_queue # <<>>
    /\ rollout_sample' = Head(cancel_queue)
    /\ cancel_queue' = Tail(cancel_queue)
    /\ Ask(Place, lock)
    /\ UNCHANGED <<feedVars, done_tasks_bound, taskVars, result_queue, pauseVars, countVars,
                   restVars, queueVars, trainVars, syncVars>>

\* pending_queue.get() waits, and nothing else wakes it.
AwaitPending ==
    /\ AtTop
    /\ cancel_queue = <<>> /\ fed = taken
    /\ Stop("getting", lock)
    /\ UNCHANGED <<feedVars, done_tasks_bound, rollout_sample, taskVars, heldVars, pauseVars,
                   countVars, restVars, queueVars, trainVars, syncVars>>

TakePending ==
    /\ processor = "getting" \/ (AtTop /\ cancel_queue = <<>>)
    /\ taken < fed
    /\ taken' = taken + 1
    /\ staleness_samples' = staleness_samples + 1
    /\ \/ /\ taken' = DONE
          /\ IF ActiveTasks > 0 THEN Ask("finishing", lock) ELSE Stop("exited", lock)
          /\ UNCHANGED rollout_sample
       \/ /\ taken' # DONE
          /\ rollout_sample' = taken'
          /\ Ask(Place, lock)
    /\ UNCHANGED <<fed, done_tasks_bound, taskVars, heldVars, pauseVars, rollout_version, restVars,
                   queueVars, trainVars, syncVars>>

LeaveReaping ==
    IF processor = "finishing" THEN Stop("exited", Tail(lock)) ELSE Ask(Beyond[processor], Tail(lock))

\* asyncio.wait(active_tasks, FIRST_COMPLETED) returns, the lock having been held
\* throughout, and the tasks that have ended are awaited.
Reap ==
    /\ processor \in Reaping /\ Holds("processor")
    /\ ended > 0
    /\ ended' = 0 /\ raising' = FALSE
    /\ done_tasks_bound' = TRUE
    /\ \/ raising /\ Stop("raised", Tail(lock))
       \/ ~raising /\ processor # "limiting" /\ running # {} /\ Ask(processor, Tail(lock))
       \/ ~raising /\ (processor = "limiting" \/ running = {}) /\ LeaveReaping
    /\ UNCHANGED <<feedVars, rollout_sample, running, failed, heldVars, pauseVars, countVars,
                   restVars, queueVars, trainVars, syncVars>>

\* pause() has emptied active_tasks while the processor waited for the lock: the for
\* loop runs over the done_tasks of an earlier round, or raises UnboundLocalError.
NothingToReap ==
    /\ processor \in Reaping /\ Holds("processor")
    /\ ActiveTasks = 0
    /\ \/ done_tasks_bound /\ LeaveReaping
       \/ ~done_tasks_bound /\ Stop("raised", Tail(lock))
    /\ UNCHANGED <<feedVars, done_tasks_bound, rollout_sample, taskVars, heldVars, pauseVars,
                   countVars, restVars, queueVars, trainVars, syncVars>>

\* Defect: the processor waits without giving the lock back.
IdleWithLock ==
    /\ processor = "idling" /\ Holds("processor")
    /\ \/ paused /\ Stop("parked", lock)
       \/ ~paused /\ Continue
    /\ UNCHANGED <<feedVars, done_tasks_bound, rollout_sample, taskVars, heldVars, pauseVars,
                   countVars, restVars, queueVars, trainVars, syncVars>>

\* while self.paused: await self.condition.wait(), without a sample and with one.
Idle ==
    /\ processor = "idling" /\ Holds("processor")
    /\ \/ paused /\ Stop("parked", Tail(lock))
       \/ ~paused /\ Continue
    /\ UNCHANGED <<feedVars, done_tasks_bound, rollout_sample, taskVars, heldVars, pauseVars,
                   countVars, restVars, queueVars, trainVars, syncVars>>

Park ==
    /\ processor = "submitting" /\ Holds("processor")
    /\ paused
    /\ Stop("parked_sample", Tail(lock))
    /\ UNCHANGED <<feedVars, done_tasks_bound, rollout_sample, taskVars, heldVars, pauseVars,
                   countVars, restVars, queueVars, trainVars, syncVars>>

\* Out of condition.wait() the lock is asked for again.
Wake ==
    /\ \/ processor = "woken" /\ Ask("idling", lock)
       \/ processor = "woken_sample" /\ Ask("submitting", lock)
    /\ UNCHANGED <<feedVars, done_tasks_bound, rollout_sample, taskVars, heldVars, pauseVars,
                   countVars, restVars, queueVars, trainVars, syncVars>>

Submit ==
    /\ processor = "submitting" /\ Holds("processor")
    /\ ~paused
    /\ running' = running \cup {rollout_sample}
    /\ rollout_sample' = NoSample
    /\ Continue
    /\ UNCHANGED <<feedVars, done_tasks_bound, ended, raising, failed, heldVars, pauseVars,
                   countVars, restVars, queueVars, trainVars, syncVars>>

-----------------------------------------------------------------------------
(* _process_single_sample_streaming, _consumer_worker and the queue.       *)

\* The task of s ends with a complete sample, with one that a paused server has
\* interrupted, or by raising.
EndTask(s) ==
    /\ Yielded
    /\ s \in running
    /\ running' = running \ {s}
    /\ ended' = ended + 1
    /\ UNCHANGED <<feedVars, procVars, rollout_sample, lock, pauseVars, countVars, restVars,
                   queueVars, trainVars, syncVars>>

Finish(s) ==
    /\ EndTask(s)
    /\ result_queue' = Append(result_queue, Message(s, rollout_version))
    /\ UNCHANGED <<raising, failed, cancel_queue>>

Interrupt(s) ==
    /\ EndTask(s)
    /\ server_paused
    /\ cancel_queue' = Append(cancel_queue, s)
    /\ UNCHANGED <<raising, failed, result_queue>>

Fail(s) ==
    /\ EndTask(s)
    /\ Cardinality(failed) < MaxFailures
    /\ raising' = TRUE
    /\ failed' = failed \cup {s}
    /\ UNCHANGED heldVars

Consume ==
    /\ Yielded
    /\ main \in {"feeding", "processing", "joining"}
    /\ putting = EndOfStream /\ result_queue # <<>>
    /\ putting' = Head(result_queue)
    /\ result_queue' = Tail(result_queue)
    /\ UNCHANGED <<feedVars, procVars, rollout_sample, taskVars, cancel_queue, lock, pauseVars,
                   countVars, restVars, queue, dropped, trainVars, syncVars>>

\* Defect: a new sample goes to the front of the queue.
PutInFront(message) ==
    \/ /\ Len(queue) >= max_queue_size
       /\ queue' = <<message>> \o Tail(queue)
       /\ dropped' = dropped \cup {Head(queue).sample}
    \/ /\ Len(queue) < max_queue_size
       /\ queue' = <<message>> \o queue
       /\ UNCHANGED dropped

\* Defect: the sample that makes room is the one put before.
PutOverLast(message) ==
    \/ /\ Len(queue) >= max_queue_size
       /\ queue' = [queue EXCEPT ![Len(queue)] = message]
       /\ dropped' = dropped \cup {Head(queue).sample}
    \/ /\ Len(queue) < max_queue_size
       /\ queue' = Append(queue, message)
       /\ UNCHANGED dropped

\* put_sample: a full queue loses its oldest sample.
Put(message) ==
    \/ /\ Len(queue) >= max_queue_size
       /\ queue' = Append(Tail(queue), message)
       /\ dropped' = dropped \cup {Head(queue).sample}
    \/ /\ Len(queue) < max_queue_size
       /\ queue' = Append(queue, message)
       /\ UNCHANGED dropped

PutSample ==
    /\ putting # EndOfStream
    /\ Put(putting)
    /\ putting' = EndOfStream
    /\ UNCHANGED <<feedVars, procVars, rollout_sample, taskVars, heldVars, lock, pauseVars,
                   countVars, restVars, trainVars, syncVars>>

-----------------------------------------------------------------------------
(* _async_monitor_loop.                                                    *)

\* At the top of the loop running is read under the lock, which is granted at once
\* when nobody else (others) has it.
LoopTop == IF main = "stopped" THEN "stopped" ELSE "sleeping"

MonitorLoops(others) ==
    /\ monitor' = IF others = <<>> THEN LoopTop ELSE "checking"
    /\ lock' = IF others = <<>> THEN <<>> ELSE Append(others, "monitor")

MonitorChecks ==
    /\ Yielded
    /\ monitor = "checking" /\ Holds("monitor")
    /\ monitor' = LoopTop
    /\ Release
    /\ UNCHANGED <<feedVars, procVars, rollout_sample, taskVars, heldVars, pauseVars, countVars,
                   main, queueVars, trainVars, syncVars>>

\* The rollouter may go on: paused is cleared, now or when the lock is granted.
Unpause(others) ==
    /\ paused' = FALSE
    /\ MonitorLoops(others)
    /\ Notify

MayGoOn == monitor_loop_trigger /\ ~ShouldPause

MonitorWakes ==
    /\ Yielded
    /\ monitor = "sleeping"
    /\ \/ MayGoOn /\ lock = <<>> /\ Unpause(lock)
       \/ /\ MayGoOn /\ lock # <<>>
          /\ monitor' = "resuming" /\ Acquire("monitor") /\ UNCHANGED <<paused, processor>>
       \/ ~MayGoOn /\ MonitorLoops(lock) /\ UNCHANGED <<paused, processor>>
    /\ UNCHANGED <<feedVars, rollout_sample, done_tasks_bound, busy, taskVars, heldVars,
                   monitor_loop_trigger, server_paused, countVars, main, queueVars, trainVars,
                   syncVars>>

\* The decision was taken before the lock was granted.
MonitorResumes ==
    /\ Yielded
    /\ monitor = "resuming" /\ Holds("monitor")
    /\ Unpause(Tail(lock))
    /\ UNCHANGED <<feedVars, rollout_sample, done_tasks_bound, busy, taskVars, heldVars,
                   monitor_loop_trigger, server_paused, countVars, main, queueVars, trainVars,
                   syncVars>>

-----------------------------------------------------------------------------
(* _streaming_generation_main.                                             *)

MainAt(place, next) ==
    /\ Yielded
    /\ main = place
    /\ main' = next
    /\ UNCHANGED <<feedVars, procVars, rollout_sample, taskVars, heldVars, pauseVars, countVars,
                   monitor, putting, trainVars, syncVars>>

AwaitFeed == fed = DONE /\ MainAt("feeding", "processing") /\ UNCHANGED <<lock, queue, dropped>>

\* An exception of the processor skips the join of result_queue; the consumer is cancelled.
AwaitProcessor ==
    /\ \/ processor = "exited" /\ MainAt("processing", "joining")
       \/ processor = "raised" /\ MainAt("processing", "ending")
    /\ UNCHANGED <<lock, queue, dropped>>

JoinResults ==
    /\ result_queue = <<>> /\ putting = EndOfStream
    /\ MainAt("joining", "ending")
    /\ UNCHANGED <<lock, queue, dropped>>

PutEndOfStream == MainAt("ending", "closing") /\ Put(EndOfStream) /\ Acquire("main")

StopRunning ==
    /\ Holds("main") /\ MainAt("closing", "stopped") /\ Release
    /\ UNCHANGED <<queue, dropped>>

-----------------------------------------------------------------------------
(* FullyAsyncTrainer.fit.                                                  *)

\* At the end of the stream the samples of an unfinished batch are given up: they stay in
\* batch, and no step trains on them.
GetSample ==
    /\ trainer = "collecting" /\ queue # <<>>
    /\ queue' = Tail(queue)
    /\ \/ /\ Head(queue) = EndOfStream
          /\ trainer' = "leaving"
          /\ UNCHANGED batch
       \/ /\ Head(queue) # EndOfStream
          /\ batch' = Append(batch, Head(queue))
          /\ trainer' = IF Len(batch) + 1 < required_samples THEN "collecting" ELSE "training"
    /\ UNCHANGED <<feedVars, procVars, rollout_sample, taskVars, heldVars, lock, pauseVars,
                   countVars, restVars, putting, dropped, local_trigger_step,
                   current_param_version, trained, syncVars>>

\* Defect: the sync comes one step late.
TrainOnceMore ==
    /\ trainer = "training"
    /\ trained' = trained \cup {batch[i].sample : i \in 1..Len(batch)}
    /\ batch' = <<>>
    /\ local_trigger_step' = local_trigger_step + 1
    /\ trainer' = IF local_trigger_step <= trigger_parameter_sync_step THEN "collecting" ELSE "waiting"
    /\ UNCHANGED <<feedVars, procVars, rollout_sample, taskVars, heldVars, lock, pauseVars,
                   countVars, restVars, queueVars, current_param_version, syncVars>>

\* A training step, and _trigger_parameter_sync_after_step up to wait_last_valid.
Train ==
    /\ trainer = "training"
    /\ trained' = trained \cup {batch[i].sample : i \in 1..Len(batch)}
    /\ batch' = <<>>
    /\ \/ /\ local_trigger_step < trigger_parameter_sync_step
          /\ local_trigger_step' = local_trigger_step + 1
          /\ trainer' = "collecting"
          /\ UNCHANGED current_param_version
       \/ /\ local_trigger_step >= trigger_parameter_sync_step
          /\ local_trigger_step' = 1
          /\ trainer' = "waiting"
          /\ current_param_version' = current_param_version + 1
    /\ UNCHANGED <<feedVars, procVars, rollout_sample, taskVars, heldVars, lock, pauseVars,
                   countVars, restVars, queueVars, syncVars>>

\* The last sync, with validation, unless the last version has been validated.
Leave ==
    /\ trainer = "leaving"
    /\ \/ /\ trainer' = "finished"
          /\ UNCHANGED <<local_trigger_step, current_param_version>>
       \/ /\ local_trigger_step' = 1
          /\ trainer' = "waiting_last"
          /\ current_param_version' = current_param_version + 1
    /\ UNCHANGED <<feedVars, procVars, rollout_sample, taskVars, heldVars, lock, pauseVars,
                   countVars, restVars, queueVars, batch, trained, syncVars>>

-----------------------------------------------------------------------------
(* ParameterSynchronizer.sync_weights, and the remote calls of the         *)
(* rollouter it makes.                                                     *)

SyncAt(place, next) ==
    /\ Yielded
    /\ sync = place
    /\ sync' = next
    /\ UNCHANGED <<feedVars, done_tasks_bound, busy, rollout_sample, running, failed, heldVars,
                   restVars, queueVars, batch, local_trigger_step, current_param_version, trained>>

\* wait_last_valid has returned: sync_weights calls pause.
CallPause ==
    /\ trainer \in {"waiting", "waiting_last"}
    /\ SyncAt("idle", "pausing")
    /\ trainer' = IF trainer = "waiting" THEN "syncing" ELSE "syncing_last"
    /\ current_version' = current_param_version
    /\ Acquire("sync")
    /\ UNCHANGED <<processor, ended, raising, pauseVars, countVars, in_flight>>

Pause ==
    /\ Holds("sync")
    /\ SyncAt("pausing", "gathering")
    /\ paused' = TRUE
    /\ server_paused' = partial_rollout
    /\ UNCHANGED <<processor, ended, raising, lock, monitor_loop_trigger, countVars, trainer,
                   current_version, in_flight>>

\* gather(active_tasks, return_exceptions=True)
PauseEnds ==
    /\ running = {}
    /\ SyncAt("gathering", "copying")
    /\ ended' = 0 /\ raising' = FALSE
    /\ monitor_loop_trigger' = FALSE
    /\ Release
    /\ UNCHANGED <<processor, server_paused, paused, countVars, trainer, current_version,
                   in_flight>>

\* The weights are copied; update_param_version and resume are called and not waited for.
CopyWeights ==
    /\ SyncAt("copying", "updating")
    /\ trainer' = IF trainer = "syncing" THEN "collecting" ELSE "validating"
    /\ Acquire("sync")
    /\ UNCHANGED <<processor, ended, raising, pauseVars, countVars, current_version, in_flight>>

\* Meanwhile the trainer may have gone on to the next version; the one that is taken
\* over is that of the weights copied.  The tasks and queues of the rollouter are counted
\* before the message queue answers.
UpdateVersion ==
    /\ Holds("sync")
    /\ SyncAt("updating", "sizing")
    /\ rollout_version' = current_version
    /\ in_flight' = ActiveTasks + Len(result_queue) + Len(cancel_queue)
    /\ UNCHANGED <<processor, ended, raising, lock, pauseVars, staleness_samples, trainer,
                   current_version>>

\* Defect: the samples in the message queue are not counted.
ResetWithoutQueue ==
    /\ SyncAt("sizing", "reporting")
    /\ staleness_samples' = in_flight
    /\ in_flight' = 0
    /\ UNCHANGED <<processor, ended, raising, lock, pauseVars, rollout_version, trainer,
                   current_version>>

\* Defect: a new version starts from zero.
ResetToZero ==
    /\ SyncAt("sizing", "reporting")
    /\ staleness_samples' = 0
    /\ in_flight' = 0
    /\ UNCHANGED <<processor, ended, raising, lock, pauseVars, rollout_version, trainer,
                   current_version>>

ResetStaleness ==
    /\ SyncAt("sizing", "reporting")
    /\ staleness_samples' = in_flight + Len(queue)
    /\ in_flight' = 0
    /\ UNCHANGED <<processor, ended, raising, lock, pauseVars, rollout_version, trainer,
                   current_version>>

\* put_validate has been answered.
EndUpdate ==
    /\ SyncAt("reporting", "updated")
    /\ Release
    /\ UNCHANGED <<processor, ended, raising, pauseVars, countVars, trainer, current_version,
                   in_flight>>

CallResume ==
    /\ SyncAt("updated", "resuming")
    /\ Acquire("sync")
    /\ UNCHANGED <<processor, ended, raising, pauseVars, countVars, trainer, current_version,
                   in_flight>>

Resume ==
    /\ Holds("sync")
    /\ SyncAt("resuming", "idle")
    /\ paused' = FALSE /\ monitor_loop_trigger' = TRUE /\ server_paused' = FALSE
    /\ Release
    /\ Notify
    /\ UNCHANGED <<ended, raising, countVars, trainer, current_version, in_flight>>

\* wait_last_valid after the last sync.
Validated ==
    /\ trainer = "validating" /\ sync = "idle"
    /\ trainer' = "finished"
    /\ UNCHANGED <<feedVars, procVars, rollout_sample, taskVars, heldVars, lock, pauseVars,
                   countVars, restVars, queueVars, batch, local_trigger_step,
                   current_param_version, trained, syncVars>>

-----------------------------------------------------------------------------
Processor ==
    \/ PauseSelf \/ TakeInterrupted \/ AwaitPending \/ TakePending
    \/ Reap \/ NothingToReap \/ Idle \/ Park \/ Wake \/ Submit

Monitor == MonitorChecks \/ MonitorWakes \/ MonitorResumes

Main == AwaitFeed \/ AwaitProcessor \/ JoinResults \/ PutEndOfStream \/ StopRunning

Trainer == GetSample \/ Train \/ Leave \/ Validated

Sync ==
    \/ CallPause \/ Pause \/ PauseEnds \/ CopyWeights \/ UpdateVersion \/ ResetStaleness
    \/ EndUpdate \/ CallResume \/ Resume

Next ==
    \/ Feed \/ Processor \/ Consume \/ PutSample \/ Monitor \/ Main \/ Trainer \/ Sync
    \/ \E s \in Samples : Finish(s) \/ Interrupt(s) \/ Fail(s)

\* The event loop runs every coroutine that can go on, every remote call and every
\* generation is answered, and the actors make progress.  Sync is strongly fair: between
\* two of its steps the processor may be busy again and again, each time not for long.
Fairness ==
    /\ WF_vars(Feed) /\ WF_vars(Processor) /\ WF_vars(Consume) /\ WF_vars(PutSample)
    /\ WF_vars(Monitor) /\ WF_vars(Main) /\ WF_vars(Trainer) /\ SF_vars(Sync)
    /\ \A s \in Samples : WF_vars(Finish(s) \/ Interrupt(s))

Spec == Init /\ [][Next]_vars /\ Fairness
=============================================================================
