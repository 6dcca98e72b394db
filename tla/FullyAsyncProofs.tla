-------------------------- MODULE FullyAsyncProofs --------------------------
(***************************************************************************)
(* Theorems about FullyAsync for every number of samples and every         *)
(* configuration of the recipe: the types, the limit on concurrent         *)
(* samples, the order of the message queue, how far the rollouter gets     *)
(* ahead of the trainer, how old a sample may be that is trained on, and   *)
(* where every sample is.                                                  *)
(***************************************************************************)
EXTENDS FullyAsyncProps, FiniteSetTheorems, SequenceTheorems, TLAPS

\* The limits that the configuration gives are positive.
LEMMA Limits ==
    /\ max_required_samples \in Nat \ {0} /\ max_queue_size \in Nat \ {0}
    /\ max_concurrent_samples \in Nat \ {0}
  <1> DEFINE a == required_samples * (100 + staleness_percent)
             b == a * trigger_parameter_sync_step
  <1>1. /\ required_samples \in Nat /\ required_samples >= 1 /\ staleness_percent \in Nat
        /\ trigger_parameter_sync_step \in Nat /\ trigger_parameter_sync_step >= 1
        /\ concurrency \in Nat \ {0}
    BY AsyncAssumption
  <1>2. a \in Nat /\ a >= 100
    BY <1>1
  <1> HIDE DEF a
  <1>3. b \in Nat /\ b >= 100
    BY <1>1, <1>2
  <1> HIDE DEF b
  <1>4. b \div 100 \in Nat /\ b \div 100 >= 1
    BY <1>3
  <1>5. max_required_samples \in Nat \ {0}
    BY <1>4 DEF max_required_samples, a, b
  <1> QED
    BY <1>1, <1>5 DEF max_queue_size, max_concurrent_samples

-----------------------------------------------------------------------------
(* Concurrency.  The limit is tested before the lock is asked for.  It still     *)
(* holds when a task is made, because a processor that has passed the test and   *)
(* waits for the lock or for the condition is the only one that makes tasks.     *)

WithSample == {"limiting", "submitting", "parked_sample", "woken_sample"}
Placed     == WithSample \ {"limiting"}

StreamInv ==
    /\ fed \in 0..DONE /\ taken \in 0..fed
    /\ processor \in ProcessorPlaces
    /\ rollout_sample \in Samples \cup {NoSample}
    /\ processor \in WithSample => rollout_sample \in Samples
    /\ running \in SUBSET Samples /\ ended \in Nat /\ cancel_queue \in Seq(Samples)
    /\ ActiveTasks <= max_concurrent_samples
    /\ processor \in Placed => ActiveTasks < max_concurrent_samples

LEMMA RunningFinite ==
    ASSUME running \in SUBSET Samples
    PROVE  IsFiniteSet(running) /\ Cardinality(running) \in Nat
  <1>1. IsFiniteSet(Samples)
    BY FS_Interval, AsyncAssumption DEF Samples
  <1> QED
    BY <1>1, FS_Subset, FS_CardinalityType

\* A step that makes no task: their number does not grow, and the processor goes to
\* a place whose conditions hold.
LEMMA StreamMove ==
    ASSUME StreamInv, UNCHANGED <<fed, taken, rollout_sample, running, cancel_queue>>,
           processor' \in ProcessorPlaces, ended' \in Nat, ended' <= ended,
           processor' \in WithSample => processor \in WithSample,
           processor' \in Placed => processor \in Placed \/ ActiveTasks' < max_concurrent_samples
    PROVE  StreamInv'
  <1>1. Cardinality(running) \in Nat /\ max_concurrent_samples \in Nat
    BY RunningFinite, Limits DEF StreamInv
  <1>2. ActiveTasks' <= ActiveTasks /\ ActiveTasks \in Nat /\ ActiveTasks' \in Nat
    BY <1>1 DEF ActiveTasks, StreamInv
  <1> QED
    BY <1>1, <1>2 DEF StreamInv

\* Where the processor goes with a sample in hand.
LEMMA StreamTaken ==
    ASSUME StreamInv, UNCHANGED <<running, ended>>, fed' \in 0..DONE, taken' \in 0..fed',
           cancel_queue' \in Seq(Samples), rollout_sample' \in Samples, processor' = Place
    PROVE  StreamInv'
  <1>1. Cardinality(running) \in Nat /\ max_concurrent_samples \in Nat
    BY RunningFinite, Limits DEF StreamInv
  <1>2. ActiveTasks' = ActiveTasks /\ ActiveTasks \in Nat
    BY <1>1 DEF ActiveTasks, StreamInv
  <1>3. Place \in ProcessorPlaces /\ (Place \in Placed => ActiveTasks < max_concurrent_samples)
    BY <1>1, <1>2 DEF Place, ProcessorPlaces, Reaping, Placed, WithSample
  <1> QED
    BY <1>2, <1>3 DEF StreamInv

LEMMA StreamProcessor == ASSUME StreamInv, Processor PROVE StreamInv'
  <1> USE DEF ProcessorPlaces, Reaping, WithSample, Placed, feedVars, procVars, taskVars, heldVars
  <1> ended \in Nat
    BY DEF StreamInv
  <1>1. CASE PauseSelf
    <2>1. processor' \in {"draining", "idling", "pausing"}
      BY <1>1 DEF PauseSelf, SetPaused, Ask
    <2> QED
      BY <1>1, <2>1, StreamMove DEF PauseSelf
  <1>2. CASE TakeInterrupted
    <2>1. Head(cancel_queue) \in Samples /\ Tail(cancel_queue) \in Seq(Samples)
      BY <1>2 DEF TakeInterrupted, StreamInv
    <2> QED
      BY <1>2, <2>1, StreamTaken DEF TakeInterrupted, Ask, StreamInv
  <1>3. CASE AwaitPending
    BY <1>3, StreamMove DEF AwaitPending, Stop
  <1>4. CASE TakePending
    <2>1. taken \in Nat /\ fed \in Nat /\ DONE \in Nat /\ fed <= DONE /\ taken' = taken + 1 /\ taken < fed
          /\ UNCHANGED <<fed, running, ended, cancel_queue>>
      BY <1>4, AsyncAssumption DEF TakePending, StreamInv, DONE
    <2>2. CASE taken' = DONE
      <3>1. processor' \in {"finishing", "exited"} /\ UNCHANGED rollout_sample
        BY <1>4, <2>2 DEF TakePending, Ask, Stop
      <3>2. UNCHANGED ActiveTasks
        BY <2>1 DEF ActiveTasks
      <3> QED
        BY <2>1, <3>1, <3>2 DEF StreamInv
    <2>3. CASE taken' # DONE
      <3>1. rollout_sample' = taken' /\ processor' = Place
        BY <1>4, <2>3 DEF TakePending, Ask
      <3>2. taken' \in Samples
        BY <2>1, <2>3, AsyncAssumption DEF Samples, DONE
      <3> QED
        BY <2>1, <3>1, <3>2, StreamTaken DEF StreamInv
    <2> QED
      BY <2>2, <2>3
  <1>5. CASE Reap
    <2>1. ended > 0 /\ ended' = 0 /\ UNCHANGED <<fed, taken, rollout_sample, running, cancel_queue>>
      BY <1>5 DEF Reap
    <2>2. ActiveTasks' < max_concurrent_samples
      <3>1. Cardinality(running) \in Nat /\ max_concurrent_samples \in Nat
        BY RunningFinite, Limits DEF StreamInv
      <3> QED
        BY <2>1, <3>1 DEF ActiveTasks, StreamInv
    <2>3. /\ processor \in Reaping
          /\ \/ processor' = "raised"
             \/ processor' = processor /\ processor # "limiting"
             \/ processor = "finishing" /\ processor' = "exited"
             \/ processor # "finishing" /\ processor' = Beyond[processor]
      BY <1>5 DEF Reap, LeaveReaping, Ask, Stop
    <2>4. processor' \in ProcessorPlaces /\ (processor' \in WithSample => processor \in WithSample)
      BY <2>3 DEF Beyond
    <2> QED
      BY <2>1, <2>2, <2>4, StreamMove
  <1>6. CASE NothingToReap
    <2>1. ActiveTasks = 0 /\ UNCHANGED <<fed, taken, rollout_sample, running, ended, cancel_queue>>
      BY <1>6 DEF NothingToReap
    <2>2. ActiveTasks' < max_concurrent_samples
      BY <2>1, Limits DEF ActiveTasks
    <2>3. /\ processor \in Reaping
          /\ \/ processor' = "raised"
             \/ processor = "finishing" /\ processor' = "exited"
             \/ processor # "finishing" /\ processor' = Beyond[processor]
      BY <1>6 DEF NothingToReap, LeaveReaping, Ask, Stop
    <2>4. processor' \in ProcessorPlaces /\ (processor' \in WithSample => processor \in WithSample)
      BY <2>3 DEF Beyond
    <2> QED
      BY <2>1, <2>2, <2>4, StreamMove
  <1>7. CASE Idle
    BY <1>7, StreamMove DEF Idle, Stop, Continue
  <1>8. CASE Park
    BY <1>8, StreamMove DEF Park, Stop
  <1>9. CASE Wake
    BY <1>9, StreamMove DEF Wake, Ask
  <1>10. CASE Submit
    <2>1. /\ processor = "submitting" /\ processor' = "top" /\ rollout_sample' = NoSample
          /\ running' = running \cup {rollout_sample}
          /\ UNCHANGED <<fed, taken, ended, cancel_queue>>
      BY <1>10 DEF Submit, Continue
    <2>2. IsFiniteSet(running) /\ Cardinality(running) \in Nat /\ max_concurrent_samples \in Nat
      BY RunningFinite, Limits DEF StreamInv
    <2>3. Cardinality(running') <= Cardinality(running) + 1 /\ Cardinality(running') \in Nat
      <3>1. Cardinality(running \cup {rollout_sample})
              = IF rollout_sample \in running THEN Cardinality(running) ELSE Cardinality(running) + 1
        BY <2>2, FS_AddElement
      <3> QED
        BY <2>1, <2>2, <3>1
    <2>4. ActiveTasks' <= max_concurrent_samples
      BY <2>1, <2>2, <2>3 DEF ActiveTasks, StreamInv
    <2> QED
      BY <2>1, <2>4 DEF StreamInv
  <1> QED
    BY <1>1, <1>2, <1>3, <1>4, <1>5, <1>6, <1>7, <1>8, <1>9, <1>10 DEF Processor

\* A task that ends is counted until it is awaited.
LEMMA StreamEnded ==
    ASSUME StreamInv, NEW s \in Samples, EndTask(s), cancel_queue' \in Seq(Samples)
    PROVE  StreamInv'
  <1>1. /\ s \in running /\ running' = running \ {s} /\ ended' = ended + 1
        /\ UNCHANGED <<fed, taken, processor, rollout_sample>>
    BY DEF EndTask, feedVars, procVars
  <1>2. IsFiniteSet(running) /\ Cardinality(running) \in Nat
    BY RunningFinite DEF StreamInv
  <1>3. Cardinality(running') = Cardinality(running) - 1
    BY <1>1, <1>2, FS_RemoveElement
  <1>4. ActiveTasks' = ActiveTasks
    BY <1>1, <1>2, <1>3 DEF ActiveTasks, StreamInv
  <1> QED
    BY <1>1, <1>4 DEF StreamInv

\* The monitor, main and the synchronizer wake the processor and await its tasks.
LEMMA StreamOthers ==
    ASSUME StreamInv, Monitor \/ Main \/ Sync \/ Trainer \/ Consume \/ PutSample PROVE StreamInv'
  <1> USE DEF feedVars, procVars, taskVars, heldVars
  <1>1. UNCHANGED <<fed, taken, rollout_sample, running, cancel_queue>>
    BY DEF Monitor, MonitorChecks, MonitorWakes, MonitorResumes, Main, MainAt, AwaitFeed,
       AwaitProcessor, JoinResults, PutEndOfStream, StopRunning, Sync, SyncAt, CallPause, Pause,
       PauseEnds, CopyWeights, UpdateVersion, ResetStaleness, EndUpdate, CallResume, Resume, Trainer, GetSample,
       Train, Leave, Validated, Consume, PutSample
  <1>2. ended' \in {0, ended}
    BY DEF Monitor, MonitorChecks, MonitorWakes, MonitorResumes, Main, MainAt, AwaitFeed,
       AwaitProcessor, JoinResults, PutEndOfStream, StopRunning, Sync, SyncAt, CallPause, Pause,
       PauseEnds, CopyWeights, UpdateVersion, ResetStaleness, EndUpdate, CallResume, Resume, Trainer, GetSample,
       Train, Leave, Validated, Consume, PutSample
  <1>3. processor' = processor \/ Notify
    BY DEF Monitor, MonitorChecks, MonitorWakes, MonitorResumes, Main, MainAt, AwaitFeed,
       AwaitProcessor, JoinResults, PutEndOfStream, StopRunning, Sync, SyncAt, CallPause, Pause,
       PauseEnds, CopyWeights, UpdateVersion, ResetStaleness, EndUpdate, CallResume, Resume, Trainer, GetSample,
       Train, Leave, Validated, Consume, PutSample, Unpause
  <1>4. /\ processor' \in ProcessorPlaces
        /\ processor' \in WithSample => processor \in WithSample
        /\ processor' \in Placed => processor \in Placed
    BY <1>3 DEF Notify, StreamInv, ProcessorPlaces, Reaping, WithSample, Placed
  <1>5. ended' \in Nat /\ ended' <= ended
    BY <1>2 DEF StreamInv
  <1> QED
    BY <1>1, <1>4, <1>5, StreamMove

LEMMA StreamNext == StreamInv /\ [Next]_vars => StreamInv'
  <1> SUFFICES ASSUME StreamInv, [Next]_vars PROVE StreamInv'
    OBVIOUS
  <1>1. CASE Feed
    <2>1. /\ fed' \in 0..DONE /\ taken \in 0..fed'
          /\ UNCHANGED <<taken, processor, rollout_sample, running, ended, cancel_queue>>
      BY <1>1, AsyncAssumption DEF Feed, StreamInv, DONE, procVars, taskVars, heldVars
    <2> QED
      BY <2>1 DEF StreamInv, ActiveTasks
  <1>2. ASSUME NEW s \in Samples, Finish(s) \/ Interrupt(s) \/ Fail(s) PROVE StreamInv'
    <2>1. EndTask(s) /\ cancel_queue' \in {cancel_queue, Append(cancel_queue, s)}
      BY <1>2 DEF Finish, Interrupt, Fail, heldVars
    <2> QED
      BY <2>1, StreamEnded DEF StreamInv
  <1>3. CASE UNCHANGED vars
    BY <1>3 DEF vars, feedVars, procVars, taskVars, heldVars, StreamInv, ActiveTasks
  <1> QED
    BY <1>1, <1>2, <1>3, StreamProcessor, StreamOthers DEF Next

\* Nothing else adds to the tasks between the test of the limit and the task.
THEOREM StreamInvariant == Spec => []StreamInv
  <1>1. Init => StreamInv
    <2> SUFFICES ASSUME Init PROVE StreamInv
      OBVIOUS
    <2>1. ActiveTasks = 0
      BY FS_EmptySet DEF Init, ActiveTasks
    <2> QED
      BY <2>1, Limits, AsyncAssumption DEF Init, StreamInv, DONE, Samples, NoSample, ProcessorPlaces,
         WithSample, Placed
  <1> QED
    BY <1>1, StreamNext, PTL DEF Spec

\* However the processor's test of the limit is separated from the task it makes, and
\* whatever pauses and syncs come in between, the limit on active tasks holds.
THEOREM ConcurrencyIsBounded == Spec => []BoundedConcurrency
  <1>1. StreamInv => BoundedConcurrency
    BY DEF StreamInv, BoundedConcurrency
  <1> QED
    BY <1>1, StreamInvariant, PTL

-----------------------------------------------------------------------------
(* Versions.  result_queue, the message on its way and the message queue hold    *)
(* versions that do not grow from the first to the last of the three, and the    *)
(* version that a sample gets when it ends is the latest of all.                 *)

Queued == Messages \cup {EndOfStream}

UpTo(q, version) == \A i \in 1..Len(q) : q[i].param_version <= version

InOrder(q) ==
    \A i, j \in 1..Len(q) :
        i < j /\ q[j] # EndOfStream => q[i].param_version <= q[j].param_version

VersionInv ==
    /\ queue \in Seq(Queued) /\ Len(queue) <= max_queue_size
    /\ result_queue \in Seq(Messages) /\ putting \in Queued
    /\ dropped \subseteq Samples \cup {NoSample}
    /\ rollout_version \in Nat /\ current_version \in Nat /\ current_param_version \in Nat
    /\ rollout_version <= current_version /\ current_version <= current_param_version
    /\ InOrder(queue) /\ InOrder(result_queue)
    /\ UpTo(queue, rollout_version) /\ UpTo(result_queue, rollout_version)
    /\ putting.param_version <= rollout_version
    /\ putting # EndOfStream => UpTo(queue, putting.param_version)
    /\ \A j \in 1..Len(result_queue) :
          /\ UpTo(queue, result_queue[j].param_version)
          /\ putting.param_version <= result_queue[j].param_version

LEMMA QueuedFacts ==
    /\ EndOfStream.param_version = 0 /\ EndOfStream.sample = NoSample
    /\ \A m \in Messages : m \in Queued /\ m # EndOfStream
    /\ \A m \in Queued : m.param_version \in Nat /\ m.sample \in Samples \cup {NoSample}
  <1>1. EndOfStream.param_version = 0 /\ EndOfStream.sample = NoSample
    BY DEF EndOfStream, Message
  <1>2. \A m \in Messages : m.sample \in Samples /\ m.param_version \in Nat
    BY DEF Messages
  <1>3. NoSample \notin Samples
    BY DEF NoSample, Samples
  <1> QED
    BY <1>1, <1>2, <1>3 DEF Queued

\* The elements of a sequence with one more at its end, and of one without its first.
LEMMA Ends ==
    ASSUME NEW S, NEW q \in Seq(S)
    PROVE  /\ Len(q) \in Nat
           /\ \A m \in S : /\ Append(q, m) \in Seq(S) /\ Len(Append(q, m)) = Len(q) + 1
                           /\ Append(q, m)[Len(q) + 1] = m
                           /\ \A i \in 1..Len(q) : Append(q, m)[i] = q[i]
           /\ q # <<>> => /\ Tail(q) \in Seq(S) /\ Len(Tail(q)) = Len(q) - 1
                          /\ Len(q) >= 1 /\ Head(q) = q[1] /\ q[1] \in S
                          /\ \A i \in 1..(Len(q) - 1) : Tail(q)[i] = q[i + 1]
  <1>1. Len(q) \in Nat /\ (q # <<>> => Len(q) >= 1)
    BY EmptySeq
  <1>2. ASSUME NEW m \in S
        PROVE  /\ Append(q, m) \in Seq(S) /\ Len(Append(q, m)) = Len(q) + 1
               /\ Append(q, m)[Len(q) + 1] = m
               /\ \A i \in 1..Len(q) : Append(q, m)[i] = q[i]
    BY <1>1
  <1>3. ASSUME q # <<>>
        PROVE  /\ Tail(q) \in Seq(S) /\ Len(Tail(q)) = Len(q) - 1
               /\ Head(q) = q[1] /\ q[1] \in S
               /\ \A i \in 1..(Len(q) - 1) : Tail(q)[i] = q[i + 1]
    <2>1. Tail(q) \in Seq(S) /\ Len(Tail(q)) = Len(q) - 1 /\ Head(q) = q[1] /\ q[1] \in S
      BY <1>1, <1>3
    <2> QED
      BY <1>1, <1>3, <2>1
  <1> QED
    BY <1>1, <1>2, <1>3

LEMMA OrderedTail ==
    ASSUME NEW q \in Seq(Queued), q # <<>>, InOrder(q)
    PROVE  InOrder(Tail(q)) /\ \A v \in Nat : UpTo(q, v) => UpTo(Tail(q), v)
  <1> DEFINE t == Tail(q)
  <1>1. Len(q) \in Nat /\ Len(t) = Len(q) - 1 /\ \A i \in 1..Len(t) : t[i] = q[i + 1]
    BY Ends
  <1>2. \A i \in 1..Len(t) : i + 1 \in 1..Len(q)
    BY <1>1
  <1> HIDE DEF t
  <1>3. InOrder(t)
    BY <1>1, <1>2 DEF InOrder
  <1>4. \A v \in Nat : UpTo(q, v) => UpTo(t, v)
    BY <1>1, <1>2 DEF UpTo
  <1> QED
    BY <1>3, <1>4 DEF t

LEMMA OrderedAppend ==
    ASSUME NEW q \in Seq(Queued), InOrder(q), NEW m \in Queued,
           m # EndOfStream => UpTo(q, m.param_version)
    PROVE  /\ InOrder(Append(q, m))
           /\ \A v \in Nat : UpTo(q, v) /\ m.param_version <= v => UpTo(Append(q, m), v)
  <1> DEFINE a == Append(q, m)
  <1>1. /\ Len(q) \in Nat /\ Len(a) = Len(q) + 1 /\ a[Len(q) + 1] = m
        /\ \A i \in 1..Len(q) : a[i] = q[i]
    BY Ends
  <1>2. \A i \in 1..Len(a) : i \in 1..Len(q) \/ i = Len(q) + 1
    BY <1>1
  <1> HIDE DEF a
  <1>3. ASSUME NEW i \in 1..Len(a), NEW j \in 1..Len(a), i < j, a[j] # EndOfStream
        PROVE  a[i].param_version <= a[j].param_version
    <2>1. i \in 1..Len(q)
      BY <1>1, <1>3
    <2>2. CASE j \in 1..Len(q)
      BY <1>1, <1>3, <2>1, <2>2 DEF InOrder
    <2>3. CASE j = Len(q) + 1
      BY <1>1, <1>3, <2>1, <2>3 DEF UpTo
    <2> QED
      BY <1>2, <2>2, <2>3
  <1>4. \A v \in Nat : UpTo(q, v) /\ m.param_version <= v => UpTo(a, v)
    BY <1>1, <1>2 DEF UpTo
  <1> QED
    BY <1>3, <1>4 DEF InOrder, a

\* The message queue takes a message no older than what it holds.
LEMMA PutOrdered ==
    ASSUME queue \in Seq(Queued), Len(queue) <= max_queue_size, InOrder(queue),
           dropped \subseteq Samples \cup {NoSample},
           NEW m \in Queued, m # EndOfStream => UpTo(queue, m.param_version), Put(m)
    PROVE  /\ queue' \in Seq(Queued) /\ Len(queue') <= max_queue_size /\ InOrder(queue')
           /\ dropped' \subseteq Samples \cup {NoSample}
           /\ \A v \in Nat : UpTo(queue, v) /\ m.param_version <= v => UpTo(queue', v)
  <1>1. Len(queue) \in Nat /\ max_queue_size \in Nat \ {0} /\ m.param_version \in Nat
    BY Limits, QueuedFacts, Ends
  <1>2. CASE Len(queue) >= max_queue_size
    <2>1. queue' = Append(Tail(queue), m) /\ dropped' = dropped \cup {Head(queue).sample}
      BY <1>1, <1>2 DEF Put
    <2>2. queue # <<>>
      BY <1>1, <1>2, EmptySeq
    <2>3. /\ Tail(queue) \in Seq(Queued) /\ Len(Tail(queue)) = Len(queue) - 1
          /\ Head(queue) \in Queued
      BY <2>2, Ends
    <2>4. InOrder(Tail(queue)) /\ \A v \in Nat : UpTo(queue, v) => UpTo(Tail(queue), v)
      BY <2>2, OrderedTail
    <2>5. m # EndOfStream => UpTo(Tail(queue), m.param_version)
      BY <1>1, <2>4
    <2>6. /\ InOrder(Append(Tail(queue), m))
          /\ \A v \in Nat : UpTo(Tail(queue), v) /\ m.param_version <= v
                            => UpTo(Append(Tail(queue), m), v)
      BY <2>3, <2>4, <2>5, OrderedAppend
    <2>7. Append(Tail(queue), m) \in Seq(Queued) /\ Len(Append(Tail(queue), m)) = Len(queue)
      BY <1>1, <2>3, Ends
    <2>8. dropped' \subseteq Samples \cup {NoSample}
      BY <2>1, <2>3, QueuedFacts
    <2> QED
      BY <2>1, <2>4, <2>6, <2>7, <2>8
  <1>3. CASE Len(queue) < max_queue_size
    <2>1. queue' = Append(queue, m) /\ dropped' = dropped
      BY <1>1, <1>3 DEF Put
    <2>2. Append(queue, m) \in Seq(Queued) /\ Len(Append(queue, m)) = Len(queue) + 1
      BY Ends
    <2> QED
      BY <1>1, <1>3, <2>1, <2>2, OrderedAppend
  <1> QED
    BY <1>1, <1>2, <1>3

LEMMA VersionsQueued == ASSUME VersionInv, PutSample PROVE VersionInv'
  <1>1. /\ putting # EndOfStream /\ Put(putting) /\ putting' = EndOfStream
        /\ UNCHANGED <<result_queue, rollout_version, current_version, current_param_version>>
    BY DEF PutSample, heldVars, countVars, trainVars, syncVars
  <1>2. /\ queue' \in Seq(Queued) /\ Len(queue') <= max_queue_size /\ InOrder(queue')
        /\ dropped' \subseteq Samples \cup {NoSample}
        /\ \A v \in Nat : UpTo(queue, v) /\ putting.param_version <= v => UpTo(queue', v)
    BY <1>1, PutOrdered DEF VersionInv
  <1>3. \A j \in 1..Len(result_queue) : result_queue[j].param_version \in Nat
    BY QueuedFacts DEF VersionInv
  <1>4. \A j \in 1..Len(result_queue) :
          UpTo(queue', result_queue[j].param_version) /\ 0 <= result_queue[j].param_version
    BY <1>2, <1>3 DEF VersionInv
  <1>5. UpTo(queue', rollout_version) /\ 0 <= rollout_version
    BY <1>2 DEF VersionInv
  <1>6. putting' \in Queued /\ putting'.param_version = 0
    BY <1>1, QueuedFacts DEF Queued
  <1> QED
    BY <1>1, <1>2, <1>4, <1>5, <1>6 DEF VersionInv, UpTo

LEMMA VersionsConsumed == ASSUME VersionInv, Consume PROVE VersionInv'
  <1>1. /\ putting = EndOfStream /\ result_queue # <<>> /\ putting' = Head(result_queue)
        /\ result_queue' = Tail(result_queue)
        /\ UNCHANGED <<queue, dropped, rollout_version, current_version, current_param_version>>
    BY DEF Consume, countVars, trainVars, syncVars
  <1> DEFINE h == result_queue[1]
             t == Tail(result_queue)
  <1>2. /\ h \in Messages /\ putting' = h /\ t \in Seq(Messages) /\ Len(t) = Len(result_queue) - 1
        /\ Len(result_queue) \in Nat /\ Len(result_queue) >= 1
        /\ \A i \in 1..Len(t) : t[i] = result_queue[i + 1] /\ i + 1 \in 1..Len(result_queue)
    BY <1>1, Ends DEF VersionInv
  <1>3. h \in Queued /\ h # EndOfStream
    BY <1>2, QueuedFacts
  <1>4. UpTo(queue, h.param_version) /\ h.param_version <= rollout_version
    BY <1>2 DEF VersionInv, UpTo
  <1>5. result_queue \in Seq(Queued) /\ t \in Seq(Queued)
    BY <1>2, QueuedFacts DEF VersionInv
  <1>6. InOrder(t) /\ UpTo(t, rollout_version)
    BY <1>1, <1>5, OrderedTail DEF VersionInv
  <1>7. ASSUME NEW j \in 1..Len(t)
        PROVE  UpTo(queue, t[j].param_version) /\ h.param_version <= t[j].param_version
    <2>1. t[j] = result_queue[j + 1] /\ j + 1 \in 1..Len(result_queue) /\ 1 < j + 1
      BY <1>2
    <2>2. result_queue[j + 1] # EndOfStream
      BY <2>1, QueuedFacts DEF VersionInv
    <2> QED
      BY <1>2, <2>1, <2>2 DEF VersionInv, InOrder
  <1> HIDE DEF t, h
  <1>8. result_queue' = t
    BY <1>1 DEF t
  <1> QED
    BY <1>1, <1>2, <1>3, <1>4, <1>6, <1>7, <1>8 DEF VersionInv

\* A sample that ends gets the latest version.
LEMMA VersionsFinished == ASSUME VersionInv, NEW s \in Samples, Finish(s) PROVE VersionInv'
  <1> DEFINE m == Message(s, rollout_version)
  <1>1. /\ result_queue' = Append(result_queue, m)
        /\ UNCHANGED <<queue, putting, dropped, rollout_version, current_version, current_param_version>>
    BY DEF Finish, EndTask, countVars, queueVars, trainVars, syncVars
  <1>2. m \in Messages /\ m.param_version = rollout_version
    BY DEF Message, Messages, VersionInv
  <1>3. m \in Queued /\ m # EndOfStream
    BY <1>2, QueuedFacts
  <1> HIDE DEF m
  <1>4. /\ Len(result_queue) \in Nat /\ result_queue' \in Seq(Messages)
        /\ Len(result_queue') = Len(result_queue) + 1
        /\ result_queue'[Len(result_queue) + 1] = m
        /\ \A i \in 1..Len(result_queue) : result_queue'[i] = result_queue[i]
    BY <1>1, <1>2, Ends DEF VersionInv
  <1>5. result_queue \in Seq(Queued)
    BY QueuedFacts DEF VersionInv
  <1>6. InOrder(result_queue') /\ UpTo(result_queue', rollout_version)
    BY <1>1, <1>2, <1>3, <1>5, OrderedAppend DEF VersionInv
  <1>7. ASSUME NEW j \in 1..Len(result_queue')
        PROVE  /\ UpTo(queue, result_queue'[j].param_version)
               /\ putting.param_version <= result_queue'[j].param_version
    <2>1. j \in 1..Len(result_queue) \/ j = Len(result_queue) + 1
      BY <1>4
    <2> QED
      BY <1>2, <1>4, <2>1 DEF VersionInv
  <1> QED
    BY <1>1, <1>4, <1>6, <1>7 DEF VersionInv

\* The end of the stream comes last, and the trainer takes from the front.
LEMMA VersionsEnded == ASSUME VersionInv, PutEndOfStream PROVE VersionInv'
  <1>1. /\ Put(EndOfStream) /\ EndOfStream \in Queued
        /\ UNCHANGED <<result_queue, putting, rollout_version, current_version, current_param_version>>
    BY DEF PutEndOfStream, MainAt, heldVars, countVars, trainVars, syncVars, Queued
  <1>2. /\ queue' \in Seq(Queued) /\ Len(queue') <= max_queue_size /\ InOrder(queue')
        /\ dropped' \subseteq Samples \cup {NoSample}
        /\ \A v \in Nat : UpTo(queue, v) /\ EndOfStream.param_version <= v => UpTo(queue', v)
    BY <1>1, PutOrdered DEF VersionInv
  <1>3. \A v \in Nat : UpTo(queue, v) => UpTo(queue', v)
    BY <1>2, QueuedFacts
  <1>4. putting.param_version \in Nat
    BY QueuedFacts DEF VersionInv
  <1>5. \A j \in 1..Len(result_queue) : result_queue[j].param_version \in Nat
    BY QueuedFacts DEF VersionInv
  <1> QED
    BY <1>1, <1>2, <1>3, <1>4, <1>5 DEF VersionInv

LEMMA VersionsTaken == ASSUME VersionInv, GetSample PROVE VersionInv'
  <1>1. /\ queue # <<>> /\ queue' = Tail(queue)
        /\ UNCHANGED <<result_queue, putting, dropped, rollout_version, current_version, current_param_version>>
    BY DEF GetSample, heldVars, countVars, syncVars
  <1>2. queue' \in Seq(Queued) /\ Len(queue') <= max_queue_size
    <2>1. Len(queue) \in Nat /\ queue' \in Seq(Queued) /\ Len(queue') = Len(queue) - 1
      BY <1>1, Ends DEF VersionInv
    <2> QED
      BY <2>1, Limits DEF VersionInv
  <1>3. InOrder(queue') /\ \A v \in Nat : UpTo(queue, v) => UpTo(queue', v)
    BY <1>1, OrderedTail DEF VersionInv
  <1>4. putting.param_version \in Nat
    BY QueuedFacts DEF VersionInv
  <1>5. \A j \in 1..Len(result_queue) : result_queue[j].param_version \in Nat
    BY QueuedFacts DEF VersionInv
  <1> QED
    BY <1>1, <1>2, <1>3, <1>4, <1>5 DEF VersionInv

\* The version grows with the trainer's, the synchronizer's follows when it is called, and
\* the rollouter takes that over.
LEMMA VersionsGrow ==
    ASSUME VersionInv, UNCHANGED <<queue, result_queue, putting, dropped>>,
           \/ /\ UNCHANGED <<rollout_version, current_version>>
              /\ current_param_version' \in {current_param_version, current_param_version + 1}
           \/ /\ current_version' = current_param_version
              /\ UNCHANGED <<rollout_version, current_param_version>>
           \/ /\ rollout_version' = current_version
              /\ UNCHANGED <<current_version, current_param_version>>
    PROVE  VersionInv'
  <1>1. /\ rollout_version' \in Nat /\ current_version' \in Nat /\ current_param_version' \in Nat
        /\ rollout_version <= rollout_version' /\ rollout_version' <= current_version'
        /\ current_version' <= current_param_version' /\ rollout_version \in Nat
    BY DEF VersionInv
  <1>2. ASSUME NEW q \in Seq(Queued), UpTo(q, rollout_version) PROVE UpTo(q, rollout_version')
    <2>1. \A i \in 1..Len(q) : q[i].param_version \in Nat
      BY QueuedFacts
    <2> QED
      BY <1>1, <1>2, <2>1 DEF UpTo
  <1>3. UpTo(queue, rollout_version')
    BY <1>2 DEF VersionInv
  <1>4. UpTo(result_queue, rollout_version')
    BY <1>2, QueuedFacts DEF VersionInv
  <1>5. putting.param_version <= rollout_version'
    BY <1>1, QueuedFacts DEF VersionInv
  <1> QED
    BY <1>1, <1>3, <1>4, <1>5 DEF VersionInv

LEMMA VersionNext == VersionInv /\ [Next]_vars => VersionInv'
  <1> SUFFICES ASSUME VersionInv, [Next]_vars PROVE VersionInv'
    OBVIOUS
  <1> USE DEF heldVars, countVars, queueVars, trainVars, syncVars
  <1>1. CASE Feed \/ Processor
    BY <1>1, VersionsGrow DEF Feed, Processor, PauseSelf, TakeInterrupted, AwaitPending, TakePending,
       Reap, NothingToReap, Idle, Park, Wake, Submit
  <1>2. CASE Monitor
    BY <1>2, VersionsGrow DEF Monitor, MonitorChecks, MonitorWakes, MonitorResumes
  <1>3. CASE Main
    <2>1. CASE PutEndOfStream
      BY <2>1, VersionsEnded
    <2>2. CASE AwaitFeed \/ AwaitProcessor \/ JoinResults \/ StopRunning
      BY <2>2, VersionsGrow DEF MainAt, AwaitFeed, AwaitProcessor, JoinResults, StopRunning
    <2> QED
      BY <1>3, <2>1, <2>2 DEF Main
  <1>4. CASE Trainer
    <2>1. CASE GetSample
      BY <2>1, VersionsTaken
    <2>2. CASE Train \/ Leave \/ Validated
      BY <2>2, VersionsGrow DEF Train, Leave, Validated
    <2> QED
      BY <1>4, <2>1, <2>2 DEF Trainer
  <1>5. CASE Sync
    BY <1>5, VersionsGrow DEF Sync, SyncAt, CallPause, Pause, PauseEnds, CopyWeights, UpdateVersion,
       ResetStaleness, EndUpdate, CallResume, Resume
  <1>6. ASSUME NEW s \in Samples, Finish(s) \/ Interrupt(s) \/ Fail(s) PROVE VersionInv'
    <2>1. CASE Finish(s)
      BY <2>1, VersionsFinished
    <2>2. CASE Interrupt(s) \/ Fail(s)
      BY <2>2, VersionsGrow DEF Interrupt, Fail, EndTask
    <2> QED
      BY <1>6, <2>1, <2>2
  <1>7. CASE UNCHANGED vars
    BY <1>7, VersionsGrow DEF vars
  <1> QED
    BY <1>1, <1>2, <1>3, <1>4, <1>5, <1>6, <1>7, VersionsQueued, VersionsConsumed DEF Next

\* The three queues stay in the order of versions, each after the one before it.
THEOREM VersionInvariant == Spec => []VersionInv
  <1>1. Init => VersionInv
    <2>1. /\ EndOfStream \in Queued /\ EndOfStream.param_version = 0
      BY QueuedFacts DEF Queued
    <2>2. <<>> \in Seq(Queued) /\ <<>> \in Seq(Messages) /\ Len(<<>>) = 0
      BY EmptySeq
    <2> QED
      BY <2>1, <2>2, Limits DEF Init, VersionInv, InOrder, UpTo
  <1> QED
    BY <1>1, VersionNext, PTL DEF Spec

\* Samples end in any order, and syncs come between the end of a sample and its
\* arrival: the message queue holds them in the order of their versions all the same.
THEOREM QueueIsInVersionOrder == Spec => []QueueInVersionOrder
  <1>1. VersionInv => QueueInVersionOrder
    BY DEF VersionInv, InOrder, QueueInVersionOrder
  <1> QED
    BY <1>1, VersionInvariant, PTL
-----------------------------------------------------------------------------
(* Types.  The lock is a queue in which a coroutine stands once, from the step    *)
(* in which it asks to the step in which it lets the lock go.                     *)

Elements(q) == {q[i] : i \in 1..Len(q)}
Distinct(q) == \A i, j \in 1..Len(q) : q[i] = q[j] => i = j

Clients == {"processor", "monitor", "main", "sync"}

\* Where the synchronizer keeps the lock from one step to the next.
Holding == {"gathering", "sizing", "reporting"}

LockInv ==
    /\ lock \in Seq(Clients) /\ Distinct(lock)
    /\ "processor" \in Elements(lock) => processor \in {"pausing", "idling", "submitting"} \cup Reaping
    /\ "monitor" \in Elements(lock) => monitor \in {"resuming", "checking"}
    /\ "main" \in Elements(lock) => main = "closing"
    /\ "sync" \in Elements(lock) => sync \in {"pausing", "updating", "resuming"} \cup Holding
    /\ sync \in Holding => Holds("sync")

\* What the synchronizer works for: while it copies weights the trainer waits for it,
\* with an empty batch and the version that is copied.
Copying   == {"pausing", "gathering", "copying"}
Finishing == {"updating", "sizing", "reporting", "updated", "resuming"}

TrainerInv ==
    /\ batch \in Seq(Messages) /\ Len(batch) <= required_samples
    /\ trained \subseteq Samples
    /\ local_trigger_step \in 1..trigger_parameter_sync_step
    /\ trainer \in {"collecting", "training", "waiting", "syncing", "leaving", "waiting_last",
                    "syncing_last", "validating", "finished"}
    /\ sync \in {"idle"} \cup Copying \cup Finishing
    /\ sync \in Copying <=> trainer \in {"syncing", "syncing_last"}
    /\ trainer = "collecting" => Len(batch) < required_samples
    /\ trainer = "training" => Len(batch) = required_samples
    /\ trainer \in {"waiting", "syncing"} => batch = <<>> /\ local_trigger_step = 1

FlagsInv ==
    /\ done_tasks_bound \in BOOLEAN /\ busy \in BOOLEAN /\ raising \in BOOLEAN
    /\ paused \in BOOLEAN /\ monitor_loop_trigger \in BOOLEAN /\ server_paused \in BOOLEAN
    /\ staleness_samples \in Nat /\ in_flight \in Nat
    /\ failed \subseteq Samples
    /\ monitor \in {"sleeping", "resuming", "checking", "stopped"}
    /\ main \in {"feeding", "processing", "joining", "ending", "closing", "stopped"}

TypeInv == StreamInv /\ VersionInv /\ LockInv /\ TrainerInv /\ FlagsInv

\* A queue that loses its head, and one that gets a new element.
LEMMA QueueLeft ==
    ASSUME NEW S, NEW q \in Seq(S), q # <<>>, Distinct(q)
    PROVE  /\ Tail(q) \in Seq(S) /\ Distinct(Tail(q)) /\ Head(q) \in Elements(q)
           /\ Elements(Tail(q)) = Elements(q) \ {Head(q)}
  <1> DEFINE t == Tail(q)
  <1>1. /\ Len(q) \in Nat /\ Len(q) >= 1 /\ t \in Seq(S) /\ Len(t) = Len(q) - 1
        /\ Head(q) = q[1] /\ \A i \in 1..(Len(q) - 1) : t[i] = q[i + 1]
    BY Ends
  <1> HIDE DEF t
  <1>2. ASSUME NEW i \in 1..Len(t), NEW j \in 1..Len(t), t[i] = t[j] PROVE i = j
    <2>1. i + 1 \in 1..Len(q) /\ j + 1 \in 1..Len(q) /\ q[i + 1] = q[j + 1]
      BY <1>1, <1>2
    <2>2. i + 1 = j + 1
      BY <2>1 DEF Distinct
    <2> QED
      BY <2>2, <1>1
  <1>3. ASSUME NEW x \in Elements(t) PROVE x \in Elements(q) /\ x # q[1]
    <2>1. PICK i \in 1..Len(t) : x = t[i]
      BY DEF Elements
    <2>2. i + 1 \in 1..Len(q) /\ 1 \in 1..Len(q) /\ i + 1 # 1 /\ x = q[i + 1]
      BY <1>1, <2>1
    <2> QED
      BY <2>2 DEF Elements, Distinct
  <1>4. ASSUME NEW x \in Elements(q), x # q[1] PROVE x \in Elements(t)
    <2>1. PICK i \in 1..Len(q) : x = q[i]
      BY DEF Elements
    <2>2. i - 1 \in 1..Len(t) /\ t[i - 1] = q[(i - 1) + 1] /\ (i - 1) + 1 = i
      BY <1>1, <1>4, <2>1
    <2> QED
      BY <2>1, <2>2 DEF Elements
  <1>5. q[1] \in Elements(q)
    BY <1>1 DEF Elements
  <1>6. Elements(t) = Elements(q) \ {q[1]}
    BY <1>3, <1>4
  <1>7. Distinct(t)
    BY <1>2 DEF Distinct
  <1> QED
    BY <1>1, <1>5, <1>6, <1>7 DEF t

LEMMA QueueJoined ==
    ASSUME NEW S, NEW q \in Seq(S), Distinct(q), NEW m \in S, m \notin Elements(q)
    PROVE  /\ Append(q, m) \in Seq(S) /\ Distinct(Append(q, m))
           /\ Elements(Append(q, m)) = Elements(q) \cup {m}
           /\ Append(q, m) # <<>> /\ (q # <<>> => Head(Append(q, m)) = Head(q))
  <1> DEFINE a == Append(q, m)
  <1>1. /\ Len(q) \in Nat /\ a \in Seq(S) /\ Len(a) = Len(q) + 1 /\ a[Len(q) + 1] = m
        /\ \A i \in 1..Len(q) : a[i] = q[i]
    BY Ends
  <1>2. a # <<>>
    BY <1>1, EmptySeq
  <1>3. q # <<>> => Head(a) = Head(q)
    <2>1. q # <<>> => 1 \in 1..Len(q) /\ Head(q) = q[1]
      BY Ends
    <2>2. Head(a) = a[1]
      BY <1>1, <1>2, Ends
    <2> QED
      BY <1>1, <2>1, <2>2
  <1> HIDE DEF a
  <1>4. \A i \in 1..Len(a) : i \in 1..Len(q) \/ i = Len(q) + 1
    BY <1>1
  <1>5. Distinct(a)
    <2> SUFFICES ASSUME NEW i \in 1..Len(a), NEW j \in 1..Len(a), a[i] = a[j] PROVE i = j
      BY DEF Distinct
    <2>1. \A k \in 1..Len(q) : q[k] # m
      BY DEF Elements
    <2> QED
      BY <1>1, <1>4, <2>1 DEF Distinct
  <1>6. ASSUME NEW x \in Elements(a) PROVE x \in Elements(q) \cup {m}
    <2>1. PICK i \in 1..Len(a) : x = a[i]
      BY DEF Elements
    <2> QED
      BY <1>1, <1>4, <2>1 DEF Elements
  <1>7. ASSUME NEW x \in Elements(q) \cup {m} PROVE x \in Elements(a)
    <2>1. CASE x = m
      <3>1. Len(q) + 1 \in 1..Len(a)
        BY <1>1
      <3> QED
        BY <1>1, <2>1, <3>1 DEF Elements
    <2>2. CASE x \in Elements(q)
      <3>1. PICK i \in 1..Len(q) : x = q[i]
        BY <2>2 DEF Elements
      <3>2. i \in 1..Len(a) /\ a[i] = x
        BY <1>1, <3>1
      <3> QED
        BY <3>2 DEF Elements
    <2> QED
      BY <2>1, <2>2
  <1>8. Elements(a) = Elements(q) \cup {m}
    BY <1>6, <1>7
  <1> QED
    BY <1>1, <1>2, <1>3, <1>5, <1>8 DEF a

\* What client c may do to the queue of the lock: join it, or leave its head, perhaps to
\* join it again.  Nobody else's place in it changes.
LockMoves(c) ==
    \/ lock' = lock
    \/ c \notin Elements(lock) /\ lock' = Append(lock, c)
    \/ Holds(c) /\ lock' \in {Tail(lock), Append(Tail(lock), c)}

LEMMA LockMoved ==
    ASSUME lock \in Seq(Clients), Distinct(lock), NEW c \in Clients, LockMoves(c)
    PROVE  /\ lock' \in Seq(Clients) /\ Distinct(lock')
           /\ \A d \in Clients \ {c} : d \in Elements(lock') <=> d \in Elements(lock)
           /\ \A d \in Clients \ {c} : Holds(d) => lock' # <<>> /\ Head(lock') = d
           /\ Holds(c) /\ lock' = Tail(lock) => c \notin Elements(lock')
  <1>1. CASE lock' = lock
    <2>1. Holds(c) => Tail(lock) # lock
      BY Ends DEF Holds
    <2> QED
      BY <1>1, <2>1 DEF Holds
  <1>2. CASE c \notin Elements(lock) /\ lock' = Append(lock, c)
    <2>1. /\ lock' \in Seq(Clients) /\ Distinct(lock') /\ Elements(lock') = Elements(lock) \cup {c}
          /\ lock' # <<>> /\ (lock # <<>> => Head(lock') = Head(lock))
      BY <1>2, QueueJoined
    <2>2. Holds(c) => c \in Elements(lock)
      BY QueueLeft DEF Holds
    <2> QED
      BY <1>2, <2>1, <2>2 DEF Holds
  <1>3. CASE Holds(c) /\ lock' \in {Tail(lock), Append(Tail(lock), c)}
    <2>1. /\ Tail(lock) \in Seq(Clients) /\ Distinct(Tail(lock))
          /\ Elements(Tail(lock)) = Elements(lock) \ {c}
      BY <1>3, QueueLeft DEF Holds
    <2>2. CASE lock' = Tail(lock)
      BY <1>3, <2>1, <2>2 DEF Holds
    <2>3. CASE lock' = Append(Tail(lock), c)
      <3> DEFINE t == Tail(lock)
      <3>3. t \in Seq(Clients) /\ Distinct(t) /\ c \notin Elements(t) /\ lock' = Append(t, c)
        BY <2>1, <2>3
      <3> HIDE DEF t
      <3>4. lock' \in Seq(Clients) /\ Distinct(lock') /\ Elements(lock') = Elements(t) \cup {c}
        BY <3>3, QueueJoined
      <3>1. lock' \in Seq(Clients) /\ Distinct(lock') /\ Elements(lock') = Elements(Tail(lock)) \cup {c}
        BY <3>4 DEF t
      <3>2. lock' # Tail(lock)
        BY <2>1, <2>3, Ends
      <3> QED
        BY <1>3, <2>1, <3>1, <3>2 DEF Holds
    <2> QED
      BY <1>3, <2>2, <2>3
  <1> QED
    BY <1>1, <1>2, <1>3 DEF LockMoves

Asking == {"pausing", "idling", "submitting"} \cup Reaping

LEMMA LockProcessor == ASSUME StreamInv, LockInv, Processor PROVE LockInv'
  <1> USE DEF Asking, Reaping
  <1>1. UNCHANGED <<monitor, main, sync>>
    BY DEF Processor, PauseSelf, TakeInterrupted, AwaitPending, TakePending, Reap, NothingToReap,
       Idle, Park, Wake, Submit, restVars, syncVars
  <1>2. \/ processor \notin Asking /\ lock' = lock
        \/ processor \notin Asking /\ lock' = Append(lock, "processor") /\ processor' \in Asking
        \/ Holds("processor") /\ lock' = Tail(lock)
        \/ Holds("processor") /\ lock' = Append(Tail(lock), "processor") /\ processor' \in Asking
    <2>1. CASE PauseSelf
      BY <2>1 DEF PauseSelf, SetPaused, Ask
    <2>2. CASE TakeInterrupted \/ TakePending
      BY <2>2 DEF TakeInterrupted, TakePending, AtTop, Ask, Stop, Place
    <2>3. CASE AwaitPending
      BY <2>3 DEF AwaitPending, AtTop, Stop
    <2>4. CASE Reap \/ NothingToReap
      <3>1. LeaveReaping /\ processor \in Reaping =>
               \/ lock' = Tail(lock)
               \/ lock' = Append(Tail(lock), "processor") /\ processor' \in Asking
        BY DEF LeaveReaping, Ask, Stop, Beyond
      <3>2. CASE Reap
        BY <3>1, <3>2 DEF Reap, Ask, Stop
      <3>3. CASE NothingToReap
        BY <3>1, <3>3 DEF NothingToReap, Stop
      <3> QED
        BY <2>4, <3>2, <3>3
    <2>5. CASE Idle \/ Park \/ Submit
      BY <2>5 DEF Idle, Park, Submit, Stop, Continue, Release
    <2>6. CASE Wake
      BY <2>6 DEF Wake, Ask
    <2> QED
      BY <2>1, <2>2, <2>3, <2>4, <2>5, <2>6 DEF Processor
  <1>3. processor \notin Asking => "processor" \notin Elements(lock)
    BY DEF LockInv
  <1>4. LockMoves("processor") /\ "processor" \in Clients
    BY <1>2, <1>3 DEF LockMoves, Clients
  <1>5. /\ lock' \in Seq(Clients) /\ Distinct(lock')
        /\ \A d \in Clients \ {"processor"} : d \in Elements(lock') <=> d \in Elements(lock)
        /\ \A d \in Clients \ {"processor"} : Holds(d) => lock' # <<>> /\ Head(lock') = d
        /\ Holds("processor") /\ lock' = Tail(lock) => "processor" \notin Elements(lock')
    BY <1>4, LockMoved DEF LockInv
  <1>6. "processor" \in Elements(lock') => processor' \in Asking
    BY <1>2, <1>3, <1>5
  <1> HIDE DEF Asking, Reaping
  <1> QED
    BY <1>1, <1>5, <1>6 DEF LockInv, Holds, Clients, Asking

\* Notify does not touch a processor that waits for the lock.
LEMMA LockMonitor == ASSUME LockInv, Monitor PROVE LockInv'
  <1>1. UNCHANGED <<main, sync>>
    BY DEF Monitor, MonitorChecks, MonitorWakes, MonitorResumes, syncVars
  <1>2. processor \in Asking => processor' = processor
    BY DEF Monitor, MonitorChecks, MonitorWakes, MonitorResumes, Unpause, Notify, procVars, Asking,
       Reaping
  <1>3. \/ monitor = "sleeping" /\ lock' = lock
        \/ /\ monitor = "sleeping" /\ lock' = Append(lock, "monitor")
           /\ monitor' \in {"resuming", "checking"}
        \/ Holds("monitor") /\ lock' = Tail(lock)
        \/ Holds("monitor") /\ lock' = Append(Tail(lock), "monitor") /\ monitor' = "checking"
    BY DEF Monitor, MonitorChecks, MonitorWakes, MonitorResumes, Unpause, MonitorLoops, Release,
       Acquire
  <1>4. monitor = "sleeping" => "monitor" \notin Elements(lock)
    BY DEF LockInv
  <1>5. LockMoves("monitor") /\ "monitor" \in Clients
    BY <1>3, <1>4 DEF LockMoves, Clients
  <1>6. /\ lock' \in Seq(Clients) /\ Distinct(lock')
        /\ \A d \in Clients \ {"monitor"} : d \in Elements(lock') <=> d \in Elements(lock)
        /\ \A d \in Clients \ {"monitor"} : Holds(d) => lock' # <<>> /\ Head(lock') = d
        /\ Holds("monitor") /\ lock' = Tail(lock) => "monitor" \notin Elements(lock')
    BY <1>5, LockMoved DEF LockInv
  <1>7. "monitor" \in Elements(lock') => monitor' \in {"resuming", "checking"}
    BY <1>3, <1>4, <1>6
  <1> QED
    BY <1>1, <1>2, <1>6, <1>7 DEF LockInv, Holds, Clients, Asking

LEMMA LockMain == ASSUME LockInv, Main PROVE LockInv'
  <1>1. UNCHANGED <<processor, monitor, sync>>
    BY DEF Main, AwaitFeed, AwaitProcessor, JoinResults, PutEndOfStream, StopRunning, MainAt, procVars,
       syncVars
  <1>2. \/ main # "closing" /\ lock' = lock
        \/ main # "closing" /\ lock' = Append(lock, "main") /\ main' = "closing"
        \/ Holds("main") /\ lock' = Tail(lock)
    BY DEF Main, AwaitFeed, AwaitProcessor, JoinResults, PutEndOfStream, StopRunning, MainAt, Acquire,
       Release
  <1>3. main # "closing" => "main" \notin Elements(lock)
    BY DEF LockInv
  <1>4. LockMoves("main") /\ "main" \in Clients
    BY <1>2, <1>3 DEF LockMoves, Clients
  <1>5. /\ lock' \in Seq(Clients) /\ Distinct(lock')
        /\ \A d \in Clients \ {"main"} : d \in Elements(lock') <=> d \in Elements(lock)
        /\ \A d \in Clients \ {"main"} : Holds(d) => lock' # <<>> /\ Head(lock') = d
        /\ Holds("main") /\ lock' = Tail(lock) => "main" \notin Elements(lock')
    BY <1>4, LockMoved DEF LockInv
  <1>6. "main" \in Elements(lock') => main' = "closing"
    BY <1>2, <1>3, <1>5
  <1> QED
    BY <1>1, <1>5, <1>6 DEF LockInv, Holds, Clients

LEMMA LockSync == ASSUME LockInv, Sync PROVE LockInv'
  <1> DEFINE Places == {"pausing", "updating", "resuming"} \cup Holding
  <1>1. UNCHANGED <<monitor, main>>
    BY DEF Sync, CallPause, Pause, PauseEnds, CopyWeights, UpdateVersion, ResetStaleness, EndUpdate,
       CallResume, Resume, SyncAt, restVars
  <1>2. processor \in Asking => processor' = processor
    BY DEF Sync, CallPause, Pause, PauseEnds, CopyWeights, UpdateVersion, ResetStaleness, EndUpdate,
       CallResume, Resume, Notify, Asking, Reaping
  <1>3. \/ sync \in {"idle", "copying", "updated"} /\ lock' = Append(lock, "sync") /\ sync' \in Places \ Holding
        \/ Holds("sync") /\ lock' = lock /\ sync \in Places /\ sync' \in Holding
        \/ Holds("sync") /\ lock' = Tail(lock) /\ sync' \notin Holding
    BY DEF Sync, CallPause, Pause, PauseEnds, CopyWeights, UpdateVersion, ResetStaleness, EndUpdate,
       CallResume, Resume, SyncAt, Acquire, Release, Holding, LockInv
  <1>4. sync \notin Places => "sync" \notin Elements(lock)
    BY DEF LockInv
  <1>5. LockMoves("sync") /\ "sync" \in Clients
    BY <1>3, <1>4 DEF LockMoves, Clients, Holding
  <1>6. /\ lock' \in Seq(Clients) /\ Distinct(lock')
        /\ \A d \in Clients \ {"sync"} : d \in Elements(lock') <=> d \in Elements(lock)
        /\ Holds("sync") /\ lock' = Tail(lock) => "sync" \notin Elements(lock')
    BY <1>5, LockMoved DEF LockInv
  <1>7. "sync" \in Elements(lock') => sync' \in Places
    BY <1>3, <1>4, <1>6
  <1>8. sync' \in Holding => Holds("sync")'
    BY <1>3 DEF Holds
  <1> QED
    BY <1>1, <1>2, <1>6, <1>7, <1>8 DEF LockInv, Clients, Asking

LEMMA LockNext == StreamInv /\ LockInv /\ [Next]_vars => LockInv'
  <1> SUFFICES ASSUME StreamInv, LockInv, [Next]_vars PROVE LockInv'
    OBVIOUS
  <1>1. ASSUME UNCHANGED <<lock, processor, monitor, main, sync>> PROVE LockInv'
    BY <1>1 DEF LockInv, Holds
  <1>2. CASE Feed \/ Consume \/ PutSample \/ Trainer
    BY <1>1, <1>2 DEF Feed, Consume, PutSample, Trainer, GetSample, Train, Leave, Validated, procVars,
       restVars, syncVars
  <1>3. ASSUME NEW s \in Samples, Finish(s) \/ Interrupt(s) \/ Fail(s) PROVE LockInv'
    BY <1>1, <1>3 DEF Finish, Interrupt, Fail, EndTask, procVars, restVars, syncVars
  <1>4. CASE UNCHANGED vars
    BY <1>1, <1>4 DEF vars, procVars, restVars, syncVars
  <1> QED
    BY <1>2, <1>3, <1>4, LockProcessor, LockMonitor, LockMain, LockSync DEF Next

\* What the samples of a batch are.
LEMMA BatchSamples ==
    ASSUME NEW q \in Seq(Messages) PROVE {q[i].sample : i \in 1..Len(q)} \subseteq Samples
  <1>1. \A i \in 1..Len(q) : q[i] \in Messages
    OBVIOUS
  <1>2. \A m \in Messages : m.sample \in Samples
    BY DEF Messages
  <1> QED
    BY <1>1, <1>2

LEMMA TrainerSteps == ASSUME VersionInv, TrainerInv, Trainer PROVE TrainerInv'
  <1>1. /\ required_samples \in Nat \ {0} /\ trigger_parameter_sync_step \in Nat \ {0}
        /\ Len(batch) \in Nat /\ sync' = sync /\ local_trigger_step \in Nat
    BY AsyncAssumption DEF TrainerInv, Trainer, GetSample, Train, Leave, Validated, syncVars
  <1>2. CASE GetSample
    <2>1. /\ trainer = "collecting" /\ UNCHANGED <<local_trigger_step, trained>>
          /\ Head(queue) \in Queued
      BY <1>2, Ends DEF GetSample, VersionInv
    <2>2. CASE Head(queue) = EndOfStream
      BY <1>1, <1>2, <2>1, <2>2 DEF GetSample, TrainerInv, Copying, Finishing
    <2>3. CASE Head(queue) # EndOfStream
      <3>1. Head(queue) \in Messages
        BY <2>1, <2>3 DEF Queued
      <3>2. /\ batch' = Append(batch, Head(queue)) /\ batch' \in Seq(Messages)
            /\ Len(batch') = Len(batch) + 1
            /\ trainer' = IF Len(batch) + 1 < required_samples THEN "collecting" ELSE "training"
        BY <1>2, <2>3, <3>1, Ends DEF GetSample, TrainerInv
      <3> QED
        BY <1>1, <2>1, <3>2 DEF TrainerInv
    <2> QED
      BY <2>2, <2>3
  <1>3. CASE Train
    <2>1. {batch[i].sample : i \in 1..Len(batch)} \subseteq Samples
      BY BatchSamples DEF TrainerInv
    <2>2. batch' = <<>> /\ batch' \in Seq(Messages) /\ Len(batch') = 0
      BY <1>3, EmptySeq DEF Train
    <2> QED
      BY <1>1, <1>3, <2>1, <2>2 DEF Train, TrainerInv
  <1>4. CASE Leave
    BY <1>1, <1>4 DEF Leave, TrainerInv
  <1>5. CASE Validated
    BY <1>1, <1>5 DEF Validated, TrainerInv, trainVars
  <1> QED
    BY <1>2, <1>3, <1>4, <1>5 DEF Trainer

LEMMA TrainerNext == VersionInv /\ TrainerInv /\ [Next]_vars => TrainerInv'
  <1> SUFFICES ASSUME VersionInv, TrainerInv, [Next]_vars PROVE TrainerInv'
    OBVIOUS
  <1>1. ASSUME UNCHANGED <<trainVars, sync>> PROVE TrainerInv'
    BY <1>1 DEF trainVars, TrainerInv
  <1>2. CASE Feed \/ Processor \/ Consume \/ PutSample \/ Monitor \/ Main
    BY <1>1, <1>2 DEF Feed, Processor, PauseSelf, TakeInterrupted, AwaitPending, TakePending, Reap,
       NothingToReap, Idle, Park, Wake, Submit, Consume, PutSample, Monitor, MonitorChecks,
       MonitorWakes, MonitorResumes, Main, AwaitFeed, AwaitProcessor, JoinResults, PutEndOfStream,
       StopRunning, MainAt, syncVars
  <1>3. CASE Sync
    <2>1. UNCHANGED <<batch, local_trigger_step, trained>>
      BY <1>3 DEF Sync, SyncAt, CallPause, Pause, PauseEnds, CopyWeights, UpdateVersion,
         ResetStaleness, EndUpdate, CallResume, Resume
    <2>2. CASE CallPause
      BY <2>1, <2>2 DEF CallPause, SyncAt, TrainerInv, Copying, Finishing
    <2>3. CASE CopyWeights
      BY <2>1, <2>3, AsyncAssumption, EmptySeq DEF CopyWeights, SyncAt, TrainerInv, Copying, Finishing
    <2>4. CASE Pause \/ PauseEnds \/ UpdateVersion \/ ResetStaleness \/ EndUpdate \/ CallResume \/ Resume
      BY <2>1, <2>4 DEF SyncAt, Pause, PauseEnds, UpdateVersion, ResetStaleness, EndUpdate, CallResume,
         Resume, TrainerInv, Copying, Finishing
    <2> QED
      BY <1>3, <2>2, <2>3, <2>4 DEF Sync
  <1>4. ASSUME NEW s \in Samples, Finish(s) \/ Interrupt(s) \/ Fail(s) PROVE TrainerInv'
    BY <1>1, <1>4 DEF Finish, Interrupt, Fail, EndTask, syncVars
  <1>5. CASE UNCHANGED vars
    BY <1>1, <1>5 DEF vars, syncVars
  <1> QED
    BY <1>2, <1>3, <1>4, <1>5, TrainerSteps DEF Next

\* Everything the recount of a sync adds up is a number.
LEMMA Counted ==
    ASSUME StreamInv, VersionInv
    PROVE  /\ ActiveTasks \in Nat /\ Cardinality(running) \in Nat /\ Len(cancel_queue) \in Nat
           /\ Len(result_queue) \in Nat /\ Len(queue) \in Nat
  <1>1. Cardinality(running) \in Nat
    BY RunningFinite DEF StreamInv
  <1> QED
    BY <1>1 DEF StreamInv, VersionInv, ActiveTasks

LEMMA FlagsNext == StreamInv /\ VersionInv /\ FlagsInv /\ [Next]_vars => FlagsInv'
  <1> SUFFICES ASSUME StreamInv, VersionInv, FlagsInv, [Next]_vars PROVE FlagsInv'
    OBVIOUS
  <1> USE DEF pauseVars, countVars, restVars, taskVars, procVars, syncVars
  <1>1. CASE Feed \/ Consume \/ PutSample \/ Trainer
    BY <1>1 DEF Feed, Consume, PutSample, Trainer, GetSample, Train, Leave, Validated, FlagsInv
  <1>2. CASE Processor
    <2>1. UNCHANGED <<monitor_loop_trigger, server_paused, failed, monitor, main, in_flight>>
      BY <1>2 DEF Processor, PauseSelf, TakeInterrupted, AwaitPending, TakePending, Reap,
         NothingToReap, Idle, Park, Wake, Submit
    <2>2. staleness_samples' \in {staleness_samples, staleness_samples + 1}
      BY <1>2 DEF Processor, PauseSelf, TakeInterrupted, AwaitPending, TakePending, Reap,
         NothingToReap, Idle, Park, Wake, Submit
    <2>3. /\ done_tasks_bound' \in {TRUE, done_tasks_bound} /\ raising' \in {FALSE, raising}
          /\ paused' \in {TRUE, paused}
      BY <1>2 DEF Processor, PauseSelf, SetPaused, TakeInterrupted, AwaitPending, TakePending, Reap,
         NothingToReap, Idle, Park, Wake, Submit
    <2>4. busy' \in BOOLEAN
      BY <1>2 DEF Processor, PauseSelf, SetPaused, TakeInterrupted, AwaitPending, TakePending, Reap,
         NothingToReap, LeaveReaping, Idle, Park, Wake, Submit, Ask, Stop, Continue
    <2>5. staleness_samples' \in Nat
      BY <2>2 DEF FlagsInv
    <2>6. done_tasks_bound' \in BOOLEAN /\ raising' \in BOOLEAN /\ paused' \in BOOLEAN
      BY <2>3 DEF FlagsInv
    <2>7. /\ monitor_loop_trigger' \in BOOLEAN /\ server_paused' \in BOOLEAN
          /\ failed' \subseteq Samples /\ in_flight' \in Nat
      BY <2>1 DEF FlagsInv
    <2>8. monitor' = monitor /\ main' = main
      BY <2>1
    <2>9. /\ monitor' \in {"sleeping", "resuming", "checking", "stopped"}
          /\ main' \in {"feeding", "processing", "joining", "ending", "closing", "stopped"}
      BY <2>8 DEF FlagsInv
    <2> QED
      BY <2>4, <2>5, <2>6, <2>7, <2>9 DEF FlagsInv
  <1>3. CASE Monitor
    <2>1. /\ UNCHANGED <<done_tasks_bound, busy, raising, monitor_loop_trigger, server_paused>>
          /\ UNCHANGED <<staleness_samples, in_flight, failed, main>>
      BY <1>3 DEF Monitor, MonitorChecks, MonitorWakes, MonitorResumes, Unpause, taskVars, countVars,
         syncVars
    <2>2. /\ paused' \in {FALSE, paused}
          /\ monitor' \in {"sleeping", "resuming", "checking", "stopped"}
      BY <1>3 DEF Monitor, MonitorChecks, MonitorWakes, MonitorResumes, Unpause, MonitorLoops, LoopTop,
         pauseVars
    <2> QED
      BY <2>1, <2>2 DEF FlagsInv
  <1>4. CASE Main
    BY <1>4 DEF Main, AwaitFeed, AwaitProcessor, JoinResults, PutEndOfStream, StopRunning, MainAt,
       FlagsInv
  <1>5. CASE Sync
    <2>1. UNCHANGED <<done_tasks_bound, busy, failed, monitor, main>>
      BY <1>5 DEF Sync, SyncAt, CallPause, Pause, PauseEnds, CopyWeights, UpdateVersion,
         ResetStaleness, EndUpdate, CallResume, Resume
    <2>2. /\ raising' \in {FALSE, raising} /\ paused' \in {TRUE, FALSE, paused}
          /\ monitor_loop_trigger' \in {TRUE, FALSE, monitor_loop_trigger}
          /\ server_paused' \in {partial_rollout, FALSE, server_paused}
      BY <1>5 DEF Sync, SyncAt, CallPause, Pause, PauseEnds, CopyWeights, UpdateVersion,
         ResetStaleness, EndUpdate, CallResume, Resume
    <2>3. /\ staleness_samples' \in {in_flight + Len(queue), staleness_samples}
          /\ in_flight' \in {ActiveTasks + Len(result_queue) + Len(cancel_queue), 0, in_flight}
      BY <1>5 DEF Sync, SyncAt, CallPause, Pause, PauseEnds, CopyWeights, UpdateVersion,
         ResetStaleness, EndUpdate, CallResume, Resume
    <2>4. staleness_samples' \in Nat /\ in_flight' \in Nat
      BY <2>3, Counted DEF FlagsInv
    <2>5. raising' \in BOOLEAN /\ paused' \in BOOLEAN /\ monitor_loop_trigger' \in BOOLEAN
      BY <2>2 DEF FlagsInv
    <2>6. server_paused' \in BOOLEAN
      BY <2>2, AsyncAssumption DEF FlagsInv
    <2>7. done_tasks_bound' \in BOOLEAN /\ busy' \in BOOLEAN /\ failed' \subseteq Samples
      BY <2>1 DEF FlagsInv
    <2>8. monitor' = monitor /\ main' = main
      BY <2>1
    <2>9. /\ monitor' \in {"sleeping", "resuming", "checking", "stopped"}
          /\ main' \in {"feeding", "processing", "joining", "ending", "closing", "stopped"}
      BY <2>8 DEF FlagsInv
    <2> QED
      BY <2>4, <2>5, <2>6, <2>7, <2>9 DEF FlagsInv
  <1>6. ASSUME NEW s \in Samples, Finish(s) \/ Interrupt(s) \/ Fail(s) PROVE FlagsInv'
    <2>1. /\ UNCHANGED <<done_tasks_bound, busy, paused, monitor_loop_trigger, server_paused>>
          /\ UNCHANGED <<staleness_samples, monitor, main, in_flight>>
          /\ raising' \in {TRUE, raising} /\ failed' \in {failed, failed \cup {s}}
      BY <1>6 DEF Finish, Interrupt, Fail, EndTask, procVars, pauseVars, countVars, restVars, syncVars
    <2>2. raising' \in BOOLEAN /\ failed' \subseteq Samples
      BY <2>1 DEF FlagsInv
    <2>3. /\ (done_tasks_bound \in BOOLEAN /\ busy \in BOOLEAN)'
          /\ (paused \in BOOLEAN /\ monitor_loop_trigger \in BOOLEAN /\ server_paused \in BOOLEAN)'
          /\ (staleness_samples \in Nat /\ in_flight \in Nat)'
      BY <2>1 DEF FlagsInv
    <2>4. /\ (monitor \in {"sleeping", "resuming", "checking", "stopped"})'
          /\ (main \in {"feeding", "processing", "joining", "ending", "closing", "stopped"})'
      BY <2>1 DEF FlagsInv
    <2> QED
      BY <2>2, <2>3, <2>4 DEF FlagsInv
  <1>7. CASE UNCHANGED vars
    BY <1>7 DEF vars, FlagsInv
  <1> QED
    BY <1>1, <1>2, <1>3, <1>4, <1>5, <1>6, <1>7 DEF Next

THEOREM TypeInvariant == Spec => []TypeInv
  <1>1. Init => LockInv /\ TrainerInv /\ FlagsInv
    <2> SUFFICES ASSUME Init PROVE LockInv /\ TrainerInv /\ FlagsInv
      OBVIOUS
    <2>1. <<>> \in Seq(Clients) /\ <<>> \in Seq(Messages) /\ Len(<<>>) = 0
      BY EmptySeq
    <2>2. Elements(<<>>) = {} /\ Distinct(<<>>)
      BY <2>1 DEF Elements, Distinct
    <2>3. LockInv
      BY <2>1, <2>2 DEF Init, LockInv, Holding
    <2>4. TrainerInv
      BY <2>1, AsyncAssumption DEF Init, TrainerInv, Copying, Finishing
    <2> QED
      BY <2>3, <2>4 DEF Init, FlagsInv
  <1>2. StreamInv /\ VersionInv /\ LockInv /\ TrainerInv /\ FlagsInv /\ [Next]_vars
          => (LockInv /\ TrainerInv /\ FlagsInv)'
    BY LockNext, TrainerNext, FlagsNext
  <1> QED
    BY <1>1, <1>2, StreamInvariant, VersionInvariant, PTL DEF Spec, TypeInv

\* Every variable keeps its type, a training step never gets more samples than it asked
\* for, and whoever stands in the queue of the lock stands where the code awaits it.
THEOREM TypeCorrect == Spec => []TypeOK
  <1>1. ASSUME TypeInv PROVE TypeOK
    <2> USE <1>1 DEF TypeInv
    <2>1. \A S : \A q \in Seq(S) : IsSeq(q, S)
      BY DEF IsSeq
    <2>2. /\ IsSeq(cancel_queue, Samples) /\ IsSeq(result_queue, Messages) /\ IsSeq(batch, Messages)
          /\ IsSeq(queue, Messages \cup {EndOfStream})
      BY <2>1 DEF StreamInv, VersionInv, TrainerInv, Queued
    <2>3. \A i \in 1..Len(lock) :
          /\ lock[i] = "processor" =>
                processor \in {"pausing", "idling", "submitting"} \cup Reaping
          /\ lock[i] = "monitor" => monitor \in {"resuming", "checking"}
          /\ lock[i] = "main" => main = "closing"
          /\ lock[i] = "sync" => sync \in {"pausing", "gathering", "updating", "sizing", "reporting",
                                           "resuming"}
          /\ \A j \in 1..Len(lock) : lock[i] = lock[j] => i = j
      BY DEF LockInv, Elements, Distinct, Holding
    <2>4. /\ {done_tasks_bound, busy, raising, paused, monitor_loop_trigger, server_paused} \subseteq BOOLEAN
          /\ {staleness_samples, rollout_version, current_version, current_param_version, in_flight}
                \subseteq Nat
      BY DEF FlagsInv, VersionInv
    <2> QED
      BY <2>2, <2>3, <2>4 DEF TypeOK, StreamInv, VersionInv, TrainerInv, FlagsInv, Copying, Finishing,
         Queued
  <1> QED
    BY <1>1, TypeInvariant, PTL

-----------------------------------------------------------------------------
(* Staleness.  A recount sees the running, interrupted and finished samples       *)
(* before it asks for the length of the message queue: what it misses is the      *)
(* sample in the processor's hand and the one on its way to the queue.  The       *)
(* processor takes a sample while the count is below the limit, or long after,    *)
(* when it has waited for one.                                                    *)

Ahead(q, i) == Cardinality({j \in 1..i : q[j] # EndOfStream})

LEMMA AheadType ==
    ASSUME NEW q, NEW n \in Nat
    PROVE  /\ IsFiniteSet({j \in 1..n : q[j] # EndOfStream})
           /\ Ahead(q, n) \in Nat /\ Ahead(q, n) <= n
  <1>1. IsFiniteSet(1..n) /\ Cardinality(1..n) = n
    BY FS_Interval
  <1>2. {j \in 1..n : q[j] # EndOfStream} \subseteq 1..n
    OBVIOUS
  <1> QED
    BY <1>1, <1>2, FS_Subset, FS_CardinalityType DEF Ahead

LEMMA CountIsAhead == \A q : Count(q) = Ahead(q, Len(q))
  BY DEF Count, Ahead

\* One more message at the end.
LEMMA AheadAppend ==
    ASSUME NEW q \in Seq(Queued), NEW m \in Queued
    PROVE  /\ \A i \in 1..Len(q) : Ahead(Append(q, m), i) = Ahead(q, i)
           /\ Count(Append(q, m)) = Count(q) + OneIf(m # EndOfStream)
  <1> DEFINE a == Append(q, m)
             A(i) == {j \in 1..i : a[j] # EndOfStream}
             B(i) == {j \in 1..i : q[j] # EndOfStream}
  <1>1. /\ Len(q) \in Nat /\ Len(a) = Len(q) + 1 /\ a[Len(q) + 1] = m
        /\ \A i \in 1..Len(q) : a[i] = q[i]
    BY Ends
  <1> HIDE DEF a
  <1>2. \A i \in 1..Len(q) : A(i) = B(i)
    BY <1>1
  <1>3. IsFiniteSet(B(Len(q))) /\ Cardinality(B(Len(q))) \in Nat
    BY <1>1, AheadType DEF Ahead
  <1>4. CASE m = EndOfStream
    <2>1. A(Len(q) + 1) = B(Len(q))
      BY <1>1, <1>4
    <2>2. OneIf(m # EndOfStream) = 0
      BY <1>4 DEF OneIf
    <2>3. Cardinality(A(Len(a))) = Cardinality(B(Len(q))) + OneIf(m # EndOfStream)
      <3> HIDE DEF A, B
      <3> QED
        BY <1>1, <1>3, <2>1, <2>2
    <2> QED
      BY <1>2, <2>3 DEF Ahead, Count, a
  <1>5. CASE m # EndOfStream
    <2>1. A(Len(q) + 1) = B(Len(q)) \cup {Len(q) + 1} /\ Len(q) + 1 \notin B(Len(q))
      BY <1>1, <1>5
    <2>2. Cardinality(A(Len(q) + 1)) = Cardinality(B(Len(q))) + 1
      BY <1>3, <2>1, FS_AddElement
    <2>3. OneIf(m # EndOfStream) = 1
      BY <1>5 DEF OneIf
    <2>4. Cardinality(A(Len(a))) = Cardinality(B(Len(q))) + OneIf(m # EndOfStream)
      BY <1>1, <2>2, <2>3
    <2> QED
      BY <1>2, <2>4 DEF Ahead, Count, a
  <1> QED
    BY <1>4, <1>5

\* The first message is gone: whatever was behind it is one sample nearer to the front,
\* or as near as before when that was no sample.
LEMMA AheadTail ==
    ASSUME NEW q \in Seq(Queued), q # <<>>
    PROVE  /\ \A i \in 0..(Len(q) - 1) :
                 Ahead(Tail(q), i) = Ahead(q, i + 1) - OneIf(Head(q) # EndOfStream)
           /\ Count(Tail(q)) = Count(q) - OneIf(Head(q) # EndOfStream)
  <1> DEFINE t == Tail(q)
  <1>1. /\ Len(q) \in Nat /\ Len(q) >= 1 /\ Len(t) = Len(q) - 1 /\ Head(q) = q[1]
        /\ \A i \in 1..(Len(q) - 1) : t[i] = q[i + 1]
    BY Ends
  <1> HIDE DEF t
  <1>2. ASSUME NEW i \in 0..(Len(q) - 1)
        PROVE  Ahead(t, i) = Ahead(q, i + 1) - OneIf(q[1] # EndOfStream)
    <2> DEFINE A == {j \in 1..i : t[j] # EndOfStream}
               B == {j \in 1..(i + 1) : q[j] # EndOfStream}
               C == B \ {1}
               f == [j \in A |-> j + 1]
    <2>1. i \in Nat /\ i + 1 \in Nat
      BY <1>1
    <2> HIDE <1>2
    <2>0. IsFiniteSet(A) /\ IsFiniteSet(B) /\ Cardinality(B) \in Nat
      <3>1. \A p : \A n \in Nat :
               IsFiniteSet({j \in 1..n : p[j] # EndOfStream}) /\ Ahead(p, n) \in Nat
        BY AheadType
      <3>2. IsFiniteSet(A) /\ IsFiniteSet(B) /\ Ahead(q, i + 1) \in Nat
        BY <2>1, <3>1
      <3> QED
        BY <3>2 DEF Ahead
    <2>2. \A j \in A : j \in Nat /\ j + 1 \in C
      BY <1>1
    <2>3. \A j \in C : j - 1 \in A /\ (j - 1) + 1 = j
      BY <1>1
    <2> HIDE DEF A, C
    <2>5. \A j \in C : f[j - 1] = j /\ j - 1 \in A
      BY <2>3
    <2>4. f \in [A -> C] /\ (\A j, k \in A : f[j] = f[k] => j = k)
      BY <2>2
    <2>10. \A j \in C : \E k \in A : f[k] = j
      BY <2>5
    <2> HIDE DEF f
    <2>11. IsInjective(f)
      BY <2>4 DEF IsInjective
    <2>6. f \in Bijection(A, C)
      BY <2>4, <2>10, <2>11 DEF Bijection, Injection, Surjection
    <2>7. Cardinality(C) = Cardinality(A)
      <3>1. ExistsBijection(A, C)
        BY <2>6 DEF ExistsBijection
      <3> QED
        BY <2>0, <3>1, FS_Bijection
    <2>8. Cardinality(C) = IF 1 \in B THEN Cardinality(B) - 1 ELSE Cardinality(B)
      BY <2>0, FS_RemoveElement DEF C
    <2>9. Cardinality(A) = Cardinality(B) - OneIf(q[1] # EndOfStream)
      <3>1. 1 \in B <=> q[1] # EndOfStream
        BY <2>1, <1>1
      <3>2. CASE 1 \in B
        <4>1. OneIf(q[1] # EndOfStream) = 1
          BY <3>1, <3>2 DEF OneIf
        <4> QED
          BY <2>7, <2>8, <3>2, <4>1
      <3>3. CASE 1 \notin B
        <4>1. OneIf(q[1] # EndOfStream) = 0
          BY <3>1, <3>3 DEF OneIf
        <4> HIDE DEF B
        <4> QED
          BY <2>0, <2>7, <2>8, <3>3, <4>1
      <3> QED
        BY <3>2, <3>3
    <2> QED
      BY <2>9 DEF Ahead, A
  <1>3. Count(t) = Ahead(t, Len(q) - 1) /\ Count(q) = Ahead(q, (Len(q) - 1) + 1)
    BY <1>1 DEF Count, Ahead
  <1>4. Count(t) = Count(q) - OneIf(q[1] # EndOfStream)
    BY <1>1, <1>2, <1>3
  <1> QED
    BY <1>1, <1>2, <1>4 DEF t

\* Put adds at most its own message.
LEMMA CountPut ==
    ASSUME queue \in Seq(Queued), Len(queue) <= max_queue_size, NEW m \in Queued, Put(m)
    PROVE  Count(queue') \in Nat /\ Count(queue') <= Count(queue) + OneIf(m # EndOfStream)
  <1>0. Len(queue) \in Nat /\ max_queue_size \in Nat \ {0}
    BY Limits
  <1>1. Count(queue) \in Nat
    BY <1>0, CountIsAhead, AheadType
  <1>4. \A b \in BOOLEAN : OneIf(b) \in {0, 1}
    BY DEF OneIf
  <1>2. CASE Len(queue) >= max_queue_size
    <2>1. queue # <<>>
      BY <1>0, <1>2, EmptySeq
    <2>2. /\ Tail(queue) \in Seq(Queued) /\ Len(Tail(queue)) \in Nat
          /\ Count(Tail(queue)) = Count(queue) - OneIf(Head(queue) # EndOfStream)
      BY <2>1, Ends, AheadTail
    <2>5. Count(Tail(queue)) \in Nat
      BY <2>2, CountIsAhead, AheadType
    <2>6. OneIf(Head(queue) # EndOfStream) \in {0, 1} /\ OneIf(m # EndOfStream) \in {0, 1}
      BY <1>4
    <2>3. Count(Append(Tail(queue), m)) = Count(Tail(queue)) + OneIf(m # EndOfStream)
      BY <2>2, AheadAppend
    <2>4. queue' = Append(Tail(queue), m)
      BY <1>0, <1>2 DEF Put
    <2> QED
      BY <1>1, <2>2, <2>3, <2>4, <2>5, <2>6
  <1>3. CASE Len(queue) < max_queue_size
    <2>1. Count(Append(queue, m)) = Count(queue) + OneIf(m # EndOfStream) /\ queue' = Append(queue, m)
      BY <1>0, <1>3, AheadAppend DEF Put
    <2>2. OneIf(m # EndOfStream) \in {0, 1}
      BY <1>4
    <2> QED
      BY <1>1, <2>1, <2>2
  <1> QED
    BY <1>0, <1>2, <1>3

LEMMA OneIfType ==
    /\ \A b \in BOOLEAN : OneIf(b) \in {0, 1}
    /\ OneIf(TRUE) = 1 /\ OneIf(FALSE) = 0
  BY DEF OneIf

\* Samples fetched when the version after this one is complete.
Until(version) == (version + 1) * SamplesOfVersion

LEMMA UntilGrows ==
    /\ SamplesOfVersion \in Nat \ {0}
    /\ \A v \in Nat : Until(v) \in Nat
    /\ \A u, v \in Nat : u <= v => Until(u) <= Until(v)
  <1>1. /\ required_samples \in Nat /\ required_samples >= 1
        /\ trigger_parameter_sync_step \in Nat /\ trigger_parameter_sync_step >= 1
    BY AsyncAssumption
  <1>2. SamplesOfVersion \in Nat /\ SamplesOfVersion >= 1
    BY <1>1 DEF SamplesOfVersion
  <1>3. \A u, v, b \in Nat : u <= v => (u + 1) * b <= (v + 1) * b
    OBVIOUS
  <1> QED
    BY <1>2, <1>3 DEF Until

\* While the trainer fetches samples, what the versions have to do with each other: the
\* trainer is ahead of the synchronizer while it waits for it, and the rollouter behind
\* from the call of pause to the answer of update_param_version.
Fetching == {"collecting", "training", "waiting", "syncing"}

VersionsMeet ==
    /\ sync \in Copying \cup {"updating"} => current_version = rollout_version + 1
    /\ sync \notin Copying \cup {"updating"} => current_version = rollout_version
    /\ trainer \in {"collecting", "training", "syncing", "leaving", "syncing_last"} =>
          current_param_version = current_version
    /\ trainer \in {"waiting", "waiting_last"} => current_param_version = current_version + 1

\* Three limits on what is outstanding: the processor's count and two more; the most the
\* count may be and two more; and one less when the processor takes the next sample
\* without another look at the count.
Limited(n, count, place) ==
    /\ n <= count + 2
    /\ n <= max_required_samples + 2
    /\ place = "getting" => n <= max_required_samples + 1

\* Samples that a version is ahead of those that make up the one after it.
Gap == Fetched + Outstanding - Until(rollout_version)

LeadInv ==
    /\ Limited(Outstanding, staleness_samples, processor)
    /\ trainer \in Fetching => Limited(Gap, staleness_samples, processor)
    /\ sync = "sizing" => Cardinality(running) + Len(cancel_queue) + Len(result_queue) <= in_flight

PartTypes ==
    /\ Cardinality(running) \in Nat /\ Len(cancel_queue) \in Nat /\ Len(result_queue) \in Nat
    /\ Count(queue) \in Nat /\ Len(queue) \in Nat /\ Count(queue) <= Len(queue)
    /\ Outstanding \in Nat /\ Fetched \in Nat /\ Gap \in Int
    /\ max_required_samples \in Nat /\ staleness_samples \in Nat
    /\ rollout_version \in Nat /\ Until(rollout_version) \in Nat

LEMMA Parts == TypeInv => PartTypes
  <1> SUFFICES ASSUME TypeInv PROVE PartTypes
    OBVIOUS
  <1> USE DEF TypeInv
  <1>1. /\ Cardinality(running) \in Nat /\ Len(cancel_queue) \in Nat /\ Len(result_queue) \in Nat
        /\ Len(queue) \in Nat
    BY Counted
  <1>2. Count(queue) \in Nat /\ Count(queue) <= Len(queue)
    BY <1>1, CountIsAhead, AheadType
  <1>3. \A b \in BOOLEAN : OneIf(b) \in Nat
    BY DEF OneIf
  <1>4. OneIf(rollout_sample # NoSample) \in Nat /\ OneIf(putting # EndOfStream) \in Nat
    BY <1>3
  <1>5. Outstanding \in Nat
    BY <1>1, <1>2, <1>4 DEF Outstanding
  <1>6. Fetched \in Nat
    <2>1. /\ current_param_version \in Nat /\ local_trigger_step - 1 \in Nat /\ Len(batch) \in Nat
          /\ required_samples \in Nat /\ SamplesOfVersion \in Nat
      BY AsyncAssumption, UntilGrows DEF VersionInv, TrainerInv
    <2>2. \A a, b \in Nat : a * b \in Nat
      OBVIOUS
    <2> QED
      BY <2>1, <2>2 DEF Fetched
  <1>7. /\ max_required_samples \in Nat /\ staleness_samples \in Nat /\ rollout_version \in Nat
    BY Limits DEF VersionInv, FlagsInv
  <1>8. Until(rollout_version) \in Nat
    BY <1>7, UntilGrows
  <1>9. Gap \in Int
    BY <1>5, <1>6, <1>8 DEF Gap
  <1> QED
    BY <1>1, <1>2, <1>5, <1>6, <1>7, <1>8, <1>9 DEF PartTypes

LEMMA TypeNext == TypeInv /\ [Next]_vars => TypeInv'
  BY StreamNext, VersionNext, LockNext, TrainerNext, FlagsNext DEF TypeInv

LEMMA PartsNext == TypeInv /\ [Next]_vars => TypeInv' /\ PartTypes'
  BY Parts, TypeNext, PTL

LEMMA LimitedLess ==
    ASSUME NEW c \in Nat, NEW d \in Nat, c <= d, NEW p, NEW q, q = "getting" => p = "getting",
           NEW m \in Int, NEW n \in Int, m <= n, Limited(n, c, p)
    PROVE  Limited(m, d, q)
  BY Limits DEF Limited

\* A step that puts nothing outstanding, and takes nothing off the count.
LEMMA LeadKept ==
    ASSUME TypeInv, LeadInv, PartTypes', Outstanding' <= Outstanding,
           trainer' \in Fetching => trainer \in Fetching /\ Gap' <= Gap,
           rollout_version <= rollout_version', staleness_samples <= staleness_samples',
           processor' = "getting" => processor = "getting",
           sync' = "sizing" =>
               Cardinality(running') + Len(cancel_queue') + Len(result_queue') <= in_flight'
    PROVE  LeadInv'
  <1>1. PartTypes
    BY Parts
  <1>6. /\ Outstanding \in Nat /\ Outstanding' \in Nat /\ Gap \in Int /\ Gap' \in Int
        /\ staleness_samples \in Nat /\ staleness_samples' \in Nat
    BY <1>1 DEF PartTypes
  <1>4. Limited(Outstanding', staleness_samples', processor')
    <2>1. Limited(Outstanding, staleness_samples, processor)
      BY DEF LeadInv
    <2> QED
      BY <1>6, <2>1, LimitedLess
  <1>5. ASSUME trainer' \in Fetching
        PROVE  Limited(Gap', staleness_samples', processor')
    <2>1. trainer \in Fetching /\ Gap' <= Gap
      BY <1>5
    <2>2. Limited(Gap, staleness_samples, processor)
      BY <2>1 DEF LeadInv
    <2> QED
      BY <1>6, <2>1, <2>2, LimitedLess
  <1> QED
    BY <1>4, <1>5 DEF LeadInv

\* The gap does not grow when nothing gets outstanding or fetched and the version does
\* not fall.
LEMMA GapLess ==
    ASSUME PartTypes, PartTypes', Fetched' = Fetched, Outstanding' <= Outstanding,
           rollout_version <= rollout_version'
    PROVE  Gap' <= Gap
  <1>1. \A f, m, n, u, v \in Nat : n <= m /\ u <= v => f + n - v <= f + m - u
    OBVIOUS
  <1>2. /\ Fetched \in Nat /\ Outstanding \in Nat /\ Outstanding' \in Nat
        /\ Until(rollout_version) \in Nat /\ Until(rollout_version') \in Nat
        /\ Until(rollout_version) <= Until(rollout_version')
    BY UntilGrows DEF PartTypes
  <1> QED
    BY <1>1, <1>2 DEF Gap

\* A step that leaves the versions, the count and what is fetched.
LEMMA LeadLess ==
    ASSUME TypeInv, LeadInv, PartTypes', Outstanding' <= Outstanding, Fetched' = Fetched,
           UNCHANGED <<trainer, rollout_version, staleness_samples, sync, in_flight>>,
           processor' = "getting" => processor = "getting",
           sync = "sizing" => Cardinality(running') + Len(cancel_queue') + Len(result_queue')
                                 <= Cardinality(running) + Len(cancel_queue) + Len(result_queue)
    PROVE  LeadInv'
  <1>1. PartTypes
    BY Parts
  <1>2. rollout_version <= rollout_version' /\ staleness_samples <= staleness_samples'
    BY <1>1 DEF PartTypes
  <1>3. Gap' <= Gap
    BY <1>1, <1>2, GapLess
  <1>4. ASSUME sync' = "sizing"
        PROVE  Cardinality(running') + Len(cancel_queue') + Len(result_queue') <= in_flight'
    <2>1. \A m, n \in Nat, i \in Int : n <= m /\ m <= i => n <= i
      OBVIOUS
    <2>2. /\ \A m, n, k \in Nat : m + n + k \in Nat
          /\ in_flight \in Int
      BY DEF TypeInv, FlagsInv
    <2>4. /\ Cardinality(running) + Len(cancel_queue) + Len(result_queue) \in Nat
          /\ Cardinality(running') + Len(cancel_queue') + Len(result_queue') \in Nat
      BY <1>1, <2>2 DEF PartTypes
    <2>3. Cardinality(running) + Len(cancel_queue) + Len(result_queue) <= in_flight
      BY <1>4 DEF LeadInv
    <2> QED
      BY <1>4, <2>1, <2>2, <2>3, <2>4
  <1> QED
    BY <1>2, <1>3, <1>4, LeadKept

\* The terms of the sum, for a step that does not go near the message queue.
InHand   == OneIf(rollout_sample # NoSample)
OnTheWay == OneIf(putting # EndOfStream)
Ended    == Len(result_queue) + OnTheWay + Count(queue)

TermsAdd ==
    /\ InHand \in {0, 1} /\ OnTheWay \in {0, 1} /\ Ended \in Nat
    /\ Outstanding = InHand + Cardinality(running) + Len(cancel_queue) + Ended

LEMMA Terms == PartTypes => TermsAdd
  <1> SUFFICES ASSUME PartTypes PROVE TermsAdd
    OBVIOUS
  <1>1. /\ Cardinality(running) \in Nat /\ Len(cancel_queue) \in Nat /\ Len(result_queue) \in Nat
        /\ Count(queue) \in Nat
    BY DEF PartTypes
  <1>2. InHand \in {0, 1} /\ OnTheWay \in {0, 1}
    BY OneIfType DEF InHand, OnTheWay
  <1>3. Outstanding = InHand + Cardinality(running) + Len(cancel_queue) + Len(result_queue)
                      + OnTheWay + Count(queue)
    BY DEF Outstanding, InHand, OnTheWay
  <1> QED
    BY <1>1, <1>2, <1>3 DEF Ended, TermsAdd

LEMMA TermsNext == PartTypes' => TermsAdd'
  BY Terms, PTL

\* What none of the processor's steps touches.
LEMMA ProcessorKeeps ==
    ASSUME PartTypes, PartTypes', Processor
    PROVE  /\ UNCHANGED <<trainer, sync, in_flight, result_queue, rollout_version>>
           /\ Ended' = Ended /\ Fetched' = Fetched
  <1>1. /\ UNCHANGED <<result_queue, putting, queue, rollout_version, sync, in_flight>>
        /\ UNCHANGED trainVars
    BY DEF Processor, PauseSelf, TakeInterrupted, AwaitPending, TakePending, Reap, NothingToReap,
       Idle, Park, Wake, Submit, countVars, heldVars, queueVars, syncVars
  <1> QED
    BY <1>1 DEF Ended, OnTheWay, Fetched, trainVars

\* One more sample in hand, and one more in the count.
LEMMA LeadTaken ==
    ASSUME TypeInv, LeadInv, PartTypes', Processor, processor' # "getting",
           processor = "getting" \/ staleness_samples < max_required_samples,
           staleness_samples' = staleness_samples + 1,
           UNCHANGED <<running, cancel_queue>>
    PROVE  LeadInv'
  <1>1. PartTypes
    BY Parts
  <1>2. /\ UNCHANGED <<trainer, sync, in_flight, result_queue, rollout_version>>
        /\ Ended' = Ended /\ Fetched' = Fetched
    BY <1>1, ProcessorKeeps
  <1>3. Outstanding' <= Outstanding + 1
    <2>1. \A r, e \in Nat, c \in Nat, h \in {0, 1}, g \in {0, 1} : g + r + c + e <= h + r + c + e + 1
      OBVIOUS
    <2>2. /\ InHand \in {0, 1} /\ InHand' \in {0, 1} /\ Ended \in Nat
          /\ Cardinality(running) \in Nat /\ Len(cancel_queue) \in Nat
          /\ Outstanding = InHand + Cardinality(running) + Len(cancel_queue) + Ended
          /\ Outstanding' = InHand' + Cardinality(running) + Len(cancel_queue) + Ended
      <3>1. /\ InHand' \in {0, 1}
            /\ Outstanding' = InHand' + Cardinality(running') + Len(cancel_queue') + Ended'
        BY TermsNext DEF TermsAdd
      <3> QED
        BY <1>1, <1>2, <3>1, Terms DEF PartTypes, TermsAdd
    <2> QED
      BY <2>1, <2>2
  <1>4. Gap' <= Gap + 1
    <2>1. \A f, m, u \in Nat, n \in Nat : n <= m + 1 => f + n - u <= f + m - u + 1
      OBVIOUS
    <2>2. /\ Fetched \in Nat /\ Outstanding \in Nat /\ Outstanding' \in Nat
          /\ Until(rollout_version) \in Nat /\ Until(rollout_version') = Until(rollout_version)
      BY <1>1, <1>2 DEF PartTypes
    <2> QED
      BY <1>2, <1>3, <2>1, <2>2 DEF Gap
  <1>5. ASSUME NEW m \in Int, NEW n \in Int, n <= m + 1, Limited(m, staleness_samples, processor)
        PROVE  Limited(n, staleness_samples + 1, processor')
    BY <1>1, <1>5 DEF Limited, PartTypes
  <1>6. Limited(Outstanding', staleness_samples', processor')
    BY <1>1, <1>3, <1>5 DEF LeadInv, PartTypes
  <1>7. trainer \in Fetching => Limited(Gap', staleness_samples', processor')
    BY <1>1, <1>4, <1>5 DEF LeadInv, PartTypes
  <1> QED
    BY <1>2, <1>6, <1>7 DEF LeadInv

LEMMA LeadProcessor == ASSUME TypeInv, LeadInv, PartTypes', Processor PROVE LeadInv'
  <1>1. PartTypes
    BY Parts
  <1>2. /\ UNCHANGED <<trainer, sync, in_flight, result_queue, rollout_version>>
        /\ Ended' = Ended /\ Fetched' = Fetched
    BY <1>1, ProcessorKeeps
  <1>3. TermsAdd /\ TermsAdd'
    BY <1>1, Terms, TermsNext
  <1>4. ASSUME Outstanding' <= Outstanding, UNCHANGED staleness_samples,
               processor' = "getting" => processor = "getting",
               sync = "sizing" =>
                  Cardinality(running') + Len(cancel_queue') <= Cardinality(running) + Len(cancel_queue)
        PROVE  LeadInv'
    <2>1. \A r, c, s, d, q \in Nat : s + d <= r + c => s + d + q <= r + c + q
      OBVIOUS
    <2>2. sync = "sizing" => Cardinality(running') + Len(cancel_queue') + Len(result_queue')
                                <= Cardinality(running) + Len(cancel_queue) + Len(result_queue)
      BY <1>1, <1>2, <1>4, <2>1 DEF PartTypes
    <2> QED
      BY <1>2, <1>4, <2>2, LeadLess
  <1>5. CASE PauseSelf \/ Reap \/ NothingToReap \/ Idle \/ Park \/ Wake
    <2>1. UNCHANGED <<rollout_sample, running, cancel_queue, staleness_samples>>
      BY <1>5 DEF PauseSelf, Reap, NothingToReap, Idle, Park, Wake, taskVars, heldVars, countVars
    <2>2. processor' # "getting"
      BY <1>5 DEF PauseSelf, SetPaused, Reap, NothingToReap, LeaveReaping, Idle, Park, Wake, Ask, Stop,
         Continue, Reaping, Beyond
    <2>3. Outstanding' = Outstanding
      BY <1>2, <1>3, <2>1 DEF TermsAdd, InHand
    <2>4. /\ Outstanding' <= Outstanding
          /\ Cardinality(running') + Len(cancel_queue') <= Cardinality(running) + Len(cancel_queue)
      BY <1>1, <2>1, <2>3 DEF PartTypes
    <2> QED
      BY <1>4, <2>1, <2>2, <2>4
  <1>6. CASE TakeInterrupted
    <2>1. /\ cancel_queue # <<>> /\ cancel_queue' = Tail(cancel_queue)
          /\ UNCHANGED <<running, staleness_samples>> /\ processor' = Place
      BY <1>6 DEF TakeInterrupted, Ask, taskVars, countVars
    <2>2. Len(cancel_queue') = Len(cancel_queue) - 1 /\ processor' # "getting"
      BY <2>1, Ends DEF TypeInv, StreamInv, Place
    <2>3. \A r, c, e \in Nat, h, g \in {0, 1} : g + r + (c - 1) + e <= h + r + c + e /\ r + (c - 1) <= r + c
      OBVIOUS
    <2>4. /\ Outstanding' <= Outstanding
          /\ Cardinality(running') + Len(cancel_queue') <= Cardinality(running) + Len(cancel_queue)
      BY <1>1, <1>2, <1>3, <2>1, <2>2, <2>3 DEF TermsAdd, PartTypes
    <2> QED
      BY <1>4, <2>1, <2>2, <2>4
  <1>7. CASE AwaitPending
    <2>1. /\ UNCHANGED <<rollout_sample, running, cancel_queue, staleness_samples>>
          /\ staleness_samples < max_required_samples
      BY <1>1, <1>7, Limits DEF AwaitPending, AtTop, ShouldPause, PartTypes, taskVars, heldVars,
         countVars
    <2>2. Outstanding' = Outstanding /\ Gap' = Gap
      BY <1>2, <1>3, <2>1 DEF TermsAdd, InHand, Gap
    <2>3. \A n \in Int : Limited(n, staleness_samples, processor)
                         => Limited(n, staleness_samples, processor')
      BY <1>1, <2>1 DEF Limited, PartTypes
    <2>4. Limited(Outstanding, staleness_samples, processor')
      BY <1>1, <2>3 DEF LeadInv, PartTypes
    <2>5. trainer \in Fetching => Limited(Gap, staleness_samples, processor')
      BY <1>1, <2>3 DEF LeadInv, PartTypes
    <2> QED
      BY <1>2, <2>1, <2>2, <2>4, <2>5 DEF LeadInv
  <1>8. CASE TakePending
    <2>1. /\ processor = "getting" \/ staleness_samples < max_required_samples
          /\ staleness_samples' = staleness_samples + 1 /\ UNCHANGED <<running, cancel_queue>>
      BY <1>1, <1>8, Limits DEF TakePending, AtTop, ShouldPause, PartTypes, taskVars, heldVars
    <2>2. processor' # "getting"
      BY <1>8 DEF TakePending, Ask, Stop, Place
    <2> QED
      BY <2>1, <2>2, LeadTaken
  <1>9. CASE Submit
    <2>1. /\ processor = "submitting" /\ Holds("processor") /\ processor' = "top"
          /\ running' = running \cup {rollout_sample} /\ rollout_sample' = NoSample
          /\ UNCHANGED <<cancel_queue, staleness_samples>>
      BY <1>9 DEF Submit, Continue, heldVars, countVars
    <2>2. sync # "sizing"
      BY <2>1 DEF TypeInv, LockInv, Holding, Holds
    <2>3. InHand = 1 /\ InHand' = 0
      <3>1. rollout_sample # NoSample
        BY <2>1 DEF TypeInv, StreamInv, WithSample, Samples, NoSample
      <3> QED
        BY <2>1, <3>1, OneIfType DEF InHand
    <2>4. Cardinality(running') <= Cardinality(running) + 1
      <3>1. IsFiniteSet(running) /\ Cardinality(running) \in Nat
        BY RunningFinite DEF TypeInv, StreamInv
      <3>2. Cardinality(running \cup {rollout_sample})
              = IF rollout_sample \in running THEN Cardinality(running) ELSE Cardinality(running) + 1
        BY <3>1, FS_AddElement
      <3> QED
        BY <2>1, <3>1, <3>2
    <2>5. \A r, s, c, e \in Nat : s <= r + 1 => 0 + s + c + e <= 1 + r + c + e
      OBVIOUS
    <2>6. Outstanding' <= Outstanding
      BY <1>1, <1>2, <1>3, <2>1, <2>3, <2>4, <2>5 DEF TermsAdd, PartTypes
    <2> QED
      BY <1>4, <2>1, <2>2, <2>6
  <1> QED
    BY <1>5, <1>6, <1>7, <1>8, <1>9 DEF Processor

\* A sample whose task ends is finished, interrupted or lost.
LEMMA LeadTasks ==
    ASSUME TypeInv, LeadInv, PartTypes', NEW s \in Samples, Finish(s) \/ Interrupt(s) \/ Fail(s)
    PROVE  LeadInv'
  <1>1. PartTypes /\ TermsAdd /\ TermsAdd'
    BY Parts, Terms, TermsNext
  <1>2. /\ s \in running /\ running' = running \ {s}
        /\ UNCHANGED <<rollout_sample, processor, sync, in_flight, putting, queue>>
        /\ UNCHANGED <<trainVars, countVars>>
    BY DEF Finish, Interrupt, Fail, EndTask, procVars, syncVars, queueVars
  <1>3. /\ Fetched' = Fetched /\ InHand' = InHand /\ OnTheWay' = OnTheWay
        /\ UNCHANGED <<trainer, rollout_version, staleness_samples>>
    BY <1>2 DEF Fetched, InHand, OnTheWay, trainVars, countVars
  <1>4. Cardinality(running') = Cardinality(running) - 1
    <2>1. IsFiniteSet(running) /\ Cardinality(running) \in Nat
      BY RunningFinite DEF TypeInv, StreamInv
    <2> QED
      BY <1>2, <2>1, FS_RemoveElement
  <1>5. Len(cancel_queue') + Len(result_queue') <= Len(cancel_queue) + Len(result_queue) + 1
    <2>1. /\ cancel_queue' \in {cancel_queue, Append(cancel_queue, s)}
          /\ result_queue' \in {result_queue, Append(result_queue, Message(s, rollout_version))}
          /\ cancel_queue' = cancel_queue \/ result_queue' = result_queue
      BY DEF Finish, Interrupt, Fail, heldVars
    <2>2. cancel_queue \in Seq(Samples) /\ result_queue \in Seq(Messages)
      BY DEF TypeInv, StreamInv, VersionInv
    <2>3. Message(s, rollout_version) \in Messages
      BY DEF Message, Messages, TypeInv, VersionInv
    <2>4. /\ Len(Append(cancel_queue, s)) = Len(cancel_queue) + 1
          /\ Len(Append(result_queue, Message(s, rollout_version))) = Len(result_queue) + 1
      BY <2>2, <2>3, Ends
    <2>5. Len(cancel_queue) \in Nat /\ Len(result_queue) \in Nat
      BY <1>1 DEF PartTypes
    <2> QED
      BY <2>1, <2>4, <2>5
  <1> DEFINE fixed == OnTheWay + Count(queue)
  <1>6. /\ fixed \in Nat /\ Ended = Len(result_queue) + fixed /\ Ended' = Len(result_queue') + fixed
    <2>1. \A q, p, c \in Nat : q + p + c = q + (p + c)
      OBVIOUS
    <2>2. /\ OnTheWay \in Nat /\ Count(queue) \in Nat
          /\ Len(result_queue) \in Nat /\ Len(result_queue') \in Nat
      BY <1>1 DEF TermsAdd, PartTypes
    <2>3. /\ Ended = Len(result_queue) + OnTheWay + Count(queue)
          /\ Ended' = Len(result_queue') + OnTheWay + Count(queue)
      BY <1>2, <1>3 DEF Ended
    <2> QED
      BY <2>1, <2>2, <2>3
  <1> HIDE DEF fixed
  <1>7. \A h, r, c, q, d, p, x \in Nat :
           /\ d + p <= c + q + 1
           /\ r - 1 \in Nat
           => h + (r - 1) + d + (p + x) <= h + r + c + (q + x) /\ (r - 1) + d + p <= r + c + q
    OBVIOUS
  <1>9. /\ InHand \in Nat /\ Cardinality(running) \in Nat /\ Cardinality(running) - 1 \in Nat
        /\ Len(cancel_queue) \in Nat /\ Len(cancel_queue') \in Nat
        /\ Len(result_queue) \in Nat /\ Len(result_queue') \in Nat
    BY <1>1, <1>4 DEF PartTypes, TermsAdd
  <1>10. /\ Outstanding = InHand + Cardinality(running) + Len(cancel_queue) + (Len(result_queue) + fixed)
         /\ Outstanding' = InHand + (Cardinality(running) - 1) + Len(cancel_queue')
                             + (Len(result_queue') + fixed)
    BY <1>1, <1>3, <1>4, <1>6 DEF TermsAdd
  <1>8. /\ Outstanding' <= Outstanding
        /\ Cardinality(running') + Len(cancel_queue') + Len(result_queue')
              <= Cardinality(running) + Len(cancel_queue) + Len(result_queue)
    BY <1>4, <1>5, <1>6, <1>7, <1>9, <1>10
  <1> QED
    BY <1>2, <1>3, <1>8, LeadLess

\* On the way to the message queue nothing is added.
LEMMA LeadMessages ==
    ASSUME TypeInv, LeadInv, PartTypes', Consume \/ PutSample \/ PutEndOfStream
    PROVE  LeadInv'
  <1>1. PartTypes /\ TermsAdd /\ TermsAdd'
    BY Parts, Terms, TermsNext
  <1>2. /\ UNCHANGED <<rollout_sample, running, cancel_queue, processor, sync, in_flight>>
        /\ UNCHANGED <<trainVars, countVars>>
    BY DEF Consume, PutSample, PutEndOfStream, MainAt, procVars, taskVars, heldVars, syncVars
  <1>3. /\ Fetched' = Fetched /\ InHand' = InHand
        /\ UNCHANGED <<trainer, rollout_version, staleness_samples>>
    BY <1>2 DEF Fetched, InHand, trainVars, countVars
  <1>4. Len(result_queue') <= Len(result_queue) /\ Ended' <= Ended
    <2>1. /\ Len(result_queue) \in Nat /\ Len(result_queue') \in Nat
          /\ Count(queue) \in Nat /\ Count(queue') \in Nat
      BY <1>1 DEF PartTypes
    <2>2. CASE Consume
      <3>1. OnTheWay = 0 /\ UNCHANGED queue /\ result_queue # <<>> /\ result_queue' = Tail(result_queue)
        BY <2>2, OneIfType DEF Consume, OnTheWay
      <3>2. Len(result_queue') = Len(result_queue) - 1
        BY <3>1, Ends DEF TypeInv, VersionInv
      <3>3. OnTheWay' \in {0, 1}
        BY <1>1 DEF TermsAdd
      <3>4. \A q, c \in Nat, p \in {0, 1} : q - 1 <= q /\ (q - 1) + p + c <= q + 0 + c
        OBVIOUS
      <3> QED
        BY <2>1, <3>1, <3>2, <3>3, <3>4 DEF Ended
    <2>3. CASE PutSample
      <3>1. OnTheWay = 1 /\ OnTheWay' = 0 /\ UNCHANGED result_queue /\ Put(putting)
        BY <2>3, OneIfType DEF PutSample, OnTheWay, heldVars
      <3>2. Count(queue') <= Count(queue) + 1
        BY <3>1, CountPut DEF TypeInv, VersionInv, OnTheWay
      <3>3. \A q, c, d \in Nat : d <= c + 1 => q <= q /\ q + 0 + d <= q + 1 + c
        OBVIOUS
      <3> QED
        BY <2>1, <3>1, <3>2, <3>3 DEF Ended
    <2>4. CASE PutEndOfStream
      <3>1. OnTheWay' = OnTheWay /\ UNCHANGED result_queue /\ Put(EndOfStream)
        BY <2>4 DEF PutEndOfStream, MainAt, OnTheWay, heldVars
      <3>2. EndOfStream \in Queued /\ OneIf(EndOfStream # EndOfStream) = 0
        BY OneIfType DEF Queued
      <3>3. Count(queue') <= Count(queue)
        BY <2>1, <3>1, <3>2, CountPut DEF TypeInv, VersionInv
      <3>4. \A q, c, d, p \in Nat : d <= c => q <= q /\ q + p + d <= q + p + c
        OBVIOUS
      <3>5. OnTheWay \in Nat
        BY <1>1 DEF TermsAdd
      <3> QED
        BY <2>1, <3>1, <3>3, <3>4, <3>5 DEF Ended
    <2> QED
      BY <2>2, <2>3, <2>4
  <1>5. \A h, r, c, e, d, q, p \in Nat :
           d <= e /\ p <= q => h + r + c + d <= h + r + c + e /\ r + c + p <= r + c + q
    OBVIOUS
  <1>6. /\ InHand \in Nat /\ Cardinality(running) \in Nat /\ Len(cancel_queue) \in Nat
        /\ Len(result_queue) \in Nat /\ Len(result_queue') \in Nat /\ Ended \in Nat /\ Ended' \in Nat
    BY <1>1 DEF TermsAdd, PartTypes
  <1>7. /\ Outstanding = InHand + Cardinality(running) + Len(cancel_queue) + Ended
        /\ Outstanding' = InHand + Cardinality(running) + Len(cancel_queue) + Ended'
    BY <1>1, <1>2, <1>3 DEF TermsAdd
  <1>8. /\ Outstanding' <= Outstanding
        /\ Cardinality(running) + Len(cancel_queue) + Len(result_queue')
              <= Cardinality(running) + Len(cancel_queue) + Len(result_queue)
    BY <1>4, <1>5, <1>6, <1>7
  <1> QED
    BY <1>2, <1>3, <1>8, LeadLess

\* What the trainer fetches is no longer outstanding.
FetchedOf(version, step, n) ==
    version * SamplesOfVersion + (step - 1) * required_samples + n

LEMMA OneMoreFetched ==
    ASSUME NEW v \in Nat, NEW t \in Nat \ {0}, NEW n \in Nat
    PROVE  FetchedOf(v, t, n + 1) = FetchedOf(v, t, n) + 1
  <1>1. \A a, b \in Nat : a * b \in Nat
    OBVIOUS
  <1>2. SamplesOfVersion \in Nat /\ required_samples \in Nat /\ t - 1 \in Nat
    BY UntilGrows, AsyncAssumption
  <1>3. v * SamplesOfVersion \in Nat /\ (t - 1) * required_samples \in Nat
    BY <1>1, <1>2
  <1>4. \A a, b \in Nat : a + b + (n + 1) = a + b + n + 1
    OBVIOUS
  <1> QED
    BY <1>3, <1>4 DEF FetchedOf

LEMMA LeadFetched == ASSUME TypeInv, LeadInv, PartTypes', GetSample PROVE LeadInv'
  <1>1. PartTypes /\ TermsAdd /\ TermsAdd'
    BY Parts, Terms, TermsNext
  <1> DEFINE one == OneIf(Head(queue) # EndOfStream)
  <1>2. /\ UNCHANGED <<rollout_sample, running, cancel_queue, result_queue, processor, putting, sync,
                       in_flight, local_trigger_step, current_param_version, countVars>>
        /\ queue # <<>> /\ queue' = Tail(queue) /\ trainer = "collecting"
        /\ Head(queue) = EndOfStream => trainer' = "leaving"
        /\ Head(queue) # EndOfStream => batch' = Append(batch, Head(queue))
    BY DEF GetSample, procVars, taskVars, heldVars, syncVars
  <1>3. InHand' = InHand /\ OnTheWay' = OnTheWay /\ UNCHANGED <<rollout_version, staleness_samples>>
    BY <1>2 DEF InHand, OnTheWay, countVars
  <1>4. Count(queue') = Count(queue) - one /\ one \in {0, 1}
    BY <1>2, AheadTail, OneIfType DEF TypeInv, VersionInv
  <1>11. Head(queue) # EndOfStream => one = 1
    BY OneIfType
  <1> HIDE DEF one
  <1>5. Outstanding' = Outstanding - one
    <2>1. \A h, r, c, q, p, n \in Nat, o \in {0, 1} :
             h + r + c + (q + p + (n - o)) = (h + r + c + (q + p + n)) - o
      OBVIOUS
    <2>2. /\ Cardinality(running) \in Nat /\ Len(cancel_queue) \in Nat
          /\ Len(result_queue) \in Nat /\ Count(queue) \in Nat
      BY <1>1 DEF PartTypes
    <2>4. InHand \in Nat /\ OnTheWay \in Nat
      BY <1>1 DEF TermsAdd
    <2>3. /\ Outstanding = InHand + Cardinality(running) + Len(cancel_queue)
                              + (Len(result_queue) + OnTheWay + Count(queue))
          /\ Outstanding' = InHand + Cardinality(running) + Len(cancel_queue)
                              + (Len(result_queue) + OnTheWay + (Count(queue) - one))
      BY <1>1, <1>2, <1>3, <1>4 DEF TermsAdd, Ended
    <2>5. InHand + Cardinality(running) + Len(cancel_queue)
              + (Len(result_queue) + OnTheWay + (Count(queue) - one))
          = (InHand + Cardinality(running) + Len(cancel_queue)
              + (Len(result_queue) + OnTheWay + Count(queue))) - one
      BY <1>4, <2>1, <2>2, <2>4
    <2> QED
      BY <2>3, <2>5
  <1>6. ASSUME trainer' \in Fetching PROVE Gap' = Gap
    <2>1. Head(queue) # EndOfStream /\ Head(queue) \in Messages /\ batch' = Append(batch, Head(queue))
      BY <1>2, <1>6, Ends DEF Fetching, TypeInv, VersionInv, Queued
    <2>2. Len(batch') = Len(batch) + 1 /\ Len(batch) \in Nat
      BY <2>1, Ends DEF TypeInv, TrainerInv
    <2>3. current_param_version \in Nat /\ local_trigger_step \in Nat \ {0}
      BY AsyncAssumption DEF TypeInv, VersionInv, TrainerInv
    <2>4. Fetched' = Fetched + 1
      BY <1>2, <2>2, <2>3, OneMoreFetched DEF Fetched, FetchedOf
    <2>5. one = 1
      BY <1>11, <2>1
    <2>6. \A f, n, u \in Nat : (f + 1) + (n - 1) - u = f + n - u
      OBVIOUS
    <2>7. Fetched \in Nat /\ Outstanding \in Nat /\ Until(rollout_version) \in Nat
      BY <1>1 DEF PartTypes
    <2> QED
      BY <1>3, <1>5, <2>4, <2>5, <2>6, <2>7 DEF Gap
  <1>7. Outstanding' <= Outstanding
    <2>1. \A n \in Nat : n - one <= n
      BY <1>4
    <2> QED
      BY <1>1, <1>5, <2>1 DEF PartTypes
  <1>8. trainer' \in Fetching => trainer \in Fetching /\ Gap' <= Gap
    BY <1>1, <1>2, <1>6 DEF Fetching, PartTypes
  <1>9. rollout_version <= rollout_version' /\ staleness_samples <= staleness_samples'
    BY <1>1, <1>3 DEF PartTypes
  <1>10. sync' = "sizing" =>
            Cardinality(running') + Len(cancel_queue') + Len(result_queue') <= in_flight'
    BY <1>2 DEF LeadInv
  <1> QED
    BY <1>2, <1>7, <1>8, <1>9, <1>10, LeadKept

LEMMA VersionsMeetNext == TypeInv /\ VersionsMeet /\ [Next]_vars => VersionsMeet'
  <1> SUFFICES ASSUME TypeInv, VersionsMeet, [Next]_vars PROVE VersionsMeet'
    OBVIOUS
  <1> USE DEF countVars, syncVars, Copying
  <1>1. ASSUME UNCHANGED <<sync, trainer, rollout_version, current_version, current_param_version>>
        PROVE  VersionsMeet'
    BY <1>1 DEF VersionsMeet
  <1>2. CASE Feed \/ Processor \/ Consume \/ PutSample \/ Monitor \/ Main
    BY <1>1, <1>2 DEF Feed, Processor, PauseSelf, TakeInterrupted, AwaitPending, TakePending, Reap,
       NothingToReap, Idle, Park, Wake, Submit, Consume, PutSample, Monitor, MonitorChecks,
       MonitorWakes, MonitorResumes, Main, AwaitFeed, AwaitProcessor, JoinResults, PutEndOfStream,
       StopRunning, MainAt, trainVars
  <1>3. CASE Trainer
    <2>1. UNCHANGED <<sync, rollout_version, current_version>> /\ current_version \in Nat
      BY <1>3 DEF Trainer, GetSample, Train, Leave, Validated, TypeInv, VersionInv
    <2>2. \/ UNCHANGED <<trainer, current_param_version>>
          \/ trainer = "collecting" /\ trainer' \in {"collecting", "training", "leaving"}
             /\ UNCHANGED current_param_version
          \/ trainer = "training" /\ trainer' = "collecting" /\ UNCHANGED current_param_version
          \/ trainer = "training" /\ trainer' = "waiting"
             /\ current_param_version' = current_param_version + 1
          \/ trainer = "leaving" /\ trainer' = "waiting_last"
             /\ current_param_version' = current_param_version + 1
          \/ trainer' = "finished"
      BY <1>3 DEF Trainer, GetSample, Train, Leave, Validated
    <2> QED
      BY <2>1, <2>2 DEF VersionsMeet
  <1>4. CASE Sync
    <2>1. UNCHANGED current_param_version
      BY <1>4 DEF Sync, SyncAt, CallPause, Pause, PauseEnds, CopyWeights, UpdateVersion,
         ResetStaleness, EndUpdate, CallResume, Resume
    <2>2. CASE CallPause
      BY <2>1, <2>2 DEF CallPause, SyncAt, VersionsMeet
    <2>3. CASE CopyWeights
      BY <2>1, <2>3 DEF CopyWeights, SyncAt, VersionsMeet, TypeInv, TrainerInv
    <2>4. CASE UpdateVersion
      BY <2>1, <2>4 DEF UpdateVersion, SyncAt, VersionsMeet
    <2>5. CASE Pause \/ PauseEnds \/ ResetStaleness \/ EndUpdate \/ CallResume \/ Resume
      BY <2>1, <2>5 DEF SyncAt, Pause, PauseEnds, ResetStaleness, EndUpdate, CallResume, Resume,
         VersionsMeet
    <2> QED
      BY <1>4, <2>2, <2>3, <2>4, <2>5 DEF Sync
  <1>5. ASSUME NEW s \in Samples, Finish(s) \/ Interrupt(s) \/ Fail(s) PROVE VersionsMeet'
    BY <1>1, <1>5 DEF Finish, Interrupt, Fail, EndTask, trainVars
  <1>6. CASE UNCHANGED vars
    BY <1>1, <1>6 DEF vars, trainVars
  <1> QED
    BY <1>2, <1>3, <1>4, <1>5, <1>6 DEF Next

\* A step closes the batch and, the last of a version, makes the next one.
LEMMA StepFetched ==
    ASSUME NEW v \in Nat, NEW t \in Nat \ {0}
    PROVE  /\ FetchedOf(v, t + 1, 0) = FetchedOf(v, t, required_samples)
           /\ t = trigger_parameter_sync_step =>
                 FetchedOf(v + 1, 1, 0) = FetchedOf(v, t, required_samples)
  <1>1. required_samples \in Nat /\ SamplesOfVersion \in Nat
    BY UntilGrows, AsyncAssumption
  <1>2. (t - 1) * required_samples + required_samples = t * required_samples
    BY <1>1
  <1>3. (v + 1) * SamplesOfVersion = v * SamplesOfVersion + SamplesOfVersion
    BY <1>1
  <1>4. t = trigger_parameter_sync_step => SamplesOfVersion = t * required_samples
    BY <1>1 DEF SamplesOfVersion
  <1>5. /\ v * SamplesOfVersion \in Nat /\ t * required_samples \in Nat
        /\ (t - 1) * required_samples \in Nat
    <2>1. \A a, b \in Nat : a * b \in Nat
      OBVIOUS
    <2> QED
      BY <1>1, <2>1
  <1>6. (t + 1) - 1 = t /\ 1 - 1 = 0 /\ 0 * required_samples = 0
    BY <1>1
  <1>7. FetchedOf(v, t, required_samples) = v * SamplesOfVersion + t * required_samples
    BY <1>1, <1>2, <1>5 DEF FetchedOf
  <1>8. FetchedOf(v, t + 1, 0) = v * SamplesOfVersion + t * required_samples
    BY <1>5, <1>6 DEF FetchedOf
  <1>9. FetchedOf(v + 1, 1, 0) = v * SamplesOfVersion + SamplesOfVersion
    BY <1>1, <1>3, <1>5, <1>6 DEF FetchedOf
  <1> QED
    BY <1>4, <1>7, <1>8, <1>9

LEMMA TrainFetched == ASSUME TypeInv, Train PROVE Fetched' = Fetched
  <1>1. /\ trainer = "training" /\ batch' = <<>> /\ Len(batch) = required_samples
        /\ current_param_version \in Nat /\ local_trigger_step \in Nat \ {0}
        /\ local_trigger_step <= trigger_parameter_sync_step /\ trigger_parameter_sync_step \in Nat
    BY AsyncAssumption DEF Train, TypeInv, TrainerInv, VersionInv
  <1>2. Fetched = FetchedOf(current_param_version, local_trigger_step, required_samples)
    BY <1>1 DEF Fetched, FetchedOf
  <1>3. Fetched' = FetchedOf(current_param_version', local_trigger_step', 0)
    BY <1>1, EmptySeq DEF Fetched, FetchedOf
  <1>4. CASE local_trigger_step < trigger_parameter_sync_step
    <2>1. current_param_version' = current_param_version /\ local_trigger_step' = local_trigger_step + 1
      BY <1>1, <1>4 DEF Train
    <2> QED
      BY <1>1, <1>2, <1>3, <2>1, StepFetched
  <1>5. CASE local_trigger_step = trigger_parameter_sync_step
    <2>1. current_param_version' = current_param_version + 1 /\ local_trigger_step' = 1
      BY <1>1, <1>5 DEF Train
    <2> QED
      BY <1>1, <1>2, <1>3, <1>5, <2>1, StepFetched
  <1> QED
    BY <1>1, <1>4, <1>5

\* With one version the trainer fetches at most the samples of it and of the next.
LEMMA FetchedInVersion ==
    ASSUME TypeInv, VersionsMeet, trainer \in Fetching, sync \notin Copying \cup {"updating"}
    PROVE  Fetched <= Until(rollout_version)
  <1>1. /\ current_param_version \in Nat /\ rollout_version \in Nat /\ Len(batch) \in Nat
        /\ local_trigger_step \in 1..trigger_parameter_sync_step /\ Len(batch) <= required_samples
        /\ required_samples \in Nat /\ trigger_parameter_sync_step \in Nat /\ SamplesOfVersion \in Nat
    BY AsyncAssumption, UntilGrows DEF TypeInv, VersionInv, TrainerInv
  <1>2. CASE trainer = "waiting"
    <2>1. current_param_version = rollout_version + 1 /\ local_trigger_step = 1 /\ Len(batch) = 0
      BY <1>1, <1>2, EmptySeq DEF VersionsMeet, TypeInv, TrainerInv
    <2>2. (rollout_version + 1) * SamplesOfVersion \in Nat /\ (1 - 1) * required_samples = 0
      BY <1>1
    <2>3. Fetched = (rollout_version + 1) * SamplesOfVersion
      BY <2>1, <2>2 DEF Fetched
    <2> QED
      BY <2>2, <2>3 DEF Until
  <1>3. CASE trainer # "waiting"
    <2>1. current_param_version = rollout_version
      BY <1>1, <1>3 DEF VersionsMeet, Fetching, TypeInv, TrainerInv
    <2>2. \A t, k, r \in Nat : t >= 1 /\ t <= k => (t - 1) * r + r <= r * k
      OBVIOUS
    <2>3. (local_trigger_step - 1) * required_samples + required_samples <= SamplesOfVersion
      BY <1>1, <2>2 DEF SamplesOfVersion
    <2>4. rollout_version * SamplesOfVersion + SamplesOfVersion = (rollout_version + 1) * SamplesOfVersion
      BY <1>1
    <2>5. /\ rollout_version * SamplesOfVersion \in Nat
          /\ (local_trigger_step - 1) * required_samples \in Nat
      <3>1. \A a, b \in Nat : a * b \in Nat
        OBVIOUS
      <3>2. local_trigger_step - 1 \in Nat
        BY <1>1
      <3> QED
        BY <1>1, <3>1, <3>2
    <2>6. \A v, t, n, r, b \in Nat : t + r <= b /\ n <= r => v + t + n <= v + b
      OBVIOUS
    <2> QED
      BY <1>1, <2>1, <2>3, <2>4, <2>5, <2>6 DEF Fetched, Until
  <1> QED
    BY <1>2, <1>3

\* The recount counts everything but the sample in hand and the one on its way, however
\* long it takes and whatever is finished, put and fetched meanwhile.
LEMMA LeadRecounted ==
    ASSUME TypeInv, VersionsMeet, LeadInv, PartTypes', ResetStaleness
    PROVE  LeadInv'
  <1>1. PartTypes /\ TermsAdd
    BY Parts, Terms
  <1>2. /\ staleness_samples' = in_flight + Len(queue) /\ sync = "sizing" /\ sync' = "reporting"
        /\ UNCHANGED <<rollout_sample, running, cancel_queue, result_queue, putting, queue, processor,
                       rollout_version, trainer, batch, local_trigger_step, current_param_version>>
    BY DEF ResetStaleness, SyncAt, heldVars, queueVars
  <1>3. Outstanding' = Outstanding /\ Fetched' = Fetched /\ Gap' = Gap
    BY <1>2 DEF Outstanding, Fetched, Gap
  <1>4. Outstanding <= staleness_samples' + 2
    <2>1. \A h, p \in {0, 1}, r, c, q, n, k, i \in Nat :
             r + c + q <= i /\ n <= k => h + r + c + (q + p + n) <= i + k + 2
      OBVIOUS
    <2>2. /\ Cardinality(running) \in Nat /\ Len(cancel_queue) \in Nat /\ Len(result_queue) \in Nat
          /\ Count(queue) \in Nat /\ Len(queue) \in Nat /\ Count(queue) <= Len(queue)
          /\ in_flight \in Nat
      BY <1>1 DEF PartTypes, TypeInv, FlagsInv
    <2>3. Cardinality(running) + Len(cancel_queue) + Len(result_queue) <= in_flight
      BY <1>2 DEF LeadInv
    <2>4. /\ Outstanding = InHand + Cardinality(running) + Len(cancel_queue)
                              + (Len(result_queue) + OnTheWay + Count(queue))
          /\ InHand \in {0, 1} /\ OnTheWay \in {0, 1}
      BY <1>1 DEF TermsAdd, Ended
    <2> QED
      BY <1>2, <2>1, <2>2, <2>3, <2>4
  <1>5. Limited(Outstanding', staleness_samples', processor')
    BY <1>2, <1>3, <1>4 DEF LeadInv, Limited
  <1>6. ASSUME trainer' \in Fetching PROVE Limited(Gap', staleness_samples', processor')
    <2>1. Fetched <= Until(rollout_version)
      BY <1>2, <1>6, FetchedInVersion DEF Copying
    <2>2. Gap <= staleness_samples' + 2
      <3>1. \A f, n, u, k \in Nat : f <= u /\ n <= k + 2 => f + n - u <= k + 2
        OBVIOUS
      <3>2. /\ Fetched \in Nat /\ Outstanding \in Nat /\ Until(rollout_version) \in Nat
            /\ staleness_samples' \in Nat
        BY <1>1 DEF PartTypes
      <3> QED
        BY <1>4, <2>1, <3>1, <3>2 DEF Gap
    <2> QED
      BY <1>2, <1>3, <1>6, <2>2 DEF LeadInv, Limited
  <1> QED
    BY <1>2, <1>5, <1>6 DEF LeadInv

LEMMA LeadSync == ASSUME TypeInv, VersionsMeet, LeadInv, PartTypes', Sync PROVE LeadInv'
  <1>1. PartTypes
    BY Parts
  <1>2. CASE ResetStaleness
    BY <1>2, LeadRecounted
  <1>3. CASE ~ResetStaleness
    <2>1. /\ UNCHANGED <<rollout_sample, running, cancel_queue, result_queue, putting, queue, batch,
                         local_trigger_step, current_param_version, staleness_samples>>
      BY <1>3 DEF Sync, SyncAt, CallPause, Pause, PauseEnds, CopyWeights, UpdateVersion, EndUpdate,
         CallResume, Resume, heldVars, queueVars, countVars
    <2>2. Outstanding' = Outstanding /\ Fetched' = Fetched
      BY <2>1 DEF Outstanding, Fetched
    <2>3. /\ processor' = "getting" => processor = "getting"
          /\ trainer' \in Fetching => trainer \in Fetching
      BY <1>3 DEF Sync, CallPause, Pause, PauseEnds, CopyWeights, UpdateVersion, EndUpdate, CallResume,
         Resume, Notify, Fetching
    <2>4. rollout_version' \in {rollout_version, current_version}
      BY <1>3 DEF Sync, CallPause, Pause, PauseEnds, CopyWeights, UpdateVersion, EndUpdate, CallResume,
         Resume, countVars
    <2>5. rollout_version <= rollout_version'
      BY <2>4 DEF TypeInv, VersionInv
    <2>6. ASSUME sync' = "sizing"
          PROVE  Cardinality(running') + Len(cancel_queue') + Len(result_queue') <= in_flight'
      <3>1. in_flight' = ActiveTasks + Len(result_queue) + Len(cancel_queue)
        BY <1>3, <2>6 DEF Sync, SyncAt, CallPause, Pause, PauseEnds, CopyWeights, UpdateVersion,
           EndUpdate, CallResume, Resume
      <3>2. \A r, e, c, q \in Nat : r + c + q <= (r + e) + q + c
        OBVIOUS
      <3>3. ended \in Nat
        BY DEF TypeInv, StreamInv
      <3> QED
        BY <1>1, <2>1, <3>1, <3>2, <3>3 DEF ActiveTasks, PartTypes
    <2>7. Outstanding' <= Outstanding /\ staleness_samples <= staleness_samples'
      BY <1>1, <2>1, <2>2 DEF PartTypes
    <2>8. Gap' <= Gap
      BY <1>1, <2>2, <2>5, <2>7, GapLess
    <2> QED
      BY <2>3, <2>5, <2>6, <2>7, <2>8, LeadKept
  <1> QED
    BY <1>2, <1>3

LEMMA LeadTrainer == ASSUME TypeInv, LeadInv, PartTypes', Train \/ Leave \/ Validated PROVE LeadInv'
  <1>1. PartTypes
    BY Parts
  <1>2. /\ UNCHANGED <<rollout_sample, running, cancel_queue, result_queue, putting, queue, processor,
                       sync, in_flight, staleness_samples, rollout_version>>
        /\ Leave \/ Validated => trainer' \notin Fetching
        /\ Train => trainer \in Fetching
    BY DEF Train, Leave, Validated, procVars, taskVars, heldVars, queueVars, countVars, syncVars,
       Fetching
  <1>3. Outstanding' = Outstanding
    BY <1>2 DEF Outstanding
  <1>4. /\ Outstanding' <= Outstanding /\ staleness_samples <= staleness_samples'
        /\ rollout_version <= rollout_version'
    BY <1>1, <1>2, <1>3 DEF PartTypes
  <1>5. Train => Gap' <= Gap
    BY <1>1, <1>4, TrainFetched, GapLess
  <1>6. sync' = "sizing" =>
           Cardinality(running') + Len(cancel_queue') + Len(result_queue') <= in_flight'
    BY <1>2 DEF LeadInv
  <1> QED
    BY <1>2, <1>4, <1>5, <1>6, LeadKept

LEMMA LeadNext == TypeInv /\ VersionsMeet /\ LeadInv /\ [Next]_vars => LeadInv'
  <1> SUFFICES ASSUME TypeInv, VersionsMeet, LeadInv, [Next]_vars PROVE LeadInv'
    OBVIOUS
  <1>1. PartTypes /\ PartTypes'
    BY Parts, PartsNext
  <1> USE DEF procVars, taskVars, heldVars, queueVars, countVars, syncVars
  <1>2. ASSUME UNCHANGED <<rollout_sample, running, cancel_queue, result_queue, putting, queue, trainVars,
                           countVars, sync, in_flight>>,
               processor' = "getting" => processor = "getting"
        PROVE  LeadInv'
    <2>1. Outstanding' = Outstanding /\ Fetched' = Fetched
      BY <1>2 DEF Outstanding, Fetched, trainVars
    <2>2. /\ Outstanding' <= Outstanding
          /\ Cardinality(running') + Len(cancel_queue') + Len(result_queue')
                <= Cardinality(running) + Len(cancel_queue) + Len(result_queue)
      BY <1>1, <1>2, <2>1 DEF PartTypes
    <2> QED
      BY <1>1, <1>2, <2>1, <2>2, LeadLess DEF trainVars
  <1>3. CASE Feed \/ Monitor
    BY <1>2, <1>3 DEF Feed, Monitor, MonitorChecks, MonitorWakes, MonitorResumes, Unpause, Notify
  <1>4. CASE AwaitFeed \/ AwaitProcessor \/ JoinResults \/ StopRunning
    BY <1>2, <1>4 DEF AwaitFeed, AwaitProcessor, JoinResults, StopRunning, MainAt
  <1>5. CASE UNCHANGED vars
    BY <1>2, <1>5 DEF vars
  <1>6. CASE Main
    BY <1>1, <1>4, <1>6, LeadMessages DEF Main
  <1>7. CASE Trainer
    BY <1>1, <1>7, LeadFetched, LeadTrainer DEF Trainer
  <1> QED
    BY <1>1, <1>3, <1>5, <1>6, <1>7, LeadProcessor, LeadTasks, LeadMessages, LeadSync DEF Next

\* Age.  The n-th sample to be fetched, counted from the first one of all, is not further
\* ahead of the version it carries than the limit: so it is when it is finished, and from
\* there to the batch it only gets nearer to the front.
Within(n, version) == n <= Until(version) + max_required_samples + 2

BatchAged(f, q)   == \A i \in 1..Len(q) : Within(f - Len(q) + i, q[i].param_version)
QueueAged(f, q)   == \A i \in 1..Len(q) :
                        q[i] # EndOfStream => Within(f + Ahead(q, i), q[i].param_version)
MessageAged(n, m) == m # EndOfStream => Within(n + 1, m.param_version)
ResultsAged(n, q) == \A i \in 1..Len(q) : Within(n + i, q[i].param_version)

AgeInv ==
    trainer \in Fetching =>
    /\ BatchAged(Fetched, batch)
    /\ QueueAged(Fetched, queue)
    /\ MessageAged(Fetched + Count(queue), putting)
    /\ ResultsAged(Fetched + Count(queue) + OnTheWay, result_queue)

LEMMA WithinLess ==
    ASSUME NEW v \in Nat, NEW m \in Int, NEW n \in Int, m <= n, Within(n, v)
    PROVE  Within(m, v)
  BY UntilGrows, Limits DEF Within

LEMMA QueueAgedTail ==
    ASSUME NEW q \in Seq(Queued), q # <<>>, NEW f \in Nat, NEW g \in Nat,
           g <= f + OneIf(Head(q) # EndOfStream), QueueAged(f, q)
    PROVE  QueueAged(g, Tail(q))
  <1> DEFINE t == Tail(q)
             one == OneIf(Head(q) # EndOfStream)
  <1>1. /\ Len(q) \in Nat /\ Len(t) = Len(q) - 1 /\ t \in Seq(Queued)
        /\ \A i \in 1..(Len(q) - 1) : t[i] = q[i + 1]
    BY Ends
  <1>2. \A i \in 0..(Len(q) - 1) : Ahead(t, i) = Ahead(q, i + 1) - one
    BY AheadTail
  <1>3. one \in {0, 1}
    BY OneIfType
  <1> HIDE DEF t, one
  <1>4. ASSUME NEW i \in 1..Len(t), t[i] # EndOfStream
        PROVE  Within(g + Ahead(t, i), t[i].param_version)
    <2>1. i \in Nat /\ i \in 0..(Len(q) - 1) /\ i + 1 \in 1..Len(q) /\ i + 1 \in Nat /\ t[i] = q[i + 1]
      BY <1>1
    <2>2. Within(f + Ahead(q, i + 1), q[i + 1].param_version)
      BY <1>4, <2>1 DEF QueueAged
    <2>3. Ahead(t, i) \in Nat /\ Ahead(q, i + 1) \in Nat /\ q[i + 1].param_version \in Nat
      <3>1. Ahead(t, i) \in Nat /\ Ahead(q, i + 1) \in Nat
        BY <2>1, AheadType
      <3>2. q[i + 1] \in Queued
        BY <2>1
      <3> QED
        BY <3>1, <3>2, QueuedFacts
    <2>4. Ahead(t, i) = Ahead(q, i + 1) - one
      BY <1>2, <2>1
    <2>5. \A a \in Nat : g + (a - one) <= f + a
      BY <1>3 DEF one
    <2>6. g + Ahead(t, i) <= f + Ahead(q, i + 1)
      BY <2>3, <2>4, <2>5
    <2> QED
      BY <2>1, <2>2, <2>3, <2>6, WithinLess
  <1> QED
    BY <1>4 DEF QueueAged, t

LEMMA QueueAgedAppend ==
    ASSUME NEW q \in Seq(Queued), NEW m \in Queued, NEW f \in Nat, QueueAged(f, q),
           MessageAged(f + Count(q), m)
    PROVE  QueueAged(f, Append(q, m))
  <1> DEFINE a == Append(q, m)
  <1>1. /\ Len(q) \in Nat /\ Len(a) = Len(q) + 1 /\ a[Len(q) + 1] = m
        /\ \A i \in 1..Len(q) : a[i] = q[i]
    BY Ends
  <1>2. /\ \A i \in 1..Len(q) : Ahead(a, i) = Ahead(q, i)
        /\ Count(a) = Count(q) + OneIf(m # EndOfStream)
    BY AheadAppend
  <1>3. Ahead(a, Len(q) + 1) = Count(a)
    BY <1>1, CountIsAhead
  <1> HIDE DEF a
  <1>4. ASSUME NEW i \in 1..Len(a), a[i] # EndOfStream
        PROVE  Within(f + Ahead(a, i), a[i].param_version)
    <2>1. CASE i \in 1..Len(q)
      BY <1>1, <1>2, <1>4, <2>1 DEF QueueAged
    <2>2. CASE i = Len(q) + 1
      <3>1. m # EndOfStream /\ a[i] = m
        BY <1>1, <1>4, <2>2
      <3>2. Ahead(a, i) = Count(q) + 1
        BY <1>2, <1>3, <2>2, <3>1, OneIfType
      <3>3. Count(q) \in Nat
        BY <1>1, CountIsAhead, AheadType
      <3>4. f + Ahead(a, i) = f + Count(q) + 1
        BY <3>2, <3>3
      <3> QED
        BY <3>1, <3>4 DEF MessageAged
    <2> QED
      BY <1>1, <2>1, <2>2
  <1> QED
    BY <1>4 DEF QueueAged, a

\* The queue takes a message that is not too far ahead, full or not.
LEMMA PutAged ==
    ASSUME queue \in Seq(Queued), Len(queue) <= max_queue_size, NEW m \in Queued, Put(m),
           NEW f \in Nat, QueueAged(f, queue), MessageAged(f + Count(queue), m)
    PROVE  QueueAged(f, queue')
  <1>1. Len(queue) \in Nat /\ max_queue_size \in Nat \ {0}
    BY Limits
  <1>2. CASE Len(queue) >= max_queue_size
    <2>1. queue # <<>> /\ queue' = Append(Tail(queue), m)
      BY <1>1, <1>2, EmptySeq DEF Put
    <2>2. /\ Tail(queue) \in Seq(Queued) /\ Len(Tail(queue)) \in Nat
          /\ Count(Tail(queue)) = Count(queue) - OneIf(Head(queue) # EndOfStream)
      BY <2>1, Ends, AheadTail
    <2>3. OneIf(Head(queue) # EndOfStream) \in {0, 1}
      BY OneIfType
    <2>4. Count(queue) \in Nat /\ Count(Tail(queue)) \in Nat
      BY <1>1, <2>2, CountIsAhead, AheadType
    <2>5. f <= f + OneIf(Head(queue) # EndOfStream) /\ Count(Tail(queue)) <= Count(queue)
      BY <2>2, <2>3, <2>4
    <2>6. QueueAged(f, Tail(queue))
      BY <2>1, <2>5, QueueAgedTail
    <2>7. MessageAged(f + Count(Tail(queue)), m)
      <3>1. m.param_version \in Nat
        BY QueuedFacts
      <3>2. \A c, d \in Nat : d <= c => f + d + 1 <= f + c + 1 /\ f + d + 1 \in Int /\ f + c + 1 \in Int
        OBVIOUS
      <3> QED
        BY <2>4, <2>5, <3>1, <3>2, WithinLess DEF MessageAged
    <2> QED
      BY <2>1, <2>2, <2>6, <2>7, QueueAgedAppend
  <1>3. CASE Len(queue) < max_queue_size
    <2>1. queue' = Append(queue, m)
      BY <1>1, <1>3 DEF Put
    <2> QED
      BY <2>1, QueueAgedAppend
  <1> QED
    BY <1>1, <1>2, <1>3

LEMMA ResultsAgedMoves ==
    ASSUME NEW q \in Seq(Messages), NEW n \in Nat, ResultsAged(n, q)
    PROVE  /\ \A k \in Nat : k <= n => ResultsAged(k, q)
           /\ q # <<>> => ResultsAged(n + 1, Tail(q)) /\ Within(n + 1, Head(q).param_version)
           /\ \A m \in Messages :
                 Within(n + Len(q) + 1, m.param_version) => ResultsAged(n, Append(q, m))
  <1>1. \A m \in Messages : m.param_version \in Nat
    BY DEF Messages
  <1>2. ASSUME NEW k \in Nat, k <= n, NEW i \in 1..Len(q) PROVE Within(k + i, q[i].param_version)
    <2>1. k + i \in Int /\ n + i \in Int /\ k + i <= n + i
      BY <1>2
    <2> QED
      BY <1>1, <2>1, WithinLess DEF ResultsAged
  <1>3. ASSUME q # <<>>
        PROVE  ResultsAged(n + 1, Tail(q)) /\ Within(n + 1, Head(q).param_version)
    <2> DEFINE t == Tail(q)
    <2>1. /\ Len(q) \in Nat /\ Len(q) >= 1 /\ Len(t) = Len(q) - 1 /\ Head(q) = q[1]
          /\ \A i \in 1..(Len(q) - 1) : t[i] = q[i + 1]
      BY <1>3, Ends
    <2> HIDE DEF t
    <2>2. ASSUME NEW i \in 1..Len(t) PROVE Within(n + 1 + i, t[i].param_version)
      <3>1. i + 1 \in 1..Len(q) /\ t[i] = q[i + 1] /\ n + 1 + i = n + (i + 1)
        BY <2>1
      <3> QED
        BY <3>1 DEF ResultsAged
    <2>3. 1 \in 1..Len(q)
      BY <2>1
    <2> QED
      BY <2>1, <2>2, <2>3 DEF ResultsAged, t
  <1>4. ASSUME NEW m \in Messages, Within(n + Len(q) + 1, m.param_version)
        PROVE  ResultsAged(n, Append(q, m))
    <2> DEFINE a == Append(q, m)
    <2>1. /\ Len(q) \in Nat /\ Len(a) = Len(q) + 1 /\ a[Len(q) + 1] = m
          /\ \A i \in 1..Len(q) : a[i] = q[i]
      BY Ends
    <2> HIDE DEF a
    <2>2. ASSUME NEW i \in 1..Len(a) PROVE Within(n + i, a[i].param_version)
      <3>1. CASE i \in 1..Len(q)
        BY <2>1, <3>1 DEF ResultsAged
      <3>2. CASE i = Len(q) + 1
        <4>1. n + i = n + Len(q) + 1
          BY <2>1, <3>2
        <4> QED
          BY <1>4, <2>1, <3>2, <4>1
      <3> QED
        BY <2>1, <3>1, <3>2
    <2> QED
      BY <2>2 DEF ResultsAged, a
  <1> QED
    BY <1>2, <1>3, <1>4 DEF ResultsAged

LEMMA BatchAgedAppend ==
    ASSUME NEW q \in Seq(Messages), NEW m \in Messages, NEW f \in Nat, BatchAged(f, q),
           Within(f + 1, m.param_version)
    PROVE  BatchAged(f + 1, Append(q, m))
  <1> DEFINE a == Append(q, m)
  <1>1. /\ Len(q) \in Nat /\ Len(a) = Len(q) + 1 /\ a[Len(q) + 1] = m
        /\ \A i \in 1..Len(q) : a[i] = q[i]
    BY Ends
  <1> HIDE DEF a
  <1>2. ASSUME NEW i \in 1..Len(a) PROVE Within((f + 1) - Len(a) + i, a[i].param_version)
    <2>1. CASE i \in 1..Len(q)
      <3>1. (f + 1) - Len(a) + i = f - Len(q) + i
        BY <1>1, <2>1
      <3> QED
        BY <1>1, <2>1, <3>1 DEF BatchAged
    <2>2. CASE i = Len(q) + 1
      <3>1. (f + 1) - Len(a) + i = f + 1
        BY <1>1, <2>2
      <3> QED
        BY <1>1, <2>2, <3>1
    <2> QED
      BY <1>1, <2>1, <2>2
  <1> QED
    BY <1>2 DEF BatchAged, a

LEMMA AgeKept ==
    ASSUME AgeInv, UNCHANGED <<queue, putting, result_queue>>, Fetched' = Fetched,
           batch' \in {batch, <<>>}, trainer' \in Fetching => trainer \in Fetching
    PROVE  AgeInv'
  <1>1. BatchAged(Fetched, <<>>)
    BY EmptySeq DEF BatchAged
  <1>2. OnTheWay' = OnTheWay
    BY DEF OnTheWay
  <1> QED
    BY <1>1, <1>2 DEF AgeInv

\* A sample is finished with the version of the rollouter, which nothing outstanding is
\* too far ahead of.
LEMMA AgeFinished ==
    ASSUME TypeInv, LeadInv, AgeInv, NEW s \in Samples, Finish(s) PROVE AgeInv'
  <1> DEFINE m == Message(s, rollout_version)
             n == Fetched + Count(queue) + OnTheWay
  <1>1. PartTypes /\ TermsAdd
    BY Parts, Terms
  <1>2. /\ s \in running /\ result_queue' = Append(result_queue, m)
        /\ UNCHANGED <<queue, putting>> /\ UNCHANGED trainVars
    BY DEF Finish, EndTask, queueVars
  <1>3. m \in Messages /\ m.param_version = rollout_version
    BY DEF Message, Messages, TypeInv, VersionInv
  <1>4. Fetched' = Fetched /\ trainer' = trainer /\ batch' = batch /\ OnTheWay' = OnTheWay
    BY <1>2 DEF trainVars, Fetched, OnTheWay
  <1> HIDE DEF m
  <1>5. SUFFICES ASSUME trainer \in Fetching PROVE ResultsAged(n, result_queue')
    BY <1>2, <1>4 DEF AgeInv
  <1>6. n \in Nat /\ result_queue \in Seq(Messages) /\ ResultsAged(n, result_queue)
    <2>1. n \in Nat
      BY <1>1 DEF PartTypes, TermsAdd
    <2>2. result_queue \in Seq(Messages)
      BY DEF TypeInv, VersionInv
    <2>3. ResultsAged(n, result_queue)
      BY <1>5 DEF AgeInv
    <2> QED
      BY <2>1, <2>2, <2>3
  <1>7. Within(n + Len(result_queue) + 1, rollout_version)
    <2>1. Cardinality(running) >= 1
      <3>1. IsFiniteSet(running) /\ Cardinality(running) \in Nat
        BY RunningFinite DEF TypeInv, StreamInv
      <3>2. Cardinality(running) # 0
        BY <1>2, <3>1, FS_EmptySet
      <3> QED
        BY <3>1, <3>2
    <2>2. Gap <= max_required_samples + 2
      BY <1>5 DEF LeadInv, Limited
    <2>3. /\ Cardinality(running) \in Nat /\ Len(cancel_queue) \in Nat /\ Len(result_queue) \in Nat
          /\ Count(queue) \in Nat /\ Fetched \in Nat /\ Until(rollout_version) \in Nat
          /\ max_required_samples \in Nat
      BY <1>1 DEF PartTypes
    <2>4. /\ InHand \in Nat /\ OnTheWay \in Nat
          /\ Outstanding = InHand + Cardinality(running) + Len(cancel_queue)
                              + (Len(result_queue) + OnTheWay + Count(queue))
      BY <1>1 DEF TermsAdd, Ended
    <2>5. \A f, h, r, c, q, p, k, u, x \in Nat :
             (f + (h + r + c + (q + p + k))) - u <= x + 2 /\ r >= 1
             => (f + k + p) + q + 1 <= u + x + 2
      OBVIOUS
    <2>6. (Fetched + (InHand + Cardinality(running) + Len(cancel_queue)
                        + (Len(result_queue) + OnTheWay + Count(queue)))) - Until(rollout_version)
             <= max_required_samples + 2
      <3>1. \A f, o, u \in Nat : f + o - u = (f + o) - u
        OBVIOUS
      <3>2. Outstanding \in Nat
        BY <1>1 DEF PartTypes
      <3>3. Gap = (Fetched + Outstanding) - Until(rollout_version)
        BY <2>3, <3>1, <3>2 DEF Gap
      <3> QED
        BY <2>2, <2>4, <3>3
    <2> QED
      BY <2>1, <2>3, <2>4, <2>5, <2>6 DEF Within
  <1> QED
    BY <1>2, <1>3, <1>6, <1>7, ResultsAgedMoves

LEMMA AgeConsumed == ASSUME TypeInv, AgeInv, Consume PROVE AgeInv'
  <1>1. PartTypes
    BY Parts
  <1>2. /\ OnTheWay = 0 /\ result_queue # <<>> /\ putting' = Head(result_queue)
        /\ result_queue' = Tail(result_queue) /\ UNCHANGED queue /\ UNCHANGED trainVars
    BY OneIfType DEF Consume, OnTheWay
  <1>3. Fetched' = Fetched /\ trainer' = trainer /\ batch' = batch
    BY <1>2 DEF trainVars, Fetched
  <1>4. OnTheWay' = 1
    <2>1. Head(result_queue) \in Messages
      BY <1>2, Ends DEF TypeInv, VersionInv
    <2> QED
      BY <1>2, <2>1, QueuedFacts, OneIfType DEF OnTheWay
  <1>5. ASSUME trainer \in Fetching
        PROVE  /\ MessageAged(Fetched + Count(queue), putting')
               /\ ResultsAged(Fetched + Count(queue) + 1, result_queue')
    <2>1. Fetched + Count(queue) \in Nat /\ Fetched + Count(queue) + 0 = Fetched + Count(queue)
      BY <1>1 DEF PartTypes
    <2>2. ResultsAged(Fetched + Count(queue), result_queue) /\ result_queue \in Seq(Messages)
      BY <1>2, <1>5, <2>1 DEF AgeInv, TypeInv, VersionInv
    <2> QED
      BY <1>2, <2>1, <2>2, ResultsAgedMoves DEF MessageAged
  <1> QED
    BY <1>2, <1>3, <1>4, <1>5 DEF AgeInv

\* A message joins the queue: what is behind it gets no further from the front.
LEMMA AgePut == ASSUME TypeInv, AgeInv, PutSample \/ PutEndOfStream PROVE AgeInv'
  <1>1. PartTypes /\ TermsAdd
    BY Parts, Terms
  <1>2. /\ UNCHANGED <<result_queue, trainVars>> /\ queue \in Seq(Queued)
        /\ Len(queue) <= max_queue_size /\ result_queue \in Seq(Messages)
    BY DEF PutSample, PutEndOfStream, MainAt, heldVars, TypeInv, VersionInv
  <1>3. Fetched' = Fetched /\ trainer' = trainer /\ batch' = batch /\ Fetched \in Nat
    BY <1>1, <1>2 DEF trainVars, Fetched, PartTypes
  <1>4. \A b \in BOOLEAN : OneIf(b) \in {0, 1}
    BY OneIfType
  <1>5. Count(queue) \in Nat /\ OnTheWay \in Nat
    BY <1>1 DEF PartTypes, TermsAdd
  <1>6. SUFFICES ASSUME trainer \in Fetching
                 PROVE  /\ QueueAged(Fetched, queue')
                        /\ MessageAged(Fetched + Count(queue'), putting')
                        /\ ResultsAged(Fetched + Count(queue') + OnTheWay', result_queue)
    BY <1>2, <1>3 DEF AgeInv
  <1>7. /\ QueueAged(Fetched, queue) /\ MessageAged(Fetched + Count(queue), putting)
        /\ ResultsAged(Fetched + Count(queue) + OnTheWay, result_queue)
    BY <1>6 DEF AgeInv
  <1>8. CASE PutSample
    <2>1. Put(putting) /\ putting \in Queued /\ OnTheWay = 1 /\ OnTheWay' = 0 /\ putting' = EndOfStream
      BY <1>8, OneIfType DEF PutSample, OnTheWay, TypeInv, VersionInv
    <2>2. QueueAged(Fetched, queue')
      BY <1>2, <1>3, <1>7, <2>1, PutAged
    <2>3. Count(queue') \in Nat /\ Count(queue') <= Count(queue) + 1
      BY <1>2, <2>1, CountPut DEF OnTheWay
    <2>4. \A f, c, d \in Nat : d <= c + 1 => f + d + 0 \in Nat /\ f + c + 1 \in Nat /\ f + d + 0 <= f + c + 1
      OBVIOUS
    <2>5. ResultsAged(Fetched + Count(queue') + 0, result_queue)
      BY <1>2, <1>3, <1>5, <1>7, <2>1, <2>3, <2>4, ResultsAgedMoves
    <2> QED
      BY <2>1, <2>2, <2>5 DEF MessageAged
  <1>9. CASE PutEndOfStream
    <2>1. Put(EndOfStream) /\ EndOfStream \in Queued /\ OnTheWay' = OnTheWay /\ putting' = putting
      BY <1>9 DEF PutEndOfStream, MainAt, OnTheWay, Queued
    <2>2. QueueAged(Fetched, queue')
      BY <1>2, <1>3, <1>7, <2>1, PutAged DEF MessageAged
    <2>3. OneIf(EndOfStream # EndOfStream) = 0
      BY OneIfType
    <2>4. Count(queue') \in Nat /\ Count(queue') <= Count(queue)
      BY <1>2, <1>5, <2>1, <2>3, CountPut
    <2>5. \A f, c, d, p \in Nat : d <= c =>
             /\ f + d + p \in Nat /\ f + c + p \in Nat /\ f + d + p <= f + c + p
             /\ f + d + 1 \in Int /\ f + c + 1 \in Int /\ f + d + 1 <= f + c + 1
      OBVIOUS
    <2>6. ResultsAged(Fetched + Count(queue') + OnTheWay, result_queue)
      BY <1>2, <1>3, <1>5, <1>7, <2>4, <2>5, ResultsAgedMoves
    <2>7. MessageAged(Fetched + Count(queue'), putting)
      <3>1. putting.param_version \in Nat
        BY QueuedFacts DEF TypeInv, VersionInv
      <3> QED
        BY <1>3, <1>5, <1>7, <2>4, <2>5, <3>1, WithinLess DEF MessageAged
    <2> QED
      BY <2>1, <2>2, <2>6, <2>7
  <1> QED
    BY <1>8, <1>9

\* The trainer fetches the first message: the place of all others in the order of
\* fetching stays.
LEMMA AgeFetched == ASSUME TypeInv, AgeInv, GetSample PROVE AgeInv'
  <1> DEFINE h == Head(queue)
  <1>1. PartTypes /\ TermsAdd
    BY Parts, Terms
  <1>2. /\ UNCHANGED <<result_queue, putting, local_trigger_step, current_param_version>>
        /\ queue # <<>> /\ queue' = Tail(queue) /\ trainer = "collecting"
        /\ h = EndOfStream => trainer' = "leaving"
        /\ h # EndOfStream => batch' = Append(batch, h)
    BY DEF GetSample, heldVars
  <1>3. SUFFICES ASSUME trainer' \in Fetching PROVE AgeInv'
    BY DEF AgeInv
  <1>4. h \in Messages /\ h # EndOfStream /\ batch' = Append(batch, h)
    BY <1>2, <1>3, Ends DEF Fetching, TypeInv, VersionInv, Queued
  <1>5. OneIf(h # EndOfStream) = 1
    BY <1>4, OneIfType
  <1>6. Fetched' = Fetched + 1
    <2>1. Len(batch') = Len(batch) + 1 /\ Len(batch) \in Nat
      BY <1>4, Ends DEF TypeInv, TrainerInv
    <2>2. current_param_version \in Nat /\ local_trigger_step \in Nat \ {0}
      BY AsyncAssumption DEF TypeInv, VersionInv, TrainerInv
    <2> QED
      BY <1>2, <2>1, <2>2, OneMoreFetched DEF Fetched, FetchedOf
  <1>7. Count(queue') = Count(queue) - 1 /\ OnTheWay' = OnTheWay
    BY <1>2, <1>5, AheadTail DEF TypeInv, VersionInv, OnTheWay
  <1>8. /\ BatchAged(Fetched, batch) /\ QueueAged(Fetched, queue)
        /\ MessageAged(Fetched + Count(queue), putting)
        /\ ResultsAged(Fetched + Count(queue) + OnTheWay, result_queue)
    BY <1>2 DEF AgeInv, Fetching
  <1>9. Fetched \in Nat /\ Count(queue) \in Nat /\ OnTheWay \in Nat
    BY <1>1 DEF PartTypes, TermsAdd
  <1> HIDE DEF h
  <1>10. QueueAged(Fetched + 1, queue')
    <2>1. Fetched + 1 \in Nat /\ Fetched + 1 <= Fetched + OneIf(Head(queue) # EndOfStream)
      BY <1>5, <1>9 DEF h
    <2> QED
      BY <1>2, <1>8, <1>9, <2>1, QueueAgedTail DEF TypeInv, VersionInv
  <1>11. BatchAged(Fetched + 1, batch')
    <2>1. 1 \in 1..Len(queue) /\ queue[1] = h
      BY <1>2, Ends DEF h, TypeInv, VersionInv
    <2>2. Ahead(queue, 1) = 1
      <3>1. {j \in 1..1 : queue[j] # EndOfStream} = {1}
        BY <1>4, <2>1
      <3> QED
        BY <3>1, FS_Singleton DEF Ahead
    <2>3. Within(Fetched + 1, h.param_version)
      BY <1>4, <1>8, <2>1, <2>2 DEF QueueAged
    <2> QED
      BY <1>4, <1>8, <1>9, <2>3, BatchAgedAppend DEF TypeInv, TrainerInv
  <1>12. /\ (Fetched + 1) + (Count(queue) - 1) = Fetched + Count(queue)
         /\ (Fetched + 1) + (Count(queue) - 1) + OnTheWay = Fetched + Count(queue) + OnTheWay
    BY <1>9
  <1>13. /\ MessageAged(Fetched' + Count(queue'), putting')
         /\ ResultsAged(Fetched' + Count(queue') + OnTheWay', result_queue')
    BY <1>2, <1>6, <1>7, <1>8, <1>12
  <1> QED
    BY <1>6, <1>10, <1>11, <1>13 DEF AgeInv

LEMMA AgeNext == TypeInv /\ VersionsMeet /\ LeadInv /\ AgeInv /\ [Next]_vars => AgeInv'
  <1> SUFFICES ASSUME TypeInv, LeadInv, AgeInv, [Next]_vars PROVE AgeInv'
    OBVIOUS
  <1> USE DEF heldVars, queueVars
  <1>1. ASSUME UNCHANGED <<queue, putting, result_queue, trainVars>> PROVE AgeInv'
    <2>1. Fetched' = Fetched
      BY <1>1 DEF trainVars, Fetched
    <2> QED
      BY <1>1, <2>1, AgeKept DEF trainVars
  <1>2. CASE Feed \/ Processor \/ Monitor
    BY <1>1, <1>2 DEF Feed, Processor, PauseSelf, TakeInterrupted, AwaitPending, TakePending, Reap,
       NothingToReap, Idle, Park, Wake, Submit, Monitor, MonitorChecks, MonitorWakes, MonitorResumes
  <1>3. CASE Main
    <2>1. CASE AwaitFeed \/ AwaitProcessor \/ JoinResults \/ StopRunning
      BY <1>1, <2>1 DEF AwaitFeed, AwaitProcessor, JoinResults, StopRunning, MainAt
    <2> QED
      BY <1>3, <2>1, AgePut DEF Main
  <1>4. CASE Trainer
    <2>1. CASE Train
      <3>1. /\ UNCHANGED <<queue, putting, result_queue>> /\ batch' = <<>> /\ trainer \in Fetching
        BY <2>1 DEF Train, Fetching
      <3> QED
        BY <2>1, <3>1, TrainFetched, AgeKept
    <2>2. CASE Leave \/ Validated
      BY <2>2 DEF Leave, Validated, AgeInv, Fetching
    <2> QED
      BY <1>4, <2>1, <2>2, AgeFetched DEF Trainer
  <1>5. CASE Sync
    <2>1. UNCHANGED <<queue, putting, result_queue, batch, local_trigger_step, current_param_version>>
      BY <1>5 DEF Sync, SyncAt, CallPause, Pause, PauseEnds, CopyWeights, UpdateVersion,
         ResetStaleness, EndUpdate, CallResume, Resume
    <2>2. Fetched' = Fetched
      BY <2>1 DEF Fetched
    <2>3. trainer' \in Fetching => trainer \in Fetching
      BY <1>5 DEF Sync, CallPause, Pause, PauseEnds, CopyWeights, UpdateVersion, ResetStaleness,
         EndUpdate, CallResume, Resume, Fetching
    <2> QED
      BY <2>1, <2>2, <2>3, AgeKept
  <1>6. ASSUME NEW s \in Samples, Interrupt(s) \/ Fail(s) PROVE AgeInv'
    BY <1>1, <1>6 DEF Interrupt, Fail, EndTask
  <1>7. CASE UNCHANGED vars
    BY <1>1, <1>7 DEF vars
  <1> QED
    BY <1>2, <1>3, <1>4, <1>5, <1>6, <1>7, AgeFinished, AgeConsumed, AgePut DEF Next

StalenessInv == VersionsMeet /\ LeadInv /\ AgeInv

THEOREM StalenessInvariant == Spec => []StalenessInv
  <1>1. Init => StalenessInv
    <2> SUFFICES ASSUME Init PROVE StalenessInv
      OBVIOUS
    <2> USE DEF Init
    <2>1. Cardinality(running) = 0 /\ Len(<<>>) = 0
      BY FS_EmptySet, EmptySeq
    <2>2. Count(<<>>) = 0
      <3>1. {i \in 1..Len(<<>>) : <<>>[i] # EndOfStream} = {}
        BY <2>1
      <3> QED
        BY <3>1, FS_EmptySet DEF Count
    <2>3. OneIf(rollout_sample # NoSample) = 0 /\ OneIf(putting # EndOfStream) = 0
      BY OneIfType
    <2>4. Outstanding = 0
      BY <2>1, <2>2, <2>3 DEF Outstanding
    <2>5. SamplesOfVersion \in Nat /\ required_samples \in Nat /\ max_required_samples \in Nat
      BY UntilGrows, AsyncAssumption, Limits
    <2>6. Fetched = 0
      BY <2>1, <2>5 DEF Fetched
    <2>7. Gap <= 0
      BY <2>4, <2>5, <2>6, UntilGrows DEF Gap
    <2>8. Gap \in Int
      BY <2>4, <2>6, UntilGrows DEF Gap
    <2>9. LeadInv
      BY <2>4, <2>5, <2>7, <2>8 DEF LeadInv, Limited
    <2>10. AgeInv
      BY <2>1 DEF AgeInv, BatchAged, QueueAged, MessageAged, ResultsAged
    <2>11. VersionsMeet
      BY DEF VersionsMeet, Copying
    <2> QED
      BY <2>9, <2>10, <2>11 DEF StalenessInv
  <1>2. TypeInv /\ StalenessInv /\ [Next]_vars => StalenessInv'
    BY VersionsMeetNext, LeadNext, PartsNext, AgeNext DEF StalenessInv
  <1> QED
    BY <1>1, <1>2, TypeInvariant, PTL DEF Spec

\* However pauses, syncs and self-imposed pauses interleave and whatever += 1 of the
\* processor a recount overwrites, never more than the limit and two are outstanding.
THEOREM LeadIsBounded == Spec => []BoundedLead
  <1>1. StalenessInv => BoundedLead
    BY DEF StalenessInv, LeadInv, Limited, BoundedLead
  <1> QED
    BY <1>1, StalenessInvariant, PTL

\* No version gets further ahead of the trainer than that either, and what is trained on is
\* no older than the versions that make up the limit, and one more.
THEOREM StalenessIsBounded == Spec => []BoundedStaleness
  <1>1. ASSUME TypeInv, StalenessInv PROVE BoundedStaleness
    <2>1. PartTypes
      BY <1>1, Parts
    <2>2. ASSUME trainer \in Fetching
          PROVE  Fetched + Outstanding <= Until(rollout_version) + max_required_samples + 2
      <3>1. Gap <= max_required_samples + 2
        BY <1>1, <2>2 DEF StalenessInv, LeadInv, Limited
      <3>2. \A f, o, u, x \in Nat : f + o - u <= x + 2 => f + o <= u + x + 2
        OBVIOUS
      <3> QED
        BY <2>1, <3>1, <3>2 DEF Gap, PartTypes
    <2>3. ASSUME trainer = "training", NEW i \in 1..Len(batch)
          PROVE  current_param_version - batch[i].param_version
                    <= (max_required_samples + 1) \div SamplesOfVersion + 1
      <3> DEFINE v == current_param_version
                 p == batch[i].param_version
                 B == SamplesOfVersion
                 x == max_required_samples
                 a == (local_trigger_step - 1) * required_samples
      <3>1. /\ v \in Nat /\ p \in Nat /\ x \in Nat /\ B \in Nat /\ B >= 1 /\ a \in Nat
            /\ Len(batch) = required_samples /\ i \in Nat /\ i >= 1 /\ required_samples \in Nat
        <4>1. batch[i] \in Messages
          BY <1>1 DEF TypeInv, TrainerInv
        <4>2. required_samples \in Nat /\ local_trigger_step - 1 \in Nat
          BY <1>1, AsyncAssumption DEF TypeInv, TrainerInv
        <4>3. \A m, n \in Nat : m * n \in Nat
          OBVIOUS
        <4>4. p \in Nat
          BY <4>1 DEF Messages
        <4>5. Len(batch) = required_samples /\ v \in Nat
          BY <1>1, <2>3 DEF TypeInv, TrainerInv, VersionInv
        <4>6. a \in Nat
          BY <4>2, <4>3
        <4>7. i \in Nat /\ i >= 1 /\ x \in Nat /\ B \in Nat /\ B >= 1
          BY <2>3, <4>2, <4>5, Limits, UntilGrows
        <4> QED
          BY <4>2, <4>4, <4>5, <4>6, <4>7
      <3>2. Within(Fetched - Len(batch) + i, p)
        BY <1>1, <2>3 DEF StalenessInv, AgeInv, BatchAged, Fetching
      <3>3. Fetched = v * B + a + Len(batch) /\ v * B \in Nat
        <4>1. \A m, n \in Nat : m * n \in Nat
          OBVIOUS
        <4> QED
          BY <3>1, <4>1 DEF Fetched
      <3> HIDE DEF v, p, B, x, a
      <3>4. Fetched - Len(batch) + i = v * B + a + i
        BY <3>1, <3>3
      <3>5. v * B + a + i <= (p + 1) * B + x + 2
        BY <3>2, <3>4 DEF Within, Until, B, x
      <3>6. v * B <= (p + 1) * B + x + 1
        BY <3>1, <3>3, <3>5
      <3>7. (v - (p + 1)) * B <= x + 1
        BY <3>1, <3>6
      <3>8. v - (p + 1) <= (x + 1) \div B
        <4> DEFINE q == (x + 1) \div B
                   d == v - (p + 1)
        <4>1. q \in Int /\ x + 1 < (q + 1) * B
          BY <3>1
        <4>2. d \in Int /\ d * B <= x + 1
          BY <3>1, <3>7
        <4> HIDE DEF q, d
        <4>3. d * B < (q + 1) * B
          BY <3>1, <4>1, <4>2
        <4>4. d < q + 1
          BY <3>1, <4>1, <4>2, <4>3
        <4>5. d <= q
          BY <4>1, <4>2, <4>4
        <4> QED
          BY <4>5 DEF d, q
      <3>9. (x + 1) \div B \in Int
        BY <3>1
      <3>10. v - p <= (x + 1) \div B + 1
        BY <3>1, <3>8, <3>9
      <3> QED
        BY <3>10 DEF v, p, x, B
    <2> QED
      BY <2>2, <2>3 DEF BoundedStaleness, Fetching, Until
  <1> QED
    BY <1>1, TypeInvariant, StalenessInvariant, PTL
-----------------------------------------------------------------------------
(* Accounts.  Every sample is in one place, and a step moves one, or a batch, from   *)
(* its place to another.                                                             *)

OneEach(q) ==
    \A i, j \in 1..Len(q) : q[i].sample = q[j].sample /\ q[i].sample # NoSample => i = j

LEMMA SamplesAppend ==
    ASSUME NEW q \in Seq(Queued), NEW m \in Queued
    PROVE  /\ SamplesOf(Append(q, m)) = SamplesOf(q) \cup ({m.sample} \ {NoSample})
           /\ OneEach(q) /\ m.sample \notin SamplesOf(q) => OneEach(Append(q, m))
  <1> DEFINE a == Append(q, m)
  <1>1. /\ Len(q) \in Nat /\ Len(a) = Len(q) + 1 /\ a[Len(q) + 1] = m
        /\ \A i \in 1..Len(q) : a[i] = q[i] /\ i \in 1..Len(a)
        /\ \A i \in 1..Len(a) : i \in 1..Len(q) \/ i = Len(q) + 1
        /\ Len(q) + 1 \in 1..Len(a)
    BY Ends
  <1> HIDE DEF a
  <1>2. ASSUME NEW s \in SamplesOf(a) PROVE s \in SamplesOf(q) \cup ({m.sample} \ {NoSample})
    <2>1. PICK i \in 1..Len(a) : s = a[i].sample /\ s # NoSample
      BY DEF SamplesOf
    <2> QED
      BY <1>1, <2>1 DEF SamplesOf
  <1>3. SamplesOf(q) \cup ({m.sample} \ {NoSample}) \subseteq SamplesOf(a)
    BY <1>1 DEF SamplesOf
  <1>4. ASSUME OneEach(q), m.sample \notin SamplesOf(q), NEW i \in 1..Len(a), NEW j \in 1..Len(a),
               a[i].sample = a[j].sample, a[i].sample # NoSample
        PROVE  i = j
    <2>1. \A k \in 1..Len(q) : q[k].sample # NoSample => q[k].sample # m.sample
      BY <1>4 DEF SamplesOf
    <2>2. CASE i \in 1..Len(q) /\ j \in 1..Len(q)
      BY <1>1, <1>4, <2>2 DEF OneEach
    <2>3. CASE ~(i \in 1..Len(q) /\ j \in 1..Len(q))
      BY <1>1, <1>4, <2>1, <2>3
    <2> QED
      BY <2>2, <2>3
  <1>5. SamplesOf(a) = SamplesOf(q) \cup ({m.sample} \ {NoSample})
    BY <1>2, <1>3
  <1>6. OneEach(q) /\ m.sample \notin SamplesOf(q) => OneEach(a)
    BY <1>4 DEF OneEach
  <1> QED
    BY <1>5, <1>6 DEF a

LEMMA SamplesTail ==
    ASSUME NEW q \in Seq(Queued), q # <<>>, OneEach(q)
    PROVE  /\ SamplesOf(Tail(q)) = SamplesOf(q) \ {Head(q).sample} /\ OneEach(Tail(q))
           /\ {Head(q).sample} \ {NoSample} \subseteq SamplesOf(q)
  <1> DEFINE t == Tail(q)
  <1>1. /\ Len(q) \in Nat /\ Len(q) >= 1 /\ Head(q) = q[1] /\ 1 \in 1..Len(q)
        /\ \A i \in 1..Len(t) : t[i] = q[i + 1] /\ i + 1 \in 1..Len(q) /\ i + 1 # 1 /\ i \in Nat
        /\ \A i \in 1..Len(q) : i = 1 \/ (i - 1 \in 1..Len(t) /\ (i - 1) + 1 = i)
    BY Ends
  <1> HIDE DEF t
  <1>2. ASSUME NEW s \in SamplesOf(t) PROVE s \in SamplesOf(q) \ {q[1].sample}
    <2>1. PICK i \in 1..Len(t) : s = t[i].sample /\ s # NoSample
      BY DEF SamplesOf
    <2>2. i + 1 \in 1..Len(q) /\ s = q[i + 1].sample /\ i + 1 # 1
      BY <1>1, <2>1
    <2>3. s # q[1].sample
      BY <1>1, <2>1, <2>2 DEF OneEach
    <2> QED
      BY <2>1, <2>2, <2>3 DEF SamplesOf
  <1>3. ASSUME NEW s \in SamplesOf(q) \ {q[1].sample} PROVE s \in SamplesOf(t)
    <2>1. PICK i \in 1..Len(q) : s = q[i].sample /\ s # NoSample
      BY DEF SamplesOf
    <2>2. i - 1 \in 1..Len(t) /\ t[i - 1] = q[(i - 1) + 1] /\ (i - 1) + 1 = i
      BY <1>1, <1>3, <2>1
    <2> QED
      BY <2>1, <2>2 DEF SamplesOf
  <1>4. ASSUME NEW i \in 1..Len(t), NEW j \in 1..Len(t),
               t[i].sample = t[j].sample, t[i].sample # NoSample
        PROVE  i = j
    <2>1. /\ i + 1 \in 1..Len(q) /\ j + 1 \in 1..Len(q) /\ q[i + 1].sample = q[j + 1].sample
          /\ q[i + 1].sample # NoSample /\ i \in Nat /\ j \in Nat
      BY <1>1, <1>4
    <2>2. i + 1 = j + 1
      BY <2>1 DEF OneEach
    <2> QED
      BY <2>1, <2>2
  <1>5. SamplesOf(t) = SamplesOf(q) \ {q[1].sample}
    BY <1>2, <1>3
  <1>6. {q[1].sample} \ {NoSample} \subseteq SamplesOf(q)
    BY <1>1 DEF SamplesOf
  <1>7. OneEach(t)
    BY <1>4 DEF OneEach
  <1> QED
    BY <1>1, <1>5, <1>6, <1>7 DEF t

\* As many samples as messages that carry one.
LEMMA SamplesCounted ==
    ASSUME NEW q \in Seq(Queued), OneEach(q)
    PROVE  IsFiniteSet(SamplesOf(q)) /\ Cardinality(SamplesOf(q)) = Count(q)
  <1> DEFINE D == {i \in 1..Len(q) : q[i] # EndOfStream}
             f == [i \in D |-> q[i].sample]
  <1>1. Len(q) \in Nat
    OBVIOUS
  <1>2. IsFiniteSet(D)
    BY <1>1, AheadType
  <1>3. \A i \in 1..Len(q) : q[i] # EndOfStream <=> q[i].sample # NoSample
    <2>1. \A m \in Queued : m # EndOfStream <=> m.sample # NoSample
      <3>1. \A m \in Messages : m.sample # NoSample
        BY DEF Messages, Samples, NoSample
      <3> QED
        BY <3>1, QueuedFacts DEF Queued
    <2> QED
      BY <2>1
  <1>4. f \in [D -> SamplesOf(q)]
    BY <1>3 DEF SamplesOf
  <1>5. \A i, j \in D : f[i] = f[j] => i = j
    BY <1>3 DEF OneEach
  <1>6. \A s \in SamplesOf(q) : \E i \in D : f[i] = s
    BY <1>3 DEF SamplesOf
  <1>7. Count(q) = Cardinality(D)
    BY DEF Count
  <1> HIDE DEF D, f
  <1>8. IsInjective(f)
    BY <1>4, <1>5 DEF IsInjective
  <1>9. f \in Bijection(D, SamplesOf(q))
    BY <1>4, <1>6, <1>8 DEF Bijection, Injection, Surjection
  <1>10. ExistsBijection(D, SamplesOf(q))
    BY <1>9 DEF ExistsBijection
  <1> QED
    BY <1>2, <1>7, <1>10, FS_Bijection

LEMMA Indices == \A n \in Nat : IsFiniteSet(1..n) /\ Cardinality(1..n) = n
  <1>1. \A n \in Nat : n - 1 + 1 = n /\ (n = 0 \/ 1 <= n)
    OBVIOUS
  <1>2. \A n \in Nat : /\ IsFiniteSet(1..n)
                       /\ Cardinality(1..n) = IF 1 > n THEN 0 ELSE n - 1 + 1
    BY FS_Interval
  <1> QED
    BY <1>1, <1>2

LEMMA MessagesCounted ==
    ASSUME NEW q \in Seq(Messages)
    PROVE  q \in Seq(Queued) /\ Count(q) = Len(q)
  <1>1. {i \in 1..Len(q) : q[i] # EndOfStream} = 1..Len(q)
    <2>1. \A m \in Messages : m # EndOfStream
      BY QueuedFacts
    <2>2. \A i \in 1..Len(q) : q[i] \in Messages
      OBVIOUS
    <2> QED
      BY <2>1, <2>2
  <1>2. Len(q) \in Nat /\ Cardinality(1..Len(q)) = Len(q)
    BY Indices
  <1>3. q \in Seq(Queued)
    BY DEF Queued
  <1> QED
    BY <1>1, <1>2, <1>3 DEF Count

LEMMA ElementsCounted ==
    ASSUME NEW S, NEW q \in Seq(S), Distinct(q)
    PROVE  IsFiniteSet(Elements(q)) /\ Cardinality(Elements(q)) = Len(q)
  <1> DEFINE f == [i \in 1..Len(q) |-> q[i]]
  <1>1. Len(q) \in Nat /\ IsFiniteSet(1..Len(q)) /\ Cardinality(1..Len(q)) = Len(q)
    BY Indices
  <1>2. f \in [1..Len(q) -> Elements(q)]
    BY DEF Elements
  <1>3. \A i, j \in 1..Len(q) : f[i] = f[j] => i = j
    BY DEF Distinct
  <1>4. \A s \in Elements(q) : \E i \in 1..Len(q) : f[i] = s
    BY DEF Elements
  <1> HIDE DEF f
  <1>5. IsInjective(f)
    BY <1>2, <1>3 DEF IsInjective
  <1>6. f \in Bijection(1..Len(q), Elements(q))
    BY <1>2, <1>4, <1>5 DEF Bijection, Injection, Surjection
  <1>7. ExistsBijection(1..Len(q), Elements(q))
    BY <1>6 DEF ExistsBijection
  <1> QED
    BY <1>1, <1>7, FS_Bijection

\* The places, and the samples in each.
Places == {"hand", "running", "interrupted", "finished", "sent", "queued", "fetched", "trained",
           "failed", "dropped"}

Hand == {rollout_sample} \ {NoSample}
Sent == {putting.sample} \ {NoSample}

Where ==
    [hand |-> Hand, running |-> running, interrupted |-> Elements(cancel_queue),
     finished |-> SamplesOf(result_queue), sent |-> Sent, queued |-> SamplesOf(queue),
     fetched |-> SamplesOf(batch), trained |-> trained, failed |-> failed,
     dropped |-> dropped \ {NoSample}]

OnePlace(where) == \A p, r \in Places : p # r => where[p] \cap where[r] = {}
InPlaces(where) == UNION {where[p] : p \in Places}

AccountInv ==
    /\ OnePlace(Where) /\ InPlaces(Where) = TakenSamples
    /\ OneEach(result_queue) /\ OneEach(queue) /\ OneEach(batch) /\ Distinct(cancel_queue)
    /\ processor \notin WithSample \cup {"raised"} => rollout_sample = NoSample

\* The samples X go from the place a to the place b.
LEMMA Moved ==
    ASSUME NEW w, NEW v, OnePlace(w), NEW a \in Places, NEW b \in Places, a # b,
           NEW X, X \subseteq w[a], v[a] = w[a] \ X, v[b] = w[b] \cup X,
           \A p \in Places \ {a, b} : v[p] = w[p]
    PROVE  OnePlace(v) /\ InPlaces(v) = InPlaces(w)
  <1> HIDE DEF Places
  <1>1. ASSUME NEW p \in Places, NEW r \in Places, p # r PROVE v[p] \cap v[r] = {}
    <2>1. \A q \in Places : v[q] \subseteq w[q] \cup X /\ (q # b => v[q] \subseteq w[q])
      OBVIOUS
    <2>2. \A q \in Places : q # b => v[q] \cap X = {}
      <3>1. \A q \in Places \ {a, b} : w[q] \cap w[a] = {}
        BY DEF OnePlace
      <3> QED
        BY <3>1
    <2>3. w[p] \cap w[r] = {}
      BY <1>1 DEF OnePlace
    <2> QED
      BY <1>1, <2>1, <2>2, <2>3
  <1>2. ASSUME NEW s PROVE s \in InPlaces(v) <=> s \in InPlaces(w)
    <2>1. ASSUME NEW p \in Places, s \in v[p] PROVE s \in w[p] \/ s \in w[a]
      BY <2>1
    <2>2. ASSUME NEW p \in Places, s \in w[p] PROVE s \in v[p] \/ s \in v[b]
      BY <2>2
    <2> QED
      BY <2>1, <2>2 DEF InPlaces
  <1>3. OnePlace(v)
    BY <1>1 DEF OnePlace
  <1> QED
    BY <1>2, <1>3

LEMMA Stayed ==
    ASSUME NEW w, NEW v, OnePlace(w), \A p \in Places : v[p] = w[p]
    PROVE  OnePlace(v) /\ InPlaces(v) = InPlaces(w)
  BY DEF OnePlace, InPlaces

\* The samples X, which were nowhere, come to the place b.
LEMMA Arrived ==
    ASSUME NEW w, NEW v, OnePlace(w), NEW b \in Places, NEW X, X \cap InPlaces(w) = {},
           v[b] = w[b] \cup X, \A p \in Places \ {b} : v[p] = w[p]
    PROVE  OnePlace(v) /\ InPlaces(v) = InPlaces(w) \cup X
  <1> HIDE DEF Places
  <1>1. \A p \in Places : w[p] \cap X = {}
    BY DEF InPlaces
  <1>2. ASSUME NEW p \in Places, NEW r \in Places, p # r PROVE v[p] \cap v[r] = {}
    <2>1. w[p] \cap w[r] = {}
      BY <1>2 DEF OnePlace
    <2> QED
      BY <1>1, <1>2, <2>1
  <1>3. ASSUME NEW s PROVE s \in InPlaces(v) <=> s \in InPlaces(w) \cup X
    <2>1. ASSUME NEW p \in Places, s \in v[p] PROVE s \in w[p] \/ s \in X
      BY <2>1
    <2>2. ASSUME NEW p \in Places, s \in w[p] PROVE s \in v[p]
      BY <2>2
    <2>3. s \in X => s \in v[b]
      OBVIOUS
    <2> QED
      BY <2>1, <2>2, <2>3 DEF InPlaces
  <1>4. OnePlace(v)
    BY <1>2 DEF OnePlace
  <1> QED
    BY <1>3, <1>4

\* Of two sets with nothing in common.
LEMMA Disjoint ==
    ASSUME NEW S, NEW T, IsFiniteSet(S), IsFiniteSet(T), S \cap T = {}
    PROVE  IsFiniteSet(S \cup T) /\ Cardinality(S \cup T) = Cardinality(S) + Cardinality(T)
  <1>1. /\ IsFiniteSet(S \cup T)
        /\ Cardinality(S \cup T) = Cardinality(S) + Cardinality(T) - Cardinality(S \cap T)
    BY FS_Union
  <1>2. Cardinality(S \cap T) = 0
    BY FS_EmptySet
  <1>3. Cardinality(S) \in Nat /\ Cardinality(T) \in Nat
    BY FS_CardinalityType
  <1> QED
    BY <1>1, <1>2, <1>3

LEMMA PlacesCounted ==
    ASSUME NEW w, OnePlace(w), \A p \in Places : IsFiniteSet(w[p])
    PROVE  /\ \A p \in Places : Cardinality(w[p]) \in Nat
           /\ Cardinality(InPlaces(w)) =
                Cardinality(w["hand"]) + Cardinality(w["running"]) + Cardinality(w["interrupted"])
                + Cardinality(w["finished"]) + Cardinality(w["sent"]) + Cardinality(w["queued"])
                + Cardinality(w["fetched"]) + Cardinality(w["trained"]) + Cardinality(w["failed"])
                + Cardinality(w["dropped"])
  <1> DEFINE a == w["hand"] \cup w["running"]
             b == a \cup w["interrupted"]
             c == b \cup w["finished"]
             d == c \cup w["sent"]
             e == d \cup w["queued"]
             f == e \cup w["fetched"]
             g == f \cup w["trained"]
             h == g \cup w["failed"]
             i == h \cup w["dropped"]
  <1>1. \A p \in Places : Cardinality(w[p]) \in Nat
    BY FS_CardinalityType
  <1>2. /\ "hand" \in Places /\ "running" \in Places /\ "interrupted" \in Places
        /\ "finished" \in Places /\ "sent" \in Places /\ "queued" \in Places
        /\ "fetched" \in Places /\ "trained" \in Places /\ "failed" \in Places
        /\ "dropped" \in Places
    BY DEF Places
  <1>3. i = InPlaces(w)
    BY DEF Places, InPlaces
  <1>4. /\ w["hand"] \cap w["running"] = {} /\ a \cap w["interrupted"] = {}
        /\ b \cap w["finished"] = {} /\ c \cap w["sent"] = {}
    BY <1>2 DEF OnePlace
  <1>5. d \cap w["queued"] = {} /\ e \cap w["fetched"] = {}
    BY <1>2 DEF OnePlace
  <1>6. f \cap w["trained"] = {} /\ g \cap w["failed"] = {}
    BY <1>2 DEF OnePlace
  <1>7. h \cap w["dropped"] = {}
    BY <1>2 DEF OnePlace
  <1>8. IsFiniteSet(a) /\ Cardinality(a) = Cardinality(w["hand"]) + Cardinality(w["running"])
    BY <1>2, <1>4, Disjoint
  <1> HIDE DEF a
  <1>9. IsFiniteSet(b) /\ Cardinality(b) = Cardinality(a) + Cardinality(w["interrupted"])
    BY <1>2, <1>4, <1>8, Disjoint
  <1> HIDE DEF b
  <1>10. IsFiniteSet(c) /\ Cardinality(c) = Cardinality(b) + Cardinality(w["finished"])
    BY <1>2, <1>4, <1>9, Disjoint
  <1> HIDE DEF c
  <1>11. IsFiniteSet(d) /\ Cardinality(d) = Cardinality(c) + Cardinality(w["sent"])
    BY <1>2, <1>4, <1>10, Disjoint
  <1> HIDE DEF d
  <1>12. IsFiniteSet(e) /\ Cardinality(e) = Cardinality(d) + Cardinality(w["queued"])
    BY <1>2, <1>5, <1>11, Disjoint
  <1> HIDE DEF e
  <1>13. IsFiniteSet(f) /\ Cardinality(f) = Cardinality(e) + Cardinality(w["fetched"])
    BY <1>2, <1>5, <1>12, Disjoint
  <1> HIDE DEF f
  <1>14. IsFiniteSet(g) /\ Cardinality(g) = Cardinality(f) + Cardinality(w["trained"])
    BY <1>2, <1>6, <1>13, Disjoint
  <1> HIDE DEF g
  <1>15. IsFiniteSet(h) /\ Cardinality(h) = Cardinality(g) + Cardinality(w["failed"])
    BY <1>2, <1>6, <1>14, Disjoint
  <1> HIDE DEF h
  <1>16. Cardinality(i) = Cardinality(h) + Cardinality(w["dropped"])
    BY <1>2, <1>7, <1>15, Disjoint
  <1> QED
    BY <1>1, <1>3, <1>8, <1>9, <1>10, <1>11, <1>12, <1>13, <1>14, <1>15, <1>16

\* The processor has a sample in hand, or has raised.
Handing == WithSample \cup {"raised"}

\* A step that moves no sample.
LEMMA AccountSteady ==
    ASSUME AccountInv, UNCHANGED <<taken, rollout_sample, running, cancel_queue, result_queue>>,
           UNCHANGED <<putting, queue, batch, trained, failed, dropped>>,
           processor' \notin Handing => processor \notin Handing
    PROVE  AccountInv'
  <1>1. Where' = Where /\ TakenSamples' = TakenSamples
    BY DEF Where, Hand, Sent, TakenSamples
  <1> QED
    BY <1>1 DEF AccountInv, Handing

\* A step that moves the samples X.
LEMMA AccountMoved ==
    ASSUME AccountInv, taken' = taken, NEW a \in Places, NEW b \in Places, a # b,
           NEW X, X \subseteq Where[a], Where'[a] = Where[a] \ X, Where'[b] = Where[b] \cup X,
           \A p \in Places \ {a, b} : Where'[p] = Where[p],
           OneEach(result_queue'), OneEach(queue'), OneEach(batch'), Distinct(cancel_queue'),
           processor' \notin Handing => rollout_sample' = NoSample
    PROVE  AccountInv'
  <1>1. OnePlace(Where') /\ InPlaces(Where') = InPlaces(Where)
    BY Moved DEF AccountInv
  <1>2. TakenSamples' = TakenSamples
    BY DEF TakenSamples
  <1> QED
    BY <1>1, <1>2 DEF AccountInv, Handing

\* A record's fields, one by one.
WhereIs ==
    /\ Where["hand"] = Hand /\ Where["running"] = running
    /\ Where["interrupted"] = Elements(cancel_queue)
    /\ Where["finished"] = SamplesOf(result_queue) /\ Where["sent"] = Sent
    /\ Where["queued"] = SamplesOf(queue) /\ Where["fetched"] = SamplesOf(batch)
    /\ Where["trained"] = trained /\ Where["failed"] = failed
    /\ Where["dropped"] = dropped \ {NoSample}

LEMMA Whereabouts == WhereIs
  BY DEF WhereIs, Where

LEMMA AccountTakeInterrupted == ASSUME TypeInv, AccountInv, TakeInterrupted PROVE AccountInv'
  <1> DEFINE X == {Head(cancel_queue)}
  <1>1. /\ processor = "top" /\ cancel_queue # <<>> /\ processor' \in Handing
        /\ rollout_sample' = Head(cancel_queue) /\ cancel_queue' = Tail(cancel_queue)
        /\ UNCHANGED <<taken, running, result_queue, putting, queue, batch, trained, failed, dropped>>
    <2>1. Place \in Handing
      BY DEF Place, Handing, WithSample
    <2> QED
      BY <2>1 DEF TakeInterrupted, AtTop, Ask, feedVars, taskVars, queueVars, trainVars
  <1>2. rollout_sample = NoSample
    BY <1>1 DEF AccountInv, WithSample
  <1>3. cancel_queue \in Seq(Samples)
    BY DEF TypeInv, StreamInv
  <1>4. Head(cancel_queue) \in Samples
    BY <1>1, <1>3, Ends
  <1>5. /\ Elements(cancel_queue') = Elements(cancel_queue) \ X /\ Distinct(cancel_queue')
        /\ X \subseteq Elements(cancel_queue)
    BY <1>1, <1>3, QueueLeft DEF AccountInv
  <1>6. Hand' = Hand \cup X
    BY <1>1, <1>2, <1>4 DEF Hand, Samples, NoSample
  <1>7. WhereIs /\ WhereIs'
    BY Whereabouts, PTL
  <1>8. Sent' = Sent
    BY <1>1 DEF Sent
  <1>9. \A p \in Places \ {"interrupted", "hand"} : Where'[p] = Where[p]
    BY <1>1, <1>7, <1>8 DEF Places, WhereIs
  <1>10. /\ X \subseteq Where["interrupted"] /\ Where'["interrupted"] = Where["interrupted"] \ X
         /\ Where'["hand"] = Where["hand"] \cup X
    BY <1>5, <1>6, <1>7 DEF WhereIs
  <1>11. OneEach(result_queue') /\ OneEach(queue') /\ OneEach(batch')
    BY <1>1 DEF AccountInv
  <1>12. "interrupted" \in Places /\ "hand" \in Places
    BY DEF Places
  <1> QED
    BY <1>1, <1>5, <1>9, <1>10, <1>11, <1>12, AccountMoved

LEMMA AccountTakePending == ASSUME TypeInv, AccountInv, TakePending PROVE AccountInv'
  <1> DEFINE X == {taken'} \ {DONE}
  <1>1. /\ processor \in {"getting", "top"} /\ taken' = taken + 1
        /\ UNCHANGED <<running, cancel_queue, result_queue, putting, queue, batch, trained, failed>>
        /\ dropped' = dropped
    BY DEF TakePending, AtTop, taskVars, heldVars, queueVars, trainVars
  <1>2. rollout_sample = NoSample
    BY <1>1 DEF AccountInv, WithSample
  <1>3. taken \in Nat /\ DONE \in Nat
    BY AsyncAssumption DEF TypeInv, StreamInv, DONE
  <1>4. /\ Hand' = Hand \cup X
        /\ processor' \notin Handing => rollout_sample' = NoSample
    <2>1. CASE taken' = DONE
      <3>1. rollout_sample' = NoSample
        BY <1>2, <2>1 DEF TakePending
      <3> QED
        BY <1>2, <2>1, <3>1 DEF Hand
    <2>2. CASE taken' # DONE
      <3>1. rollout_sample' = taken' /\ processor' = Place
        BY <2>2 DEF TakePending, Ask
      <3>2. Place \in Handing
        BY DEF Place, Handing, WithSample
      <3>3. taken' # NoSample
        BY <1>1, <1>3 DEF NoSample
      <3> QED
        BY <1>2, <2>2, <3>1, <3>2, <3>3 DEF Hand
    <2> QED
      BY <2>1, <2>2
  <1>5. TakenSamples' = TakenSamples \cup X /\ X \cap TakenSamples = {}
    <2>1. 1..(taken + 1) = 1..taken \cup {taken + 1} /\ taken + 1 \notin 1..taken
      BY <1>3
    <2> QED
      BY <1>1, <2>1 DEF TakenSamples
  <1>6. WhereIs /\ WhereIs'
    BY Whereabouts, PTL
  <1>7. Sent' = Sent
    BY <1>1 DEF Sent
  <1>8. \A p \in Places \ {"hand"} : Where'[p] = Where[p]
    BY <1>1, <1>6, <1>7 DEF Places, WhereIs
  <1>9. Where'["hand"] = Where["hand"] \cup X /\ "hand" \in Places
    BY <1>4, <1>6 DEF WhereIs, Places
  <1>10. OnePlace(Where) /\ InPlaces(Where) = TakenSamples
    BY DEF AccountInv
  <1> HIDE DEF X
  <1>11. OnePlace(Where') /\ InPlaces(Where') = InPlaces(Where) \cup X
    BY <1>5, <1>8, <1>9, <1>10, Arrived
  <1>12. OneEach(result_queue') /\ OneEach(queue') /\ OneEach(batch') /\ Distinct(cancel_queue')
    BY <1>1 DEF AccountInv
  <1> QED
    BY <1>4, <1>5, <1>10, <1>11, <1>12 DEF AccountInv, Handing

LEMMA AccountSubmit == ASSUME TypeInv, AccountInv, Submit PROVE AccountInv'
  <1> DEFINE X == {rollout_sample}
  <1>1. /\ rollout_sample' = NoSample /\ running' = running \cup X
        /\ UNCHANGED <<taken, cancel_queue, result_queue, putting, queue, batch, trained, failed>>
        /\ dropped' = dropped
    BY DEF Submit, feedVars, heldVars, queueVars, trainVars
  <1>2. rollout_sample \in Samples /\ rollout_sample # NoSample
    BY DEF Submit, TypeInv, StreamInv, WithSample, Samples, NoSample
  <1>3. Hand = X /\ Hand' = {}
    BY <1>1, <1>2 DEF Hand
  <1>4. WhereIs /\ WhereIs'
    BY Whereabouts, PTL
  <1>5. Sent' = Sent
    BY <1>1 DEF Sent
  <1>6. \A p \in Places \ {"hand", "running"} : Where'[p] = Where[p]
    BY <1>1, <1>4, <1>5 DEF Places, WhereIs
  <1>7. /\ X \subseteq Where["hand"] /\ Where'["hand"] = Where["hand"] \ X
        /\ Where'["running"] = Where["running"] \cup X
    BY <1>1, <1>3, <1>4 DEF WhereIs
  <1>8. OneEach(result_queue') /\ OneEach(queue') /\ OneEach(batch') /\ Distinct(cancel_queue')
    BY <1>1 DEF AccountInv
  <1>9. "hand" \in Places /\ "running" \in Places
    BY DEF Places
  <1> HIDE DEF X
  <1> QED
    BY <1>1, <1>6, <1>7, <1>8, <1>9, AccountMoved

LEMMA AccountProcessor == ASSUME TypeInv, AccountInv, Processor PROVE AccountInv'
  <1>1. CASE TakeInterrupted
    BY <1>1, AccountTakeInterrupted
  <1>2. CASE TakePending
    BY <1>2, AccountTakePending
  <1>3. CASE Submit
    BY <1>3, AccountSubmit
  <1>4. CASE PauseSelf \/ AwaitPending \/ Reap \/ NothingToReap \/ Idle \/ Park \/ Wake
    <2>1. /\ UNCHANGED <<taken, rollout_sample, running, cancel_queue, result_queue>>
          /\ UNCHANGED <<putting, queue, batch, trained, failed, dropped>>
      BY <1>4 DEF PauseSelf, AwaitPending, Reap, NothingToReap, Idle, Park, Wake, feedVars, taskVars,
         heldVars, queueVars, trainVars
    <2>2. processor \in Handing => processor' \in Handing
      <3>1. CASE PauseSelf \/ AwaitPending \/ Idle
        BY <3>1 DEF PauseSelf, AwaitPending, AtTop, Idle, Handing, WithSample
      <3>2. CASE Park \/ Wake
        BY <3>2 DEF Park, Wake, Stop, Ask, Handing, WithSample
      <3>3. LeaveReaping /\ processor = "limiting" => processor' = "submitting"
        BY DEF LeaveReaping, Ask, Beyond
      <3>4. CASE Reap \/ NothingToReap
        BY <3>3, <3>4 DEF Reap, NothingToReap, Reaping, Stop, Ask, Handing, WithSample
      <3> QED
        BY <1>4, <3>1, <3>2, <3>4
    <2> QED
      BY <2>1, <2>2, AccountSteady
  <1> QED
    BY <1>1, <1>2, <1>3, <1>4 DEF Processor

\* The task of a sample ends, one way or another.
LEMMA AccountTasks ==
    ASSUME TypeInv, AccountInv, NEW s \in Samples, Finish(s) \/ Interrupt(s) \/ Fail(s)
    PROVE  AccountInv'
  <1> DEFINE X == {s}
  <1>1. /\ s \in running /\ running' = running \ X
        /\ UNCHANGED <<taken, processor, rollout_sample, putting, queue, batch, trained, dropped>>
    BY DEF Finish, Interrupt, Fail, EndTask, feedVars, procVars, queueVars, trainVars
  <1>2. Hand' = Hand /\ Sent' = Sent /\ SamplesOf(queue') = SamplesOf(queue)
        /\ SamplesOf(batch') = SamplesOf(batch)
    BY <1>1 DEF Hand, Sent
  <1>3. WhereIs /\ WhereIs'
    BY Whereabouts, PTL
  <1>4. /\ OneEach(queue') /\ OneEach(batch')
        /\ processor' \notin Handing => rollout_sample' = NoSample
    BY <1>1 DEF AccountInv, Handing
  <1>5. \A p \in {"hand", "sent", "queued", "fetched", "trained", "dropped"} : Where'[p] = Where[p]
    BY <1>1, <1>2, <1>3 DEF WhereIs
  <1>6. X \subseteq Where["running"] /\ Where'["running"] = Where["running"] \ X
    BY <1>1, <1>3 DEF WhereIs
  <1>7. /\ "running" \in Places /\ "finished" \in Places /\ "interrupted" \in Places
        /\ "failed" \in Places
    BY DEF Places
  <1>8. \A p \in Places \ {"running"} : Where[p] \cap X = {}
    <2>1. \A p \in Places \ {"running"} : Where[p] \cap Where["running"] = {}
      BY <1>7 DEF AccountInv, OnePlace
    <2> QED
      BY <1>6, <2>1
  <1>9. CASE Finish(s)
    <2> DEFINE m == Message(s, rollout_version)
    <2>1. result_queue' = Append(result_queue, m) /\ UNCHANGED <<failed, cancel_queue>>
      BY <1>9 DEF Finish
    <2>2. m.sample = s /\ m \in Queued /\ s # NoSample
      BY DEF Message, Messages, Queued, TypeInv, VersionInv, Samples, NoSample
    <2>3. result_queue \in Seq(Queued)
      BY DEF TypeInv, VersionInv, Queued
    <2> HIDE DEF m
    <2>4. s \notin SamplesOf(result_queue)
      BY <1>3, <1>7, <1>8 DEF WhereIs
    <2>5. /\ SamplesOf(result_queue') = SamplesOf(result_queue) \cup X
          /\ OneEach(result_queue')
      BY <2>1, <2>2, <2>3, <2>4, SamplesAppend DEF AccountInv
    <2>6. Distinct(cancel_queue')
      BY <2>1 DEF AccountInv
    <2>7. Where'["finished"] = Where["finished"] \cup X
      BY <1>3, <2>5 DEF WhereIs
    <2>8. \A p \in Places \ {"running", "finished"} : Where'[p] = Where[p]
      BY <1>3, <1>5, <2>1 DEF WhereIs, Places
    <2> HIDE DEF X
    <2> QED
      BY <1>1, <1>4, <1>6, <1>7, <2>5, <2>6, <2>7, <2>8, AccountMoved
  <1>10. CASE Interrupt(s)
    <2>1. cancel_queue' = Append(cancel_queue, s) /\ UNCHANGED <<failed, result_queue>>
      BY <1>10 DEF Interrupt
    <2>2. cancel_queue \in Seq(Samples) /\ Distinct(cancel_queue)
      BY DEF TypeInv, StreamInv, AccountInv
    <2>3. s \notin Elements(cancel_queue)
      BY <1>3, <1>7, <1>8 DEF WhereIs
    <2>4. Elements(cancel_queue') = Elements(cancel_queue) \cup X /\ Distinct(cancel_queue')
      BY <2>1, <2>2, <2>3, QueueJoined
    <2>5. OneEach(result_queue')
      BY <2>1 DEF AccountInv
    <2>6. Where'["interrupted"] = Where["interrupted"] \cup X
      BY <1>3, <2>4 DEF WhereIs
    <2>7. \A p \in Places \ {"running", "interrupted"} : Where'[p] = Where[p]
      BY <1>3, <1>5, <2>1 DEF WhereIs, Places
    <2> HIDE DEF X
    <2> QED
      BY <1>1, <1>4, <1>6, <1>7, <2>4, <2>5, <2>6, <2>7, AccountMoved
  <1>11. CASE Fail(s)
    <2>1. failed' = failed \cup X /\ UNCHANGED <<cancel_queue, result_queue>>
      BY <1>11 DEF Fail, heldVars
    <2>2. OneEach(result_queue') /\ Distinct(cancel_queue')
      BY <2>1 DEF AccountInv
    <2>3. Where'["failed"] = Where["failed"] \cup X
      BY <1>3, <2>1 DEF WhereIs
    <2>4. \A p \in Places \ {"running", "failed"} : Where'[p] = Where[p]
      BY <1>3, <1>5, <2>1 DEF WhereIs, Places
    <2> HIDE DEF X
    <2> QED
      BY <1>1, <1>4, <1>6, <1>7, <2>2, <2>3, <2>4, AccountMoved
  <1> QED
    BY <1>9, <1>10, <1>11

LEMMA AccountConsume == ASSUME TypeInv, AccountInv, Consume PROVE AccountInv'
  <1> DEFINE X == {Head(result_queue).sample}
  <1>1. /\ putting = EndOfStream /\ result_queue # <<>> /\ putting' = Head(result_queue)
        /\ result_queue' = Tail(result_queue)
        /\ UNCHANGED <<taken, processor, rollout_sample, running, cancel_queue>>
        /\ UNCHANGED <<queue, batch, trained, failed, dropped>>
    BY DEF Consume, feedVars, procVars, taskVars, trainVars
  <1>2. result_queue \in Seq(Messages) /\ result_queue \in Seq(Queued) /\ OneEach(result_queue)
    BY DEF TypeInv, VersionInv, Queued, AccountInv
  <1>3. Head(result_queue) \in Messages
    BY <1>1, <1>2, Ends
  <1>4. Head(result_queue).sample # NoSample
    BY <1>3 DEF Messages, Samples, NoSample
  <1>5. /\ SamplesOf(result_queue') = SamplesOf(result_queue) \ X /\ OneEach(result_queue')
        /\ X \subseteq SamplesOf(result_queue)
    BY <1>1, <1>2, <1>4, SamplesTail
  <1>6. Sent = {} /\ Sent' = X
    BY <1>1, <1>4, QueuedFacts DEF Sent
  <1>7. WhereIs /\ WhereIs'
    BY Whereabouts, PTL
  <1>8. Hand' = Hand
    BY <1>1 DEF Hand
  <1>9. \A p \in Places \ {"finished", "sent"} : Where'[p] = Where[p]
    BY <1>1, <1>7, <1>8 DEF Places, WhereIs
  <1>10. /\ X \subseteq Where["finished"] /\ Where'["finished"] = Where["finished"] \ X
         /\ Where'["sent"] = Where["sent"] \cup X
    BY <1>5, <1>6, <1>7 DEF WhereIs
  <1>11. /\ OneEach(queue') /\ OneEach(batch') /\ Distinct(cancel_queue')
         /\ processor' \notin Handing => rollout_sample' = NoSample
    BY <1>1 DEF AccountInv, Handing
  <1>12. "finished" \in Places /\ "sent" \in Places
    BY DEF Places
  <1> HIDE DEF X
  <1> QED
    BY <1>1, <1>5, <1>9, <1>10, <1>11, <1>12, AccountMoved

\* What put_sample drops and what it puts.
LEMMA SamplesPut ==
    ASSUME TypeInv, OneEach(queue), NEW m \in Queued, Put(m), m.sample \notin SamplesOf(queue)
    PROVE  \E X : /\ X \subseteq SamplesOf(queue) /\ OneEach(queue')
                  /\ SamplesOf(queue') = (SamplesOf(queue) \ X) \cup ({m.sample} \ {NoSample})
                  /\ dropped' \ {NoSample} = (dropped \ {NoSample}) \cup X
  <1>1. queue \in Seq(Queued) /\ Len(queue) \in Nat /\ max_queue_size \in Nat \ {0}
    BY Limits DEF TypeInv, VersionInv
  <1>2. CASE Len(queue) >= max_queue_size
    <2> DEFINE X == {Head(queue).sample} \ {NoSample}
    <2>1. queue # <<>>
      BY <1>1, <1>2, EmptySeq
    <2>2. queue' = Append(Tail(queue), m) /\ dropped' = dropped \cup {Head(queue).sample}
      BY <1>1, <1>2 DEF Put
    <2>3. /\ SamplesOf(Tail(queue)) = SamplesOf(queue) \ {Head(queue).sample} /\ OneEach(Tail(queue))
          /\ X \subseteq SamplesOf(queue)
      BY <1>1, <2>1, SamplesTail
    <2>4. NoSample \notin SamplesOf(queue)
      BY DEF SamplesOf
    <2>5. Tail(queue) \in Seq(Queued)
      BY <1>1, <2>1, Ends
    <2>6. /\ SamplesOf(queue') = SamplesOf(Tail(queue)) \cup ({m.sample} \ {NoSample})
          /\ OneEach(queue')
      BY <2>2, <2>3, <2>5, SamplesAppend
    <2>7. SamplesOf(Tail(queue)) = SamplesOf(queue) \ X
      BY <2>3, <2>4
    <2>8. dropped' \ {NoSample} = (dropped \ {NoSample}) \cup X
      BY <2>2
    <2> HIDE DEF X
    <2> QED
      BY <2>3, <2>6, <2>7, <2>8
  <1>3. CASE Len(queue) < max_queue_size
    <2> DEFINE X == {}
    <2>1. queue' = Append(queue, m) /\ dropped' = dropped
      BY <1>1, <1>3 DEF Put
    <2>2. SamplesOf(queue') = SamplesOf(queue) \cup ({m.sample} \ {NoSample}) /\ OneEach(queue')
      BY <1>1, <2>1, SamplesAppend
    <2>3. /\ X \subseteq SamplesOf(queue)
          /\ SamplesOf(queue') = (SamplesOf(queue) \ X) \cup ({m.sample} \ {NoSample})
          /\ dropped' \ {NoSample} = (dropped \ {NoSample}) \cup X
      BY <2>1, <2>2
    <2> HIDE DEF X
    <2> QED
      BY <2>2, <2>3
  <1>4. Len(queue) >= max_queue_size \/ Len(queue) < max_queue_size
    BY <1>1
  <1> QED
    BY <1>2, <1>3, <1>4

\* put_sample: what was on its way is queued, and what makes room is dropped.
LEMMA AccountPut ==
    ASSUME TypeInv, AccountInv, NEW m \in Queued, Put(m), {m.sample} \ {NoSample} \subseteq Sent,
           Sent' = Sent \ ({m.sample} \ {NoSample}),
           UNCHANGED <<taken, rollout_sample, running, cancel_queue, result_queue>>,
           UNCHANGED <<processor, batch, trained, failed>>
    PROVE  AccountInv'
  <1> DEFINE Y == {m.sample} \ {NoSample}
  <1>1. WhereIs /\ WhereIs'
    BY Whereabouts, PTL
  <1>2. /\ "sent" \in Places /\ "queued" \in Places /\ "dropped" \in Places
    BY DEF Places
  <1>3. OnePlace(Where) /\ InPlaces(Where) = TakenSamples /\ OneEach(queue)
    BY DEF AccountInv
  <1>4. m.sample \notin SamplesOf(queue)
    <2>1. Sent \cap SamplesOf(queue) = {}
      BY <1>1, <1>2, <1>3 DEF OnePlace, WhereIs
    <2>2. NoSample \notin SamplesOf(queue)
      BY DEF SamplesOf
    <2> QED
      BY <2>1, <2>2
  <1>5. PICK X : /\ X \subseteq SamplesOf(queue) /\ OneEach(queue')
                 /\ SamplesOf(queue') = (SamplesOf(queue) \ X) \cup ({m.sample} \ {NoSample})
                 /\ dropped' \ {NoSample} = (dropped \ {NoSample}) \cup X
    BY <1>3, <1>4, SamplesPut
  <1> DEFINE w == [p \in Places |-> IF p = "queued" THEN Where[p] \ X
                                    ELSE IF p = "dropped" THEN Where[p] \cup X ELSE Where[p]]
  <1>6. /\ w["queued"] = Where["queued"] \ X /\ w["dropped"] = Where["dropped"] \cup X
        /\ \A p \in Places \ {"queued", "dropped"} : w[p] = Where[p]
    BY <1>2
  <1> HIDE DEF w
  <1>7. OnePlace(w) /\ InPlaces(w) = InPlaces(Where)
    <2>1. X \subseteq Where["queued"]
      BY <1>1, <1>5 DEF WhereIs
    <2> QED
      BY <1>2, <1>3, <1>6, <2>1, Moved
  <1>8. /\ Y \subseteq w["sent"] /\ Where'["sent"] = w["sent"] \ Y
        /\ Where'["queued"] = w["queued"] \cup Y /\ Where'["dropped"] = w["dropped"]
    <2>1. w["sent"] = Sent
      BY <1>1, <1>2, <1>6 DEF WhereIs
    <2>2. w["queued"] = SamplesOf(queue) \ X
      BY <1>1, <1>6 DEF WhereIs
    <2>3. w["dropped"] = (dropped \ {NoSample}) \cup X
      BY <1>1, <1>6 DEF WhereIs
    <2> QED
      BY <1>1, <1>5, <2>1, <2>2, <2>3 DEF WhereIs
  <1>9. \A p \in Places \ {"sent", "queued"} : Where'[p] = w[p]
    <2>1. Hand' = Hand
      BY DEF Hand
    <2>2. \A p \in Places \ {"sent", "queued", "dropped"} : Where'[p] = Where[p]
      BY <1>1, <2>1 DEF Places, WhereIs
    <2> QED
      BY <1>6, <1>8, <2>2
  <1> HIDE DEF Y
  <1>10. OnePlace(Where') /\ InPlaces(Where') = InPlaces(w)
    BY <1>2, <1>7, <1>8, <1>9, Moved
  <1>11. TakenSamples' = TakenSamples
    BY DEF TakenSamples
  <1>12. /\ OneEach(result_queue') /\ OneEach(batch') /\ Distinct(cancel_queue')
         /\ processor' \notin Handing => rollout_sample' = NoSample
    BY DEF AccountInv, Handing
  <1> QED
    BY <1>3, <1>5, <1>7, <1>10, <1>11, <1>12 DEF AccountInv, Handing

LEMMA AccountPutSample == ASSUME TypeInv, AccountInv, PutSample PROVE AccountInv'
  <1>1. /\ Put(putting) /\ putting' = EndOfStream
        /\ UNCHANGED <<taken, rollout_sample, running, cancel_queue, result_queue>>
        /\ UNCHANGED <<processor, batch, trained, failed>>
    BY DEF PutSample, feedVars, procVars, taskVars, heldVars, trainVars
  <1>2. putting \in Queued
    BY DEF TypeInv, VersionInv
  <1>3. Sent' = {}
    BY <1>1, QueuedFacts DEF Sent
  <1> QED
    BY <1>1, <1>2, <1>3, AccountPut DEF Sent

LEMMA AccountMain == ASSUME TypeInv, AccountInv, Main PROVE AccountInv'
  <1>1. /\ UNCHANGED <<taken, rollout_sample, running, cancel_queue, result_queue>>
        /\ UNCHANGED <<processor, putting, batch, trained, failed>>
    BY DEF Main, AwaitFeed, AwaitProcessor, JoinResults, PutEndOfStream, StopRunning, MainAt, feedVars,
       procVars, taskVars, heldVars, trainVars
  <1>2. CASE PutEndOfStream
    <2>1. Put(EndOfStream) /\ EndOfStream \in Queued
      BY <1>2 DEF PutEndOfStream, Queued
    <2>2. {EndOfStream.sample} \ {NoSample} = {} /\ Sent' = Sent
      BY <1>1, QueuedFacts DEF Sent
    <2> QED
      BY <1>1, <2>1, <2>2, AccountPut
  <1>3. CASE AwaitFeed \/ AwaitProcessor \/ JoinResults \/ StopRunning
    <2>1. UNCHANGED <<queue, dropped>>
      BY <1>3 DEF AwaitFeed, AwaitProcessor, JoinResults, StopRunning
    <2> QED
      BY <1>1, <2>1, AccountSteady
  <1> QED
    BY <1>2, <1>3 DEF Main

LEMMA AccountGetSample == ASSUME TypeInv, AccountInv, GetSample PROVE AccountInv'
  <1> DEFINE m == Head(queue)
             X == {m.sample} \ {NoSample}
  <1>1. /\ queue # <<>> /\ queue' = Tail(queue)
        /\ UNCHANGED <<taken, processor, rollout_sample, running, cancel_queue, result_queue>>
        /\ UNCHANGED <<putting, trained, failed, dropped>>
    BY DEF GetSample, feedVars, procVars, taskVars, heldVars
  <1>2. \/ m = EndOfStream /\ batch' = batch
        \/ m # EndOfStream /\ batch' = Append(batch, m)
    BY DEF GetSample
  <1>3. queue \in Seq(Queued) /\ batch \in Seq(Queued) /\ OneEach(queue) /\ OneEach(batch)
    <2>1. batch \in Seq(Messages)
      BY DEF TypeInv, TrainerInv
    <2> QED
      BY <2>1, MessagesCounted DEF TypeInv, VersionInv, AccountInv
  <1>4. m \in Queued
    BY <1>1, <1>3, Ends
  <1>5. WhereIs /\ WhereIs'
    BY Whereabouts, PTL
  <1>6. "queued" \in Places /\ "fetched" \in Places
    BY DEF Places
  <1>7. /\ SamplesOf(queue') = SamplesOf(queue) \ X /\ OneEach(queue')
        /\ X \subseteq SamplesOf(queue)
    <2>1. NoSample \notin SamplesOf(queue)
      BY DEF SamplesOf
    <2> QED
      BY <1>1, <1>3, <2>1, SamplesTail
  <1>8. SamplesOf(batch') = SamplesOf(batch) \cup X /\ OneEach(batch')
    <2>1. CASE m = EndOfStream /\ batch' = batch
      <3>1. X = {}
        BY <2>1, QueuedFacts
      <3> QED
        BY <1>3, <2>1, <3>1
    <2>2. CASE m # EndOfStream /\ batch' = Append(batch, m)
      <3>1. SamplesOf(batch) \cap SamplesOf(queue) = {}
        BY <1>5, <1>6 DEF AccountInv, OnePlace, WhereIs
      <3>2. NoSample \notin SamplesOf(batch)
        BY DEF SamplesOf
      <3>3. m.sample \notin SamplesOf(batch)
        BY <1>7, <3>1, <3>2
      <3> QED
        BY <1>3, <1>4, <2>2, <3>3, SamplesAppend
    <2> QED
      BY <1>2, <2>1, <2>2
  <1> HIDE DEF X
  <1>9. Hand' = Hand /\ Sent' = Sent
    BY <1>1 DEF Hand, Sent
  <1>10. \A p \in Places \ {"queued", "fetched"} : Where'[p] = Where[p]
    BY <1>1, <1>5, <1>9 DEF Places, WhereIs
  <1>11. /\ X \subseteq Where["queued"] /\ Where'["queued"] = Where["queued"] \ X
         /\ Where'["fetched"] = Where["fetched"] \cup X
    BY <1>5, <1>7, <1>8 DEF WhereIs
  <1>12. /\ OneEach(result_queue') /\ Distinct(cancel_queue')
         /\ processor' \notin Handing => rollout_sample' = NoSample
    BY <1>1 DEF AccountInv, Handing
  <1> QED
    BY <1>1, <1>6, <1>7, <1>8, <1>10, <1>11, <1>12, AccountMoved

LEMMA AccountTrain == ASSUME TypeInv, AccountInv, Train PROVE AccountInv'
  <1> DEFINE X == SamplesOf(batch)
  <1>1. /\ trained' = trained \cup {batch[i].sample : i \in 1..Len(batch)} /\ batch' = <<>>
        /\ UNCHANGED <<taken, processor, rollout_sample, running, cancel_queue, result_queue>>
        /\ UNCHANGED <<putting, queue, failed, dropped>>
    BY DEF Train, feedVars, procVars, taskVars, heldVars, queueVars
  <1>2. {batch[i].sample : i \in 1..Len(batch)} = X
    <2>1. \A i \in 1..Len(batch) : batch[i] \in Messages
      BY DEF TypeInv, TrainerInv
    <2>2. \A m \in Messages : m.sample # NoSample
      BY DEF Messages, Samples, NoSample
    <2> QED
      BY <2>1, <2>2 DEF SamplesOf
  <1>3. SamplesOf(batch') = {} /\ OneEach(batch')
    BY <1>1, EmptySeq DEF SamplesOf, OneEach
  <1>4. WhereIs /\ WhereIs'
    BY Whereabouts, PTL
  <1>5. Hand' = Hand /\ Sent' = Sent
    BY <1>1 DEF Hand, Sent
  <1> HIDE DEF X
  <1>6. \A p \in Places \ {"fetched", "trained"} : Where'[p] = Where[p]
    BY <1>1, <1>4, <1>5 DEF Places, WhereIs
  <1>7. /\ X \subseteq Where["fetched"] /\ Where'["fetched"] = Where["fetched"] \ X
        /\ Where'["trained"] = Where["trained"] \cup X
    BY <1>1, <1>2, <1>3, <1>4 DEF WhereIs, X
  <1>8. /\ OneEach(result_queue') /\ OneEach(queue') /\ Distinct(cancel_queue')
        /\ processor' \notin Handing => rollout_sample' = NoSample
    BY <1>1 DEF AccountInv, Handing
  <1>9. "fetched" \in Places /\ "trained" \in Places
    BY DEF Places
  <1> QED
    BY <1>1, <1>3, <1>6, <1>7, <1>8, <1>9, AccountMoved

LEMMA AccountTrainer == ASSUME TypeInv, AccountInv, Trainer PROVE AccountInv'
  <1>1. CASE GetSample
    BY <1>1, AccountGetSample
  <1>2. CASE Train
    BY <1>2, AccountTrain
  <1>3. CASE Leave \/ Validated
    <2>1. /\ UNCHANGED <<taken, rollout_sample, running, cancel_queue, result_queue>>
          /\ UNCHANGED <<putting, queue, batch, trained, failed, dropped, processor>>
      BY <1>3 DEF Leave, Validated, feedVars, procVars, taskVars, heldVars, queueVars
    <2> QED
      BY <2>1, AccountSteady
  <1> QED
    BY <1>1, <1>2, <1>3 DEF Trainer

LEMMA NotifyHands == Notify => (processor \in Handing => processor' \in Handing)
  BY DEF Notify, Handing, WithSample

LEMMA AccountOthers ==
    ASSUME TypeInv, AccountInv, Feed \/ Monitor \/ Sync \/ UNCHANGED vars PROVE AccountInv'
  <1>1. CASE Feed \/ UNCHANGED vars
    <2>1. /\ UNCHANGED <<taken, rollout_sample, running, cancel_queue, result_queue>>
          /\ UNCHANGED <<putting, queue, batch, trained, failed, dropped, processor>>
      BY <1>1 DEF Feed, vars, feedVars, procVars, taskVars, heldVars, queueVars, trainVars
    <2> QED
      BY <2>1, AccountSteady
  <1>2. CASE Monitor
    <2>1. /\ UNCHANGED <<taken, rollout_sample, running, cancel_queue, result_queue>>
          /\ UNCHANGED <<putting, queue, batch, trained, failed, dropped>>
          /\ processor' = processor \/ Notify
      BY <1>2 DEF Monitor, MonitorChecks, MonitorWakes, MonitorResumes, Unpause, feedVars, procVars,
         taskVars, heldVars, queueVars, trainVars
    <2> QED
      BY <2>1, NotifyHands, AccountSteady
  <1>3. CASE Sync
    <2>1. /\ UNCHANGED <<rollout_sample, running, cancel_queue, result_queue, putting, queue>>
          /\ UNCHANGED <<taken, batch, trained, failed, dropped>>
      BY <1>3 DEF Sync, SyncAt, CallPause, Pause, PauseEnds, CopyWeights, UpdateVersion,
         ResetStaleness, EndUpdate, CallResume, Resume, feedVars, heldVars, queueVars
    <2>2. processor' = processor \/ Notify
      BY <1>3 DEF Sync, CallPause, Pause, PauseEnds, CopyWeights, UpdateVersion,
         ResetStaleness, EndUpdate, CallResume, Resume
    <2> QED
      BY <2>1, <2>2, NotifyHands, AccountSteady
  <1> QED
    BY <1>1, <1>2, <1>3

LEMMA AccountNext == ASSUME TypeInv, AccountInv, [Next]_vars PROVE AccountInv'
  BY AccountProcessor, AccountTasks, AccountConsume, AccountPutSample, AccountMain, AccountTrainer,
     AccountOthers DEF Next

\* The places, each sample in one of them, from the first step on.
THEOREM AccountInvariant == Spec => []AccountInv
  <1>1. Init => AccountInv
    <2> SUFFICES ASSUME Init PROVE AccountInv
      OBVIOUS
    <2>1. /\ rollout_sample = NoSample /\ running = {} /\ failed = {} /\ cancel_queue = <<>>
          /\ result_queue = <<>> /\ putting = EndOfStream /\ queue = <<>> /\ dropped = {}
          /\ batch = <<>> /\ trained = {} /\ taken = 0
      BY DEF Init
    <2>2. Elements(<<>>) = {} /\ SamplesOf(<<>>) = {} /\ OneEach(<<>>) /\ Distinct(<<>>)
      BY EmptySeq DEF Elements, SamplesOf, OneEach, Distinct
    <2>3. Hand = {} /\ Sent = {}
      BY <2>1, QueuedFacts DEF Hand, Sent
    <2>4. \A p \in Places : Where[p] = {}
      BY <2>1, <2>2, <2>3, Whereabouts DEF WhereIs, Places
    <2>5. TakenSamples = {}
      BY <2>1 DEF TakenSamples
    <2>6. OnePlace(Where) /\ InPlaces(Where) = {}
      BY <2>4 DEF OnePlace, InPlaces
    <2> QED
      BY <2>1, <2>2, <2>5, <2>6 DEF AccountInv
  <1>2. TypeInv /\ AccountInv /\ [Next]_vars => AccountInv'
    BY AccountNext
  <1> QED
    BY <1>1, <1>2, TypeInvariant, PTL DEF Spec

\* What may be in hand, or on its way, is one sample.
LEMMA OneCounted ==
    ASSUME NEW x
    PROVE  /\ IsFiniteSet({x} \ {NoSample})
           /\ Cardinality({x} \ {NoSample}) = OneIf(x # NoSample)
  <1>1. CASE x = NoSample
    <2>1. {x} \ {NoSample} = {} /\ OneIf(x # NoSample) = 0
      BY <1>1 DEF OneIf
    <2> QED
      BY <2>1, FS_EmptySet
  <1>2. CASE x # NoSample
    <2>1. {x} \ {NoSample} = {x} /\ OneIf(x # NoSample) = 1
      BY <1>2 DEF OneIf
    <2>2. IsFiniteSet({x}) /\ Cardinality({x}) = 1
      BY FS_Singleton
    <2> QED
      BY <2>1, <2>2
  <1> QED
    BY <1>1, <1>2

LEMMA AccountsAgree == ASSUME TypeInv, AccountInv PROVE SamplesAccounted
  <1>1. WhereIs /\ OnePlace(Where) /\ InPlaces(Where) = TakenSamples
    BY Whereabouts DEF AccountInv
  <1>2. /\ result_queue \in Seq(Messages) /\ batch \in Seq(Messages) /\ queue \in Seq(Queued)
        /\ cancel_queue \in Seq(Samples) /\ putting \in Queued
    BY DEF TypeInv, StreamInv, VersionInv, TrainerInv
  <1>3. IsFiniteSet(Samples)
    BY FS_Interval, AsyncAssumption DEF Samples
  <1>4. IsFiniteSet(Hand) /\ Cardinality(Hand) = OneIf(rollout_sample # NoSample)
    BY OneCounted DEF Hand
  <1>5. IsFiniteSet(Sent) /\ Cardinality(Sent) = OneIf(putting # EndOfStream)
    <2>1. (putting.sample # NoSample) = (putting # EndOfStream)
      <3>1. \A m \in Messages : m.sample # NoSample
        BY DEF Messages, Samples, NoSample
      <3> QED
        BY <1>2, <3>1, QueuedFacts DEF Queued
    <2>2. IsFiniteSet(Sent) /\ Cardinality(Sent) = OneIf(putting.sample # NoSample)
      BY OneCounted DEF Sent
    <2> QED
      BY <2>1, <2>2
  <1>6. IsFiniteSet(Elements(cancel_queue)) /\ Cardinality(Elements(cancel_queue)) = Len(cancel_queue)
    BY <1>2, ElementsCounted DEF AccountInv
  <1>7. /\ IsFiniteSet(SamplesOf(result_queue)) /\ Cardinality(SamplesOf(result_queue)) = Len(result_queue)
        /\ IsFiniteSet(SamplesOf(batch)) /\ Cardinality(SamplesOf(batch)) = Len(batch)
    BY <1>2, MessagesCounted, SamplesCounted DEF AccountInv
  <1>8. IsFiniteSet(SamplesOf(queue)) /\ Cardinality(SamplesOf(queue)) = Count(queue)
    BY <1>2, SamplesCounted DEF AccountInv
  <1>9. /\ IsFiniteSet(running) /\ IsFiniteSet(trained) /\ IsFiniteSet(failed)
        /\ IsFiniteSet(dropped \ {NoSample})
    <2>1. /\ running \subseteq Samples /\ trained \subseteq Samples /\ failed \subseteq Samples
          /\ dropped \ {NoSample} \subseteq Samples
      BY DEF TypeInv, StreamInv, VersionInv, TrainerInv, FlagsInv
    <2> QED
      BY <1>3, <2>1, FS_Subset
  <1>10. \A p \in Places : IsFiniteSet(Where[p])
    BY <1>1, <1>4, <1>5, <1>6, <1>7, <1>8, <1>9 DEF WhereIs, Places
  <1>11. Cardinality(TakenSamples) =
            OneIf(rollout_sample # NoSample) + Cardinality(running) + Len(cancel_queue)
            + Len(result_queue) + OneIf(putting # EndOfStream) + Count(queue)
            + Len(batch) + Cardinality(trained) + Cardinality(failed)
            + Cardinality(dropped \ {NoSample})
    BY <1>1, <1>4, <1>5, <1>6, <1>7, <1>8, <1>10, PlacesCounted DEF WhereIs
  <1>12. Cardinality(TakenSamples) =
            Outstanding + Len(batch) + Cardinality(trained) + Cardinality(failed)
            + Cardinality(dropped \ {NoSample})
    BY <1>11 DEF Outstanding
  <1>13. SamplesOf(<<putting>>) = Sent
    BY DEF SamplesOf, Sent
  <1>14. TakenSamples =
            Hand \cup running \cup Elements(cancel_queue) \cup SamplesOf(result_queue)
            \cup SamplesOf(<<putting>>) \cup SamplesOf(queue) \cup SamplesOf(batch) \cup trained
            \cup failed \cup (dropped \ {NoSample})
    BY <1>1, <1>13 DEF InPlaces, Places, WhereIs
  <1> QED
    BY <1>12, <1>14 DEF SamplesAccounted, Hand, Elements

\* Whatever pauses, interruptions, syncs and full queues do, every sample taken is in
\* exactly one place.
THEOREM SamplesAreAccounted == Spec => []SamplesAccounted
  <1>1. TypeInv /\ AccountInv => SamplesAccounted
    BY AccountsAgree
  <1> QED
    BY <1>1, TypeInvariant, AccountInvariant, PTL
=============================================================================
