# A TLA+ model of the long-horizon tool-agent RL project

The repository trains a tool-calling language model on tau-bench with GRPO. Its
own code is small and sits between two large pieces: verl (`src/verl`), whose
agent loop it extends, and tau-bench (`src/tau-bench`), the environment. This
directory holds TLA+ modules for the parts where state is shared, interleaved,
retried or kept across steps; TLC configurations for small instances; theorems
checked by TLAPS; and this guide. `PROJECT.json` maps every definition to the
lines it stands for and lists runs, mutants, hazards, findings and theorems.

    tlasany M.tla                       parse
    tlc -workers 2 -config X.cfg M      model-check
    tlapm M.tla                         check the proofs of M

File names without a directory are those of
`src/agentic-grpo-longhorizon/src` or `src/verl/verl/experimental/agent_loop`.

## 1. The system

| component | state it keeps | operations | module |
|---|---|---|---|
| tau-bench environment (`tau_bench/envs/base.py`) | database, actions so far | `reset`, `step`, `calculate_reward` | `TauEnv` |
| tool agent loop (`tool_agent_loop.py`) | per trajectory: agent state, token lists, turn counters, tool calls | `run` and its four handlers | `ToolAgentLoop` |
| agent loop worker (`agent_loop.py`) | one asyncio task per sample | `generate_sequences`, `_run_agent_loop` | `ToolAgentLoop`, `RolloutBatch` |
| tau-bench interaction (`tau_bench_interaction.py`, `tau_bench_context.py`) | `_instance_dict`, one state dict per trajectory, three context variables | `start_interaction`, `generate_response`, `calculate_score`, `finalize_interaction` (never called) | `ToolAgentLoop` |
| tau-bench tools (`tau_bench_tools.py`) | nothing of their own: the context's env and state dict | `execute` | `ToolAgentLoop` |
| LLM server manager (`agent_loop.py`) | request counts, LRU cache of sessions | `_choose_server`, `generate` | `ServerManager` |
| evaluation harness (`pass_k_eval.py`, `tau_bench_wrapper.py`, `vllm_policy.py`) | thread pool, policy flag, results | `run_eval`, `run_single_task`, `__call__`, `pass_at_k` | `EvalRun`, `PassK` |
| batch tensors (`agent_loop.py`) and advantages (`verl/trainer/ppo/core_algos.py`) | none | padding, `rm_scores`, group centring, turn discount | `TurnAdvantage` |
| process rewards (`tau_bench_interaction.py`) | none | `_compute_reasoning_quality_score` | `PrmLite` |
| SFT collection (`scripts/train/sft/collect_sft_data.py`) | three files per task, `split.json`, merged files | `collect_one_task`, `main` | `SftCollect` |
| SFT data set (`sft_dataset.py`) | none | `build_supervised_example` | `SftLabels` |
| PPO trainer (`ray_trainer.py`, `seqlen_balancing.py`, `dp_actor.py`) | none | `_balance_batch`, `rearrange_micro_batches`, `restore_dynamic_batch` | `SeqlenBalancing` |
| fully asynchronous recipe (`src/verl/recipe/fully_async_policy`) | five queues, lock and condition, version and staleness counters, the message queue actor | rollouter, trainer, `ParameterSynchronizer`, `MessageQueue` | `FullyAsync` |

The rest (verl's PPO driving loop, offline scripts, tau-bench's domain tools) is in
`PROJECT.json` with the reason it is left out.

### How the parts interact

*Training.* `generate_sequences` creates an asyncio task for every sample and
awaits them with `gather`. A task runs `ToolAgentLoop.run`: it starts the
interaction (which makes a tau-bench env and a state dict, enters both in
`_instance_dict` and binds them to two context variables), then moves through
PENDING, GENERATING, PROCESSING_TOOLS and INTERACTING until TERMINATED, scores
the episode and returns token ids, mask, log-probabilities and the score. Tool
calls of one message run as a `gather` of their own; each of its tasks gets a
*copy* of the context, and it is through that copy that
`TauBenchTool.execute` finds the env and the state dict. All trajectories share
the interaction object and the tools; generation goes through the server
manager.

*Evaluation.* `run_eval` gives a thread pool one job per sample. A job runs
`run_single_task` against a policy object whose attribute `was_truncated` tells,
after a call, whether the history was truncated or the answer held a forbidden
template token. Two scripts give all threads the same object.

*Asynchronous training.* Four coroutines of the rollouter (feeder, processor,
consumer, monitor) and one task per sample share queues, a lock with a condition
and a few counters; a trainer actor takes samples from a message-queue actor and,
every few steps, calls the synchronizer, which pauses the rollouter, copies the
weights, updates the version and resumes it. A pause may interrupt running samples,
which go to a queue of their own.

*SFT.* `collect_sft_data.py` runs `best_of_n` attempts per task in a thread pool and
leaves three files per task; a later run skips a task whose meta file exists. Then
one thread splits the tasks into seen and unseen and merges the files. The data set
labels the assistant's tokens of the merged file.

### What is hard, and what makes each part correct

* **Environment.** `calculate_reward` reloads `env.data` and replays the ground
  truth on it, so a second done step is not judged like the first. Whoever steps
  an env must stop at the first done.
* **Tool agent loop.** Three token lists are extended in three handlers under
  different length checks; turn caps are tested in one handler while counters
  are incremented in three; `done` of a step is recorded but not acted on. Correct:
  the lists stay parallel, turns alternate within the caps, the score is backed
  by the env, a scored or contaminated episode is frozen, every rollout ends.
* **Interaction, context, tools.** Interleaving of many trajectories and of
  parallel tool tasks over shared objects. Correct: a tool reaches only the env
  of its own trajectory, an action is recorded beside the message of its turn.
* **Batch.** A failing rollout makes `gather` raise while the others run on.
  Correct: one legal output per trajectory, delivered once, before the batch returns.
* **Server manager.** Counts never go down and the cache forgets. Correct: the
  load is balanced, a session stays with its server while it is active.
* **Evaluation.** Threads, exceptions inside and outside the `try`, several
  calls per message. Correct: a success is tau-bench's own, a contamination mark
  is the trajectory's own, repeated calls are cut off, `run_eval` ends.
* **SFT collection.** Crashes and failing writes between files that are read again by
  later runs. Correct: a meta file that parses describes its neighbours and is final;
  a run merges what its tasks' meta files record, into the file the split says.
* **Asynchronous training.** Every condition the coroutines test is about state another
  one changes during an await; counts are estimates; two actors wait for each other.
  Correct: no sample is lost or doubled without a count, the lead over the trainer,
  the concurrency and the staleness are bounded, samples are delivered in version
  order, the training ends.
* **Functions.** The process reward must not be earned by failing, labels measured in
  one tokenisation must fit another, weights must move credit without creating any,
  a batch cut for ranks and passes must come back with every result at its sample.

The hazards of `PROJECT.json` list these by line, with the properties that cover
them or a note where none does yet.

## 2. The modules

    TauEnv ------------ ToolAgentLoop -- ToolAgentLoopProps -- MCToolAgentLoop
      |                                   |      `-- INSTANCE RolloutBatch
      |                                   `- ToolAgentLoopProofs
      `---- EvalRun -- EvalRunProps -- MCEvalRun
                          `- EvalRunProofs
    ServerManager -- MCServerManager        FullyAsync -- FullyAsyncProps -- MCFullyAsync
        `- ServerManagerProofs                                 `- FullyAsyncProofs
    SftCollect -- SftCollectProps -- MCSftCollect
                       `- Inductions, SftCollectProofs
    PassK, PrmLite, SftLabels, TurnAdvantage, SeqlenBalancing -- Computations -- MCComputations
                     Inductions, ComputationsProofs -- SeqlenBalancingProofs -'

**TauEnv** has no variables. An env is `[data, said]`: the database, and whether
all expected outputs occur in some message to the user. A step is a *set* of
results; the user simulator's and the tools' answers are choices. `TransferStep`
and a stopping `RespondStep` return `AfterReplay(e)`, the env left at the goal.

**ToolAgentLoop** is one batch. `pc[t]` is the `AgentState` of trajectory `t`
plus "created", "calling" (inside `gather` of tool tasks), "finished" and
"raised". Actions and code:

| action | code |
|---|---|
| `StartInteraction`, `StartRaises` | `start_interaction`, called by `run` before the loop |
| `HandlePending` | `_handle_pending_state` |
| `HandleGenerating`, `GenerateRaises` | `_handle_generating_state`; `MustStop` is its three early returns |
| `SpawnTools`, `CallTool`, `CallToolRejected`, `CallToolSwallowed`, `GatherTools` | `_handle_processing_tools_state`: the tasks, one `execute` each (done, error answer, exception caught by `_call_tool`), and what follows `gather` |
| `Respond`, `RespondContaminated`, `RespondRaises` | `_handle_interacting_state` with `generate_response` inside |
| `Finish` | the end of `run`: `calculate_score`, slicing and clipping |
| `BatchReturns`, `BatchRaises` | `gather` in `generate_sequences` |

An action is what a task runs between two awaits at which another task could
touch something shared. Tool tasks of one `gather` execute in the order of their
creation: `execute` has no await before `env.step`, which blocks. A list of
token ids is its length; the mask is kept bit by bit. A message is the turn it
was generated in, so `content` and `action_history` can be compared with the
turn that is running. `native` is a history variable: the reward of the first
done step. The reward mode is "binary", the code's default
(`tau_bench_interaction.py:320`); `configs/` sets another one for PRM-Lite only.
`interaction_config_file` is the configuration's entry of that name: `Init` chooses whether
there is an interaction, and no step changes it.

**RolloutBatch** is the abstract specification: what the trainer may rely on,
with no word about agents. `ToolAgentLoopProps` instantiates it with `status`
computed from `pc`; `output` and `batch` map to themselves.

**EvalRun** is `run_eval`. `pc[j]` is where the thread of job `j` stands in
`run_single_task`; each action touches the policy's flag at most once (`Call`
clears it, `Ask` and `Answer` set it, `Inspect` reads it), so that other threads
can come between. `policy[j]` says which object job `j` uses. `flagged` and
`native` are history: the first turn that the job's own call flagged, and the
first done reward. `StoreRaises` and `Leave` are `fut.result()` raising inside
the `with`: the pool runs all jobs before the exception leaves.

**ServerManager** is `_choose_server`; it does not await, so one call is one
action. `served` and `since` are history: which server answered last, and which
sessions have called since.

**FullyAsync** is the asynchronous recipe. The rollouter is one event loop: an action
is what a coroutine does between two awaits, `busy` says that the processor has not
awaited since its last step, and `lock` is asyncio's queue of those that hold or wait
for the lock. Trainer and message queue are actors of their own; a remote call is a
step of its own between its cause and its effect (`putting`, `sync`).

| actions | code |
|---|---|
| `Feed` | `_feed_samples` |
| `Ask`, `Continue`, `PauseSelf`, `TakeInterrupted`, `TakePending`, `Reap`, `NothingToReap`, `Idle`, `Park`, `Wake`, `Submit` | the iterations of `_processor_worker`, cut at the lock, the condition and the queues |
| `Finish`, `Interrupt`, `Fail` | `_process_single_sample_streaming`: done, cancelled by a pause, raised |
| `Consume`, `PutSample` | `_consumer_worker` and `MessageQueue.put_sample` |
| `MonitorLoops`, `MonitorChecks`, `MonitorWakes`, `MonitorResumes` | `_async_monitor_loop`, its test and its resumption under the lock |
| `AwaitFeed`, `AwaitProcessor`, `JoinResults`, `PutEndOfStream`, `StopRunning` | `_streaming_generation_main` |
| `GetSample`, `Train`, `Leave`, `Validated` | `FullyAsyncTrainer.fit` |
| `CallPause`, `Pause`, `PauseEnds`, `CopyWeights`, `UpdateVersion`, `ResetStaleness`, `EndUpdate`, `CallResume`, `Resume` | `sync_weights` and the calls it makes |

Ray does not order calls to an async actor, so a `put_sample` may take effect late. The
capacity is not computed by the rollouter alone: `max_required_samples` and its two
derivatives are operators of the configuration.

**SftCollect** is `collect_sft_data.py`. A file is None or a sequence of lines; opening
truncates it, closing gives it its contents, and a crash or a failing write in between
leaves a prefix of the lines and perhaps a part of the next, `Torn`. The crash is a
process that is killed: what was closed is kept. `Joined` is what concatenation makes of
a torn line: it has no line break, so the next line joins it. A task id occurs once in a
range. After the pool the main thread is alone; its steps are cut where a crash makes a
difference to a file that somebody reads.

**PassK, PrmLite, SftLabels, TurnAdvantage, SeqlenBalancing** are pure functions;
**Computations** checks each on every sequence of elements up to a length. `PassK` keeps a
product of `1 - k/i` as a fraction. `PrmLite` scores in hundredths; a step's parameters
are a set of values, one of which stands for all that count as placeholders. `SftLabels`
renders a conversation with Qwen2.5's template (external: default system prompt, one turn
for consecutive tool messages, an empty prefix raises) and models the one way a tokenizer
shifts a boundary there, a body that starts with a line break. `TurnAdvantage` takes two
for alpha and leaves out the division by the group's standard deviation, a positive factor
common to the group. `SeqlenBalancing` is what stands between the advantages and the
optimizer: `_balance_batch` cuts a batch for the ranks (`balance_batch: true` in the
project's configurations; the asynchronous trainer calls it, too), and with dynamic
batches (off there) a rank cuts its share into passes and puts their results back in
order. The heap of the differencing method is a set of states: `State.__lt__` is a total
order, so `Popped` is the state Python pops. `sorted()` is external: `Order` says at which
place an element ends, by how many others come before it. A length is above zero, since
every sample has a prompt (`ComputationsAssumption`).

Definitions marked `Defect:` are plausible mistakes; the mutants put them in
place of the definition that follows them and expect the property to fail.

## 3. Runs

| run | distinct states | what it asks |
|---|---|---|
| `loop_one` | 1.0 M | one trajectory, with an interaction and without, up to 3 calls per message of which 2 run, lengths 1 and 2, response length 7, user cap 2, budget 3: types, `TokensAligned`, `TurnsAlternate`, `RewardBacked`, `CountersAgree`, `ContentOfThisTurn`, `ImplementsBatch`, `RolloutsEnd` |
| `loop_two` | 1.3 M | two trajectories interleaved, with an interaction and without, both turn caps off: `OwnEnvironment`, `EnvIsolation`, `EpisodeFrozen`, `ImplementsBatch`, `RolloutsEnd` |
| `doc_outcome`, `doc_contaminated` | | two statements about the reward that the code does not keep |
| `eval_pool` | 1.7 M | two jobs on two threads, 3 turns, 2 calls per message, window 3, limit 2: types, `SuccessIsNative`, `NoRepeatedCalls`, `MarkIsOwn`, `EvalEnds` |
| `doc_shared_policy` | | two jobs on one policy object: the mark of one is set by the other |
| `servers` | 186 (up to symmetry) | 4 sessions, 3 servers, a cache of 2: `RoundRobin`, `StickySession` |
| `async_stream` | 0.50 M | 6 samples, 3 of them pending at most, a sync every 2 steps, staleness 50 %, 2 at a time, partial rollout, one generation may raise: types, `SamplesAccounted`, `BoundedConcurrency`, `QueueInVersionOrder`, `StreamEnds` |
| `async_lead` | 7.3 M | 10 samples, a sync every step, staleness 100 %, one at a time: `BoundedLead`, `BoundedStaleness` |
| `doc_async` | | 3 samples, a sync every step, staleness 100 %: an interrupted sample is never resumed |
| `sft_collect` | 1.2 M | 3 starts on the ranges 0,1 and 1, two attempts per task, a crash and a failing write: types, `MetaDescribesFiles`, `CompleteIsFinal`, `MergedIsCollected`, `SplitMatchesTrain`, `RunEnds` |
| `functions` | 0.45 M | up to 8 samples of a task, 6 steps, 6 messages, batches of 3, lengths of 6 samples on 1 to 3 ranks: `IsPassAtK`, `NoPayForGivingUp`, `LabelsAreAssistants`, `CreditIsConserved`, `BatchIsShared`, `PassesReturnAll` |

**Bounds.** `MaxCalls` bounds calls per message, `MaxCount` sessions per server,
`MaxFailures`, `MaxCrashes` and `MaxRuns` faults and restarts, `Longest` the inputs of the
functions; the other constants are configuration values of the code taken small. They are
chosen so that the interesting case happens: a response length of 7 lets a message pass it
from below and from exactly the limit and lets a tool round overflow; `MaxCalls` above
`max_parallel_calls` drops calls; two rounds are the least for a second done step and for
stale content; two trajectories are the least for interference, and the interference
theorems hold for any number; in `eval_pool` three turns with messages of two calls that
do not end the episode ask up to six calls, past the window of three, so that old calls
leave it (the second job has one answer and only keeps the pool busy); four
sessions overflow a cache of two. A database has two values, the initial one and the goal:
the code only compares it with the goal. In `async_stream` six samples make
three versions of two, so that a sync meets running, interrupted, finished, queued and
pending samples at once and a sample can be older than the weights; a `pending_size` of
half of them makes the feeder wait. That run is too short for a sync to loosen the rollouter's
limits, so these have `async_lead`: ten samples and a sync after each
training step. Both limits are reached there, after recounts too: with either of them lower
by one the run fails. In `sft_collect` a task of
two attempts has files with prefixes; the third start follows a crash and the run that
resumes it, and the range of one task has no holdout. In `functions` six steps hold an
error, two thoughts, the repetition and its context; the length penalty, above eight
steps, is not reached there, but in the theorem; six lengths of four values make ties, groups of two and three, and
up to six passes.

No run reaches the cap on assistant turns: a user or tool turn, which the user's cap counts,
stands between any two of them, so one of the two caps always comes first, and it is the
user's here; `TurnsKeepAlternating` covers both.
With `required_samples` of one a batch is never partly filled when the stream ends; the
trainer gives a partial batch up (`GetSample`), and in the model its samples stay in `batch`.

`CHECK_DEADLOCK FALSE` is set because each of these systems stops: a batch that
returned, an evaluation that reported, sessions all at the bound, a training that finished or
hangs, a collection with no start left.

**Fairness.** `ToolAgentLoop`: weak fairness of each task and of `gather`. An asyncio loop
runs every ready task; an awaited generate call or user simulator is assumed to answer or
raise, and which of them is left open (the user simulator's client has its library's
default timeout; a call of a server actor has none, and a server that never answers stalls
the code as well). `RolloutsEnd` then rests on a generation adding at least one token
(`GenLens \subseteq Nat \ {0}`): no cap is needed, since `MustStop` sees the length.
`FullyAsync`: weak fairness of every coroutine and of the trainer; strong fairness of the
synchronizer's calls, which wait in the lock's queue while others pass (asyncio grants the
lock in order); a generation that started ends, is interrupted or raises. `SftCollect`:
weak fairness of the pool's threads and of the main thread; a crash excuses. `EvalRun`:
weak fairness of each thread and of the collecting loop: threads are scheduled, and both
clients give up by their libraries' defaults. Safety-only modules state none.

## 4. Proofs

Every theorem holds for all values of the constants under the `ASSUME` of its
module, which the runs evaluate.

* **Tokens** (`ToolAgentLoopProofs`). `TokensAligned` is not inductive: that no
  observation precedes the first policy token is known from `pc` only. `TokenInv`
  adds, per control state, whether the mask is empty; each handler is one of three
  lemmas (lists untouched, policy tokens appended, observation appended).
* **Turns** (same module). The caps are tested after a generation only, so
  `TurnInv` adds that a trajectory still moving has room for one more message.
* **Types and ownership** (`ToolAgentLoopProofs`). `CallTool` writes the env the
  *task's context* names, so types cannot be kept without ownership:
  `IInv == TypeOK /\ Ownership`, where `Owned(t)` says that contexts, tool tasks
  and `_instance_dict` name `t` or nothing. `Finish` needs `TokenInv` for the type
  of its output, hence `[](IInv /\ TokenInv)`.
* **Episodes** (same module). `EpisodesAreIsolated` follows from what
  one step of `t` may write under `IInv`. `RewardInv` compares the state dict's total
  with `native`; `EndInv` places every contaminated or scored episode at the end of
  the state machine, where only `Finish` is enabled. `CountersAgree` compares counters of
  the loop with counters of the state dict, and does not know of the calls that a message has
  announced. `CounterInv` does: `Tallied` counts them with the calls made and those in the
  tasks (`Coming`, `Executing`) and says that an episode that goes on has a user turn left,
  `Counted` that errors start at 0 with each `gather`, and `Written` that a task carries the
  content of the running turn. From it and `Recorded`, a step leaves a history as it is or
  adds one entry of that turn, `ContentOfThisTurn` follows.
* **Refinement** (`ToolAgentLoopProofs`). Each step maps to `Deliver`, `Fail`,
  `Return`, `Raise` or a stutter; `FinishIsLegal` needs `TokenInv` (a terminated
  trajectory has a trained first token) and the arithmetic of slicing and clipping.
* **Evaluation** (`EvalRunProofs`). `PaidInv`: a done step ends the trajectory at
  once, so the total is the first done reward. `MarkInv`, under `OwnPolicies`: between
  call and read the mark may lag by the running turn, and only an exception ends a
  trajectory there. `doc_shared_policy` shows that the assumption is needed. Types need
  `Started`: only a job that has started has an environment to step. `NoRepeatedCalls`
  needs `Watched`: the window is the end of the executed calls followed by the rest of the
  message, and it was counted when the message came.
* **Asynchronous recipe** (`FullyAsyncProofs`). `BoundedConcurrency`: the limit is tested
  before the lock is awaited. `StreamInv` says that the processor, from the test to the new
  task, is at one of a few places (`Placed`) where a task is free; nobody else makes tasks.
  `QueueInVersionOrder`: `VersionInv` orders the three containers a finished sample
  passes, `result_queue` after the message on its way after the message queue, all of
  them at most at the rollouter's version, which is at most the trainer's. Types
  (`TypeInv`) need to know where each coroutine stands when it is in the lock's queue.
  `BoundedLead` is not inductive: a recount sums lengths that samples move between, and the
  processor may overwrite it. `StalenessInv` has three parts. `VersionsMeet`
  relates the three version counters per place of trainer and synchronizer. `LeadInv`: what is
  outstanding exceeds the count, and the most the count may be, by at most 2, the sample in
  the processor's hand and the one being put, which a recount misses, and by at most 1 while
  the processor waits in `get()`, from which it takes a sample without another look; the
  same holds of the lead over the samples that the next version completes, `Gap`. `AgeInv`: the
  n-th sample fetched carries a version it is no further ahead of than the limit, and keeps its
  rank on the way from `result_queue` to the batch. `BoundedStaleness` is the
  division of that by the samples of a version. `SamplesAccounted`: `AccountInv` says that the places of a
  sample are pairwise disjoint and no queue holds one twice; their union is what was taken,
  so the cardinalities add up.
* **Servers** (`ServerManagerProofs`). `RoundRobin` is inductive with the type of the
  counts: they form a staircase of height one. `StickySession` needs `CacheInv`:
  `Ordered` (every entry behind an entry belongs to a session that has called since)
  and `Forgotten` (a session that is not cached was overtaken by a full cache).
* **SFT collection** (`SftCollectProofs`), for any number of tasks, attempts, workers,
  runs, crashes and failing writes. That a meta file which parses describes its
  neighbours is not inductive: it must be known before the meta file exists.
  `Known(t)` says so per control state of the thread: a thread that is at a file has made
  every attempt, the files before it hold what the attempts say, and no meta file of
  its task is on disk but the one it writes. `KnownStays` carries it through the steps of
  other threads, `KnownIdle` through a crash. `CompleteIsFinal` follows from it: the only
  step that opens a file of `t` is one of a thread that found no meta file.
  `SplitMatchesTrain` and `MergedIsCollected` need `MergeInv`. `Owned(t)` types the files: the
  attempts in them are the task's own, and what is in the trajectory file are clean successes,
  cut or not; a task that returned gave what its meta file says. `MainInv` says what main()
  has at each step after the pool, `SplitInv` when the files of the split and of the training
  agree. Then `Building` follows the merge task after task, `MergedOf` finds in the result the
  lines of each task (the tasks of a range do not repeat, so once), and `MergedCount` adds
  their lengths up to what the summary counts. `MarkerAssumption`: the constants that stand
  for a missing and for a torn file are no contents of one.
* **Induction** (`Inductions`). The library's induction theorems take an operator for the
  hypothesis, which no installed prover can instantiate. That every set with 0 and the
  successor of each of its members holds all natural numbers is first-order, and follows
  from the least counterexample (`NatSetInduction`). From it: a recursion has a solution up
  to every bound (`Recursion`), hence what `FlattenSeq`, `Picked` and `NumSuccesses` compute.
  Likewise over the subsets of a finite set (`SubsetInduction`): a fold over a set exists
  (`FoldExists`) and may take the elements in any order if its step commutes
  (`FollowsFolds`), hence what `SumOver` and `Product` compute.
* **Functions** (`ComputationsProofs`), for inputs of any length and any elements.
  `NoPayForGivingUp`: `RepeatCosts` finds every rule that could pay for repeating an error
  cancelled by the redundancy penalty, `HandoverCosts` the recovery bonus by the escalation
  penalty. That ending on a repeated error lowers the score needs the sum of the steps:
  cutting off a redundant last step changes no other step's score (`SameScores`: a thought
  before it was not paid), so the sums differ by the last one (`SumBefore`); no step is paid
  more than 14, hence the upper clamp is never reached, and `MeanFalls` is the arithmetic.
  `LabelsAreAssistants`: the two renderings that measure an answer cut no turn of tools in
  two, so they are prefixes of the whole (`PrefixRenders`), and `SpansStep` adds turn after
  turn: tokens of an answer and tokens in its span are the same.
  `CreditIsConserved`: the reward is the sum of the token-level rewards (`ScoreIsReward`), so
  centring gives `Gap` over `GroupSize` (`CentredIsGap`); a common factor comes out of the sum
  of the weights (`SumScale`), and the powers of alpha grow (`AlphaGrows`).
  `IsPassAtK`: Pascal's rule, by a bijection between the k-subsets with a given element and
  the (k-1)-subsets without it (`Pascal`), gives by induction over the set how the number of
  k-subsets grows with one more element (`WaysAbsorb`, `WaysGrow`); each success adds that
  factor to the product (`FactorOut`), so by induction over the successes the product is the
  share of the subsets without one (`KeptToAlways`). If there are fewer than k failures no
  such subset exists, which is the early return. That the estimate exceeds pass^k
  (`EstimateExceeds`) is then a matter of one `k`-subset that mixes success and failure,
  which exists as soon as there is one of each (`SubsetOfSize`).

* **Balancing** (`SeqlenBalancingProofs`), for any number of samples, ranks and passes and
  any lengths. Ranking the elements of a strict order by how many are below is a bijection
  (`Ranking`), so `Order` is a permutation that sorts (`OrderSorts`) for whatever key the code
  compares (`Weak`). `Heap` is the invariant of the differencing loop: the states share no
  item and have them all, and each is `Sound`, its sets in order, their sums true, as many
  items in each or, without `equal_size`, none empty unless each has one at most, and their
  sums no further apart than a number of `Gaps`. A merge keeps it (`MergeSound`): the sums of
  `s[i]` and `t[k + 1 - i]` differ by no more than the worse of the two spreads, and with one
  item or none in every set of both, either no two heads meet or no set is left empty. The
  heads of disjoint sets differ, so the heap has a first state (`PoppedIn`), and after as
  many rounds as it had states but one a single state is left (`MergedSound`). The parts are
  then only reordered, inside (`ReorderedDeals`) and as a whole (`RearrangedDeals`), and laid
  end to end: equal parts are the shares (`FlatShares`), and a list that has every position
  once has an inverse (`Restored`). That `get_seqlen_balanced_partitions` fails none of its
  assertions follows on the way. What the ranks agree on lies between one pass and as many as
  a rank has samples (`WantedFits`).

Model-checked only is what is out of this prover's reach, liveness, with fairness and ENABLED:
`RolloutsEnd`, `EvalEnds`, `RunEnds`, `StreamEnds`. Every invariant and every action property
of the passing runs is a theorem.

## 5. What the runs found

* `doc_outcome`: after `transfer_to_human_agents` returns done, the loop goes on; the
  next done step is paid against a database the replay has already set to the goal.
  `docs/vanilla_grpo/verl_rollout_design.md:47` says the reward is strictly tau-bench's.
* `doc_contaminated`: `calculate_score` never reads `contaminated`, so a trajectory
  already paid keeps its reward; `tau_bench_interaction.py:441` says it is locked at 0.
* `doc_shared_policy`: with one `VLLMPolicy` for all threads
  (`run_baseline_eval.py:55` calls it thread-safe) the mark of one trajectory can come
  from another.
* `doc_async`: asynchronous training can hang. `README.md:212-213` of the recipe says an
  interrupted sample continues after the synchronization, but interrupted samples
  count against the staleness limit, and count twice while their ended task has not been
  awaited. When they fill the limit the rollouter stays paused, the trainer waits for one
  of them, and only a sync, that is a training step, resets the count. In the trace the
  monitor's late resumption (below) lets samples start while the weights are copied, and
  they are interrupted and counted twice.
* `functions`: `pass_k_eval.py:54` and `:98` call what the report holds pass^k, the
  probability that `k` samples in a row all succeed. It is pass@k, that one of them does.
  `IsPassAtK` states both halves: the value is the share of the `k`-subsets with a success,
  and for `k > 1` and a task both solved and failed it exceeds the share of those that are
  successes altogether. One success in four samples reports 1 for `k = 4`, where pass^4 is 0.

Read in the code, and shown by a property that had to make an exception or by the model's
reachable states, but no run of their own:

* *Agent loop.* `finalize_interaction` has no caller, so `_instance_dict` only grows;
  `_call_tool` swallows the "fail loud" error of a tool without an env; a call that
  truncates and then exceeds the context length leaves its trajectory unmarked
  (`MarkIsOwn` shows that it is at least never a success).
* *Asynchronous recipe.* The monitor reads the limits, waits for the lock that `pause()`
  holds and clears `paused` after it, so samples run while the weights are copied (the
  recipe's `README.md:203-204` says they do not). `done_tasks` is used unassigned when a
  pause came between the test of `active_tasks` and the lock (`NothingToReap`): the
  processor raises, and if the feeder waits for room, `main` waits for the feeder and the
  trainer for a sample that never comes: the second hang that `StreamEnds` excuses. The
  processor leaves at DONE with interrupted samples stranded in `cancel_queue`.
  The recipe's `README.md:132-137` says that at most `(1 + threshold) * B` samples, less the
  stale ones, are generated between two updates, B being the samples of a version, and that
  a threshold of 1 is a one-step-off policy. The recount misses the sample in the
  processor's hand and the one on its way to the message queue, so the lead may exceed the
  limit by two (`BoundedLead`); and since the trainer may fetch the samples of the next
  version before the recount, a sample may be `(limit + 1) div B + 1` versions old when it
  is trained on (`BoundedStaleness`).
  A late `put_sample` may find the queue at `max_queue_size` and drop its oldest sample;
  `SamplesAccounted` counts it.
* *Process reward.* Two failing calls in turns are paid each time (+5 against -3); a
  failing write repeated with a chained value is paid (+8 against -3 and -4); three
  thoughts between an error and its repetition hide it, and so does one `think` call that
  fails itself, after which the repetition is even paid (+5 against -3); extra steps dilute a negative
  mean. `NoPayForGivingUp` is what remains true.
* *SFT collection.* A torn meta file exists, so its task fails in every later run (line
  71), while its trajectories are merged and counted nowhere. A failing write leaves a
  line without its end, which the merge joins with the next task's first line (line 300).
  After a crash between line 278 and the merge, `split.json` and `train.jsonl` belong to
  different runs.
* *Dynamic batches.* `seqlen_balancing.py:275` calls `max_token_len` the maximum sum of a
  micro-batch. It only sets their number: lengths 2, 7, 7 with a limit of 8 make two
  passes, one of 9. What holds is the gap that `PassesReturnAll` states, a pass has no
  more work than another one and the longest sample together.
* *Advantages.* A response without a trained token makes the weights NaN
  (`core_algos.py:397`); `RolloutBatch!Legal` says that the agent loop delivers none.

## 6. Not modelled

The map names a small part of the repository's lines: most of them are verl's library
(workers, kernels, engines, other recipes) and tau-bench's task data, which this project
uses and does not own, and which have no protocol that its own code takes part in.

*Data.* Texts, JSON and regular expressions of messages (a malformed call is a kind of
call), and with them the forbidden template tokens of a message that holds tool calls; images,
videos and the gpt-oss format; metrics (`turn_scores`, `tool_rewards`, timings); left
padding and position ids; the averages and the file of the evaluation report. The
databases and tools of tau-bench are abstract writes.

*Numbers.* Floating point: the division by the standard deviation, LATA's square root,
the partial-credit formula and the sum of outcome and process reward (single expressions).

*Drivers.* verl's synchronous PPO loop, but for the cutting of its batches, and the
training loop of the SFT script make one call after the other. Of the asynchronous recipe:
checkpoints and resuming, validation, and what the agent loop does when its task is
cancelled (`Interrupt` is its outcome). `finalize_interaction`, which nothing calls.

*Environment.* Ray, vLLM, the user model, retries inside the OpenAI client and the chat
template are choices or external definitions. A crash of the collection kills the
process; a loss of what the operating system had not written is not modelled.

## 7. Plan

Done: the rollout core with its theorems; evaluation and servers; the asynchronous
recipe; SFT collection with crashes; the pure functions. Left, in this order:

1. Contents of messages with tool calls, to state what the contamination check at
   `tau_bench_interaction.py:442` misses.
2. The "partial_credit" and "prm_lite" modes in `CalculateScore`, in hundredths, the
   latter composed with `PrmLite`.
