----------------------------- MODULE SftCollect -----------------------------
(***************************************************************************)
(* The collection of SFT data, scripts/train/sft/collect_sft_data.py: a    *)
(* pool of threads makes best_of_n attempts per task and leaves three      *)
(* files per task; then the main thread splits the tasks into seen and     *)
(* unseen ones and merges their files.  The process may die between any    *)
(* two steps and be started again, with the same or another --task-range,  *)
(* on what the files hold.                                                 *)
(*                                                                         *)
(* A file is None or a sequence of lines [task, run, kind]; Torn stands    *)
(* for a line, or a JSON file, that was cut short.  What an attempt does   *)
(* is EvalRun's business: here it succeeds, fails or raises, or carries a  *)
(* contamination mark.                                                     *)
(***************************************************************************)
EXTENDS Integers, Sequences, FiniteSets, SequencesExt

CONSTANTS
    Ranges,     \* the task ranges a run may be given: sequences without repetition
    Kinds,      \* what an attempt may come to: "success", "failure", "marked"
    None, Torn, \* no file; a cut line or JSON file
    best_of_n, num_workers, holdout_size,
    MaxRuns, MaxCrashes, MaxFailures  \* bounds: starts, crashes, failing writes

ASSUME CollectAssumption ==
    /\ Kinds \subseteq {"success", "failure", "marked"}
    /\ \A ids \in Ranges : ids \in Seq(ToSet(ids)) /\ IsInjective(ids)
    /\ best_of_n \in Nat \ {0} /\ num_workers \in Nat \ {0} /\ holdout_size \in Nat
    /\ MaxRuns \in Nat /\ MaxCrashes \in Nat /\ MaxFailures \in Nat

VARIABLES
    main,       \* the process: "idle" (not running), "collecting", "splitting", "split", "merging", "done"
    task_ids,   \* the tasks of the current run
    pc,         \* pc[t]: where collect_one_task(t) stands
    writing,    \* writing[t]: its current file is open
    attempts,   \* attempts[t]: what the attempts made so far came to
    file,       \* file[t]: task_t.jsonl, task_t_contaminated.jsonl and task_t.meta.json
    all_meta,   \* all_meta[t]: the result of t's future, None unless it returned
    total_successes,  \* of summary.json
    split,      \* split.json
    train_file, holdout_file,
    runs, crashes, failures

poolVars  == <<pc, writing, attempts, file, all_meta>>
mainVars  == <<total_successes, split, train_file, holdout_file>>
faultVars == <<crashes, failures>>
vars == <<main, task_ids, poolVars, mainVars, runs, faultVars>>

Tasks == UNION {ToSet(ids) : ids \in Ranges}
Files == {"out", "contaminated", "meta"}

\* Defect: the meta file is written before the trajectories.
MetaFirst == [sampling |-> "meta", meta |-> "out", out |-> "contaminated", contaminated |-> "returned"]

\* The order in which collect_one_task writes its files.
Following == [sampling |-> "out", out |-> "contaminated", contaminated |-> "meta", meta |-> "returned"]

Init ==
    /\ main = "idle" /\ task_ids = <<>>
    /\ pc = [t \in Tasks |-> "idle"]
    /\ writing = [t \in Tasks |-> FALSE]
    /\ attempts = [t \in Tasks |-> <<>>]
    /\ file = [t \in Tasks |-> [n \in Files |-> None]]
    /\ all_meta = [t \in Tasks |-> None]
    /\ total_successes = 0 /\ split = None
    /\ train_file = None /\ holdout_file = None
    /\ runs = 0 /\ crashes = 0 /\ failures = 0

\* main(): every task of the range is submitted to the pool.
Launch(ids) ==
    /\ main \in {"idle", "done"} /\ runs < MaxRuns
    /\ main' = "collecting" /\ task_ids' = ids /\ runs' = runs + 1
    /\ pc' = [t \in Tasks |-> IF t \in ToSet(ids) THEN "queued" ELSE "idle"]
    /\ writing' = [t \in Tasks |-> FALSE]
    /\ attempts' = [t \in Tasks |-> <<>>]
    /\ all_meta' = [t \in Tasks |-> None]
    /\ UNCHANGED <<file, mainVars, faultVars>>

-----------------------------------------------------------------------------
(* collect_one_task in a thread of the pool.                               *)

Goto(t, l) == pc' = [pc EXCEPT ![t] = l]

Busy(t) == pc[t] \in {"sampling"} \union Files

Starts(t) ==
    /\ main = "collecting" /\ pc[t] = "queued"
    /\ Cardinality({u \in Tasks : Busy(u)}) < num_workers

\* A meta file is the result of an earlier run; one that does not parse raises.
Resume(t) ==
    /\ Starts(t)
    /\ file[t].meta # None
    /\ all_meta' = [all_meta EXCEPT ![t] = IF file[t].meta = Torn THEN None ELSE file[t].meta]
    /\ Goto(t, IF file[t].meta = Torn THEN "failed" ELSE "returned")
    /\ UNCHANGED <<main, task_ids, writing, attempts, file, mainVars, runs, faultVars>>

\* Defect: what tells that a task was collected is its trajectories.
NoTrajectories(t) == file[t].out \in {None, <<>>}

NotCollected(t) == file[t].meta = None

Begin(t) ==
    /\ Starts(t)
    /\ NotCollected(t)
    /\ Goto(t, "sampling")
    /\ UNCHANGED <<main, task_ids, writing, attempts, file, all_meta, mainVars, runs, faultVars>>

\* Defect: one attempt more than best_of_n.
OneMore(t) == Len(attempts[t]) <= best_of_n

MayAttempt(t) == Len(attempts[t]) < best_of_n

\* run_single_task returns or raises.
Attempt(t, kind) ==
    /\ main = "collecting" /\ pc[t] = "sampling" /\ MayAttempt(t)
    /\ attempts' = [attempts EXCEPT ![t] = Append(@, [task |-> t, run |-> runs, kind |-> kind])]
    /\ UNCHANGED <<main, task_ids, pc, writing, file, all_meta, mainVars, runs, faultVars>>

\* All attempts made: on to the files.
Sampled(t) ==
    /\ main = "collecting" /\ pc[t] = "sampling" /\ Len(attempts[t]) = best_of_n
    /\ Goto(t, Following["sampling"])
    /\ UNCHANGED <<main, task_ids, writing, attempts, file, all_meta, mainVars, runs, faultVars>>

\* What a loop over q keeps: the elements at the positions I.
Picked(q, I) ==
    LET picked[n \in 0..Len(q)] ==
            IF n = 0 THEN <<>>
            ELSE IF n \in I THEN Append(picked[n - 1], q[n]) ELSE picked[n - 1]
    IN  picked[Len(q)]

Lines(tries, kind) == Picked(tries, {i \in DOMAIN tries : tries[i].kind = kind})

\* successes and contaminated: a marked attempt is never a success.
Contents(t, n) ==
    CASE n = "out" -> Lines(attempts[t], "success")
      [] n = "contaminated" -> Lines(attempts[t], "marked")
      [] n = "meta" -> attempts[t]

\* Opening truncates; an empty meta file does not parse.
Truncated(n) == IF n = "meta" THEN Torn ELSE <<>>

OpenFile(t) ==
    /\ main = "collecting" /\ pc[t] \in Files /\ ~writing[t]
    /\ file' = [file EXCEPT ![t][pc[t]] = Truncated(pc[t])]
    /\ writing' = [writing EXCEPT ![t] = TRUE]
    /\ UNCHANGED <<main, task_ids, pc, attempts, all_meta, mainVars, runs, faultVars>>

CloseFile(t) ==
    /\ main = "collecting" /\ pc[t] \in Files /\ writing[t]
    /\ file' = [file EXCEPT ![t][pc[t]] = Contents(t, pc[t])]
    /\ writing' = [writing EXCEPT ![t] = FALSE]
    /\ Goto(t, Following[pc[t]])
    /\ all_meta' = IF pc[t] = "meta" THEN [all_meta EXCEPT ![t] = attempts[t]] ELSE all_meta
    /\ UNCHANGED <<main, task_ids, attempts, mainVars, runs, faultVars>>

\* What may be left of lines whose writing was cut short: some of them, and a part of
\* the next.
Cut(lines, k, torn) ==
    LET kept == SubSeq(lines, 1, k)
    IN  IF torn /\ k < Len(lines) THEN Append(kept, Torn) ELSE kept

Remains(t, n, k, torn) ==
    IF n = "meta" THEN (IF torn THEN Torn ELSE Contents(t, n)) ELSE Cut(Contents(t, n), k, torn)

\* A write raises, say on a full disk: the future of the task fails, main goes on.
WriteFails(t, k, torn) ==
    /\ main = "collecting" /\ pc[t] \in Files /\ writing[t] /\ failures < MaxFailures
    /\ k <= Len(Contents(t, pc[t])) /\ (pc[t] = "meta" => torn)
    /\ file' = [file EXCEPT ![t][pc[t]] = Remains(t, pc[t], k, torn)]
    /\ writing' = [writing EXCEPT ![t] = FALSE]
    /\ Goto(t, "failed")
    /\ failures' = failures + 1
    /\ UNCHANGED <<main, task_ids, attempts, all_meta, mainVars, runs, crashes>>

-----------------------------------------------------------------------------
(* main() after the pool.                                                  *)

\* Defect: only the tasks that returned are waited for.
NoneLeft == \A t \in ToSet(task_ids) : pc[t] = "returned"

PoolDone == \A t \in ToSet(task_ids) : pc[t] \in {"returned", "failed"}

\* What m["num_successes"] sums up to: only the futures that returned are in all_meta.
NumSuccesses(ids, metas) ==
    LET sum[n \in 0..Len(ids)] ==
            IF n = 0 THEN 0
            ELSE IF metas[ids[n]] = None THEN sum[n - 1]
            ELSE sum[n - 1] + Len(Lines(metas[ids[n]], "success"))
    IN  sum[Len(ids)]

\* The summary is written and split.json opened.
Summarise ==
    /\ main = "collecting" /\ PoolDone
    /\ main' = "splitting"
    /\ total_successes' = NumSuccesses(task_ids, all_meta)
    /\ split' = Torn
    /\ UNCHANGED <<task_ids, poolVars, train_file, holdout_file, runs, faultVars>>

\* Every stride-th task is held out.
Holdout(ids) ==
    IF 0 < holdout_size /\ holdout_size < Len(ids)
    THEN {ids[((i * Len(ids)) \div holdout_size) + 1] : i \in 0..(holdout_size - 1)}
    ELSE {}

WriteSplit ==
    /\ main = "splitting"
    /\ main' = "split"
    /\ split' = [seen |-> ToSet(task_ids) \ Holdout(task_ids), unseen |-> Holdout(task_ids)]
    /\ UNCHANGED <<task_ids, poolVars, total_successes, train_file, holdout_file, runs, faultVars>>

\* train.jsonl and holdout_train.jsonl are opened, which truncates them.
OpenMerged ==
    /\ main = "split"
    /\ main' = "merging"
    /\ train_file' = <<>> /\ holdout_file' = <<>>
    /\ UNCHANGED <<task_ids, poolVars, total_successes, split, runs, faultVars>>

\* A cut line has no line break: the next line, of whatever file, joins it.
Joined(lines) == Picked(lines, {i \in DOMAIN lines : i = 1 \/ lines[i - 1] # Torn})

\* Defect: the contaminated trajectories are merged as well.
WithContaminated(S) ==
    Joined(FlattenSeq([i \in DOMAIN task_ids |->
        LET f == file[task_ids[i]]
        IN  IF task_ids[i] \in S /\ None \notin {f.out, f.contaminated} THEN f.out \o f.contaminated
                                                                      ELSE <<>>]))

\* The lines of the tasks in S whose file exists, in the order of task_ids.
Merged(S) ==
    Joined(FlattenSeq([i \in DOMAIN task_ids |->
        IF task_ids[i] \in S /\ file[task_ids[i]].out # None THEN file[task_ids[i]].out ELSE <<>>]))

\* Defect: every task is merged into train.jsonl.
AllTasks == ToSet(task_ids)

\* target_f = f_train.
TrainTasks == split.seen

Merge ==
    /\ main = "merging"
    /\ main' = "done"
    /\ train_file' = Merged(TrainTasks)
    /\ holdout_file' = Merged(split.unseen)
    /\ UNCHANGED <<task_ids, poolVars, total_successes, split, runs, faultVars>>

-----------------------------------------------------------------------------
\* The process is killed: an open file keeps what had reached it.
Crash(k, torn) ==
    /\ main \notin {"idle", "done"} /\ crashes < MaxCrashes
    /\ crashes' = crashes + 1
    /\ main' = "idle"
    /\ file' = [t \in Tasks |->
          IF main = "collecting" /\ writing[t]
          THEN [file[t] EXCEPT ![pc[t]] = Remains(t, pc[t], k[t], torn[t])]
          ELSE file[t]]
    /\ writing' = [t \in Tasks |-> FALSE]
    /\ pc' = [t \in Tasks |-> "idle"]
    /\ IF main = "merging"
       THEN \E i \in 0..Len(Merged(TrainTasks)), j \in 0..Len(Merged(split.unseen)), b, c \in BOOLEAN :
               /\ train_file' = Cut(Merged(TrainTasks), i, b)
               /\ holdout_file' = Cut(Merged(split.unseen), j, c)
       ELSE UNCHANGED <<train_file, holdout_file>>
    /\ UNCHANGED <<task_ids, attempts, all_meta, total_successes, split, runs, failures>>

CrashAny ==
    \E k \in [Tasks -> 0..best_of_n], torn \in [Tasks -> BOOLEAN] :
        /\ \A t \in Tasks : IF writing[t] THEN k[t] <= Len(Contents(t, pc[t]))
                                          ELSE k[t] = 0 /\ ~torn[t]
        /\ Crash(k, torn)

Work(t) ==
    \/ Resume(t)
    \/ Begin(t)
    \/ \E kind \in Kinds : Attempt(t, kind)
    \/ Sampled(t)
    \/ OpenFile(t)
    \/ CloseFile(t)

Conclude == Summarise \/ WriteSplit \/ OpenMerged \/ Merge

Next ==
    \/ \E ids \in Ranges : Launch(ids)
    \/ \E t \in Tasks : Work(t)
    \/ \E t \in Tasks, k \in 0..best_of_n, torn \in BOOLEAN : WriteFails(t, k, torn)
    \/ Conclude
    \/ CrashAny

\* The threads of the pool and the main thread go on until the process is killed.
Fairness == (\A t \in Tasks : WF_vars(Work(t))) /\ WF_vars(Conclude)

Spec == Init /\ [][Next]_vars /\ Fairness
=============================================================================
