-------------------------- MODULE SftCollectProps --------------------------
(***************************************************************************)
(* What the files of SftCollect promise across crashes and restarts.       *)
(***************************************************************************)
EXTENDS SftCollect

Line == [task : Tasks, run : 1..MaxRuns, kind : Kinds]

\* The two markers are no contents of a file.
ASSUME MarkerAssumption ==
    /\ None # Torn
    /\ {None, Torn} \cap Seq(Line \union {Torn}) = {}
    /\ Torn \notin Line \union [seen : SUBSET Tasks, unseen : SUBSET Tasks]

\* Types; no task makes more attempts than best_of_n, and a thread has a file open only
\* while it is at one.
TypeOK ==
    /\ main \in {"idle", "collecting", "splitting", "split", "merging", "done"}
    /\ pc \in [Tasks -> {"idle", "queued", "sampling", "returned", "failed"} \union Files]
    /\ writing \in [Tasks -> BOOLEAN]
    /\ attempts \in [Tasks -> Seq(Line)]
    /\ \A t \in Tasks : Len(attempts[t]) <= best_of_n /\ (writing[t] => pc[t] \in Files)
    /\ main # "idle" => runs > 0
    /\ runs \in 0..MaxRuns /\ crashes \in 0..MaxCrashes /\ failures \in 0..MaxFailures

Whole(t) == file[t].meta \notin {None, Torn}

\* The commit point of a task is its meta file (lines 116-153): wherever a run was
\* killed or a write failed, a meta file that parses records a full round of attempts,
\* and the trajectories beside it are exactly the successes without a mark and the
\* marked attempts of that round, not of an earlier one.
MetaDescribesFiles ==
    \A t \in Tasks : Whole(t) =>
        /\ Len(file[t].meta) = best_of_n
        /\ file[t].out = Lines(file[t].meta, "success")
        /\ file[t].contaminated = Lines(file[t].meta, "marked")

\* Resuming (lines 70-73) keeps what was collected: no later run, whatever its range,
\* touches the files of a task whose meta file parses.
CompleteIsFinal == [][\A t \in Tasks : Whole(t) => file'[t] = file[t]]_vars

Of(lines, t) == Picked(lines, {i \in DOMAIN lines : lines[i].task = t})

\* A run that finished without a failed task (lines 232-311) has merged, for each of its
\* tasks, the clean successes its meta file records and nothing else, into one of the
\* two files, "only the clean ones" and none cut, though an earlier run may have made
\* the attempts; and the summary counts what was merged.
MergedIsCollected ==
    main = "done" /\ (\A t \in ToSet(task_ids) : pc[t] = "returned") =>
        /\ Torn \notin ToSet(train_file) \union ToSet(holdout_file)
        /\ \A t \in ToSet(task_ids) :
               Of(train_file, t) \o Of(holdout_file, t) = Lines(file[t].meta, "success")
        /\ total_successes = Len(train_file) + Len(holdout_file)

TasksOf(lines) == {line.task : line \in ToSet(lines) \ {Torn}}

\* The evaluation reads split.json and the training reads train.jsonl: they agree on
\* which tasks were held out when a run has finished, and until a run that was cut
\* short after it wrote its own split (lines 276-311); no contaminated attempt is
\* ever in either file.
SplitMatchesTrain ==
    /\ main = "done" \/ (crashes = 0 /\ main \in {"idle", "collecting"} /\ split # None) =>
        /\ split # Torn
        /\ TasksOf(train_file) \subseteq split.seen
        /\ TasksOf(holdout_file) \subseteq split.unseen
        /\ split.seen \cap split.unseen = {}
    /\ \A lines \in {train_file, holdout_file} \ {None} :
           \A line \in ToSet(lines) \ {Torn} : line.kind = "success"

\* A run ends, unless the process is killed, whatever its tasks come to: a meta file
\* that does not parse or a write that fails ends the task and not the run (line 229).
RunEnds == (main = "collecting") ~> (main \in {"done", "idle"})
=============================================================================
