\* A run, a crash or a failing write, and the runs that resume it, on overlapping ranges.
SPECIFICATION Spec
CONSTANTS
    Ranges <- MCRanges
    Kinds = {"success", "marked"}
    None = None
    Torn = Torn
    best_of_n = 2
    num_workers = 2
    holdout_size = 1
    MaxRuns = 3
    MaxCrashes = 1
    MaxFailures = 1
\* The system stops: no run is left to start.
CHECK_DEADLOCK FALSE
INVARIANTS
    TypeOK
    MetaDescribesFiles
    MergedIsCollected
    SplitMatchesTrain
PROPERTIES
    CompleteIsFinal
    RunEnds
