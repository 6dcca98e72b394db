\* Two trajectories sharing the event loop and, when there is one, the interaction object;
\* both turn caps off.
SPECIFICATION Spec
CONSTANTS
    Data = {d0, goal}
    InitData = d0
    GoalData = goal
    Trajs = {t1, t2}
    None = None
    LogProbs = FALSE
    PromptLen = 2
    GenLens <- MCLens1
    ObsLens <- MCLens1
    MaxCalls = 1
    response_length = 4
    max_assistant_turns = 0
    max_user_turns = 0
    max_parallel_calls = 1
    max_turns = 9
\* The system stops: a batch that returned or raised has nothing left to do.
CHECK_DEADLOCK FALSE
INVARIANTS OwnEnvironment
PROPERTIES EnvIsolation EpisodeFrozen ImplementsBatch RolloutsEnd
