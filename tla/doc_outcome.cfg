\* The design document's reward statement.
SPECIFICATION Spec
CONSTANTS
    Data = {d0, goal}
    InitData = d0
    GoalData = goal
    Trajs = {t1}
    None = None
    LogProbs = TRUE
    PromptLen = 2
    GenLens <- MCLens1
    ObsLens <- MCLens1
    MaxCalls = 1
    response_length = 6
    max_assistant_turns = 0
    max_user_turns = 0
    max_parallel_calls = 1
    max_turns = 9
\* The system stops: a batch that returned or raised has nothing left to do.
CHECK_DEADLOCK FALSE
INVARIANT NativeOutcome
