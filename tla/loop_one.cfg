\* One trajectory, with an interaction and without, several turns, parallel tool calls,
\* messages that pass response_length.
SPECIFICATION Spec
CONSTANTS
    Data = {d0, goal}
    InitData = d0
    GoalData = goal
    Trajs = {t1}
    None = None
    LogProbs = TRUE
    PromptLen = 2
    GenLens <- MCLens12
    ObsLens <- MCLens1
    MaxCalls = 3
    response_length = 7
    max_assistant_turns = 0
    max_user_turns = 2
    max_parallel_calls = 2
    max_turns = 3
\* The system stops: a batch that returned or raised has nothing left to do.
CHECK_DEADLOCK FALSE
INVARIANTS TypeOK TokensAligned TurnsAlternate RewardBacked CountersAgree
PROPERTIES ContentOfThisTurn ImplementsBatch RolloutsEnd
