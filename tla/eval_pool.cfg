\* Two jobs on two threads, each with its own policy object: several turns, two calls
\* in a message, a window that slides.
SPECIFICATION Spec
CONSTANTS
    Data = {d0, goal}
    InitData = d0
    GoalData = goal
    j1 = j1
    j2 = j2
    Jobs = {j1, j2}
    Policies = {j1, j2}
    policy <- MCOwnPolicy
    None = None
    a = a
    b = b
    c = c
    x = x
    bad = bad
    Calls = {a, b, c, x, bad}
    Transfers = {x}
    Malformed = {bad}
    MaxCalls = 2
    Messages <- MCMessages
    num_workers = 2
    max_turns = 3
    loop_window = 3
    loop_limit = 2
\* The system stops: an evaluation that reported or raised has nothing left to do.
CHECK_DEADLOCK FALSE
INVARIANTS TypeOK SuccessIsNative NoRepeatedCalls MarkIsOwn
PROPERTIES EvalEnds
