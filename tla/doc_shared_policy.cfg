\* One policy object for two threads.
SPECIFICATION Spec
CONSTANTS
    Data = {d0, goal}
    InitData = d0
    GoalData = goal
    j1 = j1
    j2 = j2
    Jobs = {j1, j2}
    Policies = {p}
    policy <- MCSharedPolicy
    None = None
    a = a
    b = b
    c = c
    x = x
    bad = bad
    Calls = {a}
    Transfers = {}
    Malformed = {}
    MaxCalls = 1
    Messages <- MCOneCall
    num_workers = 2
    max_turns = 2
    loop_window = 20
    loop_limit = 3
\* The system stops: an evaluation that reported or raised has nothing left to do.
CHECK_DEADLOCK FALSE
INVARIANT SharedPolicyIsSafe
