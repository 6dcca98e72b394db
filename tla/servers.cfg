\* Four sessions over three servers and a cache of two.
SPECIFICATION Spec
CONSTANTS
    Requests = {r1, r2, r3, r4}
    NumServers = 3
    max_cache_size = 2
    MaxCount = 3
SYMMETRY Symmetry
INVARIANTS TypeOK RoundRobin StickySession
CHECK_DEADLOCK FALSE
