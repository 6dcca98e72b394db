---------------------------- MODULE ServerManager ----------------------------
(***************************************************************************)
(* AsyncLLMServerManager of verl/experimental/agent_loop/agent_loop.py:    *)
(* which inference server answers a generate call.  The first call of a    *)
(* session (one trajectory) goes to the server at the top of a heap of     *)
(* counts, later calls to the same server, as long as the LRU cache of     *)
(* sessions remembers it.  Nothing awaits inside _choose_server, so a call *)
(* is one action however many trajectories call.                           *)
(*                                                                         *)
(* Servers are numbered by their hash, the second key of the heap.         *)
(***************************************************************************)
EXTENDS Naturals, Sequences, FiniteSets

CONSTANTS
    Requests,        \* the request_ids, one per trajectory
    NumServers,
    max_cache_size,  \* entries of the LRU cache
    MaxCount         \* bound: sessions handed to one server

ASSUME ServerAssumption ==
    NumServers \in Nat \ {0} /\ max_cache_size \in Nat \ {0} /\ MaxCount \in Nat

VARIABLES
    weighted_servers,      \* the heap: the count of every server
    request_id_to_server,  \* the LRU cache, least recently used entry first
    served,                \* history: server of the last call of a session, 0 if none
    since                  \* history: sessions that called after the last call of r

vars == <<weighted_servers, request_id_to_server, served, since>>

Servers == 1..NumServers

Entries == [id : Requests, server : Servers]

Cached == {request_id_to_server[i].id : i \in 1..Len(request_id_to_server)}

Entry(r, s) == [id |-> r, server |-> s]

Init ==
    /\ weighted_servers = [s \in Servers |-> 0]
    /\ request_id_to_server = <<>>
    /\ served = [r \in Requests |-> 0]
    /\ since = [r \in Requests |-> {}]

\* The call of r reaches server s.
Reaches(r, s) ==
    /\ served' = [served EXCEPT ![r] = s]
    /\ since' = [u \in Requests |-> IF u = r THEN {} ELSE since[u] \cup {r}]

\* Defect: a lookup does not count as a use.
Untouched(i) == request_id_to_server

\* Position i of the cache, which holds r, is used: it becomes the most recent.
Touched(i) ==
    LET c == request_id_to_server
    IN  Append(SubSeq(c, 1, i - 1) \o SubSeq(c, i + 1, Len(c)), c[i])

Hit(r) ==
    \E i \in 1..Len(request_id_to_server) :
        /\ request_id_to_server[i].id = r
        /\ request_id_to_server' = Touched(i)
        /\ Reaches(r, request_id_to_server[i].server)
        /\ UNCHANGED weighted_servers

\* Defect: only the counts are compared, and the last of equals wins.
OnTopOfEquals(s) ==
    \A u \in Servers : weighted_servers[s] <= weighted_servers[u] + 1

\* s is the top of the heap.
Top(s) ==
    \A u \in Servers :
        \/ weighted_servers[s] < weighted_servers[u]
        \/ weighted_servers[s] = weighted_servers[u] /\ s <= u

\* Defect: nothing is dropped.
InsertedUnbounded(e) == Append(request_id_to_server, e)

\* The cache with one more entry; a full cache drops its first entry.
Inserted(e) ==
    LET c == request_id_to_server
    IN  Append(IF Len(c) >= max_cache_size THEN Tail(c) ELSE c, e)

Miss(r) ==
    /\ r \notin Cached
    /\ \E s \in Servers :
          /\ Top(s) /\ weighted_servers[s] < MaxCount
          /\ weighted_servers' = [weighted_servers EXCEPT ![s] = @ + 1]
          /\ request_id_to_server' = Inserted(Entry(r, s))
          /\ Reaches(r, s)

Next == \E r \in Requests : Hit(r) \/ Miss(r)

Spec == Init /\ [][Next]_vars

-----------------------------------------------------------------------------
\* The cache keeps one entry per session and never outgrows its limit.
TypeOK ==
    /\ weighted_servers \in [Servers -> Nat]
    /\ request_id_to_server \in Seq(Entries)
    /\ Len(request_id_to_server) <= max_cache_size
    /\ Cardinality(Cached) = Len(request_id_to_server)
    /\ served \in [Requests -> Servers \cup {0}]
    /\ since \in [Requests -> SUBSET Requests]

\* The counts are never taken back, so least-requests balancing is a round robin
\* over the servers in heap order: no server is ever more than one session ahead
\* of another, and the later ones are never ahead.
RoundRobin ==
    \A s, u \in Servers :
        s < u => weighted_servers[s] \in {weighted_servers[u], weighted_servers[u] + 1}

\* Sticky session: a session is forgotten only after max_cache_size others have
\* called since its last call; until then its cached server is the one that
\* answered last, so a rollout keeps its prefix cache.
StickySession ==
    \A r \in Requests :
        served[r] # 0 /\ Cardinality(since[r]) < max_cache_size =>
            \E i \in 1..Len(request_id_to_server) :
                request_id_to_server[i] = Entry(r, served[r])
=============================================================================
