------------------------- MODULE ServerManagerProofs -------------------------
(***************************************************************************)
(* Theorems about ServerManager for any number of servers and sessions and *)
(* any cache size: the balance is a round robin, and a session that is     *)
(* used often enough is never moved.                                       *)
(***************************************************************************)
EXTENDS ServerManager, FiniteSetTheorems, SequenceTheorems, TLAPS

-----------------------------------------------------------------------------
(* Balance.                                                                *)

Counted == weighted_servers \in [Servers -> Nat] /\ RoundRobin

\* Handing a session to the top of the heap keeps the counts a staircase: the top
\* is the first of the servers that are behind.
LEMMA BalanceStep == Counted /\ [Next]_vars => Counted'
  <1> SUFFICES ASSUME Counted, [Next]_vars PROVE Counted'
    OBVIOUS
  <1>1. ASSUME NEW r \in Requests, Miss(r) PROVE Counted'
    <2>1. PICK s \in Servers : /\ Top(s)
                               /\ weighted_servers' = [weighted_servers EXCEPT ![s] = @ + 1]
      BY <1>1 DEF Miss
    <2> QED
      BY <2>1 DEF Counted, RoundRobin, Top, Servers
  <1>2. ASSUME NEW r \in Requests, Hit(r) PROVE Counted'
    BY <1>2 DEF Counted, RoundRobin, Hit
  <1>3. CASE UNCHANGED vars
    BY <1>3 DEF vars, Counted, RoundRobin
  <1> QED
    BY <1>1, <1>2, <1>3 DEF Next

\* The counts of the heap stay a staircase: least-requests balancing that never
\* takes a count back is a round robin.
THEOREM BalanceIsRoundRobin == Spec => []RoundRobin
  <1>1. Init => Counted
    BY DEF Init, Counted, RoundRobin, Servers
  <1>2. Counted => RoundRobin
    BY DEF Counted
  <1> QED
    BY <1>1, <1>2, BalanceStep, PTL DEF Spec

-----------------------------------------------------------------------------
(* Stickiness.  The claim speaks of sessions that called recently; inductive is  *)
(* that the cache is ordered by recency (every later entry called after every    *)
(* earlier one) and that what it has forgotten was overtaken by a full cache.    *)

Types ==
    /\ request_id_to_server \in Seq(Entries)
    /\ served \in [Requests -> Servers \cup {0}]
    /\ since \in [Requests -> SUBSET Requests]
    /\ \A r \in Requests : IsFiniteSet(since[r])

Ordered ==
    LET c == request_id_to_server
    IN  /\ Len(c) <= max_cache_size
        /\ \A i, j \in 1..Len(c) : i < j => c[i].id # c[j].id /\ c[j].id \in since[c[i].id]
        /\ \A i \in 1..Len(c) : served[c[i].id] = c[i].server

Forgotten ==
    \A r \in Requests \ Cached : served[r] # 0 => Cardinality(since[r]) >= max_cache_size

CacheInv == Types /\ Ordered /\ Forgotten

\* The fields of an entry, and the entry they make.
LEMMA EntryFields ==
    \A e \in Entries : e.id \in Requests /\ e.server \in Servers /\ e = Entry(e.id, e.server)
  BY DEF Entries, Entry

\* Using an entry moves it to the end and keeps the order of the others.
LEMMA TouchedEntries ==
    ASSUME NEW c \in Seq(Entries), NEW i \in 1..Len(c), c = request_id_to_server
    PROVE  /\ Touched(i) \in Seq(Entries) /\ Len(Touched(i)) = Len(c)
           /\ \A k \in 1..Len(c) :
                Touched(i)[k] = IF k < i THEN c[k] ELSE IF k < Len(c) THEN c[k + 1] ELSE c[i]
  <1> DEFINE n == Len(c)
             a == SubSeq(c, 1, i - 1)
             b == SubSeq(c, i + 1, n)
  <1>1. a \in Seq(Entries) /\ Len(a) = i - 1 /\ \A k \in 1..(i - 1) : a[k] = c[k]
    OBVIOUS
  <1>2. b \in Seq(Entries) /\ Len(b) = n - i /\ \A k \in 1..(n - i) : b[k] = c[i + k]
    OBVIOUS
  <1>3. Touched(i) = Append(a \o b, c[i])
    BY DEF Touched
  <1>4. n \in Nat /\ i \in 1..n /\ c[i] \in Entries
    OBVIOUS
  <1> HIDE DEF a, b, n
  <1>5. /\ a \o b \in Seq(Entries) /\ Len(a \o b) = n - 1
        /\ \A k \in 1..(n - 1) : (a \o b)[k] = IF k < i THEN a[k] ELSE b[k - (i - 1)]
    <2>1. /\ a \o b \in Seq(Entries) /\ Len(a \o b) = Len(a) + Len(b)
          /\ \A k \in 1..(Len(a) + Len(b)) :
                (a \o b)[k] = IF k <= Len(a) THEN a[k] ELSE b[k - Len(a)]
      BY <1>1, <1>2, ConcatProperties
    <2> DEFINE d == a \o b
    <2> HIDE DEF d
    <2>2. /\ d \in Seq(Entries) /\ Len(d) = n - 1
          /\ \A k \in 1..(n - 1) : d[k] = IF k < i THEN a[k] ELSE b[k - (i - 1)]
      BY <1>1, <1>2, <1>4, <2>1 DEF d
    <2> QED
      BY <2>2 DEF d
  <1>6. \A k \in 1..(n - 1) : (a \o b)[k] = IF k < i THEN c[k] ELSE c[k + 1]
    BY <1>1, <1>2, <1>4, <1>5
  <1> DEFINE d == a \o b
  <1> HIDE DEF d
  <1>7. /\ Append(d, c[i]) \in Seq(Entries) /\ Len(Append(d, c[i])) = n
        /\ Append(d, c[i])[n] = c[i]
        /\ \A k \in 1..(n - 1) : Append(d, c[i])[k] = d[k]
    <2>1. d \in Seq(Entries) /\ Len(d) = n - 1
      BY <1>5 DEF d
    <2> QED
      BY <1>4, <2>1, AppendProperties
  <1>8. \A k \in 1..(n - 1) : Append(d, c[i])[k] = IF k < i THEN c[k] ELSE c[k + 1]
    BY <1>6, <1>7 DEF d
  <1>9. Touched(i) = Append(d, c[i])
    BY <1>3 DEF d
  <1> QED
    BY <1>4, <1>7, <1>8, <1>9 DEF n

\* A call keeps the types of the histories.
LEMMA ReachTypes ==
    ASSUME Types, NEW r \in Requests, NEW s \in Servers, Reaches(r, s)
    PROVE  /\ served' \in [Requests -> Servers \cup {0}]
           /\ since' \in [Requests -> SUBSET Requests]
           /\ \A u \in Requests : IsFiniteSet(since'[u])
  <1>1. /\ served' \in [Requests -> Servers \cup {0}]
        /\ since' \in [Requests -> SUBSET Requests]
    BY DEF Types, Reaches
  <1>2. ASSUME NEW u \in Requests PROVE IsFiniteSet(since'[u])
    BY FS_EmptySet, FS_AddElement DEF Types, Reaches
  <1> QED
    BY <1>1, <1>2

\* A call of r by which the cache becomes a selection of its entries, those of r
\* left out, followed by the entry of r, keeps the order by recency.
LEMMA ReachOrders ==
    ASSUME Types, Ordered, NEW r \in Requests, NEW s \in Servers, Reaches(r, s),
           NEW m \in Nat, m < max_cache_size, NEW p \in [1..m -> 1..Len(request_id_to_server)],
           \A j, k \in 1..m : j < k => p[j] < p[k],
           \A k \in 1..m : request_id_to_server[p[k]].id # r,
           \A k \in 1..m : request_id_to_server'[k] = request_id_to_server[p[k]],
           Len(request_id_to_server') = m + 1, request_id_to_server'[m + 1] = Entry(r, s)
    PROVE  Ordered'
  <1> DEFINE c == request_id_to_server
             d == request_id_to_server'
  <1>1. \A k \in 1..m : d[k] = c[p[k]] /\ d[k].id \in Requests \ {r}
    <2>1. \A i \in 1..Len(c) : c[i] \in Entries
      BY DEF Types
    <2> QED
      BY <2>1, EntryFields
  <1>2. d[m + 1].id = r /\ d[m + 1].server = s
    BY DEF Entry
  <1>3. \A u \in Requests \ {r} : /\ since[u] \subseteq since'[u] /\ r \in since'[u]
                                  /\ served'[u] = served[u]
    BY DEF Reaches, Types
  <1>4. served'[r] = s
    BY DEF Reaches, Types
  <1>5. ASSUME NEW i \in 1..(m + 1), NEW j \in 1..(m + 1), i < j
        PROVE  d[i].id # d[j].id /\ d[j].id \in since'[d[i].id]
    <2>1. CASE j = m + 1
      BY <1>1, <1>2, <1>3, <1>5, <2>1
    <2>2. CASE j \in 1..m
      <3>1. i \in 1..m /\ p[i] < p[j] /\ p[i] \in 1..Len(c) /\ p[j] \in 1..Len(c)
        BY <1>5, <2>2
      <3>2. c[p[i]].id # c[p[j]].id /\ c[p[j]].id \in since[c[p[i]].id]
        BY <3>1 DEF Ordered
      <3> QED
        BY <1>1, <1>3, <2>2, <3>1, <3>2
    <2> QED
      BY <2>1, <2>2
  <1>6. ASSUME NEW i \in 1..(m + 1) PROVE served'[d[i].id] = d[i].server
    <2>1. CASE i = m + 1
      BY <1>2, <1>4, <2>1
    <2>2. CASE i \in 1..m
      BY <1>1, <1>3, <2>2 DEF Ordered
    <2> QED
      BY <2>1, <2>2
  <1>7. m + 1 <= max_cache_size
    BY ServerAssumption
  <1> QED
    BY <1>5, <1>6, <1>7 DEF Ordered

\* What the cache had forgotten stays overtaken.
LEMMA ReachForgets ==
    ASSUME Types, Forgotten, NEW r \in Requests, NEW s \in Servers, Reaches(r, s),
           NEW u \in Requests \ Cached, u # r, served'[u] # 0
    PROVE  Cardinality(since'[u]) >= max_cache_size
  <1>1. served[u] # 0 /\ since'[u] = since[u] \cup {r}
    BY DEF Reaches, Types
  <1>2. Cardinality(since[u]) >= max_cache_size
    BY <1>1 DEF Forgotten
  <1>3. /\ Cardinality(since[u]) \in Nat
        /\ Cardinality(since'[u]) \in {Cardinality(since[u]), Cardinality(since[u]) + 1}
    BY <1>1, FS_AddElement, FS_CardinalityType DEF Types
  <1> QED
    BY <1>2, <1>3, ServerAssumption

\* A call that finds its session in the cache.
LEMMA HitKeeps == ASSUME CacheInv, NEW r \in Requests, Hit(r) PROVE CacheInv'
  <1> DEFINE c == request_id_to_server
             n == Len(c)
             m == n - 1
  <1>1. PICK i \in 1..n : /\ c[i].id = r
                          /\ request_id_to_server' = Touched(i)
                          /\ Reaches(r, c[i].server)
    BY DEF Hit
  <1>2. Types /\ Ordered /\ Forgotten /\ n \in Nat /\ i \in 1..n /\ c \in Seq(Entries)
    BY DEF CacheInv, Types
  <1>3. c[i].server \in Servers /\ c[i] = Entry(r, c[i].server)
    <2>1. c[i] \in Entries
      BY <1>2
    <2> QED
      BY <1>1, <2>1, EntryFields
  <1> DEFINE p == [k \in 1..m |-> IF k < i THEN k ELSE k + 1]
             d == request_id_to_server'
  <1>4. /\ d \in Seq(Entries) /\ Len(d) = n
        /\ \A k \in 1..n : d[k] = IF k < i THEN c[k] ELSE IF k < n THEN c[k + 1] ELSE c[i]
    BY <1>1, <1>2, TouchedEntries
  <1>5. p \in [1..m -> 1..n] /\ \A j, k \in 1..m : j < k => p[j] < p[k]
    BY <1>2
  <1>6. \A k \in 1..m : p[k] # i /\ d[k] = c[p[k]]
    BY <1>2, <1>4
  <1>7. \A k \in 1..m : c[p[k]].id # r
    BY <1>1, <1>2, <1>5, <1>6 DEF Ordered
  <1>8. d[m + 1] = Entry(r, c[i].server) /\ Len(d) = m + 1
    BY <1>2, <1>3, <1>4
  <1>9. m \in Nat /\ m < max_cache_size
    BY <1>2, ServerAssumption DEF Ordered
  <1> HIDE DEF p, m
  <1>10. Ordered'
    <2> DEFINE srv == c[i].server
    <2>1. /\ srv \in Servers /\ Reaches(r, srv)
          /\ p \in [1..m -> 1..Len(request_id_to_server)]
          /\ Len(request_id_to_server') = m + 1
          /\ request_id_to_server'[m + 1] = Entry(r, srv)
      BY <1>1, <1>3, <1>5, <1>8
    <2>2. \A k \in 1..m : request_id_to_server'[k] = request_id_to_server[p[k]]
      BY <1>6
    <2> HIDE DEF srv
    <2> QED
      BY <1>2, <1>5, <1>7, <1>9, <2>1, <2>2, ReachOrders
  <1>11. Types'
    BY <1>1, <1>2, <1>3, <1>4, ReachTypes DEF Types
  <1>12. Cached \subseteq Cached'
    <2>1. ASSUME NEW j \in 1..n PROVE \E k \in 1..n : d[k] = c[j]
      <3>1. CASE j < i
        BY <1>4, <3>1
      <3>2. CASE j > i
        <4>1. j - 1 \in 1..n /\ ~(j - 1 < i) /\ j - 1 < n /\ (j - 1) + 1 = j
          BY <1>2, <3>2
        <4> QED
          BY <1>4, <4>1
      <3>3. CASE j = i
        BY <1>2, <1>4, <3>3
      <3> QED
        BY <1>2, <3>1, <3>2, <3>3
    <2>2. ASSUME NEW u \in Cached PROVE u \in Cached'
      <3>1. PICK j \in 1..n : c[j].id = u
        BY DEF Cached
      <3>2. PICK k \in 1..n : d[k] = c[j]
        BY <2>1, <3>1
      <3>3. k \in 1..Len(d) /\ d[k].id = u
        BY <1>4, <3>1, <3>2
      <3> QED
        BY <3>3 DEF Cached
    <2> QED
      BY <2>2
  <1>13. r \in Cached
    BY <1>1, <1>2 DEF Cached
  <1>14. Forgotten'
    <2> SUFFICES ASSUME NEW u \in Requests \ Cached', served'[u] # 0
                 PROVE  Cardinality(since'[u]) >= max_cache_size
      BY DEF Forgotten
    <2>1. u \in Requests \ Cached /\ u # r
      BY <1>12, <1>13
    <2> QED
      BY <1>1, <1>2, <1>3, <2>1, ReachForgets
  <1> QED
    BY <1>10, <1>11, <1>14 DEF CacheInv

\* The session a full cache drops was overtaken by all others in it, and by the
\* session that takes its place.
LEMMA DroppedWasOvertaken ==
    ASSUME Types, Ordered, NEW r \in Requests \ Cached, NEW s \in Servers, Reaches(r, s),
           Len(request_id_to_server) = max_cache_size
    PROVE  Cardinality(since'[request_id_to_server[1].id]) >= max_cache_size
  <1> DEFINE c == request_id_to_server
             u == c[1].id
             f == [k \in 1..max_cache_size |-> IF k = 1 THEN r ELSE c[k].id]
  <1>1. max_cache_size \in Nat \ {0} /\ c \in Seq(Entries)
    BY ServerAssumption DEF Types
  <1>2. \A k \in 1..max_cache_size : c[k].id \in Requests /\ c[k].id # r
    <2>1. \A k \in 1..max_cache_size : c[k] \in Entries
      BY <1>1
    <2> QED
      BY <1>1, <2>1, EntryFields DEF Cached
  <1>3. u \in Requests /\ u # r
    BY <1>1, <1>2
  <1>4. since'[u] = since[u] \cup {r} /\ IsFiniteSet(since'[u])
    BY <1>3, ReachTypes DEF Reaches, Types
  <1>5. \A k \in 2..max_cache_size : c[k].id \in since[u]
    BY <1>1 DEF Ordered
  <1>6. f \in [1..max_cache_size -> since'[u]]
    BY <1>4, <1>5
  <1>7. \A j, k \in 2..max_cache_size : j # k => c[j].id # c[k].id
    BY <1>1 DEF Ordered
  <1>8. IsInjective(f)
    BY <1>2, <1>7 DEF IsInjective
  <1>9. f \in Injection(1..max_cache_size, since'[u])
    BY <1>6, <1>8 DEF Injection
  <1> HIDE DEF f
  <1>10. Cardinality(1..max_cache_size) <= Cardinality(since'[u])
    BY <1>4, <1>9, FS_Injection
  <1>11. Cardinality(1..max_cache_size) = max_cache_size
    BY <1>1, FS_Interval
  <1>12. Cardinality(since'[u]) \in Nat
    BY <1>4, FS_CardinalityType
  <1> QED
    BY <1>1, <1>10, <1>11, <1>12

\* A call whose session the cache does not know.
LEMMA MissKeeps == ASSUME CacheInv, NEW r \in Requests, Miss(r) PROVE CacheInv'
  <1> DEFINE c == request_id_to_server
             n == Len(c)
             d == request_id_to_server'
  <1>1. PICK s \in Servers : d = Inserted(Entry(r, s)) /\ Reaches(r, s)
    BY DEF Miss
  <1>2. /\ Types /\ Ordered /\ Forgotten /\ n \in Nat /\ c \in Seq(Entries)
        /\ n <= max_cache_size /\ max_cache_size \in Nat \ {0}
    BY ServerAssumption DEF CacheInv, Types, Ordered
  <1>3. r \notin Cached /\ \A k \in 1..n : c[k].id # r
    BY DEF Miss, Cached
  <1>4. Entry(r, s) \in Entries
    BY DEF Entry, Entries
  <1>5. CASE n < max_cache_size
    <2>1. d = Append(c, Entry(r, s))
      BY <1>1, <1>2, <1>5 DEF Inserted
    <2>2. /\ d \in Seq(Entries) /\ Len(d) = n + 1 /\ d[n + 1] = Entry(r, s)
          /\ \A k \in 1..n : d[k] = c[k]
      BY <1>2, <1>4, <2>1, AppendProperties
    <2> DEFINE p == [k \in 1..n |-> k]
    <2>3. /\ p \in [1..n -> 1..n] /\ \A j, k \in 1..n : j < k => p[j] < p[k]
          /\ \A k \in 1..n : c[p[k]].id # r
          /\ \A k \in 1..n : d[k] = c[p[k]]
      BY <1>3, <2>2
    <2> HIDE DEF p
    <2>4. Ordered'
      BY <1>1, <1>2, <1>5, <2>2, <2>3, ReachOrders
    <2>5. Cached \subseteq Cached' /\ r \in Cached'
      <3>1. \A k \in 1..n : k \in 1..Len(d) /\ d[k].id = c[k].id
        BY <1>2, <2>2
      <3>2. n + 1 \in 1..Len(d) /\ d[n + 1].id = r
        BY <1>2, <2>2 DEF Entry
      <3> QED
        BY <3>1, <3>2 DEF Cached
    <2>6. Forgotten'
      BY <1>1, <1>2, <2>5, ReachForgets DEF Forgotten
    <2> QED
      BY <1>1, <1>2, <2>2, <2>4, <2>6, ReachTypes DEF CacheInv, Types
  <1>6. CASE n = max_cache_size
    <2>1. d = Append(Tail(c), Entry(r, s))
      BY <1>1, <1>2, <1>6 DEF Inserted
    <2>2. /\ Tail(c) \in Seq(Entries) /\ Len(Tail(c)) = n - 1
          /\ \A k \in 1..(n - 1) : Tail(c)[k] = c[k + 1]
      BY <1>2, <1>6
    <2>3. /\ d \in Seq(Entries) /\ Len(d) = n /\ d[n] = Entry(r, s)
          /\ \A k \in 1..(n - 1) : d[k] = Tail(c)[k]
      BY <1>2, <1>4, <2>1, <2>2, AppendProperties
    <2> DEFINE p == [k \in 1..(n - 1) |-> k + 1]
    <2>4. /\ p \in [1..(n - 1) -> 1..n] /\ \A j, k \in 1..(n - 1) : j < k => p[j] < p[k]
          /\ \A k \in 1..(n - 1) : c[p[k]].id # r
          /\ \A k \in 1..(n - 1) : d[k] = c[p[k]]
      BY <1>2, <1>3, <2>2, <2>3
    <2>5. n - 1 \in Nat /\ n - 1 < max_cache_size /\ Len(d) = (n - 1) + 1
          /\ d[(n - 1) + 1] = Entry(r, s)
      BY <1>2, <1>6, <2>3
    <2> HIDE DEF p
    <2>6. Ordered'
      BY <1>1, <1>2, <2>4, <2>5, ReachOrders
    <2>7. (Cached \ {c[1].id}) \cup {r} \subseteq Cached'
      <3>1. ASSUME NEW u \in Cached \ {c[1].id} PROVE u \in Cached'
        <4>1. PICK j \in 1..n : c[j].id = u
          BY DEF Cached
        <4>2. j - 1 \in 1..(n - 1) /\ (j - 1) + 1 = j
          BY <1>2, <3>1, <4>1
        <4>3. j - 1 \in 1..Len(d) /\ d[j - 1].id = u
          BY <1>2, <2>2, <2>3, <4>1, <4>2
        <4> QED
          BY <4>3 DEF Cached
      <3>2. n \in 1..Len(d) /\ d[n].id = r
        BY <1>2, <1>6, <2>3 DEF Entry
      <3>3. r \in Cached'
        BY <3>2 DEF Cached
      <3> QED
        BY <3>1, <3>3
    <2>8. Forgotten'
      <3> SUFFICES ASSUME NEW u \in Requests \ Cached', served'[u] # 0
                   PROVE  Cardinality(since'[u]) >= max_cache_size
        BY DEF Forgotten
      <3>1. u # r /\ (u \in Requests \ Cached \/ u = c[1].id)
        BY <2>7
      <3>2. CASE u \in Requests \ Cached
        BY <1>1, <1>2, <3>1, <3>2, ReachForgets
      <3>3. CASE u = c[1].id
        BY <1>1, <1>2, <1>3, <1>6, <3>3, DroppedWasOvertaken
      <3> QED
        BY <3>1, <3>2, <3>3
    <2> QED
      BY <1>1, <1>2, <2>3, <2>6, <2>8, ReachTypes DEF CacheInv, Types
  <1> QED
    BY <1>2, <1>5, <1>6

\* The cache is ordered by recency in every state.
THEOREM CacheInvariant == Spec => []CacheInv
  <1>1. Init => CacheInv
    BY FS_EmptySet, ServerAssumption DEF Init, CacheInv, Types, Ordered, Forgotten
  <1>2. CacheInv /\ [Next]_vars => CacheInv'
    <2> SUFFICES ASSUME CacheInv, [Next]_vars PROVE CacheInv'
      OBVIOUS
    <2>1. CASE UNCHANGED vars
      BY <2>1 DEF vars, CacheInv, Types, Ordered, Forgotten, Cached
    <2> QED
      BY <2>1, HitKeeps, MissKeeps DEF Next
  <1> QED
    BY <1>1, <1>2, PTL DEF Spec

\* A session is forgotten only after as many other sessions as the cache holds have
\* called since its last call; until then it stays with the server that answered.
THEOREM SessionsAreSticky == Spec => []StickySession
  <1>1. CacheInv => StickySession
    <2> SUFFICES ASSUME CacheInv, NEW r \in Requests, served[r] # 0,
                        Cardinality(since[r]) < max_cache_size
                 PROVE  \E i \in 1..Len(request_id_to_server) :
                            request_id_to_server[i] = Entry(r, served[r])
      BY DEF StickySession
    <2>1. Cardinality(since[r]) \in Nat
      BY FS_CardinalityType DEF CacheInv, Types
    <2>2. r \in Cached
      BY <2>1, ServerAssumption DEF CacheInv, Forgotten
    <2>3. PICK i \in 1..Len(request_id_to_server) : request_id_to_server[i].id = r
      BY <2>2 DEF Cached
    <2>4. request_id_to_server[i] \in Entries
      BY DEF CacheInv, Types
    <2>5. served[r] = request_id_to_server[i].server
      BY <2>3 DEF CacheInv, Ordered
    <2> QED
      BY <2>3, <2>4, <2>5, EntryFields
  <1> QED
    BY <1>1, CacheInvariant, PTL

\* The cache holds one entry per session and never more than max_cache_size.
THEOREM CacheTypeCorrect == Spec => []TypeOK
  <1>1. CacheInv /\ Counted => TypeOK
    <2> SUFFICES ASSUME CacheInv, Counted PROVE TypeOK
      OBVIOUS
    <2> DEFINE c == request_id_to_server
               n == Len(c)
               f == [k \in 1..n |-> c[k].id]
    <2>1. n \in Nat /\ \A k \in 1..n : c[k].id \in Cached
      BY DEF CacheInv, Types, Cached
    <2>2. f \in [1..n -> Cached]
      BY <2>1
    <2>3. \A j, k \in 1..n : j # k => c[j].id # c[k].id
      BY <2>1 DEF CacheInv, Ordered
    <2>4. IsInjective(f)
      BY <2>3 DEF IsInjective
    <2>5. \A u \in Cached : \E k \in 1..n : f[k] = u
      BY DEF Cached
    <2>6. f \in Bijection(1..n, Cached)
      BY <2>2, <2>4, <2>5 DEF Bijection, Injection, Surjection
    <2> HIDE DEF f
    <2>7. ExistsBijection(1..n, Cached)
      BY <2>6 DEF ExistsBijection
    <2>8. IsFiniteSet(1..n) /\ Cardinality(1..n) = n
      BY <2>1, FS_Interval
    <2>9. Cardinality(Cached) = n
      BY <2>7, <2>8, FS_Bijection
    <2> QED
      BY <2>9 DEF TypeOK, CacheInv, Types, Ordered, Counted
  <1>2. Init => Counted
    BY DEF Init, Counted, RoundRobin, Servers
  <1> QED
    BY <1>1, <1>2, BalanceStep, CacheInvariant, PTL DEF Spec
=============================================================================
