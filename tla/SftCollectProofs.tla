-------------------------- MODULE SftCollectProofs --------------------------
(***************************************************************************)
(* The meta file is the commit point of a task, and what a run merges is   *)
(* what was collected, for any task ranges, any number of attempts and     *)
(* threads, and any number of crashes and failing writes: proofs of the    *)
(* properties of SftCollectProps.                                          *)
(***************************************************************************)
EXTENDS SftCollectProps, Inductions, TLAPS

\* The files of every task are the three of collect_one_task.
FileShape == DOMAIN file = Tasks /\ \A t \in Tasks : DOMAIN file[t] = Files

-----------------------------------------------------------------------------
\* One field of one task's files is replaced and the rest stays.
LEMMA FileUpdate ==
    ASSUME NEW f, DOMAIN f = Tasks, \A u \in Tasks : DOMAIN f[u] = Files,
           NEW t \in Tasks, NEW n \in Files, NEW v, NEW g, g = [f EXCEPT ![t][n] = v]
    PROVE  /\ DOMAIN g = Tasks /\ \A u \in Tasks : DOMAIN g[u] = Files
           /\ g[t][n] = v
           /\ \A m \in Files : m # n => g[t][m] = f[t][m]
           /\ \A u \in Tasks : u # t => g[u] = f[u]
OBVIOUS

\* The types hold initially and every step preserves them.
LEMMA TypeInit == Init => TypeOK /\ FileShape
BY CollectAssumption DEF Init, TypeOK, FileShape, CollectAssumption, Files

LEMMA TypeStep == TypeOK /\ FileShape /\ [Next]_vars => TypeOK' /\ FileShape'
<1> SUFFICES ASSUME TypeOK, FileShape, [Next]_vars PROVE TypeOK' /\ FileShape'
    OBVIOUS
<1> USE CollectAssumption DEF CollectAssumption
<1>1. ASSUME NEW ids \in Ranges, Launch(ids) PROVE TypeOK' /\ FileShape'
    BY <1>1 DEF Launch, TypeOK, FileShape, faultVars
<1>2. ASSUME NEW t \in Tasks, Work(t) PROVE TypeOK' /\ FileShape'
    <2>1. CASE Resume(t)
        BY <2>1 DEF Resume, Starts, Goto, TypeOK, FileShape, mainVars, faultVars, Files
    <2>2. CASE Begin(t)
        BY <2>2 DEF Begin, Starts, Goto, TypeOK, FileShape, mainVars, faultVars, Files
    <2>3. ASSUME NEW kind \in Kinds, Attempt(t, kind) PROVE TypeOK' /\ FileShape'
        <3> DEFINE line == [task |-> t, run |-> runs, kind |-> kind]
        <3>1. runs \in 1..MaxRuns
            BY <2>3 DEF Attempt, TypeOK
        <3>2. line \in Line
            BY <3>1 DEF Line
        <3>3. attempts' \in [Tasks -> Seq(Line)] /\ \A u \in Tasks : Len(attempts'[u]) <= best_of_n
            BY <2>3, <3>2 DEF Attempt, MayAttempt, TypeOK
        <3> QED BY <2>3, <3>3 DEF Attempt, TypeOK, FileShape, mainVars, faultVars
    <2>4. CASE Sampled(t)
        BY <2>4 DEF Sampled, Goto, Following, TypeOK, FileShape, mainVars, faultVars, Files
    <2>5. CASE OpenFile(t)
        <3>1. FileShape'
            BY <2>5, FileUpdate DEF OpenFile, FileShape
        <3> QED BY <2>5, <3>1 DEF OpenFile, TypeOK, mainVars, faultVars
    <2>6. CASE CloseFile(t)
        <3>1. FileShape'
            BY <2>6, FileUpdate DEF CloseFile, FileShape
        <3>2. Following[pc[t]] \in {"returned"} \union Files
            BY <2>6 DEF CloseFile, Following, Files
        <3> QED BY <2>6, <3>1, <3>2 DEF CloseFile, Goto, TypeOK, mainVars, faultVars
    <2> QED BY <1>2, <2>1, <2>2, <2>3, <2>4, <2>5, <2>6 DEF Work
<1>3. ASSUME NEW t \in Tasks, NEW k \in 0..best_of_n, NEW torn \in BOOLEAN, WriteFails(t, k, torn)
      PROVE  TypeOK' /\ FileShape'
    <2>1. FileShape'
        BY <1>3, FileUpdate DEF WriteFails, FileShape
    <2> QED BY <1>3, <2>1 DEF WriteFails, Goto, TypeOK, mainVars
<1>4. CASE Conclude
    BY <1>4 DEF Conclude, Summarise, WriteSplit, OpenMerged, Merge, TypeOK, FileShape, poolVars, mainVars, faultVars
<1>5. ASSUME NEW k \in [Tasks -> 0..best_of_n], NEW torn \in [Tasks -> BOOLEAN], Crash(k, torn)
      PROVE  TypeOK' /\ FileShape'
    <2>1. FileShape'
        BY <1>5 DEF Crash, FileShape
    <2> QED BY <1>5, <2>1 DEF Crash, TypeOK
<1>6. CASE UNCHANGED vars
    BY <1>6 DEF vars, poolVars, mainVars, faultVars, TypeOK, FileShape
<1> QED BY <1>1, <1>2, <1>3, <1>4, <1>5, <1>6 DEF Next, CrashAny

-----------------------------------------------------------------------------
\* A thread at a file has made all attempts of its task, has written the files before it,
\* and the task has no meta file but the one it is writing; a meta file that parses
\* describes its neighbours.
Known(t) ==
    /\ pc[t] \in Files => Len(attempts[t]) = best_of_n
    /\ pc[t] \in {"sampling", "out", "contaminated"} => file[t]["meta"] = None
    /\ pc[t] = "meta" => file[t]["meta"] = IF writing[t] THEN Torn ELSE None
    /\ pc[t] \in {"contaminated", "meta"} => file[t]["out"] = Lines(attempts[t], "success")
    /\ pc[t] = "meta" => file[t]["contaminated"] = Lines(attempts[t], "marked")
    /\ Whole(t) => /\ Len(file[t]["meta"]) = best_of_n
                   /\ file[t]["out"] = Lines(file[t]["meta"], "success")
                   /\ file[t]["contaminated"] = Lines(file[t]["meta"], "marked")

Inv == TypeOK /\ FileShape /\ \A t \in Tasks : Known(t)

\* What a step leaves alone for a task keeps what is known of it.
LEMMA KnownStays ==
    ASSUME NEW t \in Tasks, Known(t), pc'[t] = pc[t], attempts'[t] = attempts[t],
           file'[t] = file[t], writing'[t] = writing[t]
    PROVE  Known(t)'
BY DEF Known, Whole

\* A task that leaves the pool keeps only what its files say.
LEMMA KnownIdle ==
    ASSUME NEW t \in Tasks, Known(t), file'[t] = file[t],
           pc'[t] \notin {"sampling"} \union Files
    PROVE  Known(t)'
BY DEF Known, Whole, Files

LEMMA InvInit == Init => Inv
<1> SUFFICES ASSUME Init PROVE Inv
    OBVIOUS
<1>1. \A t \in Tasks : Known(t)
    BY DEF Init, Known, Whole, Files
<1> QED BY <1>1, TypeInit DEF Inv

LEMMA InvStep == Inv /\ [Next]_vars => Inv'
<1> SUFFICES ASSUME Inv, [Next]_vars PROVE \A u \in Tasks : Known(u)'
    BY TypeStep DEF Inv
<1> USE CollectAssumption DEF CollectAssumption
<1>0. \A t \in Tasks : Known(t)
    BY DEF Inv
<1>1. ASSUME NEW ids \in Ranges, Launch(ids) PROVE \A u \in Tasks : Known(u)'
    <2> TAKE u \in Tasks
    <2>1. file'[u] = file[u] /\ pc'[u] \notin {"sampling"} \union Files
        BY <1>1 DEF Launch, Files
    <2> QED BY <2>1, <1>0, KnownIdle
<1>2. ASSUME NEW t \in Tasks, Work(t) PROVE \A u \in Tasks : Known(u)'
    <2>0. ASSUME NEW u \in Tasks, u # t PROVE Known(u)'
        <3>1. pc'[u] = pc[u] /\ attempts'[u] = attempts[u] /\ writing'[u] = writing[u]
            BY <1>2, <2>0 DEF Work, Resume, Begin, Attempt, Sampled, OpenFile, CloseFile, Goto, Inv, TypeOK
        <3>2. file'[u] = file[u]
            BY <1>2, <2>0 DEF Work, Resume, Begin, Attempt, Sampled, OpenFile, CloseFile, Inv, FileShape
        <3> QED BY <3>1, <3>2, <1>0, KnownStays
    <2> SUFFICES Known(t)'
        BY <2>0
    <2> USE <1>0
    <2>1. CASE Resume(t)
        <3>1. pc'[t] \in {"failed", "returned"} /\ file' = file
            BY <2>1 DEF Resume, Goto, Inv, TypeOK
        <3> QED BY <3>1, KnownIdle DEF Files
    <2>2. CASE Begin(t)
        BY <2>2 DEF Begin, NotCollected, Goto, Inv, TypeOK, Known, Whole, Files
    <2>3. ASSUME NEW kind \in Kinds, Attempt(t, kind) PROVE Known(t)'
        <3>1. pc[t] = "sampling" /\ pc' = pc /\ file' = file
            BY <2>3 DEF Attempt
        <3> QED BY <3>1 DEF Known, Whole, Files
    <2>4. CASE Sampled(t)
        <3>1. pc'[t] = "out" /\ file' = file /\ attempts' = attempts /\ Len(attempts[t]) = best_of_n
              /\ pc[t] = "sampling"
            BY <2>4 DEF Sampled, Following, Goto, Inv, TypeOK
        <3> QED BY <3>1 DEF Known, Whole, Files
    <2>5. CASE OpenFile(t)
        <3>1. /\ pc[t] \in Files /\ pc' = pc /\ attempts' = attempts /\ writing'[t]
              /\ file'[t][pc[t]] = Truncated(pc[t])
              /\ \A m \in Files : m # pc[t] => file'[t][m] = file[t][m]
            BY <2>5, FileUpdate DEF OpenFile, Inv, FileShape, TypeOK
        <3> QED BY <3>1 DEF Known, Whole, Files, Truncated
    <2>6. CASE CloseFile(t)
        <3>1. /\ pc[t] \in Files /\ writing[t] /\ attempts' = attempts /\ ~writing'[t]
              /\ pc'[t] = Following[pc[t]]
              /\ file'[t][pc[t]] = Contents(t, pc[t])
              /\ \A m \in Files : m # pc[t] => file'[t][m] = file[t][m]
            BY <2>6, FileUpdate DEF CloseFile, Goto, Inv, FileShape, TypeOK
        <3>2. CASE pc[t] = "out"
            BY <3>1, <3>2 DEF Known, Whole, Files, Contents, Following
        <3>3. CASE pc[t] = "contaminated"
            BY <3>1, <3>3 DEF Known, Whole, Files, Contents, Following
        <3>4. CASE pc[t] = "meta"
            BY <3>1, <3>4 DEF Known, Whole, Files, Contents, Following
        <3> QED BY <3>1, <3>2, <3>3, <3>4 DEF Files
    <2> QED BY <1>2, <2>1, <2>2, <2>3, <2>4, <2>5, <2>6 DEF Work
<1>3. ASSUME NEW t \in Tasks, NEW k \in 0..best_of_n, NEW torn \in BOOLEAN, WriteFails(t, k, torn)
      PROVE  \A u \in Tasks : Known(u)'
    <2> TAKE u \in Tasks
    <2>1. CASE u # t
        <3>1. pc'[u] = pc[u] /\ attempts'[u] = attempts[u] /\ writing'[u] = writing[u]
            BY <1>3, <2>1 DEF WriteFails, Goto, Inv, TypeOK
        <3>2. file'[u] = file[u]
            BY <1>3, <2>1 DEF WriteFails, Inv, FileShape
        <3> QED BY <3>1, <3>2, <1>0, KnownStays
    <2>2. CASE u = t
        <3>1. /\ pc[t] \in Files /\ writing[t] /\ pc'[t] = "failed"
              /\ pc[t] = "meta" => torn
              /\ file'[t][pc[t]] = Remains(t, pc[t], k, torn)
              /\ \A m \in Files : m # pc[t] => file'[t][m] = file[t][m]
            BY <1>3, FileUpdate DEF WriteFails, Goto, Inv, FileShape, TypeOK
        <3>2. ~Whole(t)'
            BY <3>1, <1>0 DEF Known, Whole, Files, Remains
        <3> QED BY <2>2, <3>1, <3>2 DEF Known, Files
    <2> QED BY <2>1, <2>2
<1>4. CASE Conclude
    <2>1. pc' = pc /\ attempts' = attempts /\ file' = file /\ writing' = writing
        BY <1>4 DEF Conclude, Summarise, WriteSplit, OpenMerged, Merge, poolVars
    <2> QED BY <2>1, <1>0, KnownStays
<1>5. ASSUME NEW k \in [Tasks -> 0..best_of_n], NEW torn \in [Tasks -> BOOLEAN], Crash(k, torn)
      PROVE  \A u \in Tasks : Known(u)'
    <2> TAKE u \in Tasks
    <2>0. pc'[u] = "idle"
        BY <1>5 DEF Crash
    <2>1. CASE main = "collecting" /\ writing[u]
        <3>1. /\ pc[u] \in Files
              /\ file'[u][pc[u]] = Remains(u, pc[u], k[u], torn[u])
              /\ \A m \in Files : m # pc[u] => file'[u][m] = file[u][m]
            BY <1>5, <2>1 DEF Crash, Inv, FileShape, TypeOK
        <3>2. CASE pc[u] = "meta"
            BY <2>0, <3>1, <3>2, <1>0 DEF Known, Whole, Files, Remains, Contents
        <3>3. CASE pc[u] # "meta"
            <4>1. ~Whole(u)'
                BY <3>1, <3>3, <1>0 DEF Known, Whole, Files
            <4> QED BY <2>0, <4>1 DEF Known, Files
        <3> QED BY <3>2, <3>3
    <2>2. CASE ~(main = "collecting" /\ writing[u])
        <3>1. file'[u] = file[u]
            BY <1>5, <2>2 DEF Crash
        <3> QED BY <2>0, <3>1, <1>0, KnownIdle DEF Files
    <2> QED BY <2>1, <2>2
<1>6. CASE UNCHANGED vars
    <2>1. pc' = pc /\ attempts' = attempts /\ file' = file /\ writing' = writing
        BY <1>6 DEF vars, poolVars
    <2> QED BY <2>1, <1>0, KnownStays
<1> QED BY <1>1, <1>2, <1>3, <1>4, <1>5, <1>6 DEF Next, CrashAny

LEMMA InvAlways == Spec => []Inv
<1>1. Init => Inv
    BY InvInit
<1>2. Inv /\ [Next]_vars => Inv'
    BY InvStep
<1> QED BY <1>1, <1>2, PTL DEF Spec

-----------------------------------------------------------------------------
\* Every reachable state of the collection is well typed, and no task makes more than
\* best_of_n attempts.
THEOREM CollectTypeCorrect == Spec => []TypeOK
<1>1. Inv => TypeOK
    BY DEF Inv
<1> QED BY <1>1, InvAlways, PTL

\* A meta file that parses records a full round of attempts, and the two files beside
\* it hold exactly that round's clean successes and marked attempts: the order in which
\* collect_one_task writes its files makes the meta file a commit record, whatever
\* crashes and failing writes there were.
THEOREM MetaIsCommit == Spec => []MetaDescribesFiles
<1>1. Inv => MetaDescribesFiles
    BY DEF Inv, Known, MetaDescribesFiles, Whole
<1> QED BY <1>1, InvAlways, PTL

\* No step touches the files of a task whose meta file parses.
LEMMA WholeStays == Inv /\ [Next]_vars => \A t \in Tasks : Whole(t) => file'[t] = file[t]
<1> SUFFICES ASSUME Inv, [Next]_vars, NEW u \in Tasks, Whole(u) PROVE file'[u] = file[u]
    OBVIOUS
<1>0. pc[u] \notin {"sampling"} \union Files /\ ~writing[u]
    BY DEF Inv, Known, Whole, Files, TypeOK
<1>1. CASE file' = file
    BY <1>1
<1>2. ASSUME NEW t \in Tasks, OpenFile(t) \/ CloseFile(t) PROVE file'[u] = file[u]
    BY <1>0, <1>2 DEF OpenFile, CloseFile, Inv, FileShape
<1>3. ASSUME NEW t \in Tasks, NEW k \in 0..best_of_n, NEW torn \in BOOLEAN, WriteFails(t, k, torn)
      PROVE  file'[u] = file[u]
    BY <1>0, <1>3 DEF WriteFails, Inv, FileShape
<1>4. ASSUME NEW k \in [Tasks -> 0..best_of_n], NEW torn \in [Tasks -> BOOLEAN], Crash(k, torn)
      PROVE  file'[u] = file[u]
    BY <1>0, <1>4 DEF Crash
<1>5. file' = file \/ (\E t \in Tasks : OpenFile(t) \/ CloseFile(t))
      \/ (\E t \in Tasks, k \in 0..best_of_n, torn \in BOOLEAN : WriteFails(t, k, torn))
      \/ \E k \in [Tasks -> 0..best_of_n], torn \in [Tasks -> BOOLEAN] : Crash(k, torn)
    BY DEF Next, CrashAny, vars, poolVars, Work, Conclude, Launch, Resume, Begin, Attempt, Sampled,
           Summarise, WriteSplit, OpenMerged, Merge
<1> QED BY <1>1, <1>2, <1>3, <1>4, <1>5

\* What was collected is final: a later run, whatever its task range, and a crash or a
\* failing write of another task leave the files of a complete task as they are.
THEOREM CollectedIsFinal == Spec => CompleteIsFinal
<1>1. Inv /\ [Next]_vars => [\A t \in Tasks : Whole(t) => file'[t] = file[t]]_vars
    BY WholeStays
<1> QED BY <1>1, InvAlways, PTL DEF Spec, CompleteIsFinal

-----------------------------------------------------------------------------
(* What a loop keeps of a sequence.                                        *)

\* The recursion of Picked, and the type of what it returns: whatever all the elements
\* at the positions I are.
Picks(p, V, q, I) ==
    /\ p \in [0..Len(q) -> Seq(V)] /\ p[0] = <<>>
    /\ \A n \in 1..Len(q) : p[n] = IF n \in I THEN Append(p[n - 1], q[n]) ELSE p[n - 1]
    /\ Picked(q, I) = p[Len(q)]

LEMMA Picking ==
    ASSUME NEW V, NEW q, DOMAIN q = 1..Len(q), Len(q) \in Nat, NEW I,
           \A n \in 1..Len(q) : n \in I => q[n] \in V
    PROVE  \E p : Picks(p, V, q, I)
<1> DEFINE N == Len(q)
           step == [a \in (1..N) \X Seq(V) |-> IF a[1] \in I THEN Append(a[2], q[a[1]]) ELSE a[2]]
<1>1. step \in Steps(N, Seq(V))
    BY DEF Steps
<1>2. \A n \in 1..N : \A s \in Seq(V) : step[<<n, s>>] = IF n \in I THEN Append(s, q[n]) ELSE s
    OBVIOUS
<1>3. <<>> \in Seq(V) /\ N \in Nat
    OBVIOUS
<1> HIDE DEF step, N
<1>4. PICK p : Solution(p, N, Seq(V), <<>>, step)
    BY <1>1, <1>3, Recursion
<1>5. /\ p \in [0..N -> Seq(V)] /\ p[0] = <<>>
      /\ \A n \in 1..N : p[n] = step[<<n, p[n - 1]>>]
    BY <1>4 DEF Solution
<1>6. ASSUME NEW n \in 1..N
      PROVE  p[n] = IF n \in I THEN Append(p[n - 1], q[n]) ELSE p[n - 1]
    <2>1. n - 1 \in 0..N
        BY <1>3
    <2>2. p[n - 1] \in Seq(V)
        BY <1>5, <2>1
    <2> QED BY <1>2, <1>5, <2>2
<1>7. Picked(q, I) = p[N]
    <2> DEFINE Def(g) == [n \in 0..N |-> IF n = 0 THEN <<>>
                                         ELSE IF n \in I THEN Append(g[n - 1], q[n]) ELSE g[n - 1]]
               h == CHOOSE g : g = Def(g)
    <2>1. p = Def(p)
        <3>1. p = [n \in 0..N |-> p[n]]
            BY <1>5
        <3>2. ASSUME NEW n \in 0..N
              PROVE  p[n] = IF n = 0 THEN <<>>
                            ELSE IF n \in I THEN Append(p[n - 1], q[n]) ELSE p[n - 1]
            <4>1. n = 0 \/ n \in 1..N
                BY <1>3
            <4> QED BY <1>5, <1>6, <4>1
        <3> QED BY <3>1, <3>2
    <2>2. h = Def(h)
        BY <2>1
    <2> HIDE DEF h
    <2> DEFINE S == {n \in 0..N : h[n] = p[n]}
    <2>3. 0 \in S
        <3>1. h[0] = <<>> /\ 0 \in 0..N
            BY <1>3, <2>2
        <3> QED BY <1>5, <3>1
    <2>4. ASSUME NEW n \in 1..N, n - 1 \in S PROVE n \in S
        <3>1. n # 0 /\ n \in 0..N
            BY <1>3
        <3>2. h[n] = IF n = 0 THEN <<>> ELSE IF n \in I THEN Append(h[n - 1], q[n]) ELSE h[n - 1]
            BY <2>2, <3>1
        <3>3. h[n - 1] = p[n - 1]
            BY <2>4
        <3> QED BY <1>6, <3>1, <3>2, <3>3
    <2> HIDE DEF S
    <2>5. \A n \in 0..N : n \in S
        BY <1>3, <2>3, <2>4, UpToInduction
    <2>6. h[N] = p[N]
        BY <1>3, <2>5 DEF S
    <2> QED BY <2>6 DEF Picked, h, N
<1> QED BY <1>5, <1>6, <1>7 DEF N, Picks

\* The same of a typed sequence.
LEMMA SeqPicking ==
    ASSUME NEW V, NEW q \in Seq(V), NEW I
    PROVE  \E p : Picks(p, V, q, I)
<1>1. DOMAIN q = 1..Len(q) /\ Len(q) \in Nat
    OBVIOUS
<1>2. \A n \in 1..Len(q) : n \in I => q[n] \in V
    OBVIOUS
<1> QED BY <1>1, <1>2, Picking

\* Only what is picked has to be of the type.
LEMMA PickedType ==
    ASSUME NEW V, NEW q, DOMAIN q = 1..Len(q), Len(q) \in Nat, NEW I,
           \A n \in 1..Len(q) : n \in I => q[n] \in V
    PROVE  Picked(q, I) \in Seq(V)
<1>1. PICK p : Picks(p, V, q, I)
    BY Picking
<1> QED BY <1>1 DEF Picks

\* All positions, and none.
LEMMA PickedAll ==
    ASSUME NEW V, NEW q \in Seq(V), NEW I, \A n \in 1..Len(q) : n \in I
    PROVE  Picked(q, I) = q
<1> DEFINE N == Len(q)
<1>0. PICK p : Picks(p, V, q, I)
    BY SeqPicking
<1>1. /\ p \in [0..N -> Seq(V)] /\ p[0] = <<>>
      /\ \A n \in 1..N : p[n] = IF n \in I THEN Append(p[n - 1], q[n]) ELSE p[n - 1]
      /\ Picked(q, I) = p[N]
    BY <1>0 DEF Picks
<1> DEFINE S == {n \in 0..N : p[n] = SubSeq(q, 1, n)}
<1>2. N \in Nat /\ 0 \in S
    BY <1>1
<1>3. ASSUME NEW n \in 1..N, n - 1 \in S PROVE n \in S
    <2>1. p[n] = Append(SubSeq(q, 1, n - 1), q[n])
        BY <1>1, <1>3
    <2>2. SubSeq(q, 1, n) = Append(SubSeq(q, 1, n - 1), q[n])
        OBVIOUS
    <2>3. p[n] = SubSeq(q, 1, n)
        BY <2>1, <2>2
    <2> QED BY <1>2, <2>3
<1> HIDE DEF S
<1>4. \A n \in 0..N : n \in S
    BY <1>2, <1>3, UpToInduction
<1>5. p[N] = SubSeq(q, 1, N)
    BY <1>2, <1>4 DEF S
<1> QED BY <1>1, <1>5

LEMMA PickedNone ==
    ASSUME NEW V, NEW q \in Seq(V), NEW I, \A n \in 1..Len(q) : n \notin I
    PROVE  Picked(q, I) = <<>>
<1>1. Picked(q, I) \in Seq({})
    BY PickedType
<1> QED BY <1>1

\* Appending to the second of two sequences.
AppendsLast(V) ==
    \A s, t \in Seq(V) : \A v \in V : Append(s \o t, v) = s \o Append(t, v)

LEMMA AppendLast ==
    ASSUME NEW V
    PROVE  AppendsLast(V)
<1> USE DEF AppendsLast
<1> TAKE s, t \in Seq(V)
<1> TAKE v \in V
<1> QED
    OBVIOUS

\* Two sequences one after the other: what the positions keep of each.
Splices(a, b, I, J, K) ==
    /\ \A n \in 1..Len(a) : n \in K <=> n \in I
    /\ \A n \in 1..Len(b) : Len(a) + n \in K <=> n \in J

LEMMA PickedJoin ==
    ASSUME NEW V, NEW a \in Seq(V), NEW b \in Seq(V), NEW I, NEW J, NEW K,
           Splices(a, b, I, J, K)
    PROVE  Picked(a \o b, K) = Picked(a, I) \o Picked(b, J)
<1> DEFINE c == a \o b
           A == Len(a)
           B == Len(b)
<1>1. /\ A \in Nat /\ B \in Nat /\ c \in Seq(V) /\ Len(c) = A + B
      /\ \A n \in 1..A : c[n] = a[n]
      /\ \A n \in 1..B : c[A + n] = b[n]
    OBVIOUS
<1> HIDE DEF c
<1>p. PICK p : Picks(p, V, c, K)
    BY <1>1, SeqPicking
<1>f. PICK f : Picks(f, V, a, I)
    BY SeqPicking
<1>g. PICK g : Picks(g, V, b, J)
    BY SeqPicking
<1>2. /\ p \in [0..A + B -> Seq(V)] /\ p[0] = <<>> /\ Picked(c, K) = p[A + B]
      /\ \A n \in 1..A + B : p[n] = IF n \in K THEN Append(p[n - 1], c[n]) ELSE p[n - 1]
    BY <1>1, <1>p DEF Picks
<1>3. /\ f \in [0..A -> Seq(V)] /\ f[0] = <<>> /\ Picked(a, I) = f[A]
      /\ \A n \in 1..A : f[n] = IF n \in I THEN Append(f[n - 1], a[n]) ELSE f[n - 1]
    BY <1>f DEF Picks
<1>4. /\ g \in [0..B -> Seq(V)] /\ g[0] = <<>> /\ Picked(b, J) = g[B]
      /\ \A n \in 1..B : g[n] = IF n \in J THEN Append(g[n - 1], b[n]) ELSE g[n - 1]
    BY <1>g DEF Picks
<1>k. /\ \A n \in 1..A : n \in K <=> n \in I
      /\ \A n \in 1..B : A + n \in K <=> n \in J
      /\ \A n \in 1..B : b[n] \in V
    BY DEF Splices
<1> HIDE DEF A, B
<1> DEFINE S == {n \in 0..A : p[n] = f[n]}
           T == {n \in 0..B : p[A + n] = f[A] \o g[n]}
<1>5. \A n \in 0..A : n \in S
    <2>1. 0 \in S
        BY <1>1, <1>2, <1>3
    <2>2. ASSUME NEW n \in 1..A, n - 1 \in S PROVE n \in S
        <3>1. n \in 1..A + B /\ n \in 0..A
            BY <1>1
        <3>2. p[n] = f[n]
            BY <1>1, <1>2, <1>3, <1>k, <2>2, <3>1
        <3> QED BY <3>1, <3>2
    <2> HIDE DEF S
    <2> QED BY <1>1, <2>1, <2>2, UpToInduction
<1>6. \A n \in 0..B : n \in T
    <2>1. 0 \in T
        <3>1. A \in 0..A /\ 0 \in 0..B /\ A + 0 = A /\ f[A] \in Seq(V)
            BY <1>1, <1>3
        <3>2. p[A] = f[A] /\ f[A] \o <<>> = f[A]
            BY <1>5, <3>1
        <3> QED BY <1>4, <3>1, <3>2
    <2>2. ASSUME NEW n \in 1..B, n - 1 \in T PROVE n \in T
        <3>1. A + n \in 1..A + B /\ n \in 0..B /\ n - 1 \in 0..B /\ A + (n - 1) = (A + n) - 1
            BY <1>1
        <3>2. /\ p[A + n] = IF A + n \in K THEN Append(p[(A + n) - 1], c[A + n]) ELSE p[(A + n) - 1]
              /\ A + n \in K <=> n \in J
              /\ c[A + n] = b[n]
            BY <1>1, <1>2, <1>k, <3>1
        <3>3. p[(A + n) - 1] = f[A] \o g[n - 1]
            BY <2>2, <3>1
        <3>4. g[n] = IF n \in J THEN Append(g[n - 1], b[n]) ELSE g[n - 1]
            BY <1>4
        <3>5. f[A] \in Seq(V) /\ g[n - 1] \in Seq(V) /\ b[n] \in V
            <4>1. f[A] \in Seq(V)
                BY <1>1, <1>3
            <4>2. g[n - 1] \in Seq(V)
                BY <1>4, <3>1
            <4>3. b[n] \in V
                BY <1>k
            <4> QED BY <4>1, <4>2, <4>3
        <3>6. Append(f[A] \o g[n - 1], b[n]) = f[A] \o Append(g[n - 1], b[n])
            <4>1. AppendsLast(V)
                BY AppendLast
            <4> QED BY <3>5, <4>1, Zenon DEF AppendsLast
        <3>7. p[A + n] = f[A] \o g[n]
            BY <3>2, <3>3, <3>4, <3>6
        <3> QED BY <3>1, <3>7
    <2> HIDE DEF S, T
    <2>3. B \in Nat /\ \A n \in 1..B : n - 1 \in T => n \in T
        BY <1>1, <2>2
    <2> QED BY <2>1, <2>3, UpToInduction
<1>7. p[A + B] = f[A] \o g[B]
    <2>1. B \in 0..B
        BY <1>1
    <2>2. B \in T
        BY <1>6, <2>1
    <2> QED BY <2>2
<1> QED BY <1>2, <1>3, <1>4, <1>7 DEF c

-----------------------------------------------------------------------------
(* What is in the files of a task is its own.                              *)

\* The lines of a task's own attempts, and the clean successes of the tasks in S.
Own(t) == [task : {t}, run : 1..MaxRuns, kind : Kinds]
Clean(S) == {line \in Line : line.task \in S /\ line.kind = "success"}

\* What is in the files of a task is its own: attempts, and successes of it that may be
\* cut; a task that returned gave what its meta file says.
Owned(t) ==
    /\ attempts[t] \in Seq(Own(t))
    /\ file[t]["out"] # None => file[t]["out"] \in Seq(Clean({t}) \union {Torn})
    /\ Whole(t) => file[t]["meta"] \in Seq(Own(t))
    /\ pc[t] = "returned" => Whole(t) /\ all_meta[t] = file[t]["meta"]

MetaShape == DOMAIN all_meta = Tasks
OwnedInv == MetaShape /\ \A t \in Tasks : Owned(t)

-----------------------------------------------------------------------------
\* What Lines keeps of a task's attempts.
LEMMA SuccessLines ==
    ASSUME NEW t \in Tasks, NEW q \in Seq(Own(t))
    PROVE  Lines(q, "success") \in Seq(Clean({t}))
<1>1. DOMAIN q = 1..Len(q) /\ Len(q) \in Nat
    OBVIOUS
<1>2. ASSUME NEW n \in 1..Len(q), q[n].kind = "success" PROVE q[n] \in Clean({t})
    <2>1. q[n] \in Own(t)
        OBVIOUS
    <2> QED BY <1>2, <2>1 DEF Own, Clean, Line
<1> DEFINE I == {i \in DOMAIN q : q[i].kind = "success"}
<1>3. \A n \in 1..Len(q) : n \in I => q[n] \in Clean({t})
    BY <1>2
<1> HIDE DEF I
<1>4. Picked(q, I) \in Seq(Clean({t}))
    BY <1>1, <1>3, PickedType
<1> QED BY <1>4 DEF Lines, I

\* A larger alphabet.
LEMMA Wider ==
    ASSUME NEW V, NEW W, V \subseteq W, NEW q \in Seq(V)
    PROVE  q \in Seq(W)
OBVIOUS

\* What a cut leaves of lines over V is lines over V and the marker.
LEMMA CutType ==
    ASSUME NEW V, NEW q \in Seq(V), NEW k \in Nat, k <= Len(q), NEW b \in BOOLEAN
    PROVE  Cut(q, k, b) \in Seq(V \union {Torn})
<1>1. SubSeq(q, 1, k) \in Seq(V)
    OBVIOUS
<1>2. SubSeq(q, 1, k) \in Seq(V \union {Torn})
    BY <1>1, Wider
<1> DEFINE s == SubSeq(q, 1, k)
<1> HIDE DEF s
<1>3. s \in Seq(V \union {Torn}) /\ Append(s, Torn) \in Seq(V \union {Torn})
    BY <1>2 DEF s
<1> QED BY <1>3 DEF Cut, s

\* A parsed meta file is none of the markers.
LEMMA OwnLines ==
    ASSUME NEW t \in Tasks, NEW q \in Seq(Own(t))
    PROVE  q \in Seq(Line) /\ q # None /\ q # Torn
<1>1. Own(t) \subseteq Line
    BY DEF Own, Line
<1>2. q \in Seq(Line) /\ q \in Seq(Line \union {Torn})
    BY <1>1, Wider
<1> QED BY <1>2, MarkerAssumption

\* A step that leaves a task's attempts and files alone.
LEMMA OwnedStays ==
    ASSUME NEW t \in Tasks, Owned(t), attempts'[t] = attempts[t], file'[t] = file[t],
           pc'[t] = pc[t] \/ pc'[t] # "returned", all_meta'[t] = all_meta[t]
    PROVE  Owned(t)'
BY DEF Owned, Whole

LEMMA OwnedInit == Init => OwnedInv
BY DEF Init, OwnedInv, MetaShape, Owned, Whole, Files

\* What reaches the disk of the file a task is at.
LEMMA OwnedRemains ==
    ASSUME Inv, NEW t \in Tasks, Owned(t), pc[t] \in Files,
           NEW k \in Nat, NEW torn \in BOOLEAN, k <= Len(Contents(t, pc[t])),
           attempts'[t] = attempts[t], pc'[t] # "returned",
           file'[t][pc[t]] = Remains(t, pc[t], k, torn),
           \A m \in Files : m # pc[t] => file'[t][m] = file[t][m]
    PROVE  Owned(t)'
<1>1. attempts[t] \in Seq(Own(t))
    BY DEF Owned
<1>2. CASE pc[t] = "out"
    <2>1. Contents(t, "out") \in Seq(Clean({t}))
        BY <1>1, SuccessLines DEF Contents
    <2>2. Cut(Contents(t, "out"), k, torn) \in Seq(Clean({t}) \union {Torn})
        BY <1>2, <2>1, CutType
    <2>3. file'[t]["out"] \in Seq(Clean({t}) \union {Torn}) /\ file'[t]["meta"] = file[t]["meta"]
        BY <1>2, <2>2 DEF Remains, Files
    <2> QED BY <2>3 DEF Owned, Whole
<1>3. CASE pc[t] = "contaminated"
    <2>1. file'[t]["out"] = file[t]["out"] /\ file'[t]["meta"] = file[t]["meta"]
        BY <1>3 DEF Files
    <2> QED BY <2>1 DEF Owned, Whole
<1>4. CASE pc[t] = "meta"
    <2>1. file'[t]["out"] = file[t]["out"] /\ file'[t]["meta"] \in {Torn, attempts[t]}
        BY <1>4 DEF Files, Remains, Contents
    <2> QED BY <2>1 DEF Owned, Whole
<1> QED BY <1>2, <1>3, <1>4 DEF Files

LEMMA MetaShapeStep == MetaShape /\ [Next]_vars => MetaShape'
BY DEF MetaShape, Next, CrashAny, vars, poolVars, Work, Conclude, Launch, Resume, Begin, Attempt, Sampled,
       OpenFile, CloseFile, WriteFails, Summarise, WriteSplit, OpenMerged, Merge, Crash

\* Every step keeps what is known of the contents.
LEMMA OwnedStep == Inv /\ OwnedInv /\ [Next]_vars => OwnedInv'
<1> SUFFICES ASSUME Inv, OwnedInv, [Next]_vars PROVE \A u \in Tasks : Owned(u)'
    BY MetaShapeStep DEF OwnedInv
<1> USE CollectAssumption DEF CollectAssumption
<1>0. MetaShape /\ \A t \in Tasks : Owned(t)
    BY DEF OwnedInv
<1>1. ASSUME NEW ids \in Ranges, Launch(ids) PROVE \A u \in Tasks : Owned(u)'
    <2> TAKE u \in Tasks
    <2>1. attempts'[u] = <<>> /\ file'[u] = file[u] /\ pc'[u] # "returned"
        BY <1>1 DEF Launch
    <2> QED BY <2>1, <1>0 DEF Owned, Whole
<1>2. ASSUME NEW t \in Tasks, Work(t) PROVE \A u \in Tasks : Owned(u)'
    <2>0. ASSUME NEW u \in Tasks, u # t PROVE Owned(u)'
        <3>1. pc'[u] = pc[u] /\ attempts'[u] = attempts[u]
            BY <1>2, <2>0 DEF Work, Resume, Begin, Attempt, Sampled, OpenFile, CloseFile, Goto, Inv, TypeOK
        <3>2. file'[u] = file[u]
            BY <1>2, <2>0 DEF Work, Resume, Begin, Attempt, Sampled, OpenFile, CloseFile, Inv, FileShape
        <3>3. all_meta'[u] = all_meta[u]
            BY <1>0, <1>2, <2>0 DEF Work, Resume, Begin, Attempt, Sampled, OpenFile, CloseFile, MetaShape
        <3> QED BY <3>1, <3>2, <3>3, <1>0, OwnedStays
    <2> SUFFICES Owned(t)'
        BY <2>0
    <2> USE <1>0
    <2>1. CASE Resume(t)
        <3>1. /\ file' = file /\ attempts' = attempts
              /\ pc'[t] = "returned" => Whole(t) /\ all_meta'[t] = file[t]["meta"]
            BY <2>1 DEF Resume, Goto, Inv, TypeOK, MetaShape, Whole
        <3> QED BY <3>1 DEF Owned, Whole
    <2>2. CASE Begin(t)
        <3>1. pc'[t] # "returned" /\ file' = file /\ attempts' = attempts /\ all_meta' = all_meta
            BY <2>2 DEF Begin, Goto, Inv, TypeOK
        <3> QED BY <3>1, OwnedStays
    <2>3. ASSUME NEW kind \in Kinds, Attempt(t, kind) PROVE Owned(t)'
        <3> DEFINE line == [task |-> t, run |-> runs, kind |-> kind]
        <3>1. runs \in 1..MaxRuns
            BY <2>3 DEF Attempt, Inv, TypeOK
        <3>2. line \in Own(t)
            BY <3>1 DEF Own
        <3>3. attempts'[t] = Append(attempts[t], line)
            BY <2>3 DEF Attempt, Inv, TypeOK
        <3> HIDE DEF line
        <3>4. attempts'[t] \in Seq(Own(t))
            <4>1. attempts[t] \in Seq(Own(t))
                BY DEF Owned
            <4> QED BY <3>2, <3>3, <4>1
        <3>5. pc[t] = "sampling" /\ pc' = pc /\ file' = file
            BY <2>3 DEF Attempt
        <3> QED BY <3>4, <3>5 DEF Owned, Whole
    <2>4. CASE Sampled(t)
        <3>1. pc'[t] # "returned" /\ file' = file /\ attempts' = attempts /\ all_meta' = all_meta
            BY <2>4 DEF Sampled, Goto, Following, Inv, TypeOK
        <3> QED BY <3>1, OwnedStays
    <2>5. CASE OpenFile(t)
        <3>1. /\ pc[t] \in Files /\ pc' = pc /\ attempts' = attempts
              /\ file'[t][pc[t]] = Truncated(pc[t])
              /\ \A m \in Files : m # pc[t] => file'[t][m] = file[t][m]
            BY <2>5, FileUpdate DEF OpenFile, Inv, FileShape, TypeOK
        <3>2. CASE pc[t] = "out"
            <4>1. file'[t]["out"] = <<>> /\ file'[t]["meta"] = file[t]["meta"]
                BY <3>1, <3>2 DEF Truncated, Files
            <4>2. <<>> \in Seq(Clean({t}) \union {Torn}) /\ pc'[t] # "returned"
                BY <3>1, <3>2
            <4> HIDE <1>0
            <4>3. attempts[t] \in Seq(Own(t)) /\ (Whole(t) => file[t]["meta"] \in Seq(Own(t)))
                BY <1>0 DEF Owned
            <4> QED BY <3>1, <4>1, <4>2, <4>3 DEF Owned, Whole
        <3>3. CASE pc[t] = "contaminated"
            BY <3>1, <3>3 DEF Owned, Whole, Files
        <3>4. CASE pc[t] = "meta"
            BY <3>1, <3>4 DEF Owned, Whole, Files, Truncated
        <3> QED BY <3>1, <3>2, <3>3, <3>4 DEF Files
    <2>6. CASE CloseFile(t)
        <3>1. /\ pc[t] \in Files /\ attempts' = attempts /\ pc'[t] = Following[pc[t]]
              /\ file'[t][pc[t]] = Contents(t, pc[t])
              /\ \A m \in Files : m # pc[t] => file'[t][m] = file[t][m]
              /\ pc[t] = "meta" => all_meta'[t] = attempts[t]
            BY <2>6, FileUpdate DEF CloseFile, Goto, Inv, FileShape, TypeOK, MetaShape
        <3>2. CASE pc[t] = "out"
            <4>1. /\ file'[t]["out"] = Lines(attempts[t], "success") /\ file'[t]["meta"] = file[t]["meta"]
                  /\ pc'[t] = "contaminated"
                BY <3>1, <3>2 DEF Contents, Following, Files
            <4>2. Lines(attempts[t], "success") \in Seq(Clean({t}))
                BY SuccessLines DEF Owned
            <4>3. file'[t]["out"] \in Seq(Clean({t}) \union {Torn})
                BY <4>1, <4>2, Wider
            <4> HIDE <1>0
            <4>4. attempts[t] \in Seq(Own(t)) /\ (Whole(t) => file[t]["meta"] \in Seq(Own(t)))
                BY <1>0 DEF Owned
            <4>5. file'[t]["meta"] = file[t]["meta"] /\ pc'[t] # "returned" /\ attempts' = attempts
                BY <3>1, <4>1
            <4> QED BY <4>3, <4>4, <4>5 DEF Owned, Whole
        <3>3. CASE pc[t] = "contaminated"
            <4>1. /\ file'[t]["out"] = file[t]["out"] /\ file'[t]["meta"] = file[t]["meta"]
                  /\ pc'[t] = "meta" /\ attempts' = attempts
                BY <3>1, <3>3 DEF Following, Files
            <4> QED BY <4>1 DEF Owned, Whole
        <3>4. CASE pc[t] = "meta"
            <4>1. /\ file'[t]["meta"] = attempts[t] /\ file'[t]["out"] = file[t]["out"]
                  /\ all_meta'[t] = attempts[t]
                BY <3>1, <3>4 DEF Contents, Files
            <4>2. attempts[t] # None /\ attempts[t] # Torn
                BY OwnLines DEF Owned
            <4> QED BY <3>1, <4>1, <4>2 DEF Owned, Whole
        <3> QED BY <3>1, <3>2, <3>3, <3>4 DEF Files
    <2> QED BY <1>2, <2>1, <2>2, <2>3, <2>4, <2>5, <2>6 DEF Work
<1>3. ASSUME NEW t \in Tasks, NEW k \in 0..best_of_n, NEW torn \in BOOLEAN, WriteFails(t, k, torn)
      PROVE  \A u \in Tasks : Owned(u)'
    <2> TAKE u \in Tasks
    <2>0. attempts' = attempts /\ all_meta' = all_meta
        BY <1>3 DEF WriteFails
    <2>1. CASE u # t
        <3>1. pc'[u] = pc[u]
            BY <1>3, <2>1 DEF WriteFails, Goto, Inv, TypeOK
        <3>2. file'[u] = file[u]
            BY <1>3, <2>1 DEF WriteFails, Inv, FileShape
        <3> QED BY <2>0, <3>1, <3>2, <1>0, OwnedStays
    <2>2. CASE u = t
        <3>1. /\ pc[t] \in Files /\ pc'[t] = "failed" /\ k <= Len(Contents(t, pc[t]))
              /\ file'[t][pc[t]] = Remains(t, pc[t], k, torn)
              /\ \A m \in Files : m # pc[t] => file'[t][m] = file[t][m]
            BY <1>3, FileUpdate DEF WriteFails, Goto, Inv, FileShape, TypeOK
        <3>2. k \in Nat
            OBVIOUS
        <3> QED BY <2>0, <2>2, <3>1, <3>2, <1>0, OwnedRemains
    <2> QED BY <2>1, <2>2
<1>4. CASE Conclude
    <2>1. pc' = pc /\ attempts' = attempts /\ file' = file /\ all_meta' = all_meta
        BY <1>4 DEF Conclude, Summarise, WriteSplit, OpenMerged, Merge, poolVars
    <2> QED BY <2>1, <1>0, OwnedStays
<1>5. CASE CrashAny
    <2> TAKE u \in Tasks
    <2>1. PICK k \in [Tasks -> 0..best_of_n], torn \in [Tasks -> BOOLEAN] :
              /\ writing[u] => k[u] <= Len(Contents(u, pc[u]))
              /\ Crash(k, torn)
        BY <1>5 DEF CrashAny
    <2>2. pc'[u] # "returned" /\ attempts' = attempts /\ all_meta' = all_meta
        BY <2>1 DEF Crash
    <2>3. CASE main = "collecting" /\ writing[u]
        <3>1. /\ pc[u] \in Files
              /\ file'[u][pc[u]] = Remains(u, pc[u], k[u], torn[u])
              /\ \A m \in Files : m # pc[u] => file'[u][m] = file[u][m]
            BY <2>1, <2>3 DEF Crash, Inv, FileShape, TypeOK
        <3>2. k[u] \in Nat /\ torn[u] \in BOOLEAN /\ k[u] <= Len(Contents(u, pc[u]))
            BY <2>1, <2>3
        <3> QED BY <2>2, <3>1, <3>2, <1>0, OwnedRemains
    <2>4. CASE ~(main = "collecting" /\ writing[u])
        <3>1. file'[u] = file[u]
            BY <2>1, <2>4 DEF Crash
        <3> QED BY <2>2, <3>1, <1>0, OwnedStays
    <2> QED BY <2>3, <2>4
<1>6. CASE UNCHANGED vars
    <2>1. pc' = pc /\ attempts' = attempts /\ file' = file /\ all_meta' = all_meta
        BY <1>6 DEF vars, poolVars
    <2> QED BY <2>1, <1>0, OwnedStays
<1> QED BY <1>1, <1>2, <1>3, <1>4, <1>5, <1>6 DEF Next

-----------------------------------------------------------------------------
(* main() after the pool.                                                  *)

\* The split of a range.
SplitOf(ids) == [seen |-> ToSet(ids) \ Holdout(ids), unseen |-> Holdout(ids)]

\* What main() has at each of its steps after the pool.
MainInv ==
    /\ main # "idle" => task_ids \in Ranges
    /\ main \in {"splitting", "split", "merging", "done"} =>
           total_successes = NumSuccesses(task_ids, all_meta)
    /\ main \in {"split", "merging", "done"} => split = SplitOf(task_ids)
    /\ main = "done" => train_file = Merged(TrainTasks) /\ holdout_file = Merged(split.unseen)

LEMMA MainInit == Init => MainInv
BY DEF Init, MainInv

LEMMA MainStep == MainInv /\ [Next]_vars => MainInv'
<1> SUFFICES ASSUME MainInv, [Next]_vars PROVE MainInv'
    OBVIOUS
<1>1. ASSUME NEW ids \in Ranges, Launch(ids) PROVE MainInv'
    BY <1>1 DEF Launch, MainInv
<1>2. CASE \/ \E t \in Tasks : Work(t)
           \/ \E t \in Tasks, k \in 0..best_of_n, torn \in BOOLEAN : WriteFails(t, k, torn)
    <2>1. main = "collecting" /\ main' = main /\ task_ids' = task_ids
        BY <1>2 DEF Work, Resume, Begin, Attempt, Sampled, OpenFile, CloseFile, WriteFails, Starts
    <2> QED BY <2>1 DEF MainInv
<1>3. CASE Summarise
    BY <1>3 DEF Summarise, MainInv, poolVars
<1>4. CASE WriteSplit
    BY <1>4 DEF WriteSplit, MainInv, SplitOf, poolVars
<1>5. CASE OpenMerged
    BY <1>5 DEF OpenMerged, MainInv, poolVars
<1>6. CASE Merge
    <2>1. /\ main = "merging" /\ main' = "done" /\ task_ids' = task_ids /\ file' = file
          /\ split' = split /\ all_meta' = all_meta /\ total_successes' = total_successes
        BY <1>6 DEF Merge, poolVars
    <2>2. Merged(TrainTasks)' = Merged(TrainTasks) /\ Merged(split.unseen)' = Merged(split.unseen)
        BY <2>1 DEF Merged, TrainTasks
    <2>3. train_file' = Merged(TrainTasks) /\ holdout_file' = Merged(split.unseen)
        BY <1>6 DEF Merge
    <2> QED BY <2>1, <2>2, <2>3 DEF MainInv
<1>7. CASE CrashAny
    <2>1. main' = "idle"
        BY <1>7 DEF CrashAny, Crash
    <2> QED BY <2>1 DEF MainInv
<1>8. CASE UNCHANGED vars
    <2>1. /\ main' = main /\ task_ids' = task_ids /\ file' = file /\ split' = split
          /\ all_meta' = all_meta /\ total_successes' = total_successes
          /\ train_file' = train_file /\ holdout_file' = holdout_file
        BY <1>8 DEF vars, poolVars, mainVars
    <2>2. Merged(TrainTasks)' = Merged(TrainTasks) /\ Merged(split.unseen)' = Merged(split.unseen)
        BY <2>1 DEF Merged, TrainTasks
    <2> QED BY <2>1, <2>2 DEF MainInv
<1> QED BY <1>1, <1>2, <1>3, <1>4, <1>5, <1>6, <1>7, <1>8 DEF Next, Conclude

-----------------------------------------------------------------------------
\* The contribution of the i-th task, and what is merged of the tasks in S.
Part(i, S) ==
    IF task_ids[i] \in S /\ file[task_ids[i]].out # None THEN file[task_ids[i]].out ELSE <<>>
Parts(S) == [i \in DOMAIN task_ids |-> Part(i, S)]

LEMMA MergedParts == ASSUME NEW S PROVE Merged(S) = Joined(FlattenSeq(Parts(S)))
BY DEF Merged, Parts, Part

\* The tasks of a range are tasks.
LEMMA RangeTasks ==
    ASSUME NEW ids \in Ranges
    PROVE  /\ ids \in Seq(Tasks) /\ Len(ids) \in Nat /\ DOMAIN ids = 1..Len(ids)
           /\ ToSet(ids) \subseteq Tasks
           /\ \A i \in 1..Len(ids) : ids[i] \in ToSet(ids)
           /\ \A i, j \in 1..Len(ids) : ids[i] = ids[j] => i = j
<1>1. ToSet(ids) \subseteq Tasks
    BY DEF Tasks
<1>2. ids \in Seq(ToSet(ids)) /\ IsInjective(ids)
    BY CollectAssumption DEF CollectAssumption
<1>3. Len(ids) \in Nat /\ DOMAIN ids = 1..Len(ids) /\ \A i \in 1..Len(ids) : ids[i] \in ToSet(ids)
    BY <1>2 DEF ToSet
<1>4. ids \in Seq(Tasks)
    BY <1>1, <1>2, Wider
<1>5. \A i, j \in 1..Len(ids) : ids[i] = ids[j] => i = j
    BY <1>2, <1>3 DEF IsInjective
<1> QED BY <1>1, <1>3, <1>4, <1>5

\* What a flattened sequence of sequences and its joined lines are made of.
LEMMA FlattenType ==
    ASSUME NEW V, NEW qs \in Seq(Seq(V))
    PROVE  FlattenSeq(qs) \in Seq(V)
<1>1. PICK f : Flattens(f, V, qs)
    BY Flattening
<1>2. Len(qs) \in 0..Len(qs)
    OBVIOUS
<1> QED BY <1>1, <1>2 DEF Flattens

LEMMA JoinedType ==
    ASSUME NEW V, NEW q \in Seq(V)
    PROVE  Joined(q) \in Seq(V)
<1> DEFINE I == {i \in DOMAIN q : i = 1 \/ q[i - 1] # Torn}
<1>1. DOMAIN q = 1..Len(q) /\ Len(q) \in Nat /\ \A n \in 1..Len(q) : q[n] \in V
    OBVIOUS
<1> HIDE DEF I
<1>2. Picked(q, I) \in Seq(V)
    BY <1>1, PickedType
<1> QED BY <1>2 DEF Joined, I

\* A merged file holds clean successes of its tasks, and cut lines.
LEMMA MergedType ==
    ASSUME OwnedInv, task_ids \in Ranges, NEW S
    PROVE  Merged(S) \in Seq(Clean(S) \union {Torn})
<1> DEFINE V == Clean(S) \union {Torn}
<1>1. ASSUME NEW i \in DOMAIN task_ids PROVE Part(i, S) \in Seq(V)
    <2>1. CASE task_ids[i] \in S /\ file[task_ids[i]].out # None
        <3> DEFINE t == task_ids[i]
        <3>1. t \in Tasks /\ t \in S
            BY <2>1, RangeTasks
        <3> HIDE DEF t
        <3>2. file[t]["out"] \in Seq(Clean({t}) \union {Torn})
            BY <2>1, <3>1 DEF OwnedInv, Owned, t
        <3>3. Clean({t}) \union {Torn} \subseteq V
            BY <3>1 DEF Clean
        <3> HIDE DEF V
        <3>4. file[t]["out"] \in Seq(V)
            BY <3>2, <3>3, Wider
        <3> QED BY <2>1, <3>4 DEF Part, t
    <2>2. CASE ~(task_ids[i] \in S /\ file[task_ids[i]].out # None)
        BY <2>2 DEF Part
    <2> QED BY <2>1, <2>2
<1> HIDE DEF V
<1>2. Parts(S) \in Seq(Seq(V))
    <2>1. DOMAIN task_ids = 1..Len(task_ids) /\ Len(task_ids) \in Nat
        BY RangeTasks
    <2> DEFINE q == [i \in 1..Len(task_ids) |-> Part(i, S)]
    <2>2. q \in Seq(Seq(V))
        BY <1>1, <2>1
    <2> QED BY <2>1, <2>2 DEF Parts
<1>3. Joined(FlattenSeq(Parts(S))) \in Seq(V)
    BY <1>2, FlattenType, JoinedType
<1> QED BY <1>3, MergedParts DEF V

-----------------------------------------------------------------------------
(* The files of the split and of the training.                             *)

\* Every stride-th position is one of the range.
LEMMA StrideInRange ==
    ASSUME NEW n \in Nat, NEW h \in Nat, 0 < h, h < n, NEW i \in 0..(h - 1)
    PROVE  ((i * n) \div h) + 1 \in 1..n
<1> DEFINE q == (i * n) \div h
<1>1. i * n \in Nat /\ i * n < h * n
    <2>1. i \in Nat /\ i + 1 <= h
        OBVIOUS
    <2>2. \A a, b \in Nat : a <= b => a * n <= b * n
        OBVIOUS
    <2>3. (i + 1) * n <= h * n /\ (i + 1) * n = i * n + n
        BY <2>1, <2>2
    <2> QED BY <2>1, <2>3
<1>2. q \in Nat /\ h * q <= i * n
    BY <1>1
<1>3. q < n
    <2>1. ASSUME n <= q PROVE FALSE
        <3>1. h * n <= h * q
            BY <1>2, <2>1
        <3> QED BY <1>1, <1>2, <3>1
    <2> QED BY <1>2, <2>1
<1> QED BY <1>2, <1>3

LEMMA HoldoutTasks ==
    ASSUME NEW ids \in Ranges
    PROVE  Holdout(ids) \subseteq Tasks /\ SplitOf(ids) \in [seen : SUBSET Tasks, unseen : SUBSET Tasks]
<1>1. Holdout(ids) \subseteq Tasks
    <2>1. ASSUME 0 < holdout_size, holdout_size < Len(ids), NEW i \in 0..(holdout_size - 1)
          PROVE  ids[((i * Len(ids)) \div holdout_size) + 1] \in Tasks
        <3>1. ((i * Len(ids)) \div holdout_size) + 1 \in 1..Len(ids)
            BY <2>1, RangeTasks, StrideInRange, CollectAssumption DEF CollectAssumption
        <3> QED BY <3>1, RangeTasks
    <2> QED BY <2>1 DEF Holdout
<1> QED BY <1>1, RangeTasks DEF SplitOf

-----------------------------------------------------------------------------
\* What SplitMatchesTrain says of the three files, and when.
Agreed ==
    /\ split # Torn
    /\ TasksOf(train_file) \subseteq split.seen
    /\ TasksOf(holdout_file) \subseteq split.unseen
    /\ split.seen \cap split.unseen = {}

Uncut == main = "done" \/ (crashes = 0 /\ main \in {"idle", "collecting"} /\ split # None)

CleanLines(lines) == lines # None => lines \in Seq(Clean(Tasks) \union {Torn})

SplitInv == (Uncut => Agreed) /\ CleanLines(train_file) /\ CleanLines(holdout_file)

LEMMA SplitInit == Init => SplitInv
BY DEF Init, SplitInv, Uncut, CleanLines

\* A step that leaves the files of main() alone.
LEMMA SplitStays ==
    ASSUME SplitInv, UNCHANGED <<split, train_file, holdout_file>>, Uncut' => Uncut
    PROVE  SplitInv'
BY DEF SplitInv, Agreed, CleanLines, TasksOf

\* Lines of the tasks in S are lines of S.
LEMMA TasksOfClean ==
    ASSUME NEW S, NEW q \in Seq(Clean(S) \union {Torn})
    PROVE  TasksOf(q) \subseteq S
<1> SUFFICES ASSUME NEW line \in ToSet(q), line # Torn PROVE line.task \in S
    BY DEF TasksOf
<1>1. line \in Clean(S)
    BY DEF ToSet
<1> QED BY <1>1 DEF Clean

\* Every step keeps the files of the split and of the training in agreement, where the
\* property asks for it.
LEMMA SplitStep == Inv /\ OwnedInv /\ MainInv /\ SplitInv /\ [Next]_vars => SplitInv'
<1> SUFFICES ASSUME Inv, OwnedInv, MainInv, SplitInv, [Next]_vars PROVE SplitInv'
    OBVIOUS
<1>0. crashes \in Nat
    BY CollectAssumption DEF CollectAssumption, Inv, TypeOK
<1>1. ASSUME NEW ids \in Ranges, Launch(ids) PROVE SplitInv'
    BY <1>1, SplitStays DEF Launch, Uncut, mainVars, faultVars
<1>2. CASE \/ \E t \in Tasks : Work(t)
           \/ \E t \in Tasks, k \in 0..best_of_n, torn \in BOOLEAN : WriteFails(t, k, torn)
    <2>1. /\ main = "collecting" /\ main' = main /\ crashes' = crashes
          /\ UNCHANGED <<split, train_file, holdout_file>>
        BY <1>2 DEF Work, Resume, Begin, Attempt, Sampled, OpenFile, CloseFile, WriteFails, Starts,
                    mainVars, faultVars
    <2> QED BY <2>1, SplitStays DEF Uncut
<1>3. CASE Summarise \/ WriteSplit
    <2>1. main' \in {"splitting", "split"} /\ UNCHANGED <<train_file, holdout_file>>
        BY <1>3 DEF Summarise, WriteSplit
    <2> QED BY <2>1 DEF SplitInv, Uncut, CleanLines
<1>4. CASE OpenMerged
    <2>1. main' = "merging" /\ train_file' = <<>> /\ holdout_file' = <<>>
        BY <1>4 DEF OpenMerged
    <2> QED BY <2>1 DEF SplitInv, Uncut, CleanLines
<1>5. main = "merging" =>
          /\ task_ids \in Ranges /\ split = SplitOf(task_ids)
          /\ split.seen \subseteq Tasks /\ split.unseen \subseteq Tasks
          /\ Merged(TrainTasks) \in Seq(Clean(split.seen) \union {Torn})
          /\ Merged(split.unseen) \in Seq(Clean(split.unseen) \union {Torn})
          /\ Merged(TrainTasks) \in Seq(Clean(Tasks) \union {Torn})
          /\ Merged(split.unseen) \in Seq(Clean(Tasks) \union {Torn})
    <2> SUFFICES ASSUME main = "merging"
                 PROVE  /\ task_ids \in Ranges /\ split = SplitOf(task_ids)
                        /\ split.seen \subseteq Tasks /\ split.unseen \subseteq Tasks
                        /\ Merged(TrainTasks) \in Seq(Clean(split.seen) \union {Torn})
                        /\ Merged(split.unseen) \in Seq(Clean(split.unseen) \union {Torn})
                        /\ Merged(TrainTasks) \in Seq(Clean(Tasks) \union {Torn})
                        /\ Merged(split.unseen) \in Seq(Clean(Tasks) \union {Torn})
        OBVIOUS
    <2>1. task_ids \in Ranges /\ split = SplitOf(task_ids)
        BY DEF MainInv
    <2>2. split.seen \subseteq Tasks /\ split.unseen \subseteq Tasks
        BY <2>1, HoldoutTasks
    <2>3. /\ Merged(TrainTasks) \in Seq(Clean(split.seen) \union {Torn})
          /\ Merged(split.unseen) \in Seq(Clean(split.unseen) \union {Torn})
        BY <2>1, MergedType DEF TrainTasks
    <2>4. /\ Clean(split.seen) \union {Torn} \subseteq Clean(Tasks) \union {Torn}
          /\ Clean(split.unseen) \union {Torn} \subseteq Clean(Tasks) \union {Torn}
        BY <2>2 DEF Clean
    <2>5. /\ Merged(TrainTasks) \in Seq(Clean(Tasks) \union {Torn})
          /\ Merged(split.unseen) \in Seq(Clean(Tasks) \union {Torn})
        BY <2>3, <2>4, Wider
    <2> QED BY <2>1, <2>2, <2>3, <2>5
<1>6. CASE Merge
    <2>1. /\ main = "merging" /\ main' = "done" /\ split' = split
          /\ train_file' = Merged(TrainTasks) /\ holdout_file' = Merged(split.unseen)
        BY <1>6 DEF Merge
    <2>2. TasksOf(train_file') \subseteq split.seen /\ TasksOf(holdout_file') \subseteq split.unseen
        BY <1>5, <2>1, TasksOfClean
    <2>3. split # Torn /\ split.seen \cap split.unseen = {}
        BY <1>5, <2>1, HoldoutTasks, MarkerAssumption DEF SplitOf
    <2>4. CleanLines(train_file)' /\ CleanLines(holdout_file)'
        BY <1>5, <2>1 DEF CleanLines
    <2>5. Agreed'
        BY <2>1, <2>2, <2>3 DEF Agreed, TasksOf
    <2> QED BY <2>4, <2>5 DEF SplitInv
<1>7. CASE CrashAny
    <2>1. crashes' # 0 /\ main' = "idle"
        BY <1>0, <1>7 DEF CrashAny, Crash
    <2>2. ~Uncut'
        BY <2>1 DEF Uncut
    <2>3. CASE main = "merging"
        <3>1. PICK i \in 0..Len(Merged(TrainTasks)), j \in 0..Len(Merged(split.unseen)),
                   b \in BOOLEAN, c \in BOOLEAN :
                  /\ train_file' = Cut(Merged(TrainTasks), i, b)
                  /\ holdout_file' = Cut(Merged(split.unseen), j, c)
            BY <1>7, <2>3 DEF CrashAny, Crash
        <3> DEFINE V == Clean(Tasks) \union {Torn}
        <3>2. V \union {Torn} = V
            OBVIOUS
        <3>3. Merged(TrainTasks) \in Seq(V) /\ Merged(split.unseen) \in Seq(V)
            BY <1>5, <2>3
        <3> HIDE DEF V
        <3>4. /\ i \in Nat /\ i <= Len(Merged(TrainTasks))
              /\ j \in Nat /\ j <= Len(Merged(split.unseen))
            BY <3>3
        <3>5. train_file' \in Seq(V) /\ holdout_file' \in Seq(V)
            BY <3>1, <3>2, <3>3, <3>4, CutType
        <3> QED BY <2>2, <3>5 DEF SplitInv, CleanLines, V
    <2>4. CASE main # "merging"
        <3>1. UNCHANGED <<train_file, holdout_file>>
            BY <1>7, <2>4 DEF CrashAny, Crash
        <3> QED BY <2>2, <3>1 DEF SplitInv, CleanLines
    <2> QED BY <2>3, <2>4
<1>8. CASE UNCHANGED vars
    BY <1>8, SplitStays DEF vars, mainVars, faultVars, Uncut
<1> QED BY <1>1, <1>2, <1>3, <1>4, <1>6, <1>7, <1>8 DEF Next, Conclude

-----------------------------------------------------------------------------
\* The inductive invariant of the whole collection.
MergeInv == Inv /\ OwnedInv /\ MainInv /\ SplitInv

LEMMA MergeAlways == Spec => []MergeInv
<1>1. Init => MergeInv
    BY InvInit, OwnedInit, MainInit, SplitInit DEF MergeInv
<1>2. MergeInv /\ [Next]_vars => MergeInv'
    BY InvStep, OwnedStep, MainStep, SplitStep DEF MergeInv
<1> QED BY <1>1, <1>2, PTL DEF Spec

\* When a run has finished, split.json and the merged files agree on the tasks held out,
\* until a run is cut short after it wrote its own split; and no contaminated attempt
\* is ever in what the training reads, cut or not.
THEOREM TrainingMatchesSplit == Spec => []SplitMatchesTrain
<1>1. MergeInv => SplitMatchesTrain
    <2> SUFFICES ASSUME MergeInv PROVE SplitMatchesTrain
        OBVIOUS
    <2>1. Uncut => Agreed
        BY DEF MergeInv, SplitInv
    <2>2. ASSUME NEW lines \in {train_file, holdout_file} \ {None}, NEW line \in ToSet(lines) \ {Torn}
          PROVE  line.kind = "success"
        <3>1. lines \in Seq(Clean(Tasks) \union {Torn})
            BY DEF MergeInv, SplitInv, CleanLines
        <3>2. line \in Clean(Tasks)
            BY <3>1 DEF ToSet
        <3> QED BY <3>2 DEF Clean
    <2> QED BY <2>1, <2>2 DEF SplitMatchesTrain, Uncut, Agreed
<1> QED BY <1>1, MergeAlways, PTL

-----------------------------------------------------------------------------
(* What a finished run has merged and counted.                             *)

\* The recursion of NumSuccesses.
Counts(s, ids, metas) ==
    /\ s \in [0..Len(ids) -> Nat] /\ s[0] = 0
    /\ \A n \in 1..Len(ids) : s[n] = IF metas[ids[n]] = None THEN s[n - 1]
                                     ELSE s[n - 1] + Len(Lines(metas[ids[n]], "success"))
    /\ NumSuccesses(ids, metas) = s[Len(ids)]

LEMMA Counting ==
    ASSUME NEW ids, Len(ids) \in Nat, NEW metas,
           \A n \in 1..Len(ids) : metas[ids[n]] # None => Len(Lines(metas[ids[n]], "success")) \in Nat
    PROVE  \E s : Counts(s, ids, metas)
<1> DEFINE N == Len(ids)
           Add(n) == Len(Lines(metas[ids[n]], "success"))
           step == [a \in (1..N) \X Nat |-> IF metas[ids[a[1]]] = None THEN a[2] ELSE a[2] + Add(a[1])]
<1>0. \A n \in 1..N : metas[ids[n]] # None => Add(n) \in Nat
    OBVIOUS
<1> HIDE DEF Add
<1>1. step \in Steps(N, Nat)
    BY <1>0 DEF Steps
<1>2. \A n \in 1..N : \A s \in Nat : step[<<n, s>>] = IF metas[ids[n]] = None THEN s ELSE s + Add(n)
    OBVIOUS
<1>3. 0 \in Nat /\ N \in Nat
    OBVIOUS
<1> HIDE DEF step, N
<1>4. PICK s : Solution(s, N, Nat, 0, step)
    BY <1>1, <1>3, Recursion
<1>5. /\ s \in [0..N -> Nat] /\ s[0] = 0
      /\ \A n \in 1..N : s[n] = step[<<n, s[n - 1]>>]
    BY <1>4 DEF Solution
<1>6. ASSUME NEW n \in 1..N
      PROVE  s[n] = IF metas[ids[n]] = None THEN s[n - 1] ELSE s[n - 1] + Add(n)
    <2>1. n - 1 \in 0..N
        BY <1>3
    <2>2. s[n - 1] \in Nat
        BY <1>5, <2>1
    <2> QED BY <1>2, <1>5, <2>2
<1>7. NumSuccesses(ids, metas) = s[N]
    <2> DEFINE Def(g) == [n \in 0..N |-> IF n = 0 THEN 0
                                         ELSE IF metas[ids[n]] = None THEN g[n - 1]
                                         ELSE g[n - 1] + Add(n)]
               h == CHOOSE g : g = Def(g)
    <2>1. s = Def(s)
        <3>1. s = [n \in 0..N |-> s[n]]
            BY <1>5
        <3>2. ASSUME NEW n \in 0..N
              PROVE  s[n] = IF n = 0 THEN 0
                            ELSE IF metas[ids[n]] = None THEN s[n - 1] ELSE s[n - 1] + Add(n)
            <4>1. n = 0 \/ n \in 1..N
                BY <1>3
            <4> QED BY <1>5, <1>6, <4>1
        <3> QED BY <3>1, <3>2
    <2>2. h = Def(h)
        BY <2>1
    <2> HIDE DEF h
    <2> DEFINE S == {n \in 0..N : h[n] = s[n]}
    <2>3. 0 \in S
        <3>1. h[0] = 0 /\ 0 \in 0..N
            BY <1>3, <2>2
        <3> QED BY <1>5, <3>1
    <2>4. ASSUME NEW n \in 1..N, n - 1 \in S PROVE n \in S
        <3>1. n # 0 /\ n \in 0..N
            BY <1>3
        <3>2. h[n] = IF n = 0 THEN 0
                     ELSE IF metas[ids[n]] = None THEN h[n - 1] ELSE h[n - 1] + Add(n)
            BY <2>2, <3>1
        <3>3. h[n - 1] = s[n - 1]
            BY <2>4
        <3> QED BY <1>6, <3>1, <3>2, <3>3
    <2> HIDE DEF S
    <2>5. \A n \in 0..N : n \in S
        BY <1>3, <2>3, <2>4, UpToInduction
    <2>6. h[N] = s[N]
        BY <1>3, <2>5 DEF S
    <2> QED BY <2>6 DEF NumSuccesses, h, N, Add
<1> QED BY <1>5, <1>6, <1>7 DEF N, Counts, Add

-----------------------------------------------------------------------------
\* The lines of one task in two sequences, and in those of one task.
OfSplits(V) == \A a, b \in Seq(V) : \A t : Of(a \o b, t) = Of(a, t) \o Of(b, t)

LEMMA OfJoin ==
    ASSUME NEW V
    PROVE  OfSplits(V)
<1> SUFFICES ASSUME NEW a \in Seq(V), NEW b \in Seq(V), NEW t
             PROVE  Of(a \o b, t) = Of(a, t) \o Of(b, t)
    BY DEF OfSplits
<1> DEFINE c == a \o b
           I == {i \in DOMAIN a : a[i].task = t}
           J == {i \in DOMAIN b : b[i].task = t}
           K == {i \in DOMAIN c : c[i].task = t}
<1>1. /\ Len(a) \in Nat /\ Len(b) \in Nat
      /\ DOMAIN a = 1..Len(a) /\ DOMAIN b = 1..Len(b) /\ DOMAIN c = 1..(Len(a) + Len(b))
      /\ \A n \in 1..Len(a) : c[n] = a[n]
      /\ \A n \in 1..Len(b) : c[Len(a) + n] = b[n]
    OBVIOUS
<1>2. \A n \in 1..Len(a) : n \in K <=> n \in I
    BY <1>1
<1>3. \A n \in 1..Len(b) : Len(a) + n \in K <=> n \in J
    <2> TAKE n \in 1..Len(b)
    <2>1. Len(a) + n \in 1..(Len(a) + Len(b))
        BY <1>1
    <2>2. c[Len(a) + n] = b[n]
        BY <1>1
    <2> HIDE DEF c
    <2> QED BY <1>1, <2>1, <2>2
<1> HIDE DEF I, J, K
<1>4. Splices(a, b, I, J, K)
    BY <1>2, <1>3 DEF Splices
<1>5. Picked(a \o b, K) = Picked(a, I) \o Picked(b, J)
    BY <1>4, PickedJoin
<1> QED BY <1>5 DEF Of, I, J, K

LEMMA OfOwn ==
    ASSUME NEW u, NEW t, NEW q \in Seq(Clean({u}))
    PROVE  Of(q, t) = IF t = u THEN q ELSE <<>>
<1> DEFINE I == {i \in DOMAIN q : q[i].task = t}
<1>1. DOMAIN q = 1..Len(q)
    OBVIOUS
<1>2. \A n \in 1..Len(q) : q[n].task = u
    <2> TAKE n \in 1..Len(q)
    <2>1. q[n] \in Clean({u})
        OBVIOUS
    <2> QED BY <2>1 DEF Clean
<1>3. CASE t = u
    <2>1. \A n \in 1..Len(q) : n \in I
        BY <1>1, <1>2, <1>3
    <2> HIDE DEF I
    <2>2. Picked(q, I) = q
        BY <2>1, PickedAll
    <2> QED BY <1>3, <2>2 DEF Of, I
<1>4. CASE t # u
    <2>1. \A n \in 1..Len(q) : n \notin I
        BY <1>1, <1>2, <1>4
    <2> HIDE DEF I
    <2>2. Picked(q, I) = <<>>
        BY <2>1, PickedNone
    <2> QED BY <1>4, <2>2 DEF Of, I
<1> QED BY <1>3, <1>4

\* Lines none of which is cut stay apart.
LEMMA JoinedWhole ==
    ASSUME NEW V, Torn \notin V, NEW q \in Seq(V)
    PROVE  Joined(q) = q
<1> DEFINE I == {i \in DOMAIN q : i = 1 \/ q[i - 1] # Torn}
<1>1. \A n \in 1..Len(q) : n \in I
    <2> TAKE n \in 1..Len(q)
    <2>1. n \in DOMAIN q /\ (n # 1 => n - 1 \in 1..Len(q))
        OBVIOUS
    <2>2. n # 1 => q[n - 1] \in V
        BY <2>1
    <2> QED BY <2>1, <2>2
<1> HIDE DEF I
<1>2. Picked(q, I) = q
    BY <1>1, PickedAll
<1> QED BY <1>2 DEF Joined, I

-----------------------------------------------------------------------------
\* Every task of the run has its successes, whole, in its file.
Collected ==
    /\ task_ids \in Ranges
    /\ \A t \in ToSet(task_ids) :
           /\ file[t].out \in Seq(Clean({t})) /\ file[t].out # None
           /\ file[t].out = Lines(file[t].meta, "success")
           /\ all_meta[t] = file[t].meta /\ all_meta[t] # None

LEMMA ReturnedIsCollected ==
    ASSUME MergeInv, main = "done", \A t \in ToSet(task_ids) : pc[t] = "returned"
    PROVE  Collected
<1>1. task_ids \in Ranges
    BY DEF MergeInv, MainInv
<1>2. ASSUME NEW t \in ToSet(task_ids)
      PROVE  /\ file[t].out \in Seq(Clean({t})) /\ file[t].out # None
             /\ file[t].out = Lines(file[t].meta, "success")
             /\ all_meta[t] = file[t].meta /\ all_meta[t] # None
    <2>1. t \in Tasks
        BY <1>1, RangeTasks
    <2>2. Owned(t) /\ Known(t) /\ pc[t] = "returned"
        BY <2>1 DEF MergeInv, OwnedInv, Inv
    <2>3. Whole(t) /\ all_meta[t] = file[t].meta /\ file[t].meta \in Seq(Own(t))
        BY <2>2 DEF Owned
    <2>4. file[t].out = Lines(file[t].meta, "success")
        BY <2>2, <2>3 DEF Known
    <2>5. file[t].out \in Seq(Clean({t}))
        BY <2>1, <2>3, <2>4, SuccessLines
    <2>6. Clean({t}) \subseteq Line \union {Torn}
        BY DEF Clean
    <2>7. file[t].out # None
        BY <2>5, <2>6, Wider, MarkerAssumption
    <2> QED BY <2>3, <2>4, <2>5, <2>7 DEF Whole
<1> QED BY <1>1, <1>2 DEF Collected

\* How the merged lines of the tasks in S are built, task after task.
Builds(f, S) ==
    /\ f \in [0..Len(task_ids) -> Seq(Clean(Tasks))] /\ f[0] = <<>>
    /\ \A n \in 1..Len(task_ids) : f[n] = f[n - 1] \o Part(n, S)
    /\ Merged(S) = f[Len(task_ids)]

\* What a task gives to the merge.
LEMMA PartType ==
    ASSUME Collected, NEW S, NEW n \in 1..Len(task_ids)
    PROVE  /\ Part(n, S) \in Seq(Clean({task_ids[n]}))
           /\ Part(n, S) = IF task_ids[n] \in S THEN file[task_ids[n]].out ELSE <<>>
<1> DEFINE t == task_ids[n]
<1>1. t \in ToSet(task_ids)
    BY RangeTasks DEF Collected
<1>2. file[t].out \in Seq(Clean({t})) /\ file[t].out # None
    BY <1>1 DEF Collected
<1> QED BY <1>2 DEF Part

\* No line is cut, so joining changes nothing.
LEMMA Building ==
    ASSUME Collected, NEW S
    PROVE  \E f : Builds(f, S)
<1> DEFINE W == Clean(Tasks)
           N == Len(task_ids)
<1>1. DOMAIN task_ids = 1..N /\ N \in Nat
    BY RangeTasks DEF Collected
<1>2. ASSUME NEW n \in 1..N PROVE Part(n, S) \in Seq(W)
    <2>1. Clean({task_ids[n]}) \subseteq W
        BY RangeTasks DEF Collected, Clean
    <2> HIDE DEF W
    <2> QED BY <2>1, PartType, Wider
<1> HIDE DEF W
<1>3. Parts(S) \in Seq(Seq(W)) /\ Len(Parts(S)) = N /\ \A n \in 1..N : Parts(S)[n] = Part(n, S)
    <2> DEFINE q == [n \in 1..N |-> Part(n, S)]
    <2>1. q \in Seq(Seq(W)) /\ Len(q) = N /\ \A n \in 1..N : q[n] = Part(n, S)
        BY <1>1, <1>2
    <2> QED BY <1>1, <2>1 DEF Parts
<1>p. PICK f : Flattens(f, W, Parts(S))
    BY <1>3, Flattening
<1>4. /\ f \in [0..N -> Seq(W)] /\ f[0] = <<>>
      /\ \A n \in 1..N : f[n] = f[n - 1] \o Parts(S)[n]
      /\ FlattenSeq(Parts(S)) = f[N]
    BY <1>3, <1>p DEF Flattens
<1>5. Merged(S) = f[N]
    <2>1. Torn \notin W
        BY MarkerAssumption DEF W, Clean
    <2>2. FlattenSeq(Parts(S)) \in Seq(W)
        BY <1>3, FlattenType
    <2>3. Joined(FlattenSeq(Parts(S))) = FlattenSeq(Parts(S))
        BY <2>1, <2>2, JoinedWhole
    <2> QED BY <1>4, <2>3, MergedParts
<1> QED BY <1>3, <1>4, <1>5 DEF Builds, W

-----------------------------------------------------------------------------
\* The lines of a task in what was merged of the tasks in S.
LEMMA MergedOf ==
    ASSUME Collected, NEW S, NEW t \in ToSet(task_ids)
    PROVE  Of(Merged(S), t) = IF t \in S THEN file[t].out ELSE <<>>
<1> DEFINE W == Clean(Tasks)
           N == Len(task_ids)
           Mine == IF t \in S THEN file[t].out ELSE <<>>
<1>1. /\ N \in Nat /\ \A i, j \in 1..N : task_ids[i] = task_ids[j] => i = j
      /\ \A i \in 1..N : task_ids[i] \in Tasks
    BY RangeTasks DEF Collected
<1>2. PICK k \in 1..N : task_ids[k] = t
    BY RangeTasks DEF ToSet, Collected
<1>3. PICK f : Builds(f, S)
    BY Building
<1>4. /\ f \in [0..N -> Seq(W)] /\ f[0] = <<>> /\ Merged(S) = f[N]
      /\ \A n \in 1..N : f[n] = f[n - 1] \o Part(n, S)
    BY <1>3 DEF Builds
<1>5. Mine \in Seq(Clean({t}))
    BY DEF Collected
<1>6. ASSUME NEW n \in 1..N
      PROVE  /\ Part(n, S) \in Seq(W)
             /\ Of(Part(n, S), t) = IF n = k THEN Mine ELSE <<>>
    <2>1. /\ Part(n, S) \in Seq(Clean({task_ids[n]}))
          /\ Part(n, S) = IF task_ids[n] \in S THEN file[task_ids[n]].out ELSE <<>>
        BY PartType
    <2>2. Clean({task_ids[n]}) \subseteq W
        BY <1>1 DEF Clean
    <2> HIDE DEF W
    <2>3. Part(n, S) \in Seq(W)
        BY <2>1, <2>2, Wider
    <2>4. Of(Part(n, S), t) = IF t = task_ids[n] THEN Part(n, S) ELSE <<>>
        BY <2>1, OfOwn
    <2>5. t = task_ids[n] <=> n = k
        BY <1>1, <1>2
    <2>6. n = k => Part(n, S) = Mine
        BY <1>2, <2>1
    <2> QED BY <2>3, <2>4, <2>5, <2>6
<1> HIDE DEF W, Mine
<1> DEFINE H == {n \in 0..N : Of(f[n], t) = IF k <= n THEN Mine ELSE <<>>}
<1>7. 0 \in H
    <2>1. f[0] \in Seq(Clean({t})) /\ ~(k <= 0)
        BY <1>1, <1>4
    <2>2. Of(f[0], t) = <<>>
        BY <1>4, <2>1, OfOwn
    <2> QED BY <1>1, <2>1, <2>2
<1>8. ASSUME NEW n \in 1..N, n - 1 \in H PROVE n \in H
    <2>0. n \in 0..N /\ n - 1 \in 0..N
        BY <1>1
    <2>1. n \in 0..N /\ f[n - 1] \in Seq(W)
        BY <1>4, <2>0
    <2>2. Of(f[n], t) = Of(f[n - 1], t) \o Of(Part(n, S), t)
        <3>1. Of(f[n - 1] \o Part(n, S), t) = Of(f[n - 1], t) \o Of(Part(n, S), t)
            <4>1. OfSplits(W)
                BY OfJoin
            <4>2. Part(n, S) \in Seq(W)
                BY <1>6
            <4> QED BY <2>1, <4>1, <4>2, Zenon DEF OfSplits
        <3> QED BY <1>4, <3>1
    <2>3. Of(f[n - 1], t) = IF k <= n - 1 THEN Mine ELSE <<>>
        BY <1>8
    <2>4. Mine \o <<>> = Mine /\ <<>> \o Mine = Mine /\ <<>> \o <<>> = <<>>
        BY <1>5
    <2>5. CASE n = k
        <3>1. ~(k <= n - 1) /\ k <= n
            BY <1>1, <2>5
        <3> QED BY <1>6, <2>1, <2>2, <2>3, <2>4, <2>5, <3>1
    <2>6. CASE n # k
        <3>1. (k <= n - 1) <=> (k <= n)
            BY <1>1, <2>6
        <3> QED BY <1>6, <2>1, <2>2, <2>3, <2>4, <2>6, <3>1
    <2> QED BY <2>5, <2>6
<1> HIDE DEF H
<1>9. \A n \in 0..N : n \in H
    BY <1>1, <1>7, <1>8, UpToInduction
<1>10. Of(f[N], t) = Mine
    BY <1>1, <1>2, <1>9 DEF H
<1> QED BY <1>4, <1>10 DEF Mine

\* Lengths add up.
LEMMA JoinLength ==
    ASSUME NEW V, NEW W, NEW a \in Seq(V), NEW b \in Seq(W)
    PROVE  Len(a \o b) = Len(a) + Len(b) /\ Len(a) \in Nat /\ Len(b) \in Nat
OBVIOUS

\* The summary counts the lines of both files.
LEMMA MergedCount ==
    ASSUME Collected, NEW S, NEW T, ToSet(task_ids) \subseteq S \union T, S \cap T = {}
    PROVE  NumSuccesses(task_ids, all_meta) = Len(Merged(S)) + Len(Merged(T))
<1> DEFINE N == Len(task_ids)
           Size(n) == Len(Lines(all_meta[task_ids[n]], "success"))
<1>1. N \in Nat /\ \A n \in 1..N : task_ids[n] \in ToSet(task_ids)
    BY RangeTasks DEF Collected
<1>2. ASSUME NEW n \in 1..N
      PROVE  /\ all_meta[task_ids[n]] # None /\ Size(n) \in Nat
             /\ Size(n) = Len(Part(n, S)) + Len(Part(n, T))
    <2> DEFINE t == task_ids[n]
    <2>1. t \in ToSet(task_ids)
        BY <1>1
    <2>2. /\ file[t].out \in Seq(Clean({t})) /\ Lines(all_meta[t], "success") = file[t].out
          /\ all_meta[t] # None
        BY <2>1 DEF Collected
    <2>3. Size(n) = Len(file[t].out) /\ Len(file[t].out) \in Nat
        BY <2>2
    <2>4. /\ Part(n, S) = IF t \in S THEN file[t].out ELSE <<>>
          /\ Part(n, T) = IF t \in T THEN file[t].out ELSE <<>>
        BY PartType
    <2>5. Len(<<>>) = 0 /\ (t \in S <=> t \notin T)
        BY <2>1
    <2> HIDE DEF t
    <2>6. Size(n) = Len(Part(n, S)) + Len(Part(n, T))
        <3>1. CASE t \in S
            <4>1. Len(Part(n, S)) = Len(file[t].out) /\ Len(Part(n, T)) = 0
                BY <2>4, <2>5, <3>1, Zenon
            <4> QED BY <2>3, <4>1
        <3>2. CASE t \notin S
            <4>1. Len(Part(n, S)) = 0 /\ Len(Part(n, T)) = Len(file[t].out)
                <5>1. t \in T
                    BY <2>5, <3>2
                <5> QED BY <2>4, <2>5, <3>2, <5>1, Zenon
            <4> QED BY <2>3, <4>1
        <3> QED BY <3>1, <3>2
    <2> QED BY <2>2, <2>3, <2>6 DEF t
<1> HIDE DEF Size
<1>3. PICK f : Builds(f, S)
    BY Building
<1>4. PICK g : Builds(g, T)
    BY Building
<1>5. PICK s : Counts(s, task_ids, all_meta)
    BY <1>1, <1>2, Counting DEF Size
<1>6. /\ f \in [0..N -> Seq(Clean(Tasks))] /\ f[0] = <<>> /\ Merged(S) = f[N]
      /\ \A n \in 1..N : f[n] = f[n - 1] \o Part(n, S)
    BY <1>3 DEF Builds
<1>7. /\ g \in [0..N -> Seq(Clean(Tasks))] /\ g[0] = <<>> /\ Merged(T) = g[N]
      /\ \A n \in 1..N : g[n] = g[n - 1] \o Part(n, T)
    BY <1>4 DEF Builds
<1>8. /\ s \in [0..N -> Nat] /\ s[0] = 0 /\ NumSuccesses(task_ids, all_meta) = s[N]
      /\ \A n \in 1..N : s[n] = s[n - 1] + Size(n)
    BY <1>2, <1>5 DEF Counts, Size
<1> DEFINE H == {n \in 0..N : s[n] = Len(f[n]) + Len(g[n])}
<1>9. 0 \in H
    <2>1. 0 \in 0..N /\ Len(<<>>) = 0
        BY <1>1
    <2> QED BY <1>6, <1>7, <1>8, <2>1
<1>10. ASSUME NEW n \in 1..N, n - 1 \in H PROVE n \in H
    <2>1. n \in 0..N /\ n - 1 \in 0..N
        BY <1>1
    <2>2. Part(n, S) \in Seq(Clean({task_ids[n]})) /\ Part(n, T) \in Seq(Clean({task_ids[n]}))
        BY PartType
    <2>3. Len(f[n]) = Len(f[n - 1]) + Len(Part(n, S)) /\ Len(f[n - 1]) \in Nat /\ Len(Part(n, S)) \in Nat
        BY <1>6, <2>1, <2>2, JoinLength
    <2>4. Len(g[n]) = Len(g[n - 1]) + Len(Part(n, T)) /\ Len(g[n - 1]) \in Nat /\ Len(Part(n, T)) \in Nat
        BY <1>7, <2>1, <2>2, JoinLength
    <2>5. s[n] = s[n - 1] + Size(n) /\ s[n - 1] = Len(f[n - 1]) + Len(g[n - 1])
        BY <1>8, <1>10
    <2>6. Size(n) = Len(Part(n, S)) + Len(Part(n, T))
        BY <1>2
    <2>7. s[n] = Len(f[n]) + Len(g[n])
        <3> DEFINE a == Len(f[n - 1])
                   b == Len(g[n - 1])
                   c == Len(Part(n, S))
                   d == Len(Part(n, T))
        <3>1. a \in Nat /\ b \in Nat /\ c \in Nat /\ d \in Nat
            BY <2>3, <2>4
        <3>2. s[n] = (a + b) + (c + d)
            BY <2>5, <2>6, Zenon
        <3>3. Len(f[n]) = a + c /\ Len(g[n]) = b + d
            BY <2>3, <2>4
        <3> HIDE DEF a, b, c, d
        <3>4. (a + b) + (c + d) = (a + c) + (b + d)
            BY <3>1
        <3> QED BY <3>2, <3>3, <3>4, Zenon
    <2> QED BY <2>1, <2>7
<1> HIDE DEF H
<1>11. \A n \in 0..N : n \in H
    BY <1>1, <1>9, <1>10, UpToInduction
<1>12. s[N] = Len(f[N]) + Len(g[N])
    <2>1. N \in 0..N
        BY <1>1
    <2> QED BY <1>11, <2>1 DEF H
<1> QED BY <1>6, <1>7, <1>8, <1>12

-----------------------------------------------------------------------------
\* A finished run none of whose tasks failed has merged every clean success of its tasks,
\* once, in order, into the one file that split.json says, and counts what it merged.
THEOREM MergeIsComplete == Spec => []MergedIsCollected
<1>1. MergeInv => MergedIsCollected
    <2> SUFFICES ASSUME MergeInv, main = "done", \A t \in ToSet(task_ids) : pc[t] = "returned"
                 PROVE  /\ Torn \notin ToSet(train_file) \union ToSet(holdout_file)
                        /\ \A t \in ToSet(task_ids) :
                               Of(train_file, t) \o Of(holdout_file, t) = Lines(file[t].meta, "success")
                        /\ total_successes = Len(train_file) + Len(holdout_file)
        BY DEF MergedIsCollected
    <2>1. Collected
        BY ReturnedIsCollected
    <2>2. /\ train_file = Merged(TrainTasks) /\ holdout_file = Merged(split.unseen)
          /\ total_successes = NumSuccesses(task_ids, all_meta)
          /\ split = SplitOf(task_ids)
        BY DEF MergeInv, MainInv
    <2> DEFINE S == split.seen
               U == split.unseen
    <2>3. /\ ToSet(task_ids) \subseteq S \union U /\ S \cap U = {}
          /\ TrainTasks = S
        BY <2>2 DEF SplitOf, TrainTasks
    <2> HIDE DEF S
    <2>4. ASSUME NEW t \in ToSet(task_ids)
          PROVE  Of(train_file, t) \o Of(holdout_file, t) = Lines(file[t].meta, "success")
        <3>1. /\ Of(train_file, t) = IF t \in S THEN file[t].out ELSE <<>>
              /\ Of(holdout_file, t) = IF t \in U THEN file[t].out ELSE <<>>
            BY <2>1, <2>2, <2>3, MergedOf
        <3>2. file[t].out \in Seq(Clean({t})) /\ file[t].out = Lines(file[t].meta, "success")
            BY <2>1 DEF Collected
        <3>3. file[t].out \o <<>> = file[t].out /\ <<>> \o file[t].out = file[t].out
            BY <3>2
        <3>4. t \in S <=> t \notin U
            BY <2>3
        <3> QED BY <3>1, <3>2, <3>3, <3>4
    <2>5. total_successes = Len(train_file) + Len(holdout_file)
        BY <2>1, <2>2, <2>3, MergedCount
    <2>6. ASSUME NEW R PROVE Torn \notin ToSet(Merged(R))
        <3>1. PICK f : Builds(f, R)
            BY <2>1, Building
        <3>2. Len(task_ids) \in 0..Len(task_ids)
            BY <2>1, RangeTasks DEF Collected
        <3>3. Merged(R) \in Seq(Clean(Tasks))
            BY <3>1, <3>2 DEF Builds
        <3>4. Torn \notin Clean(Tasks)
            BY MarkerAssumption DEF Clean
        <3> QED BY <3>3, <3>4 DEF ToSet
    <2> QED BY <2>2, <2>4, <2>5, <2>6
<1> QED BY <1>1, MergeAlways, PTL
=============================================================================
