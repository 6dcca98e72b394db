----------------------------- MODULE Inductions -----------------------------
(***************************************************************************)
(* Induction over the natural numbers in first-order form, and what it     *)
(* gives for functions defined by recursion and for folds over finite      *)
(* sets: the library's theorems take an operator for the induction         *)
(* hypothesis, these take a set.                                           *)
(***************************************************************************)
EXTENDS Integers, Sequences, SequencesExt, FiniteSets, FiniteSetsExt, FiniteSetTheorems,
        WellFoundedInduction, TLAPS

\* A set that holds 0, and n + 1 with every n, holds all natural numbers: the least one
\* outside it would have a predecessor inside.
LEMMA NatSetInduction ==
    ASSUME NEW S, 0 \in S, \A n \in Nat : n \in S => n + 1 \in S
    PROVE  \A n \in Nat : n \in S
  <1> DEFINE T == Nat \ S
  <1> SUFFICES ASSUME T # {} PROVE FALSE
    OBVIOUS
  <1>1. IsWellFoundedOn(OpToRel(<, Nat), Nat)
    BY NatLessThanWellFounded
  <1>2. PICK x \in T : \A y \in T : ~(<<y, x>> \in OpToRel(<, Nat))
    BY <1>1, WFMin
  <1>3. \A y \in T : ~(y < x)
    BY <1>2 DEF OpToRel
  <1>4. x # 0 /\ x \in Nat /\ x - 1 \in Nat /\ x - 1 < x /\ x = (x - 1) + 1
    BY DEF T
  <1>5. x - 1 \in S
    BY <1>3, <1>4
  <1> QED
    BY <1>4, <1>5

\* The same up to a bound.
LEMMA UpToInduction ==
    ASSUME NEW N \in Nat, NEW S, 0 \in S, \A n \in 1..N : n - 1 \in S => n \in S
    PROVE  \A n \in 0..N : n \in S
  <1> DEFINE T == {n \in Nat : n <= N => n \in S}
  <1>1. 0 \in T
    OBVIOUS
  <1>2. ASSUME NEW n \in Nat, n \in T PROVE n + 1 \in T
    <2> SUFFICES ASSUME n + 1 <= N PROVE n + 1 \in S
      OBVIOUS
    <2>1. n \in S /\ n + 1 \in 1..N /\ (n + 1) - 1 = n
      BY <1>2
    <2> QED
      BY <2>1
  <1> HIDE DEF T
  <1>3. \A n \in Nat : n \in T
    BY <1>1, <1>2, NatSetInduction
  <1> QED
    BY <1>3 DEF T

\* A recursion from n - 1 to n has a solution up to every bound.
Steps(N, V) == [(1..N) \X V -> V]

Solution(f, N, V, base, step) ==
    /\ f \in [0..N -> V] /\ f[0] = base
    /\ \A n \in 1..N : f[n] = step[<<n, f[n - 1]>>]

LEMMA Recursion ==
    ASSUME NEW N \in Nat, NEW V, NEW base \in V, NEW step \in Steps(N, V)
    PROVE  \E f : Solution(f, N, V, base, step)
  <1> USE DEF Steps
  <1> DEFINE Solves(f, m) == /\ f \in [0..m -> V] /\ f[0] = base
                             /\ \A n \in 1..m : f[n] = step[<<n, f[n - 1]>>]
             S == {m \in 0..N : \E f \in [0..m -> V] : Solves(f, m)}
  <1>1. 0 \in S
    <2> DEFINE f == [n \in 0..0 |-> base]
    <2>1. f \in [0..0 -> V] /\ f[0] = base /\ 1..0 = {}
      OBVIOUS
    <2> HIDE DEF f
    <2> QED
      BY <2>1
  <1>2. ASSUME NEW n \in 1..N, n - 1 \in S PROVE n \in S
    <2>1. PICK f \in [0..n - 1 -> V] : Solves(f, n - 1)
      BY <1>2
    <2> DEFINE g == [m \in 0..n |-> IF m = n THEN step[<<n, f[n - 1]>>] ELSE f[m]]
    <2>2. /\ n \in Nat /\ n >= 1 /\ n - 1 \in 0..n - 1 /\ n - 1 \in 0..n /\ n - 1 # n /\ n \in 0..n
          /\ \A m \in 0..n : m # n => m \in 0..n - 1
      OBVIOUS
    <2>3. f[n - 1] \in V /\ step[<<n, f[n - 1]>>] \in V
      BY <2>1, <2>2
    <2>4. g \in [0..n -> V]
      BY <2>2, <2>3
    <2>5. g[0] = base
      BY <2>1, <2>2
    <2>6. ASSUME NEW m \in 1..n PROVE g[m] = step[<<m, g[m - 1]>>]
      <3>1. m - 1 \in 0..n /\ m - 1 # n /\ m \in 0..n /\ g[m - 1] = f[m - 1]
        OBVIOUS
      <3>2. CASE m = n
        BY <3>1, <3>2
      <3>3. CASE m # n
        <4>1. m \in 1..n - 1
          BY <3>3
        <4>2. g[m] = f[m]
          BY <3>1, <3>3
        <4>3. f[m] = step[<<m, f[m - 1]>>]
          BY <2>1, <4>1
        <4> QED
          BY <3>1, <4>2, <4>3
      <3> QED
        BY <3>2, <3>3
    <2> HIDE DEF g
    <2> QED
      BY <2>2, <2>4, <2>5, <2>6
  <1> HIDE DEF S
  <1>3. N \in S
    BY <1>1, <1>2, UpToInduction
  <1> QED
    BY <1>3 DEF S, Solution

-----------------------------------------------------------------------------
\* FlattenSeq appends the sequences one after the other.
Flattens(f, V, qs) ==
    /\ f \in [0..Len(qs) -> Seq(V)] /\ f[0] = <<>>
    /\ \A n \in 1..Len(qs) : f[n] = f[n - 1] \o qs[n]
    /\ FlattenSeq(qs) = f[Len(qs)]

LEMMA Flattening ==
    ASSUME NEW V, NEW qs \in Seq(Seq(V))
    PROVE  \E f : Flattens(f, V, qs)
  <1> DEFINE N == Len(qs)
             step == [p \in (1..N) \X Seq(V) |-> p[2] \o qs[p[1]]]
  <1>1. N \in Nat /\ \A n \in 1..N : qs[n] \in Seq(V)
    OBVIOUS
  <1>2. step \in Steps(N, Seq(V))
    BY <1>1 DEF Steps
  <1>3. \A n \in 1..N : \A q \in Seq(V) : step[<<n, q>>] = q \o qs[n]
    OBVIOUS
  <1>4. <<>> \in Seq(V)
    OBVIOUS
  <1> HIDE DEF step, N
  <1>5. PICK f : Solution(f, N, Seq(V), <<>>, step)
    BY <1>1, <1>2, <1>4, Recursion
  <1>6. /\ f \in [0..N -> Seq(V)] /\ f[0] = <<>>
        /\ \A n \in 1..N : f[n] = step[<<n, f[n - 1]>>]
    BY <1>5 DEF Solution
  <1>7. ASSUME NEW n \in 1..N PROVE n - 1 \in 0..N /\ f[n - 1] \in Seq(V) /\ f[n] = f[n - 1] \o qs[n]
    <2>1. n - 1 \in 0..N
      BY <1>1
    <2>2. f[n - 1] \in Seq(V)
      BY <1>6, <2>1
    <2> QED
      BY <1>3, <1>6, <2>1, <2>2
  <1>8. ASSUME 1 \in 1..N PROVE f[1] = qs[1]
    <2>1. f[1] = f[1 - 1] \o qs[1] /\ qs[1] \in Seq(V)
      BY <1>1, <1>7, <1>8
    <2>2. 1 - 1 = 0
      OBVIOUS
    <2>3. f[1] = <<>> \o qs[1]
      BY <1>6, <2>1, <2>2
    <2> QED
      BY <2>1, <2>3
  <1>9. FlattenSeq(qs) = f[N]
    <2>1. CASE N = 0
      <3>1. qs = <<>> /\ Len(qs) = 0
        BY <2>1 DEF N
      <3> QED
        BY <1>6, <2>1, <3>1 DEF FlattenSeq
    <2>2. CASE N # 0
      <3> DEFINE Def(g) == [i \in 1..N |-> IF i = 1 THEN qs[i] ELSE g[i - 1] \o qs[i]]
                 g == [i \in 1..N |-> f[i]]
                 h == CHOOSE e : e = Def(e)
      <3>1. ASSUME NEW i \in 1..N PROVE g[i] = IF i = 1 THEN qs[i] ELSE g[i - 1] \o qs[i]
        <4>1. CASE i = 1
          BY <1>8, <4>1
        <4>2. CASE i # 1
          <5>1. i - 1 \in 1..N /\ g[i - 1] = f[i - 1] /\ g[i] = f[i]
            BY <1>1, <4>2
          <5> QED
            BY <1>7, <4>2, <5>1
        <4> QED
          BY <4>1, <4>2
      <3>2. g = Def(g)
        BY <3>1
      <3>3. h = Def(h)
        BY <3>2
      <3> DEFINE S == {n \in 0..N : n >= 1 => h[n] = f[n]}
      <3> HIDE DEF g
      <3>4. ASSUME NEW n \in 1..N, n - 1 \in S PROVE n \in S
        <4>1. h[n] = IF n = 1 THEN qs[n] ELSE h[n - 1] \o qs[n]
          BY <3>3
        <4> HIDE DEF h
        <4>2. CASE n = 1
          BY <1>1, <1>8, <4>1, <4>2
        <4>3. CASE n # 1
          <5>1. n - 1 >= 1 /\ h[n - 1] = f[n - 1]
            BY <1>1, <3>4, <4>3
          <5>2. h[n] = f[n]
            BY <1>7, <4>1, <4>3, <5>1
          <5> QED
            BY <1>1, <5>2
        <4> QED
          BY <4>2, <4>3
      <3>5. 0 \in S
        BY <1>1
      <3> HIDE DEF S, h
      <3>6. N \in Nat /\ \A n \in 1..N : n - 1 \in S => n \in S
        BY <1>1, <3>4
      <3>7. \A n \in 0..N : n \in S
        BY <3>5, <3>6, UpToInduction
      <3>8. N \in 0..N /\ N >= 1
        BY <1>1, <2>2
      <3>9. h[N] = f[N]
        BY <3>7, <3>8 DEF S
      <3> QED
        BY <2>2, <3>9 DEF FlattenSeq, h, N
    <2> QED
      BY <2>1, <2>2
  <1> QED
    BY <1>6, <1>7, <1>9 DEF N, Flattens

-----------------------------------------------------------------------------
(* Folds over finite sets.                                                 *)

\* What holds of a set when it holds of it without any one of its elements holds of
\* every subset of a finite set: the least one outside would have none.
LEMMA SubsetInduction ==
    ASSUME NEW S, IsFiniteSet(S), NEW D,
           \A T \in SUBSET S : (\A x \in T : T \ {x} \in D) => T \in D
    PROVE  \A T \in SUBSET S : T \in D
<1> DEFINE B == {T \in SUBSET S : T \notin D}
<1> SUFFICES ASSUME B # {} PROVE FALSE
    OBVIOUS
<1>1. IsWellFoundedOn(StrictSubsetOrdering(S), SUBSET S)
    <2>1. FiniteSubsetsOf(S) = SUBSET S
        BY FS_FiniteSubsetsOfFinite
    <2>2. IsWellFoundedOn(StrictSubsetOrdering(S), FiniteSubsetsOf(S))
        BY FS_StrictSubsetOrderingWellFounded
    <2> QED BY <2>1, <2>2
<1>2. B \subseteq SUBSET S
    OBVIOUS
<1> HIDE DEF B
<1>3. PICK T \in B : \A U \in B : ~(<<U, T>> \in StrictSubsetOrdering(S))
    BY <1>1, <1>2, WFMin
<1>4. T \in SUBSET S /\ T \notin D
    BY <1>3 DEF B
<1>5. PICK x \in T : T \ {x} \notin D
    BY <1>4
<1>6. T \ {x} \in SUBSET S /\ T \ {x} \in B
    BY <1>4, <1>5 DEF B
<1>7. <<T \ {x}, T>> \in StrictSubsetOrdering(S)
    BY <1>4, <1>5, <1>6 DEF StrictSubsetOrdering
<1> QED BY <1>3, <1>6, <1>7

Chosen(T) == CHOOSE x \in T : TRUE

\* h folds the step over the subsets of S, taking the elements as CHOOSE does.
Follows(h, S, V, base, step) ==
    /\ h \in [SUBSET S -> V] /\ h[{}] = base
    /\ \A T \in SUBSET S : T # {} => h[T] = step[<<Chosen(T), h[T \ {Chosen(T)}]>>]

\* The same in any order.
Folding(h, S, V, base, step) ==
    /\ h \in [SUBSET S -> V] /\ h[{}] = base
    /\ \A T \in SUBSET S : \A x \in T : h[T] = step[<<x, h[T \ {x}]>>]

Folder(step, S, V) == step \in [S \X V -> V]

Commutes(step, S, V) ==
    \A x, y \in S : \A v \in V : step[<<x, step[<<y, v>>]>>] = step[<<y, step[<<x, v>>]>>]

\* An element that is chosen is one of the set.
LEMMA ChosenIn == ASSUME NEW T, T # {} PROVE Chosen(T) \in T
BY DEF Chosen

\* A step can be folded over every finite set.
LEMMA FoldExists ==
    ASSUME NEW S, IsFiniteSet(S), NEW V, NEW base \in V, NEW step, Folder(step, S, V)
    PROVE  \E h : Follows(h, S, V, base, step)
<1> DEFINE N == Cardinality(S)
           W == [SUBSET S -> V]
           Once(h) == [T \in SUBSET S |-> IF T = {} THEN base ELSE step[<<Chosen(T), h[T \ {Chosen(T)}]>>]]
           next == [p \in (1..N) \X W |-> Once(p[2])]
           start == [T \in SUBSET S |-> base]
<1>1. N \in Nat
    BY FS_CardinalityType
<1>2. ASSUME NEW h \in W PROVE Once(h) \in W
    <2>1. ASSUME NEW T \in SUBSET S, T # {}
          PROVE  step[<<Chosen(T), h[T \ {Chosen(T)}]>>] \in V
        <3>1. Chosen(T) \in S /\ T \ {Chosen(T)} \in SUBSET S
            BY <2>1, ChosenIn
        <3>2. h[T \ {Chosen(T)}] \in V
            BY <3>1
        <3> QED BY <3>1, <3>2 DEF Folder
    <2> QED BY <2>1
<1>3. start \in W
    OBVIOUS
<1>4. next \in Steps(N, W)
    BY <1>2 DEF Steps
<1>5. \A n \in 1..N : \A h \in W : next[<<n, h>>] = Once(h)
    OBVIOUS
<1> HIDE DEF next, start
<1>6. PICK H : Solution(H, N, W, start, next)
    <2> HIDE DEF N, W
    <2> QED BY <1>1, <1>3, <1>4, Recursion
<1>7. /\ H \in [0..N -> W] /\ H[0] = start
      /\ \A n \in 1..N : H[n] = next[<<n, H[n - 1]>>]
    BY <1>6 DEF Solution
<1>8. ASSUME NEW n \in 1..N PROVE n - 1 \in 0..N /\ n \in 0..N /\ H[n] = Once(H[n - 1])
    <2>1. n - 1 \in 0..N /\ n \in 0..N
        BY <1>1
    <2>2. H[n - 1] \in W
        BY <1>7, <2>1
    <2> QED BY <1>5, <1>7, <2>1, <2>2
<1>9. \A n \in 0..N : H[n][{}] = base
    <2> TAKE n \in 0..N
    <2>1. CASE n = 0
        BY <1>7, <2>1 DEF start
    <2>2. CASE n # 0
        <3>1. n \in 1..N
            BY <1>1, <2>2
        <3> QED BY <1>8, <3>1
    <2> QED BY <2>1, <2>2
<1>10. ASSUME NEW n \in 1..N, NEW T \in SUBSET S, T # {}
       PROVE  H[n][T] = step[<<Chosen(T), H[n - 1][T \ {Chosen(T)}]>>]
    <2>1. H[n][T] = Once(H[n - 1])[T]
        BY <1>8
    <2> QED BY <1>10, <2>1, Zenon
<1> HIDE DEF W, Once
<1>11. \A T \in SUBSET S : Cardinality(T) \in 0..N
    BY <1>1, FS_Subset, FS_CardinalityType
<1>12. \A T \in SUBSET S : T # {} => Cardinality(T) >= 1 /\ Cardinality(T \ {Chosen(T)}) = Cardinality(T) - 1
                                     /\ T \ {Chosen(T)} \in SUBSET S
    <2> TAKE T \in SUBSET S
    <2> HAVE T # {}
    <2>1. IsFiniteSet(T) /\ Chosen(T) \in T /\ T \ {Chosen(T)} \in SUBSET S
        BY FS_Subset, ChosenIn
    <2>2. Cardinality(T \ {Chosen(T)}) = Cardinality(T) - 1
        BY <2>1, FS_RemoveElement
    <2>3. Cardinality(T) \in Nat /\ Cardinality(T) # 0
        BY <1>11, <2>1, FS_EmptySet
    <2> QED BY <2>1, <2>2, <2>3
<1> HIDE DEF N
<1> DEFINE Settled(T) == \A n \in 0..N : n >= Cardinality(T) => H[n][T] = H[N][T]
           D == {T \in SUBSET S : Settled(T)}
<1>13. ASSUME NEW T \in SUBSET S, \A x \in T : T \ {x} \in D PROVE T \in D
    <2>1. CASE T = {}
        <3>1. N \in 0..N
            BY <1>1
        <3> QED BY <1>9, <2>1, <3>1
    <2>2. CASE T # {}
        <3> DEFINE U == T \ {Chosen(T)}
        <3>1. U \in D
            BY <1>13, <2>2, ChosenIn
        <3>2. Cardinality(T) >= 1 /\ Cardinality(U) = Cardinality(T) - 1 /\ Cardinality(T) \in 0..N
            BY <1>11, <1>12, <2>2
        <3>3. ASSUME NEW n \in 0..N, n >= Cardinality(T) PROVE H[n][T] = step[<<Chosen(T), H[N][U]>>]
            <4>1. n \in 1..N /\ n - 1 \in 0..N /\ n - 1 >= Cardinality(U)
                BY <1>1, <3>2, <3>3
            <4>2. H[n - 1][U] = H[N][U]
                BY <3>1, <4>1
            <4> QED BY <1>10, <2>2, <4>1, <4>2
        <3>4. N \in 0..N /\ N >= Cardinality(T)
            BY <1>1, <3>2
        <3> QED BY <3>3, <3>4
    <2> QED BY <2>1, <2>2
<1> HIDE DEF D
<1>14. \A T \in SUBSET S : T \in D
    BY <1>13, SubsetInduction
<1>15. ASSUME NEW T \in SUBSET S, T # {}
       PROVE  H[N][T] = step[<<Chosen(T), H[N][T \ {Chosen(T)}]>>]
    <2> DEFINE U == T \ {Chosen(T)}
    <2>1. Cardinality(T) >= 1 /\ Cardinality(U) = Cardinality(T) - 1 /\ Cardinality(T) \in 0..N /\ U \in SUBSET S
        BY <1>11, <1>12, <1>15
    <2>2. N \in 1..N /\ N - 1 \in 0..N /\ N - 1 >= Cardinality(U)
        BY <1>1, <2>1
    <2>3. H[N - 1][U] = H[N][U]
        BY <1>14, <2>1, <2>2 DEF D
    <2> QED BY <1>10, <1>15, <2>2, <2>3
<1>16. H[N] \in W /\ H[N][{}] = base
    BY <1>1, <1>7, <1>9
<1> QED BY <1>15, <1>16 DEF Follows, W

\* What satisfies the equation of a fold wherever the equation makes sense follows it.
LEMMA Iterates ==
    ASSUME NEW S, IsFiniteSet(S), NEW V, NEW base \in V, NEW step, Folder(step, S, V),
           NEW g, g = [T \in SUBSET S |-> g[T]], g[{}] = base,
           \A T \in SUBSET S : T # {} /\ g[T \ {Chosen(T)}] \in V =>
               g[T] = step[<<Chosen(T), g[T \ {Chosen(T)}]>>]
    PROVE  Follows(g, S, V, base, step)
<1> DEFINE D == {T \in SUBSET S : g[T] \in V}
<1>1. ASSUME NEW T \in SUBSET S, \A x \in T : T \ {x} \in D PROVE T \in D
    <2>1. CASE T = {}
        BY <2>1
    <2>2. CASE T # {}
        <3>1. Chosen(T) \in T /\ Chosen(T) \in S
            BY <2>2, ChosenIn
        <3>2. g[T \ {Chosen(T)}] \in V
            BY <1>1, <3>1
        <3>3. g[T] = step[<<Chosen(T), g[T \ {Chosen(T)}]>>]
            BY <2>2, <3>2
        <3>4. g[T] \in V
            BY <3>1, <3>2, <3>3 DEF Folder
        <3> QED BY <3>4
    <2> QED BY <2>1, <2>2
<1> HIDE DEF D
<1>2. \A T \in SUBSET S : T \in D
    BY <1>1, SubsetInduction
<1>3. \A T \in SUBSET S : g[T] \in V
    BY <1>2 DEF D
<1>4. g \in [SUBSET S -> V]
    BY <1>3
<1>5. ASSUME NEW T \in SUBSET S, T # {} PROVE g[T] = step[<<Chosen(T), g[T \ {Chosen(T)}]>>]
    <2>1. g[T \ {Chosen(T)}] \in V
        BY <1>3
    <2> QED BY <1>5, <2>1
<1> QED BY <1>4, <1>5 DEF Follows

\* A step that commutes can be folded in any order.
LEMMA FollowsFolds ==
    ASSUME NEW S, IsFiniteSet(S), NEW V, NEW base \in V, NEW step, Folder(step, S, V),
           Commutes(step, S, V), NEW h, Follows(h, S, V, base, step)
    PROVE  Folding(h, S, V, base, step)
<1>1. h \in [SUBSET S -> V] /\ h[{}] = base
    BY DEF Follows
<1> DEFINE Free(T) == \A x \in T : h[T] = step[<<x, h[T \ {x}]>>]
           D == {T \in SUBSET S : Free(T)}
<1>2. ASSUME NEW T \in SUBSET S, \A x \in T : T \ {x} \in D PROVE T \in D
    <2> SUFFICES ASSUME NEW x \in T PROVE h[T] = step[<<x, h[T \ {x}]>>]
        OBVIOUS
    <2> DEFINE c == Chosen(T)
    <2>1. c \in T /\ h[T] = step[<<c, h[T \ {c}]>>]
        BY ChosenIn DEF Follows
    <2> HIDE DEF c
    <2>2. CASE x = c
        BY <2>1, <2>2
    <2>3. CASE x # c
        <3> DEFINE U == T \ {x, c}
        <3>1. /\ T \ {c} \in D /\ T \ {x} \in D /\ x \in T \ {c} /\ c \in T \ {x}
              /\ (T \ {c}) \ {x} = U /\ (T \ {x}) \ {c} = U /\ U \in SUBSET S
            BY <1>2, <2>1, <2>3
        <3>5. Free(T \ {c}) /\ Free(T \ {x})
            BY <3>1
        <3> HIDE DEF U
        <3>2. h[T \ {c}] = step[<<x, h[U]>>] /\ h[T \ {x}] = step[<<c, h[U]>>]
            <4>1. h[T \ {c}] = step[<<x, h[(T \ {c}) \ {x}]>>]
                BY <3>1, <3>5
            <4>2. h[T \ {x}] = step[<<c, h[(T \ {x}) \ {c}]>>]
                BY <3>1, <3>5
            <4> QED BY <3>1, <4>1, <4>2, Zenon
        <3>3. h[U] \in V /\ x \in S /\ c \in S
            BY <1>1, <2>1, <3>1
        <3>4. step[<<c, step[<<x, h[U]>>]>>] = step[<<x, step[<<c, h[U]>>]>>]
            BY <3>3 DEF Commutes
        <3> QED BY <2>1, <3>2, <3>4
    <2> QED BY <2>2, <2>3
<1> HIDE DEF D
<1>3. \A T \in SUBSET S : T \in D
    BY <1>2, SubsetInduction
<1> QED BY <1>1, <1>3 DEF D, Folding

\* Two folds of a step agree where both are defined.
LEMMA FoldsAgree ==
    ASSUME NEW S, IsFiniteSet(S), NEW R \in SUBSET S, NEW V, NEW base, NEW step, NEW other,
           \A x \in R : \A v \in V : other[<<x, v>>] = step[<<x, v>>],
           NEW h, Folding(h, S, V, base, step), NEW g, Folding(g, R, V, base, other)
    PROVE  \A T \in SUBSET R : g[T] = h[T]
<1>1. IsFiniteSet(R)
    BY FS_Subset
<1> DEFINE D == {T \in SUBSET R : g[T] = h[T]}
<1>2. ASSUME NEW T \in SUBSET R, \A x \in T : T \ {x} \in D PROVE T \in D
    <2>1. CASE T = {}
        BY <2>1 DEF Folding
    <2>2. CASE T # {}
        <3>1. PICK x \in T : TRUE
            BY <2>2
        <3>2. g[T \ {x}] = h[T \ {x}] /\ T \in SUBSET S /\ T \ {x} \in SUBSET S /\ x \in R
            BY <1>2, <3>1
        <3>3. g[T] = other[<<x, g[T \ {x}]>>] /\ h[T] = step[<<x, h[T \ {x}]>>] /\ h[T \ {x}] \in V
            BY <3>1, <3>2 DEF Folding
        <3> QED BY <3>2, <3>3
    <2> QED BY <2>1, <2>2
<1> HIDE DEF D
<1>3. \A T \in SUBSET R : T \in D
    BY <1>1, <1>2, SubsetInduction
<1> QED BY <1>3 DEF D

-----------------------------------------------------------------------------
(* Orders on finite sets.                                                  *)

\* R is a strict total order on S.
Orders(R, S) ==
    /\ \A x \in S : <<x, x>> \notin R
    /\ \A x, y, z \in S : <<x, y>> \in R /\ <<y, z>> \in R => <<x, z>> \in R
    /\ \A x, y \in S : x # y => <<x, y>> \in R \/ <<y, x>> \in R

\* A finite set has a first element.
LEMMA FirstExists ==
    ASSUME NEW S, IsFiniteSet(S), S # {}, NEW R, Orders(R, S)
    PROVE  \E x \in S : \A y \in S \ {x} : <<x, y>> \in R
<1> DEFINE First(T) == T # {} => \E x \in T : \A y \in T \ {x} : <<x, y>> \in R
           D == {T \in SUBSET S : First(T)}
<1>1. ASSUME NEW T \in SUBSET S, \A x \in T : T \ {x} \in D PROVE T \in D
    <2> SUFFICES ASSUME T # {} PROVE \E x \in T : \A y \in T \ {x} : <<x, y>> \in R
        OBVIOUS
    <2>1. PICK z \in T : TRUE
        OBVIOUS
    <2>2. First(T \ {z})
        BY <1>1, <2>1
    <2>3. CASE T \ {z} = {}
        BY <2>1, <2>3
    <2>4. CASE T \ {z} # {}
        <3>1. PICK x \in T \ {z} : \A y \in (T \ {z}) \ {x} : <<x, y>> \in R
            BY <2>2, <2>4
        <3>2. CASE <<x, z>> \in R
            BY <3>1, <3>2
        <3>3. CASE <<z, x>> \in R
            <4>1. ASSUME NEW y \in T \ {z} PROVE <<z, y>> \in R
                <5>1. y = x \/ <<x, y>> \in R
                    BY <3>1
                <5>2. x \in S /\ y \in S /\ z \in S
                    BY <2>1
                <5> QED BY <3>3, <5>1, <5>2 DEF Orders
            <4> QED BY <2>1, <4>1
        <3>4. <<x, z>> \in R \/ <<z, x>> \in R
            BY <2>1, <3>1 DEF Orders
        <3> QED BY <3>2, <3>3, <3>4
    <2> QED BY <2>3, <2>4
<1> HIDE DEF D
<1>2. \A T \in SUBSET S : T \in D
    BY <1>1, SubsetInduction
<1> QED BY <1>2 DEF D

Below(R, n, i) == {j \in 1..n : <<j, i>> \in R}

\* The r-th place in an order is the one that r - 1 others are below.
LEMMA Ranking ==
    ASSUME NEW n \in Nat, NEW R, Orders(R, 1..n)
    PROVE  /\ \A i, j \in 1..n : <<i, j>> \in R => Cardinality(Below(R, n, i)) < Cardinality(Below(R, n, j))
           /\ \A i \in 1..n : Cardinality(Below(R, n, i)) \in 0..n - 1
           /\ \A r \in 1..n : \E i \in 1..n : Cardinality(Below(R, n, i)) = r - 1
<1> DEFINE f == [i \in 1..n |-> Cardinality(Below(R, n, i)) + 1]
<1>1. IsFiniteSet(1..n) /\ Cardinality(1..n) = n
    BY FS_Interval
<1>2. \A i \in 1..n : IsFiniteSet(Below(R, n, i)) /\ Cardinality(Below(R, n, i)) \in Nat
    <2> TAKE i \in 1..n
    <2>1. Below(R, n, i) \in SUBSET (1..n)
        BY DEF Below
    <2> QED BY <1>1, <2>1, FS_Subset, FS_CardinalityType
<1>3. ASSUME NEW i \in 1..n, NEW j \in 1..n, <<i, j>> \in R
      PROVE  Cardinality(Below(R, n, i)) < Cardinality(Below(R, n, j))
    <2>1. Below(R, n, i) \in SUBSET Below(R, n, j)
        BY <1>3 DEF Below, Orders
    <2>2. i \in Below(R, n, j) /\ i \notin Below(R, n, i)
        BY <1>3 DEF Below, Orders
    <2>3. /\ Cardinality(Below(R, n, i)) <= Cardinality(Below(R, n, j))
          /\ Cardinality(Below(R, n, j)) = Cardinality(Below(R, n, i)) => Below(R, n, j) = Below(R, n, i)
        BY <1>2, <2>1, FS_Subset
    <2> QED BY <1>2, <2>2, <2>3
<1>4. ASSUME NEW i \in 1..n PROVE Cardinality(Below(R, n, i)) \in 0..n - 1
    <2>1. Below(R, n, i) \in SUBSET (1..n) /\ i \notin Below(R, n, i)
        BY DEF Below, Orders
    <2>2. /\ Cardinality(Below(R, n, i)) <= n
          /\ n = Cardinality(Below(R, n, i)) => 1..n = Below(R, n, i)
        BY <1>1, <2>1, FS_Subset
    <2> QED BY <1>2, <2>1, <2>2
<1>5. f \in [1..n -> 1..n]
    BY <1>4
<1>6. ASSUME NEW i \in 1..n, NEW j \in 1..n, f[i] = f[j] PROVE i = j
    <2>1. Cardinality(Below(R, n, i)) = Cardinality(Below(R, n, j))
        BY <1>2, <1>6
    <2>2. i # j => <<i, j>> \in R \/ <<j, i>> \in R
        BY DEF Orders
    <2> QED BY <1>2, <1>3, <2>1, <2>2
<1> HIDE DEF f
<1>7. f \in Injection(1..n, 1..n)
    BY <1>5, <1>6 DEF Injection, IsInjective
<1>8. f \in Surjection(1..n, 1..n)
    BY <1>1, <1>7, FS_Injection
<1>9. ASSUME NEW r \in 1..n PROVE \E i \in 1..n : Cardinality(Below(R, n, i)) = r - 1
    <2>1. PICK i \in 1..n : f[i] = r
        BY <1>8 DEF Surjection
    <2>2. Cardinality(Below(R, n, i)) + 1 = r
        BY <2>1 DEF f
    <2> QED BY <1>2, <2>2
<1> QED BY <1>3, <1>4, <1>9
=============================================================================
