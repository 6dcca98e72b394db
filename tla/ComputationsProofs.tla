------------------------- MODULE ComputationsProofs -------------------------
(***************************************************************************)
(* What the pure functions promise, for inputs of any length.              *)
(***************************************************************************)
EXTENDS Computations, Inductions, SequenceTheorems, TLAPS

\* An input is a sequence of the elements of its function.
Typed == input \in Seq(Inputs[fn])

\* And stays one.
LEMMA TypedAlways == Spec => []Typed
<1>1. Init => Typed
    BY DEF Init, Typed
<1>2. Typed /\ [Next]_<<fn, input>> => Typed'
    BY DEF Next, Extend, Typed
<1> QED BY <1>1, <1>2, PTL DEF Spec

-----------------------------------------------------------------------------
(* The process reward of one step.                                         *)

\* The steps before the i-th.
LEMMA Earlier ==
    ASSUME NEW V, NEW h \in Seq(V), NEW i \in 1..Len(h)
    PROVE  /\ Len(Before(h, i)) = i - 1 /\ DOMAIN Before(h, i) = 1..(i - 1)
           /\ Before(h, i) \in Seq(V)
           /\ \A j \in 1..(i - 1) : Before(h, i)[j] = h[j]
BY DEF Before

\* A step that repeats an error is redundant, no first read, and not paid as a recovery.
LEMMA Repeats ==
    ASSUME NEW V, NEW h \in Seq(V), NEW i \in 1..Len(h), RepeatsError(h, i)
    PROVE  /\ ~Thinks(h[i]) /\ IsRedundant(Before(h, i), h[i]) /\ ~FirstRead(h, i)
           /\ AfterError(h, i) \in {-4, 0}
           /\ \E j \in 1..(i - 1) : h[j].tool = h[i].tool
<1>1. PICK j \in 1..(i - 1) : /\ j >= i - 3 /\ h[j].error /\ Signature(h[j]) = Signature(h[i])
                              /\ \A k \in (j + 1)..(i - 1) : Thinks(h[k]) /\ ~h[k].error
    BY DEF RepeatsError
<1>2. h[j].tool = h[i].tool /\ ~Thinks(h[i]) /\ ~Thinks(h[j])
    BY <1>1 DEF RepeatsError, Signature, Thinks
<1>3. IsRedundant(Before(h, i), h[i])
    <2>1. /\ Len(Before(h, i)) = i - 1 /\ DOMAIN Before(h, i) = 1..(i - 1)
          /\ \A m \in 1..(i - 1) : Before(h, i)[m] = h[m]
        BY Earlier
    <2>2. j > (i - 1) - 3
        BY <1>1
    <2> QED BY <1>1, <1>2, <2>1, <2>2 DEF IsRedundant
<1>4. ~FirstRead(h, i)
    BY <1>2 DEF FirstRead
<1>5. AfterError(h, i) \in {-4, 0}
    <2>1. CASE j = i - 1
        BY <1>1, <2>1 DEF AfterError
    <2>2. CASE j # i - 1
        <3>1. i - 1 \in (j + 1)..(i - 1)
            BY <2>2
        <3> QED BY <1>1, <3>1 DEF AfterError
    <2> QED BY <2>1, <2>2
<1> QED BY <1>2, <1>3, <1>4, <1>5

\* A step that repeats an error costs at least what redundancy costs.
LEMMA RepeatCosts ==
    ASSUME NEW V, NEW h \in Seq(V), NEW i \in 1..Len(h), RepeatsError(h, i), ~Chained(h, i)
    PROVE  StepScore(h, i) \in Int /\ StepScore(h, i) <= -3
<1>1. /\ ~Thinks(h[i]) /\ IsRedundant(Before(h, i), h[i]) /\ ~FirstRead(h, i)
      /\ AfterError(h, i) \in {-4, 0}
    BY Repeats
<1>2. Escalation(h, i) \in {-10, -5, 0}
    BY DEF Escalation, Pay
<1> QED BY <1>1, <1>2 DEF StepScore, Pay

\* Handing over costs at least what a recovery is paid.
LEMMA HandoverCosts ==
    ASSUME NEW V, NEW h \in Seq(V), NEW i \in 1..Len(h), h[i].tool \in EscalationTools, ~Chained(h, i)
    PROVE  StepScore(h, i) <= 0
<1>1. ~Thinks(h[i]) /\ ~FirstRead(h, i) /\ Escalation(h, i) \in {-10, -5}
    BY DEF Thinks, FirstRead, Escalation, Pay, EscalationTools, ThinkTools, ReadTools
<1>2. AfterError(h, i) \in {-4, 0, 5}
    BY DEF AfterError
<1> QED BY <1>1, <1>2 DEF StepScore, Pay

\* No step is paid more than 14 hundredths.
LEMMA StepBound ==
    ASSUME NEW h, NEW i
    PROVE  StepScore(h, i) \in Int /\ StepScore(h, i) <= 14
<1>1. AfterError(h, i) \in {-4, 0, 5}
    BY DEF AfterError
<1>2. Escalation(h, i) \in {-10, -5, 0}
    BY DEF Escalation, Pay
<1> QED BY <1>1, <1>2 DEF StepScore, Pay

\* Cutting off the last step changes the score of no other, if the last one is redundant:
\* a thought before it was not paid.
LEMMA SameScores ==
    ASSUME NEW V, NEW h \in Seq(V), NEW n \in 1..Len(h), n = Len(h),
           IsRedundant(Before(h, n), h[n]), NEW i \in 1..(n - 1)
    PROVE  StepScore(Before(h, n), i) = StepScore(h, i)
<1> DEFINE b == Before(h, n)
<1>1. /\ Len(b) = n - 1 /\ DOMAIN b = 1..(n - 1) /\ b \in Seq(V)
      /\ \A j \in 1..(n - 1) : b[j] = h[j]
    BY Earlier
<1>2. b[i] = h[i] /\ (i # 1 => b[i - 1] = h[i - 1]) /\ \A j \in 1..(i - 1) : b[j] = h[j]
    BY <1>1
<1>3. \A m \in 1..(n - 1) : Before(b, m) = Before(h, m)
    BY DEF Before
<1> HIDE DEF b
<1>4. IsRedundant(Before(b, i), b[i]) = IsRedundant(Before(h, i), h[i])
    BY <1>2, <1>3
<1>5. AfterError(b, i) = AfterError(h, i)
    BY <1>2 DEF AfterError
<1>6. Escalation(b, i) = Escalation(h, i)
    BY <1>2 DEF Escalation, Pay
<1>7. Chained(b, i) = Chained(h, i)
    <2>1. {b[j].found : j \in 1..(i - 1)} = {h[j].found : j \in 1..(i - 1)}
        BY <1>2
    <2> QED BY <1>2, <2>1 DEF Chained
<1>8. FirstRead(b, i) = FirstRead(h, i)
    BY <1>2 DEF FirstRead
<1>9. Pay(GuidesAction(b, i), 1) = Pay(GuidesAction(h, i), 1)
    <2>1. CASE i = n - 1
        <3>1. ~GuidesAction(b, i)
            BY <1>1, <2>1 DEF GuidesAction
        <3>2. i + 1 = n
            BY <2>1
        <3>3. ~GuidesAction(h, i)
            BY <3>2 DEF GuidesAction
        <3> QED BY <3>1, <3>3 DEF Pay
    <2>2. CASE i # n - 1
        <3>1. i + 1 \in 1..(n - 1) /\ i < n - 1 /\ i < Len(h)
            BY <2>2
        <3>2. b[i + 1] = h[i + 1] /\ Before(b, i + 1) = Before(h, i + 1) /\ i < Len(b)
            BY <1>1, <1>3, <3>1
        <3> QED BY <1>2, <3>1, <3>2 DEF GuidesAction, Pay
    <2> QED BY <2>1, <2>2
<1> QED BY <1>2, <1>4, <1>5, <1>6, <1>7, <1>8, <1>9 DEF StepScore, b
-----------------------------------------------------------------------------
(* The process reward of a history: the sum of its steps.                  *)

\* The partial sums of the scores of a history's steps.
Sums(s, h) ==
    /\ s \in [0..Len(h) -> Int] /\ s[0] = 0
    /\ \A n \in 1..Len(h) : s[n] = s[n - 1] + StepScore(h, n)
    /\ StepScores(h) = s[Len(h)]

\* They exist, and end in what StepScores computes.
LEMMA Summing ==
    ASSUME NEW V, NEW h \in Seq(V)
    PROVE  \E s : Sums(s, h)
<1> DEFINE N == Len(h)
           step == [p \in (1..N) \X Int |-> p[2] + StepScore(h, p[1])]
<1>1. N \in Nat /\ \A n \in 1..N : StepScore(h, n) \in Int
    BY StepBound
<1>2. step \in Steps(N, Int)
    BY <1>1 DEF Steps
<1>3. \A n \in 1..N : \A x \in Int : step[<<n, x>>] = x + StepScore(h, n)
    OBVIOUS
<1>4. 0 \in Int
    OBVIOUS
<1> HIDE DEF step, N
<1>5. PICK s : Solution(s, N, Int, 0, step)
    BY <1>1, <1>2, <1>4, Recursion
<1>6. /\ s \in [0..N -> Int] /\ s[0] = 0
      /\ \A n \in 1..N : s[n] = step[<<n, s[n - 1]>>]
    BY <1>5 DEF Solution
<1>7. ASSUME NEW n \in 1..N
      PROVE  s[n] = s[n - 1] + StepScore(h, n)
    <2>1. n - 1 \in 0..N
        BY <1>1
    <2>2. s[n - 1] \in Int
        BY <1>6, <2>1
    <2> QED BY <1>3, <1>6, <2>2
<1>8. StepScores(h) = s[N]
    <2> DEFINE Def(g) == [i \in 0..N |-> IF i = 0 THEN 0 ELSE g[i - 1] + StepScore(h, i)]
               c == CHOOSE g : g = Def(g)
    <2>1. s = Def(s)
        <3>1. s = [n \in 0..N |-> s[n]]
            BY <1>6
        <3>2. ASSUME NEW n \in 0..N
              PROVE  s[n] = IF n = 0 THEN 0 ELSE s[n - 1] + StepScore(h, n)
            <4>1. n = 0 \/ n \in 1..N
                BY <1>1
            <4> QED BY <1>6, <1>7, <4>1
        <3> QED BY <3>1, <3>2
    <2>2. c = Def(c)
        BY <2>1
    <2> DEFINE S == {n \in 0..N : c[n] = s[n]}
    <2>3. ASSUME NEW n \in 1..N, n - 1 \in S PROVE n \in S
        <3>1. n \in 0..N /\ n # 0 /\ c[n - 1] = s[n - 1]
            BY <1>1, <2>3
        <3>2. c[n] = c[n - 1] + StepScore(h, n)
            BY <2>2, <3>1
        <3> HIDE DEF c
        <3> QED BY <1>7, <3>1, <3>2
    <2>4. 0 \in S
        <3>1. 0 \in 0..N
            BY <1>1
        <3>2. c[0] = 0
            BY <2>2, <3>1
        <3> HIDE DEF c
        <3> QED BY <1>6, <3>1, <3>2
    <2> HIDE DEF S, c
    <2>5. \A n \in 0..N : n \in S
        BY <1>1, <2>3, <2>4, UpToInduction
    <2>6. c[N] = s[N]
        BY <1>1, <2>5 DEF S
    <2> QED BY <2>6 DEF StepScores, c, N
<1> QED BY <1>6, <1>7, <1>8 DEF Sums, N

\* Cutting off a redundant last step takes its score from the sum and no other.
LEMMA SumBefore ==
    ASSUME NEW V, NEW h \in Seq(V), NEW n \in 1..Len(h), n = Len(h), IsRedundant(Before(h, n), h[n])
    PROVE  /\ StepScores(Before(h, n)) \in Int /\ StepScores(Before(h, n)) <= 14 * (n - 1)
           /\ StepScores(h) = StepScores(Before(h, n)) + StepScore(h, n)
<1> DEFINE b == Before(h, n)
<1>1. Len(b) = n - 1 /\ b \in Seq(V)
    BY Earlier
<1>2. n \in Nat /\ n - 1 \in Nat
    OBVIOUS
<1>3. \A i \in 1..(n - 1) : StepScore(b, i) = StepScore(h, i)
    BY SameScores
<1> HIDE DEF b
<1>4. PICK s : Sums(s, h)
    BY Summing
<1>5. PICK r : Sums(r, b)
    BY <1>1, Summing
<1>6. /\ s \in [0..n -> Int] /\ s[0] = 0 /\ StepScores(h) = s[n]
      /\ \A i \in 1..n : s[i] = s[i - 1] + StepScore(h, i)
    BY <1>4 DEF Sums
<1>7. /\ r \in [0..(n - 1) -> Int] /\ r[0] = 0 /\ StepScores(b) = r[n - 1]
      /\ \A i \in 1..(n - 1) : r[i] = r[i - 1] + StepScore(b, i)
    BY <1>1, <1>5 DEF Sums
<1> DEFINE S == {i \in 0..(n - 1) : r[i] = s[i] /\ r[i] <= 14 * i}
<1>8. ASSUME NEW i \in 1..(n - 1), i - 1 \in S PROVE i \in S
    <2>1. i \in 0..(n - 1) /\ i \in 1..n /\ i - 1 \in 0..(n - 1) /\ r[i - 1] \in Int
        BY <1>2, <1>7
    <2>2. r[i] = s[i] /\ r[i] = r[i - 1] + StepScore(b, i)
        BY <1>3, <1>6, <1>7, <1>8, <2>1
    <2>3. StepScore(b, i) \in Int /\ StepScore(b, i) <= 14 /\ r[i - 1] <= 14 * (i - 1)
        BY <1>8, StepBound
    <2>4. r[i] <= 14 * i
        <3> DEFINE x == r[i - 1]
                   y == StepScore(b, i)
        <3>1. x \in Int /\ y \in Int /\ x <= 14 * (i - 1) /\ y <= 14 /\ i \in Int
            BY <2>1, <2>3
        <3> HIDE DEF x, y
        <3>2. x + y <= 14 * i
            BY <3>1
        <3> QED BY <2>2, <3>2 DEF x, y
    <2> QED BY <2>1, <2>2, <2>4
<1>9. 0 \in S
    BY <1>2, <1>6, <1>7
<1> HIDE DEF S
<1>10. \A i \in 0..(n - 1) : i \in S
    BY <1>2, <1>8, <1>9, UpToInduction
<1>11. n - 1 \in 0..(n - 1) /\ n \in 1..n
    BY <1>2
<1>12. r[n - 1] = s[n - 1] /\ r[n - 1] <= 14 * (n - 1) /\ r[n - 1] \in Int
    BY <1>7, <1>10, <1>11 DEF S
<1>13. s[n] = s[n - 1] + StepScore(h, n)
    BY <1>6, <1>11
<1> QED BY <1>6, <1>7, <1>12, <1>13 DEF b

\* A trajectory is paid at most one hundredth as a whole, and no more for one step
\* that is not a thought and uses a tool used before.
LEMMA TrajectoryBefore ==
    ASSUME NEW V, NEW h \in Seq(V), NEW n \in 1..Len(h), n = Len(h), n > 1, ~Thinks(h[n]),
           \E j \in 1..(n - 1) : h[j].tool = h[n].tool
    PROVE  /\ TrajectoryScore(h) \in Int /\ TrajectoryScore(Before(h, n)) \in Int
           /\ TrajectoryScore(h) <= TrajectoryScore(Before(h, n))
           /\ TrajectoryScore(Before(h, n)) <= 1
<1> DEFINE b == Before(h, n)
<1>1. /\ Len(b) = n - 1 /\ DOMAIN b = 1..(n - 1)
      /\ \A j \in 1..(n - 1) : b[j] = h[j]
    BY Earlier
<1>2. DOMAIN h = 1..n /\ n \in Nat
    OBVIOUS
<1> HIDE DEF b
<1>3. {b[i].tool : i \in DOMAIN b} = {h[i].tool : i \in DOMAIN h}
    <2>1. ASSUME NEW i \in 1..n PROVE \E j \in 1..(n - 1) : b[j].tool = h[i].tool
        <3>1. CASE i = n
            BY <1>1, <3>1
        <3>2. CASE i # n
            <4>1. i \in 1..(n - 1)
                BY <1>2, <3>2
            <4> QED BY <1>1, <4>1
        <3> QED BY <3>1, <3>2
    <2>2. ASSUME NEW i \in 1..(n - 1) PROVE i \in 1..n /\ b[i].tool = h[i].tool
        BY <1>1, <1>2
    <2> DEFINE A == {b[i].tool : i \in DOMAIN b}
               B == {h[i].tool : i \in DOMAIN h}
    <2>3. \A t \in A : t \in B
        BY <1>1, <1>2, <2>2
    <2>4. \A t \in B : t \in A
        <3>1. ASSUME NEW i \in 1..n PROVE h[i].tool \in A
            <4>1. PICK j \in 1..(n - 1) : b[j].tool = h[i].tool
                BY <2>1
            <4> QED BY <1>1, <4>1
        <3> QED BY <1>2, <3>1
    <2> QED BY <2>3, <2>4
<1>4. (\A i \in DOMAIN h : ~Thinks(h[i])) <=> (\A i \in DOMAIN b : ~Thinks(b[i]))
    <2>1. \A i \in 1..n : i = n \/ i \in 1..(n - 1)
        BY <1>2
    <2>2. \A i \in 1..(n - 1) : i \in 1..n
        BY <1>2
    <2> QED BY <1>1, <1>2, <2>1, <2>2
<1> DEFINE P == \A i \in DOMAIN h : ~Thinks(h[i])
           C == Cardinality({h[i].tool : i \in DOMAIN h} \cap ReadTools) >= 3
<1>5. TrajectoryScore(h) = Pay(n >= 3 /\ P, -5) + Pay(C, 1) - (IF n > 8 THEN n - 8 ELSE 0)
    BY DEF TrajectoryScore
<1>6. TrajectoryScore(b) = Pay(n - 1 >= 3 /\ P, -5) + Pay(C, 1)
                           - (IF n - 1 > 8 THEN (n - 1) - 8 ELSE 0)
    <2>1. (\A i \in DOMAIN b : ~Thinks(b[i])) <=> P
        BY <1>4
    <2>2. (Cardinality({b[i].tool : i \in DOMAIN b} \cap ReadTools) >= 3) <=> C
        BY <1>3
    <2> HIDE DEF P, C
    <2> QED BY <1>1, <2>1, <2>2 DEF TrajectoryScore, Pay
<1> HIDE DEF P, C
<1> DEFINE x == Pay(n >= 3 /\ P, -5)
           y == Pay(n - 1 >= 3 /\ P, -5)
           z == Pay(C, 1)
<1>7. x \in {-5, 0} /\ y \in {-5, 0} /\ z \in {0, 1} /\ x <= y
    BY <1>2 DEF Pay
<1> HIDE DEF x, y, z
<1>8. /\ TrajectoryScore(h) \in Int /\ TrajectoryScore(b) \in Int
      /\ TrajectoryScore(h) <= TrajectoryScore(b) /\ TrajectoryScore(b) <= 1
    <2>1. TrajectoryScore(h) = x + z - (IF n > 8 THEN n - 8 ELSE 0)
        BY <1>5 DEF x, z
    <2>2. TrajectoryScore(b) = y + z - (IF n - 1 > 8 THEN (n - 1) - 8 ELSE 0)
        BY <1>6 DEF y, z
    <2> DEFINE d == IF n > 8 THEN n - 8 ELSE 0
               e == IF n - 1 > 8 THEN (n - 1) - 8 ELSE 0
    <2>3. d \in Nat /\ e \in Nat /\ e <= d
        BY <1>2
    <2>4. x \in Int /\ y \in Int /\ z \in Int /\ y <= 0 /\ z <= 1
        BY <1>7
    <2>5. TrajectoryScore(h) = x + z - d /\ TrajectoryScore(b) = y + z - e
        BY <2>1, <2>2
    <2> HIDE DEF d, e
    <2> QED BY <1>7, <2>3, <2>4, <2>5
<1> QED BY <1>8 DEF b

\* The mean of m steps, not negative and far from its upper bound, is lowered by one
\* more that costs.
LEMMA MeanFalls ==
    ASSUME NEW m \in Nat, m >= 1, NEW T \in Int, NEW U \in Int, NEW S \in Int, NEW c \in Int,
           T <= 1, U <= T, S <= 14 * m, c <= -3, T * m + S >= 0
    PROVE  /\ T * m + S <= 50 * m
           /\ U * (m + 1) + (S + c) < 50 * (m + 1)
           /\ (U * (m + 1) + (S + c)) * m < (T * m + S) * (m + 1)
           /\ (-(50 * (m + 1))) * m < (T * m + S) * (m + 1)
<1>1. T * m <= m
    BY Z3
<1>2. U * (m + 1) <= T * (m + 1)
    BY Z3
<1> QED BY <1>1, <1>2, Z3

\* Ending on a repeated error lowers the score of any history not below zero.
LEMMA EndingOnError ==
    ASSUME NEW V, NEW h \in Seq(V), NEW n \in 1..Len(h), n = Len(h), n > 1,
           RepeatsError(h, n), ~Chained(h, n), ReasoningQuality(Before(h, n)).num >= 0
    PROVE  Worse(ReasoningQuality(h), ReasoningQuality(Before(h, n)))
<1> DEFINE b == Before(h, n)
           m == n - 1
           T == TrajectoryScore(b)
           U == TrajectoryScore(h)
           S == StepScores(b)
           c == StepScore(h, n)
<1>1. Len(b) = m /\ m \in Nat /\ m >= 1 /\ n = m + 1 /\ Len(h) = m + 1 /\ n \in Nat
    BY Earlier
<1>2. ~Thinks(h[n]) /\ IsRedundant(b, h[n]) /\ \E j \in 1..(n - 1) : h[j].tool = h[n].tool
    BY Repeats
<1>3. c \in Int /\ c <= -3
    BY RepeatCosts
<1>4. S \in Int /\ S <= 14 * m /\ StepScores(h) = S + c
    BY <1>2, SumBefore
<1>5. T \in Int /\ U \in Int /\ U <= T /\ T <= 1
    BY <1>2, TrajectoryBefore
<1>6. b # <<>> /\ h # <<>>
    BY <1>1
<1> DEFINE p == T * m + S
           q == U * (m + 1) + (S + c)
<1>7. ReasoningQuality(b) =
          [num |-> IF p > 50 * m THEN 50 * m ELSE IF p < -(50 * m) THEN -(50 * m) ELSE p, den |-> m]
    BY <1>1, <1>6 DEF ReasoningQuality
<1>8. ReasoningQuality(h) =
          [num |-> IF q > 50 * (m + 1) THEN 50 * (m + 1)
                   ELSE IF q < -(50 * (m + 1)) THEN -(50 * (m + 1)) ELSE q, den |-> m + 1]
    BY <1>1, <1>4, <1>6 DEF ReasoningQuality
<1>9. p \in Int /\ q \in Int
    <2> HIDE DEF m, T, U, S, c
    <2> QED BY <1>1, <1>3, <1>4, <1>5
<1>10. ReasoningQuality(b).num >= 0
    OBVIOUS
<1> HIDE DEF b, m, T, U, S, c
<1>11. p >= 0
    <2> HIDE DEF p
    <2> QED BY <1>1, <1>7, <1>9, <1>10
<1>12. /\ p <= 50 * m /\ q < 50 * (m + 1) /\ q * m < p * (m + 1)
       /\ (-(50 * (m + 1))) * m < p * (m + 1)
    BY <1>1, <1>3, <1>4, <1>5, <1>11, MeanFalls
<1> HIDE DEF p, q
<1>13. ReasoningQuality(b).num = p /\ ReasoningQuality(b).den = m
    BY <1>1, <1>7, <1>9, <1>11, <1>12
<1>14. /\ ReasoningQuality(h).num \in {q, -(50 * (m + 1))} /\ ReasoningQuality(h).den = m + 1
    BY <1>1, <1>8, <1>9, <1>12
<1>15. ReasoningQuality(h).num * m < p * (m + 1)
    BY <1>12, <1>14
<1>16. Worse(ReasoningQuality(h), ReasoningQuality(b))
    BY <1>13, <1>14, <1>15 DEF Worse
<1> QED BY <1>16 DEF b

\* No history, of any length and over any steps, makes repeating an error or giving up
\* worth its while in the process reward of tau_bench_interaction.py.
THEOREM GivingUpIsUnpaid == Spec => []NoPayForGivingUp
<1>1. Typed => NoPayForGivingUp
    <2> SUFFICES ASSUME Typed, fn = "prm_lite" PROVE GivingUpNeverPays(input)
        BY DEF NoPayForGivingUp
    <2>1. input \in Seq(Inputs[fn])
        BY DEF Typed
    <2> DEFINE h == input
               V == Inputs[fn]
    <2>2. ASSUME NEW i \in DOMAIN h, ~Chained(h, i)
          PROVE  /\ RepeatsError(h, i) => StepScore(h, i) < 0
                 /\ h[i].tool \in EscalationTools => StepScore(h, i) <= 0
        <3>1. h \in Seq(V) /\ i \in 1..Len(h)
            BY <2>1
        <3>2. RepeatsError(h, i) => StepScore(h, i) \in Int /\ StepScore(h, i) <= -3
            BY <2>2, <3>1, RepeatCosts
        <3>3. h[i].tool \in EscalationTools => StepScore(h, i) <= 0
            BY <2>2, <3>1, HandoverCosts
        <3> QED BY <3>2, <3>3
    <2>3. ASSUME Len(h) > 1, RepeatsError(h, Len(h)), ~Chained(h, Len(h)),
                 ReasoningQuality(Before(h, Len(h))).num >= 0
          PROVE  Worse(ReasoningQuality(h), ReasoningQuality(Before(h, Len(h))))
        <3>1. h \in Seq(V) /\ Len(h) \in 1..Len(h)
            BY <2>1, <2>3
        <3> QED BY <2>3, <3>1, EndingOnError
    <2> QED BY <2>2, <2>3 DEF GivingUpNeverPays
<1> QED BY <1>1, TypedAlways, PTL

-----------------------------------------------------------------------------
(* The labels of a conversation.  The renderings are one prefix of the     *)
(* other, turn by turn, since an answer is never inside a turn of tools.   *)

Token == Nat \X {"head", "text", "end"}

Message(m) == m.size \in Nat /\ m.newline \in BOOLEAN

\* Sequences that agree with the first ones of qs are flattened to what qs is at that place.
LEMMA FlattenPrefix ==
    ASSUME NEW V, NEW qs, NEW f, Flattens(f, V, qs), NEW n \in 0..Len(qs),
           NEW rs \in Seq(Seq(V)), Len(rs) = n, \A i \in 1..n : rs[i] = qs[i], Len(qs) \in Nat
    PROVE  FlattenSeq(rs) = f[n]
<1>1. PICK g : Flattens(g, V, rs)
    BY Flattening
<1>2. n \in Nat /\ \A i \in 1..n : i \in 1..Len(qs)
    OBVIOUS
<1>3. /\ g[0] = <<>> /\ FlattenSeq(rs) = g[n]
      /\ \A i \in 1..n : g[i] = g[i - 1] \o rs[i]
    BY <1>1 DEF Flattens
<1>4. /\ f[0] = <<>>
      /\ \A i \in 1..n : f[i] = f[i - 1] \o qs[i]
    BY <1>2 DEF Flattens
<1> DEFINE S == {i \in 0..n : g[i] = f[i]}
<1>5. ASSUME NEW i \in 1..n, i - 1 \in S PROVE i \in S
    <2>1. i \in 0..n /\ g[i - 1] = f[i - 1]
        BY <1>2, <1>5
    <2> QED BY <1>3, <1>4, <2>1
<1>6. 0 \in S
    BY <1>2, <1>3, <1>4
<1> HIDE DEF S
<1>7. \A i \in 0..n : i \in S
    BY <1>2, <1>5, <1>6, UpToInduction
<1> QED BY <1>2, <1>3, <1>7 DEF S

\* Copies repeats its token.
LEMMA Copied ==
    ASSUME NEW V, NEW t \in V, NEW n \in Nat
    PROVE  /\ Copies(t, n) \in Seq(V) /\ Len(Copies(t, n)) = n
           /\ \A k \in 1..n : Copies(t, n)[k] = t
BY DEF Copies

\* A turn is made of tokens of its message, and an assistant's has three of its header
\* first and then none.
TurnOf(q, m, i) ==
    /\ q \in Seq(Token)
    /\ \A j \in 1..Len(q) : q[j][1] = i
    /\ m.role = "assistant" => \A j \in 1..Len(q) : q[j][2] = "head" <=> j <= 3

\* Turn gives such sequences.
LEMMA TurnShape ==
    ASSUME NEW messages, NEW i \in Nat, Message(messages[i])
    PROVE  TurnOf(Turn(messages, i), messages[i], i)
<1> DEFINE m == messages[i]
           n == IF m.newline /\ m.size > 0 THEN m.size - 1 ELSE m.size
           a == IF Opens(messages, i) THEN Header(i) ELSE NoTokens
           b == Body(m, i)
           c == IF Closes(messages, i) THEN Closing(i) ELSE NoTokens
<1>1. n \in Nat
    BY DEF Message
<1>2. <<i, "text">> \in Token /\ <<i, "head">> \in Token /\ <<i, "end">> \in Token
    BY DEF Token
<1>3. b \in Seq(Token) /\ Len(b) = n /\ \A k \in 1..n : b[k] = <<i, "text">>
    <2>1. b = Copies(<<i, "text">>, n)
        BY DEF Body
    <2> HIDE DEF b, n
    <2> QED BY <1>1, <1>2, <2>1, Copied
<1>4. /\ Header(i) \in Seq(Token) /\ Len(Header(i)) = 3
      /\ \A k \in 1..3 : Header(i)[k] = <<i, "head">>
    BY <1>2, Copied DEF Header
<1>5. a \in Seq(Token) /\ Len(a) \in {0, 3} /\ \A k \in 1..Len(a) : a[k] = <<i, "head">>
    <2>1. CASE Opens(messages, i)
        BY <1>4, <2>1
    <2>2. CASE ~Opens(messages, i)
        BY <2>2 DEF NoTokens
    <2> QED BY <2>1, <2>2
<1>6. Turn(messages, i) = a \o b \o c
    BY DEF Turn
<1>7. c \in Seq(Token) /\ \A k \in 1..Len(c) : c[k] = <<i, "end">>
    BY <1>2 DEF Closing, NoTokens
<1>8. m.role = "assistant" => Len(a) = 3
    BY <1>4 DEF Opens
<1> HIDE DEF m, n, a, b, c
<1> DEFINE q == a \o b \o c
           l == Len(a)
           k == Len(a) + Len(b)
<1>9. l \in {0, 3} /\ k = l + n /\ k \in Nat /\ Len(c) \in Nat /\ l \in Nat
    BY <1>1, <1>3, <1>5, <1>7
<1>10. q \in Seq(Token) /\ Len(q) = k + Len(c)
    <2>1. a \o b \in Seq(Token) /\ Len(a \o b) = k
        BY <1>3, <1>5, ConcatProperties
    <2> QED BY <1>7, <2>1, ConcatProperties
<1>11. ASSUME NEW j \in 1..Len(q)
       PROVE  q[j] = IF j <= l THEN <<i, "head">> ELSE IF j <= k THEN <<i, "text">> ELSE <<i, "end">>
    <2>1. q[j] = IF j <= l THEN a[j] ELSE IF j <= k THEN b[j - l] ELSE c[j - k]
        BY <1>3, <1>5, <1>7, <1>10
    <2>2. CASE j <= l
        <3>1. a[j] = <<i, "head">>
            BY <1>5, <2>2
        <3> QED BY <2>1, <2>2, <3>1
    <2>3. CASE ~(j <= l) /\ j <= k
        <3> HIDE DEF q, l, k
        <3>1. j - l \in 1..n
            BY <1>1, <1>9, <2>3
        <3> QED BY <1>3, <2>1, <2>3, <3>1
    <2>4. CASE ~(j <= l) /\ ~(j <= k)
        <3> HIDE DEF q, l, k
        <3>1. j - k \in 1..Len(c)
            BY <1>9, <1>10, <2>4
        <3> QED BY <1>7, <2>1, <2>4, <3>1
    <2> QED BY <2>2, <2>3, <2>4
<1>12. m.role = "assistant" => l = 3
    BY <1>8
<1> HIDE DEF q, l, k
<1>13. ASSUME NEW j \in 1..Len(q) PROVE q[j][1] = i
    <2>1. q[j] \in {<<i, "head">>, <<i, "text">>, <<i, "end">>}
        BY <1>11
    <2> QED BY <2>1
<1>14. ASSUME m.role = "assistant", NEW j \in 1..Len(q) PROVE q[j][2] = "head" <=> j <= 3
    <2>1. CASE j <= 3
        BY <1>11, <1>12, <1>14, <2>1
    <2>2. CASE ~(j <= 3)
        <3>1. q[j] = <<i, "text">> \/ q[j] = <<i, "end">>
            BY <1>11, <1>12, <1>14, <2>2
        <3> QED BY <2>2, <3>1
    <2> QED BY <2>1, <2>2
<1> QED BY <1>6, <1>10, <1>13, <1>14 DEF TurnOf, q, m

\* What the template puts before the messages.
Preamble(messages) ==
    IF messages[1].role = "system" THEN NoTokens ELSE Header(0) \o Closing(0)

Turns(messages) == [i \in DOMAIN messages |-> Turn(messages, i)]

\* The default system prompt holds tokens of message 0 only.
LEMMA PreambleShape ==
    ASSUME NEW messages
    PROVE  Preamble(messages) \in Seq(Token) /\ \A j \in 1..Len(Preamble(messages)) : Preamble(messages)[j][1] = 0
<1>1. <<0, "head">> \in Token /\ <<0, "end">> \in Token
    BY DEF Token
<1>2. /\ Header(0) \in Seq(Token) /\ Len(Header(0)) = 3
      /\ \A k \in 1..3 : Header(0)[k] = <<0, "head">>
    BY <1>1, Copied DEF Header
<1>3. Closing(0) \in Seq(Token) /\ Len(Closing(0)) = 1 /\ Closing(0)[1] = <<0, "end">>
    BY <1>1 DEF Closing
<1> DEFINE p == Header(0)
           c == Closing(0)
           q == p \o c
<1>4. p \in Seq(Token) /\ c \in Seq(Token)
    BY <1>2, <1>3
<1>5. \A j \in 1..Len(p) : p[j][1] = 0
    <2>1. \A j \in 1..Len(p) : p[j] = <<0, "head">>
        BY <1>2
    <2> QED BY <2>1
<1>6. \A j \in 1..Len(c) : c[j][1] = 0
    BY <1>3
<1> HIDE DEF p, c
<1>7. /\ q \in Seq(Token) /\ Len(q) = Len(p) + Len(c)
      /\ \A j \in 1..(Len(p) + Len(c)) : q[j] = IF j <= Len(p) THEN p[j] ELSE c[j - Len(p)]
    BY <1>4, ConcatProperties
<1> HIDE DEF q
<1>8. ASSUME NEW j \in 1..Len(q) PROVE q[j][1] = 0
    <2>1. Len(p) \in Nat /\ Len(c) \in Nat
        BY <1>4
    <2>2. CASE j <= Len(p)
        BY <1>5, <1>7, <2>1, <2>2
    <2>3. CASE ~(j <= Len(p))
        <3>1. j - Len(p) \in 1..Len(c) /\ j \in 1..(Len(p) + Len(c))
            BY <1>7, <2>1, <2>3
        <3> QED BY <1>6, <1>7, <2>3, <3>1
    <2> QED BY <2>2, <2>3
<1>9. CASE messages[1].role = "system"
    BY <1>9 DEF Preamble, NoTokens
<1>10. CASE messages[1].role # "system"
    BY <1>7, <1>8, <1>10 DEF Preamble, p, c, q
<1> QED BY <1>9, <1>10

\* The turns of a conversation are sequences of tokens.
LEMMA TurnsType ==
    ASSUME NEW V, NEW messages \in Seq(V), \A i \in 1..Len(messages) : Message(messages[i])
    PROVE  /\ Turns(messages) \in Seq(Seq(Token)) /\ Len(Turns(messages)) = Len(messages)
           /\ \A i \in 1..Len(messages) : Turns(messages)[i] = Turn(messages, i)
<1>1. \A i \in 1..Len(messages) : Turn(messages, i) \in Seq(Token)
    BY TurnShape DEF TurnOf
<1> QED BY <1>1 DEF Turns

\* A prefix that does not cut the turn of consecutive tool messages has the turns of the
\* whole conversation.
LEMMA PrefixTurns ==
    ASSUME NEW V, NEW messages \in Seq(V), NEW n \in 1..Len(messages), Closes(messages, n)
    PROVE  LET sub == SubSeq(messages, 1, n)
           IN  /\ Len(sub) = n /\ sub \in Seq(V) /\ DOMAIN sub = 1..n
               /\ \A i \in 1..n : sub[i] = messages[i] /\ Turn(sub, i) = Turn(messages, i)
<1> DEFINE sub == SubSeq(messages, 1, n)
<1>1. Len(sub) = n /\ sub \in Seq(V) /\ DOMAIN sub = 1..n /\ \A i \in 1..n : sub[i] = messages[i]
    OBVIOUS
<1> HIDE DEF sub
<1>2. ASSUME NEW i \in 1..n PROVE Turn(sub, i) = Turn(messages, i)
    <2>1. sub[i] = messages[i] /\ (i # 1 => sub[i - 1] = messages[i - 1])
        BY <1>1
    <2>2. Opens(sub, i) <=> Opens(messages, i)
        BY <2>1 DEF Opens
    <2>3. Closes(sub, i) <=> Closes(messages, i)
        <3>1. CASE i = n
            BY <1>1, <2>1, <3>1 DEF Closes
        <3>2. CASE i # n
            <4>1. i + 1 \in 1..n /\ i # Len(messages) /\ i # Len(sub)
                BY <1>1, <3>2
            <4>2. sub[i + 1] = messages[i + 1]
                BY <1>1, <4>1
            <4> QED BY <2>1, <4>1, <4>2 DEF Closes
        <3> QED BY <3>1, <3>2
    <2> QED BY <2>1, <2>2, <2>3 DEF Turn
<1> QED BY <1>1, <1>2 DEF sub

\* Its rendering is the system prompt and the turns up to there, with the header of an
\* answer or without.
LEMMA PrefixRenders ==
    ASSUME NEW V, NEW messages \in Seq(V), \A i \in 1..Len(messages) : Message(messages[i]),
           NEW f, Flattens(f, Token, Turns(messages)),
           NEW n \in 1..Len(messages), Closes(messages, n), NEW g \in BOOLEAN
    PROVE  Render(SubSeq(messages, 1, n), g) =
               Preamble(messages) \o f[n] \o (IF g THEN Header(n + 1) ELSE NoTokens)
<1> DEFINE sub == SubSeq(messages, 1, n)
<1>1. /\ Len(sub) = n /\ sub \in Seq(V) /\ DOMAIN sub = 1..n
      /\ \A i \in 1..n : sub[i] = messages[i] /\ Turn(sub, i) = Turn(messages, i)
    BY PrefixTurns
<1>2. /\ Len(Turns(messages)) = Len(messages) /\ Turns(messages) \in Seq(Seq(Token))
      /\ \A i \in 1..Len(messages) : Turns(messages)[i] = Turn(messages, i)
    BY TurnsType
<1>3. 1 \in 1..n /\ n \in 0..Len(messages) /\ Len(messages) \in Nat /\ \A i \in 1..n : i \in 1..Len(messages)
    OBVIOUS
<1> HIDE DEF sub
<1>4. \A i \in 1..Len(sub) : Message(sub[i])
    BY <1>1, <1>3
<1>5. /\ Turns(sub) \in Seq(Seq(Token)) /\ Len(Turns(sub)) = n
      /\ \A i \in 1..n : Turns(sub)[i] = Turns(messages)[i]
    <2>1. /\ Turns(sub) \in Seq(Seq(Token)) /\ Len(Turns(sub)) = n
          /\ \A i \in 1..n : Turns(sub)[i] = Turn(sub, i)
        BY <1>1, <1>4, TurnsType
    <2>2. \A i \in 1..n : Turns(sub)[i] = Turns(messages)[i]
        BY <1>1, <1>2, <1>3, <2>1
    <2> QED BY <2>1, <2>2
<1>6. FlattenSeq(Turns(sub)) = f[n]
    <2>1. Len(Turns(messages)) \in Nat /\ n \in 0..Len(Turns(messages))
        BY <1>2, <1>3
    <2> QED BY <1>5, <2>1, FlattenPrefix, SMTT(30)
<1>7. Preamble(sub) = Preamble(messages)
    BY <1>1, <1>3 DEF Preamble
<1>8. Render(sub, g) = Preamble(sub) \o FlattenSeq(Turns(sub)) \o (IF g THEN Header(Len(sub) + 1) ELSE NoTokens)
    BY DEF Render, Preamble, Turns
<1> QED BY <1>1, <1>6, <1>7, <1>8 DEF sub

\* Where the n-th turn ends in a rendering, and the rendering up to there.
Upto(messages, f, n) == Preamble(messages) \o f[n]

\* The tokens of the assistant's answers up to the n-th message are those that lie in an
\* answer's span.
Spans(messages, f, n) ==
    LET P(i) == Len(Upto(messages, f, i))
        R == Upto(messages, f, n)
    IN  /\ \A a \in 0..n : P(a) <= P(n)
        /\ \A j \in 1..P(n) :
               (R[j][2] # "head" /\ R[j][1] \in AssistantIndices(messages)) <=>
               \E a \in 1..n : a \in AssistantIndices(messages) /\ P(a - 1) + 3 < j /\ j <= P(a)

\* One more turn adds no token of an answer, or exactly those of its span.
LEMMA SpansStep ==
    ASSUME NEW V, NEW messages \in Seq(V), NEW n \in 1..Len(messages),
           NEW r \in Seq(Token), NEW q, TurnOf(q, messages[n], n), NEW f,
           Upto(messages, f, n - 1) = r, Upto(messages, f, n) = r \o q,
           \A i \in 0..n : Len(Upto(messages, f, i)) \in Nat,
           Spans(messages, f, n - 1)
    PROVE  Spans(messages, f, n)
<1> DEFINE P(i) == Len(Upto(messages, f, i))
           R == r \o q
           AI == AssistantIndices(messages)
<1>1. /\ n \in Nat /\ n \in 1..n /\ n - 1 \in 0..n /\ n \in 0..n
      /\ \A a \in 0..n : a = n \/ a \in 0..n - 1
      /\ \A a \in 1..n : a = n \/ a \in 1..n - 1
      /\ \A a \in 1..n - 1 : a \in 1..n /\ a \in 0..n - 1 /\ a # n
      /\ \A a \in 0..n - 1 : a \in 0..n
    OBVIOUS
<1>2. /\ q \in Seq(Token) /\ \A j \in 1..Len(q) : q[j][1] = n
      /\ messages[n].role = "assistant" => \A j \in 1..Len(q) : q[j][2] = "head" <=> j <= 3
    BY DEF TurnOf
<1>3. P(n - 1) = Len(r) /\ P(n) = Len(r) + Len(q) /\ Len(r) \in Nat /\ Len(q) \in Nat
    BY <1>2, ConcatProperties
<1>4. \A j \in 1..(Len(r) + Len(q)) : R[j] = IF j <= Len(r) THEN r[j] ELSE q[j - Len(r)]
    BY <1>2, ConcatProperties
<1>5. /\ \A a \in 0..n - 1 : P(a) <= P(n - 1)
      /\ \A j \in 1..P(n - 1) :
             (r[j][2] # "head" /\ r[j][1] \in AI) <=>
             \E a \in 1..n - 1 : a \in AI /\ P(a - 1) + 3 < j /\ j <= P(a)
    BY DEF Spans
<1>6. \A a \in 0..n : P(a) \in Nat
    OBVIOUS
<1>7. n \in AI <=> messages[n].role = "assistant"
    BY DEF AssistantIndices
<1> HIDE DEF P, R, AI
<1>8. \A a \in 0..n : P(a) <= P(n)
    BY <1>1, <1>3, <1>5, <1>6
<1>9. ASSUME NEW j \in 1..P(n)
      PROVE  (R[j][2] # "head" /\ R[j][1] \in AI) <=>
             \E a \in 1..n : a \in AI /\ P(a - 1) + 3 < j /\ j <= P(a)
    <2>1. CASE j <= Len(r)
        <3>1. R[j] = r[j] /\ j \in 1..P(n - 1)
            BY <1>3, <1>4, <2>1
        <3>2. ~(P(n - 1) + 3 < j)
            BY <1>3, <2>1
        <3>3. (\E a \in 1..n : a \in AI /\ P(a - 1) + 3 < j /\ j <= P(a))
              <=> \E a \in 1..n - 1 : a \in AI /\ P(a - 1) + 3 < j /\ j <= P(a)
            BY <1>1, <3>2
        <3> QED BY <1>5, <3>1, <3>3
    <2>2. CASE ~(j <= Len(r))
        <3> DEFINE k == j - Len(r)
        <3>1. k \in 1..Len(q) /\ R[j] = q[k] /\ (k <= 3 <=> ~(P(n - 1) + 3 < j))
            <4>1. k \in 1..Len(q)
                BY <1>3, <2>2
            <4>2. k <= 3 <=> ~(P(n - 1) + 3 < j)
                BY <1>3, <2>2
            <4>3. R[j] = q[k]
                BY <1>3, <1>4, <2>2
            <4> QED BY <4>1, <4>2, <4>3
        <3> HIDE DEF k
        <3>2. R[j][1] = n
            BY <1>2, <3>1
        <3>3. ASSUME NEW a \in 1..n - 1 PROVE ~(j <= P(a))
            <4>1. P(a) <= P(n - 1) /\ P(a) \in Nat
                BY <1>1, <1>5, <1>6
            <4> QED BY <1>3, <2>2, <4>1
        <3>4. (\E a \in 1..n : a \in AI /\ P(a - 1) + 3 < j /\ j <= P(a))
              <=> n \in AI /\ P(n - 1) + 3 < j
            BY <1>1, <1>3, <3>3
        <3>5. n \in AI => (R[j][2] = "head" <=> k <= 3)
            BY <1>2, <1>7, <3>1
        <3> QED BY <3>1, <3>2, <3>4, <3>5
    <2> QED BY <2>1, <2>2
<1> QED BY <1>8, <1>9 DEF Spans, P, R, AI

\* Hence the spans fit a whole conversation.
LEMMA SpansAll ==
    ASSUME NEW V, NEW messages \in Seq(V), \A i \in 1..Len(messages) : Message(messages[i]),
           NEW f, Flattens(f, Token, Turns(messages))
    PROVE  /\ \A n \in 0..Len(messages) : Upto(messages, f, n) \in Seq(Token) /\ f[n] \in Seq(Token)
           /\ Spans(messages, f, Len(messages))
<1> DEFINE N == Len(messages)
           S == {n \in 0..N : Spans(messages, f, n)}
<1>1. N \in Nat /\ \A n \in 1..N : n - 1 \in 0..N /\ n \in 0..N
    OBVIOUS
<1>2. /\ Len(Turns(messages)) = N
      /\ \A i \in 1..N : Turns(messages)[i] = Turn(messages, i)
    BY TurnsType
<1>3. /\ f \in [0..N -> Seq(Token)] /\ f[0] = <<>>
      /\ \A n \in 1..N : f[n] = f[n - 1] \o Turn(messages, n)
    BY <1>2 DEF Flattens
<1>4. Preamble(messages) \in Seq(Token)
      /\ \A j \in 1..Len(Preamble(messages)) : Preamble(messages)[j][1] = 0
    BY PreambleShape
<1>5. ASSUME NEW n \in 0..N PROVE Upto(messages, f, n) \in Seq(Token) /\ f[n] \in Seq(Token)
    <2>1. f[n] \in Seq(Token)
        BY <1>3
    <2> QED BY <1>4, <2>1, ConcatProperties DEF Upto
<1>6. 0 \in S
    <2>1. Upto(messages, f, 0) = Preamble(messages)
        BY <1>3, <1>4 DEF Upto
    <2>2. 0 \notin AssistantIndices(messages)
        BY DEF AssistantIndices
    <2>3. 0 \in 0..N
        BY <1>1
    <2>4. Len(Preamble(messages)) \in Nat
        BY <1>4
    <2> HIDE DEF N
    <2> QED BY <1>4, <2>1, <2>2, <2>3, <2>4 DEF Spans
<1>7. ASSUME NEW n \in 1..N, n - 1 \in S PROVE n \in S
    <2> DEFINE r == Upto(messages, f, n - 1)
               q == Turn(messages, n)
    <2>1. TurnOf(q, messages[n], n)
        BY TurnShape
    <2>2. r \in Seq(Token) /\ q \in Seq(Token)
        BY <1>1, <1>5, <2>1 DEF TurnOf
    <2>3. Upto(messages, f, n) = r \o q
        <3>1. f[n - 1] \in Seq(Token) /\ f[n] = f[n - 1] \o q
            BY <1>1, <1>3, <1>5
        <3> HIDE DEF q
        <3>2. Preamble(messages) \o (f[n - 1] \o q) = (Preamble(messages) \o f[n - 1]) \o q
            <4> DEFINE p == Preamble(messages)
                       s == f[n - 1]
            <4>1. p \in Seq(Token) /\ s \in Seq(Token) /\ q \in Seq(Token)
                BY <1>4, <2>2, <3>1
            <4> HIDE DEF p, s
            <4>2. p \o (s \o q) = (p \o s) \o q
                BY <4>1, ConcatAssociative
            <4> QED BY <4>2 DEF p, s
        <3> QED BY <3>1, <3>2 DEF Upto
    <2>4. \A i \in 0..n : Len(Upto(messages, f, i)) \in Nat
        BY <1>5
    <2>5. Spans(messages, f, n - 1) /\ n \in 1..Len(messages)
        BY <1>7
    <2> HIDE DEF r, q
    <2>6. Upto(messages, f, n - 1) = r
        BY DEF r
    <2>7. Spans(messages, f, n)
        BY <2>1, <2>2, <2>3, <2>4, <2>5, <2>6, SpansStep
    <2> QED BY <1>1, <2>7
<1> HIDE DEF S
<1>8. \A n \in 0..N : n \in S
    BY <1>1, <1>6, <1>7, UpToInduction
<1>9. Spans(messages, f, N)
    BY <1>1, <1>8 DEF S
<1> QED BY <1>5, <1>9

\* build_supervised_example measures each span in two renderings of its own, of the
\* messages before the answer and of those up to it, and finds where it lies in the whole.
LEMMA SpansMeasured ==
    ASSUME NEW V, NEW messages \in Seq(V), \A i \in 1..Len(messages) : Message(messages[i]),
           NEW f, Flattens(f, Token, Turns(messages)),
           NEW ai \in AssistantIndices(messages), Renders(messages)
    PROVE  /\ ai \in 1..Len(messages) /\ ai - 1 \in 0..Len(messages)
           /\ SpanStart(messages, ai) = Len(Upto(messages, f, ai - 1)) + 3
           /\ SpanEnd(messages, ai) = Len(Upto(messages, f, ai))
<1>1. ai \in 1..Len(messages) /\ messages[ai].role = "assistant" /\ ai # 1
    BY DEF AssistantIndices, Renders
<1>2. ai - 1 \in 1..Len(messages) /\ ai - 1 \in 0..Len(messages) /\ ai \in 0..Len(messages) /\ (ai - 1) + 1 = ai
    BY <1>1
<1>3. Closes(messages, ai) /\ Closes(messages, ai - 1)
    BY <1>1, <1>2 DEF Closes
<1>4. Upto(messages, f, ai) \in Seq(Token) /\ Upto(messages, f, ai - 1) \in Seq(Token)
    BY <1>2, SpansAll
<1>5. SpanEnd(messages, ai) = Len(Upto(messages, f, ai))
    <2>1. Render(SubSeq(messages, 1, ai), FALSE) = Preamble(messages) \o f[ai] \o NoTokens
        BY <1>1, <1>3, PrefixRenders
    <2>2. Render(SubSeq(messages, 1, ai), FALSE) = Upto(messages, f, ai) \o <<>>
        BY <2>1 DEF Upto, NoTokens
    <2>3. Upto(messages, f, ai) \o <<>> = Upto(messages, f, ai)
        BY <1>4, ConcatEmptySeq
    <2> QED BY <2>2, <2>3 DEF SpanEnd
<1>6. SpanStart(messages, ai) = Len(Upto(messages, f, ai - 1)) + 3
    <2>1. Render(SubSeq(messages, 1, ai - 1), TRUE) = Preamble(messages) \o f[ai - 1] \o Header((ai - 1) + 1)
        BY <1>2, <1>3, PrefixRenders
    <2>2. Render(SubSeq(messages, 1, ai - 1), TRUE) = Upto(messages, f, ai - 1) \o Header(ai)
        BY <1>2, <2>1 DEF Upto
    <2>3. <<ai, "head">> \in Token
        BY <1>1 DEF Token
    <2>4. Header(ai) \in Seq(Token) /\ Len(Header(ai)) = 3
        BY <2>3, Copied DEF Header
    <2>5. Len(Upto(messages, f, ai - 1) \o Header(ai)) = Len(Upto(messages, f, ai - 1)) + Len(Header(ai))
        BY <1>4, <2>4, ConcatProperties
    <2> QED BY <2>2, <2>4, <2>5 DEF SpanStart
<1> QED BY <1>1, <1>2, <1>5, <1>6

\* The labels of a conversation that is kept are the tokens of the answers.
LEMMA LabelsFit ==
    ASSUME NEW V, NEW messages \in Seq(V), \A i \in 1..Len(messages) : Message(messages[i]),
           NEW maxLength
    PROVE  LabelsAreAssistant(messages, maxLength)
<1> DEFINE AI == AssistantIndices(messages)
           N == Len(messages)
           ids == Render(messages, FALSE)
<1> SUFFICES ASSUME Kept(messages, maxLength)
             PROVE  Labelled(messages) = {j \in DOMAIN ids : ids[j][2] # "head" /\ ids[j][1] \in AI}
    BY DEF LabelsAreAssistant
<1>1. AI # {} /\ Renders(messages)
    BY DEF Kept
<1>2. AI \subseteq 1..N /\ N \in Nat /\ N >= 1 /\ N \in 1..N /\ N \in 0..N
    BY <1>1 DEF AssistantIndices
<1>3. Turns(messages) \in Seq(Seq(Token))
    BY TurnsType
<1>4. PICK f : Flattens(f, Token, Turns(messages))
    BY <1>3, Flattening
<1> DEFINE R == Upto(messages, f, N)
           P(i) == Len(Upto(messages, f, i))
<1>5. R \in Seq(Token) /\ Spans(messages, f, N) /\ \A i \in 0..N : P(i) \in Nat
    BY <1>2, <1>4, SpansAll
<1>6. ids = R
    <2>1. SubSeq(messages, 1, N) = messages
        OBVIOUS
    <2>2. Closes(messages, N)
        BY DEF Closes
    <2>3. Render(SubSeq(messages, 1, N), FALSE) = Preamble(messages) \o f[N] \o NoTokens
        BY <1>2, <1>4, <2>2, PrefixRenders
    <2>4. ids = R \o <<>>
        BY <2>1, <2>3 DEF Upto, NoTokens
    <2> HIDE DEF R
    <2>5. R \o <<>> = R
        BY <1>5, ConcatEmptySeq
    <2> QED BY <2>4, <2>5
<1>7. \A ai \in AI : SpanStart(messages, ai) = P(ai - 1) + 3 /\ SpanEnd(messages, ai) = P(ai)
    BY <1>1, <1>4, SpansMeasured
<1>8. /\ \A a \in 0..N : P(a) <= P(N)
      /\ \A j \in 1..P(N) :
             (R[j][2] # "head" /\ R[j][1] \in AI) <=>
             \E a \in 1..N : a \in AI /\ P(a - 1) + 3 < j /\ j <= P(a)
    BY <1>5 DEF Spans
<1>9. Len(R) = P(N)
    OBVIOUS
<1> HIDE DEF P, R, ids, AI, N
<1>10. DOMAIN ids = 1..P(N)
    BY <1>5, <1>6, <1>9
<1>11. Labelled(messages) = UNION {{j \in 1..P(ai) : j > P(ai - 1) + 3} : ai \in AI}
    <2>1. \A ai \in AI : {j \in 1..SpanEnd(messages, ai) : j > SpanStart(messages, ai)}
                         = {j \in 1..P(ai) : j > P(ai - 1) + 3}
        BY <1>7
    <2> QED BY <2>1 DEF Labelled, AI
<1>12. ASSUME NEW ai \in AI
       PROVE  ai \in 1..N /\ P(ai) \in Nat /\ P(ai - 1) \in Nat /\ P(ai) <= P(N) /\ P(N) \in Nat
    <2>1. ai \in 0..N /\ ai - 1 \in 0..N /\ N \in 0..N
        BY <1>2
    <2> QED BY <1>2, <1>5, <1>8, <2>1
<1>13. ASSUME NEW j \in Labelled(messages)
       PROVE  j \in DOMAIN ids /\ ids[j][2] # "head" /\ ids[j][1] \in AI
    <2>1. PICK ai \in AI : j \in 1..P(ai) /\ j > P(ai - 1) + 3
        BY <1>11
    <2>2. ai \in 1..N /\ j \in 1..P(N) /\ P(ai - 1) + 3 < j /\ j <= P(ai)
        BY <1>12, <2>1
    <2> QED BY <1>6, <1>8, <1>10, <2>2
<1>14. ASSUME NEW j \in DOMAIN ids, ids[j][2] # "head", ids[j][1] \in AI
       PROVE  j \in Labelled(messages)
    <2>1. j \in 1..P(N)
        BY <1>10
    <2>2. PICK a \in 1..N : a \in AI /\ P(a - 1) + 3 < j /\ j <= P(a)
        BY <1>6, <1>8, <1>14, <2>1
    <2>3. j \in 1..P(a) /\ j > P(a - 1) + 3
        BY <1>12, <2>1, <2>2
    <2> QED BY <1>11, <2>2, <2>3
<1> QED BY <1>13, <1>14

\* In every conversation that is kept, of any length and with messages of any role and
\* size, the labels of build_supervised_example are the assistant's tokens and no others.
THEOREM OnlyAnswersAreLabelled == Spec => []LabelsAreAssistants
<1>1. Typed => LabelsAreAssistants
    <2> SUFFICES ASSUME Typed, fn = "sft_labels" PROVE LabelsAreAssistant(input, MaxLength)
        BY DEF LabelsAreAssistants
    <2>1. input \in Seq(Inputs["sft_labels"])
        BY DEF Typed
    <2>2. \A i \in 1..Len(input) : Message(input[i])
        <3>1. \A i \in 1..Len(input) : input[i] \in Inputs["sft_labels"]
            BY <2>1
        <3> QED BY <3>1, ComputationsAssumption DEF Message, ComputationsAssumption
    <2> QED BY <2>1, <2>2, LabelsFit
<1> QED BY <1>1, TypedAlways, PTL

-----------------------------------------------------------------------------
(* Sums over finite sets.                                                  *)

Summable(S, f) == IsFiniteSet(S) /\ \A x \in S : f[x] \in Int

Adding(S, f) == [p \in S \X Int |-> f[p[1]] + p[2]]

\* SumOver folds the addition.
LEMMA SumFolds ==
    ASSUME NEW S, NEW f, Summable(S, f)
    PROVE  \E h : Folding(h, S, Int, 0, Adding(S, f)) /\ SumOver(S, f) = h[S]
<1> DEFINE step == Adding(S, f)
           Def(g) == [s \in SUBSET S |-> IF s = {} THEN 0
                                         ELSE LET x == CHOOSE x \in s : TRUE IN f[x] + g[s \ {x}]]
           iter == CHOOSE g : g = Def(g)
<1>1. IsFiniteSet(S) /\ \A x \in S : f[x] \in Int
    BY DEF Summable
<1>2. \A x \in S : \A v \in Int : step[<<x, v>>] = f[x] + v
    BY DEF Adding
<1>3. Folder(step, S, Int)
    BY <1>1 DEF Folder, Adding
<1>4. Commutes(step, S, Int)
    <2> SUFFICES ASSUME NEW x \in S, NEW y \in S, NEW v \in Int
                 PROVE  step[<<x, step[<<y, v>>]>>] = step[<<y, step[<<x, v>>]>>]
        BY DEF Commutes
    <2> HIDE DEF step
    <2>1. f[x] \in Int /\ f[y] \in Int
        BY <1>1
    <2>2. step[<<x, v>>] = f[x] + v /\ step[<<y, v>>] = f[y] + v
        BY <1>2
    <2>3. step[<<x, f[y] + v>>] = f[x] + (f[y] + v) /\ step[<<y, f[x] + v>>] = f[y] + (f[x] + v)
        BY <1>2, <2>1
    <2> QED BY <2>1, <2>2, <2>3
<1> HIDE DEF step
<1>5. 0 \in Int
    OBVIOUS
<1>6. PICK h : Follows(h, S, Int, 0, step)
    BY <1>1, <1>3, <1>5, FoldExists
<1>7. h = Def(h)
    <2>1. h \in [SUBSET S -> Int] /\ h[{}] = 0
        BY <1>6 DEF Follows
    <2>2. ASSUME NEW s \in SUBSET S, s # {}
          PROVE  h[s] = LET x == CHOOSE x \in s : TRUE IN f[x] + h[s \ {x}]
        <3>1. h[s] = step[<<Chosen(s), h[s \ {Chosen(s)}]>>]
            BY <1>6, <2>2 DEF Follows
        <3>2. Chosen(s) \in S /\ h[s \ {Chosen(s)}] \in Int
            BY <2>1, <2>2, ChosenIn
        <3>3. h[s] = f[Chosen(s)] + h[s \ {Chosen(s)}]
            BY <1>2, <3>1, <3>2
        <3> QED BY <3>3 DEF Chosen
    <2> QED BY <2>1, <2>2
<1>8. iter = Def(iter)
    BY <1>7
<1> HIDE DEF iter
<1>9. Follows(iter, S, Int, 0, step)
    <2>1. iter = [s \in SUBSET S |-> iter[s]] /\ iter[{}] = 0
        BY <1>8
    <2>2. ASSUME NEW s \in SUBSET S, s # {} PROVE iter[s] = f[Chosen(s)] + iter[s \ {Chosen(s)}]
        BY <1>8, <2>2 DEF Chosen
    <2>3. \A s \in SUBSET S : s # {} /\ iter[s \ {Chosen(s)}] \in Int =>
              iter[s] = step[<<Chosen(s), iter[s \ {Chosen(s)}]>>]
        BY <1>2, <2>2, ChosenIn
    <2> QED BY <1>1, <1>3, <1>5, <2>1, <2>3, Iterates
<1>10. Folding(iter, S, Int, 0, step)
    BY <1>1, <1>3, <1>4, <1>5, <1>9, FollowsFolds
<1>11. SumOver(S, f) = iter[S]
    BY DEF SumOver, FoldSet, MapThenFoldSet, iter
<1> QED BY <1>10, <1>11 DEF step

\* Any element may be taken out of a sum first.
LEMMA SumRemove ==
    ASSUME NEW S, NEW f, Summable(S, f)
    PROVE  /\ SumOver(S, f) \in Int
           /\ S = {} => SumOver(S, f) = 0
           /\ \A x \in S : Summable(S \ {x}, f) /\ SumOver(S, f) = f[x] + SumOver(S \ {x}, f)
<1>1. PICK h : Folding(h, S, Int, 0, Adding(S, f)) /\ SumOver(S, f) = h[S]
    BY SumFolds
<1>2. h \in [SUBSET S -> Int] /\ h[{}] = 0 /\ \A x \in S : h[S] = Adding(S, f)[<<x, h[S \ {x}]>>]
    BY <1>1 DEF Folding
<1>3. ASSUME NEW x \in S
      PROVE  Summable(S \ {x}, f) /\ SumOver(S, f) = f[x] + SumOver(S \ {x}, f)
    <2> DEFINE R == S \ {x}
    <2>1. IsFiniteSet(S) /\ R \in SUBSET S
        BY DEF Summable
    <2>2. Summable(R, f)
        BY <2>1, FS_Subset DEF Summable
    <2> HIDE DEF R
    <2>3. PICK g : Folding(g, R, Int, 0, Adding(R, f)) /\ SumOver(R, f) = g[R]
        BY <2>2, SumFolds
    <2>4. \A y \in R : \A v \in Int : Adding(R, f)[<<y, v>>] = Adding(S, f)[<<y, v>>]
        BY <2>1 DEF Adding
    <2>5. \A T \in SUBSET R : g[T] = h[T]
        <3> DEFINE step == Adding(S, f)
                   other == Adding(R, f)
        <3>1. \A y \in R : \A v \in Int : other[<<y, v>>] = step[<<y, v>>]
            BY <2>4
        <3>2. Folding(h, S, Int, 0, step) /\ Folding(g, R, Int, 0, other)
            BY <1>1, <2>3
        <3> HIDE DEF step, other
        <3> QED BY <2>1, <3>1, <3>2, FoldsAgree
    <2>6. g[R] = h[R]
        BY <2>5
    <2>7. h[R] \in Int
        BY <1>2, <2>1
    <2>8. h[S] = f[x] + h[R]
        BY <1>2, <2>7 DEF Adding, R
    <2> QED BY <1>1, <2>2, <2>3, <2>6, <2>8 DEF R
<1>4. h[S] \in Int /\ (S = {} => h[S] = 0)
    BY <1>2
<1> QED BY <1>1, <1>3, <1>4

\* A factor comes out of a sum.
LEMMA SumScale ==
    ASSUME NEW S, NEW f, Summable(S, f), NEW k \in Int, NEW g, \A x \in S : g[x] = k * f[x]
    PROVE  Summable(S, g) /\ SumOver(S, g) = k * SumOver(S, f)
<1>1. IsFiniteSet(S) /\ \A x \in S : f[x] \in Int
    BY DEF Summable
<1>2. \A x \in S : g[x] \in Int
    BY <1>1
<1>3. \A T \in SUBSET S : Summable(T, f) /\ Summable(T, g)
    BY <1>1, <1>2, FS_Subset DEF Summable
<1> DEFINE D == {T \in SUBSET S : SumOver(T, g) = k * SumOver(T, f)}
<1>4. ASSUME NEW T \in SUBSET S, \A x \in T : T \ {x} \in D PROVE T \in D
    <2>1. CASE T = {}
        <3>1. SumOver(T, g) = 0 /\ SumOver(T, f) = 0
            BY <1>3, <2>1, SumRemove
        <3> QED BY <3>1
    <2>2. CASE T # {}
        <3>1. PICK x \in T : TRUE
            BY <2>2
        <3> DEFINE a == SumOver(T \ {x}, f)
                   b == SumOver(T \ {x}, g)
        <3>2. SumOver(T, g) = g[x] + b /\ SumOver(T, f) = f[x] + a
            BY <1>3, SumRemove
        <3>3. b = k * a
            BY <1>4
        <3>4. a \in Int /\ f[x] \in Int /\ g[x] = k * f[x]
            BY <1>1, <1>3, SumRemove
        <3> HIDE DEF a, b
        <3>5. g[x] + b = k * (f[x] + a)
            BY <3>3, <3>4
        <3> QED BY <3>2, <3>5
    <2> QED BY <2>1, <2>2
<1> HIDE DEF D
<1>5. \A T \in SUBSET S : T \in D
    BY <1>1, <1>4, SubsetInduction
<1> QED BY <1>3, <1>5 DEF D

\* A sum looks at the set's elements only.
LEMMA SumSame ==
    ASSUME NEW S, NEW f, Summable(S, f), NEW g, \A x \in S : g[x] = f[x]
    PROVE  Summable(S, g) /\ SumOver(S, g) = SumOver(S, f)
<1>1. \A x \in S : f[x] \in Int
    BY DEF Summable
<1>2. \A x \in S : g[x] = 1 * f[x]
    BY <1>1
<1>3. Summable(S, g) /\ SumOver(S, g) = 1 * SumOver(S, f)
    BY <1>2, SumScale
<1> QED BY <1>3, SumRemove

\* A sum with one element that is not zero.
LEMMA SumPoint ==
    ASSUME NEW S, NEW f, Summable(S, f), NEW x \in S, \A y \in S : y # x => f[y] = 0
    PROVE  SumOver(S, f) = f[x]
<1> DEFINE R == S \ {x}
<1>1. Summable(R, f) /\ SumOver(S, f) = f[x] + SumOver(R, f) /\ SumOver(R, f) \in Int
    BY SumRemove
<1>2. \A y \in R : f[y] = 0 * f[y]
    OBVIOUS
<1>3. SumOver(R, f) = 0 * SumOver(R, f)
    BY <1>1, <1>2, SumScale
<1>4. f[x] \in Int
    BY DEF Summable
<1> HIDE DEF R
<1> QED BY <1>1, <1>3, <1>4

\* A sum of zeros and ones lies between zero and the number of elements.
LEMMA SumBits ==
    ASSUME NEW S, IsFiniteSet(S), NEW f, \A x \in S : f[x] \in {0, 1}
    PROVE  SumOver(S, f) \in 0..Cardinality(S)
<1>1. \A T \in SUBSET S : Summable(T, f) /\ IsFiniteSet(T)
    BY FS_Subset DEF Summable
<1> DEFINE D == {T \in SUBSET S : SumOver(T, f) \in 0..Cardinality(T)}
<1>2. ASSUME NEW T \in SUBSET S, \A x \in T : T \ {x} \in D PROVE T \in D
    <2>1. CASE T = {}
        <3>1. SumOver(T, f) = 0 /\ Cardinality(T) = 0
            BY <1>1, <2>1, SumRemove, FS_EmptySet
        <3> QED BY <3>1
    <2>2. CASE T # {}
        <3>1. PICK x \in T : TRUE
            BY <2>2
        <3> DEFINE a == SumOver(T \ {x}, f)
                   n == Cardinality(T \ {x})
        <3>2. SumOver(T, f) = f[x] + a /\ f[x] \in {0, 1}
            BY <1>1, SumRemove
        <3>3. a \in 0..n
            BY <1>2
        <3>4. n = Cardinality(T) - 1 /\ Cardinality(T) \in Nat /\ n \in Nat
            BY <1>1, FS_RemoveElement, FS_CardinalityType
        <3> HIDE DEF a, n
        <3>5. SumOver(T, f) \in 0..Cardinality(T)
            BY <3>2, <3>3, <3>4
        <3> QED BY <3>5
    <2> QED BY <2>1, <2>2
<1> HIDE DEF D
<1>3. \A T \in SUBSET S : T \in D
    BY <1>2, SubsetInduction
<1> QED BY <1>3 DEF D

-----------------------------------------------------------------------------
(* The advantages of a batch.                                              *)

Sample(s) == s.mask \in Seq({0, 1}) /\ s.reward \in Int

\* The powers of alpha are positive and grow.
LEMMA AlphaGrows ==
    ASSUME NEW n \in Nat
    PROVE  /\ Alpha(n) \in [0..n -> Nat]
           /\ \A m \in 0..n : Alpha(n)[m] > 0 /\ \A l \in 0..n : l < m => Alpha(n)[l] < Alpha(n)[m]
<1> DEFINE step == [p \in (1..n) \X Nat |-> 2 * p[2]]
           Def(g) == [m \in 0..n |-> IF m = 0 THEN 1 ELSE 2 * g[m - 1]]
           power == CHOOSE g : g = Def(g)
<1>1. step \in Steps(n, Nat) /\ 1 \in Nat
    BY DEF Steps
<1>2. \A m \in 1..n : \A v \in Nat : step[<<m, v>>] = 2 * v
    OBVIOUS
<1> HIDE DEF step
<1>3. PICK f : Solution(f, n, Nat, 1, step)
    BY <1>1, Recursion
<1>4. f \in [0..n -> Nat] /\ f[0] = 1 /\ \A m \in 1..n : f[m] = step[<<m, f[m - 1]>>]
    BY <1>3 DEF Solution
<1>5. ASSUME NEW m \in 1..n PROVE m - 1 \in 0..n /\ f[m] = 2 * f[m - 1]
    <2>1. m - 1 \in 0..n
        OBVIOUS
    <2> QED BY <1>2, <1>4, <2>1
<1>6. f = Def(f)
    <2>1. f = [m \in 0..n |-> f[m]]
        BY <1>4
    <2>2. ASSUME NEW m \in 0..n PROVE f[m] = IF m = 0 THEN 1 ELSE 2 * f[m - 1]
        <3>1. m = 0 \/ m \in 1..n
            OBVIOUS
        <3> QED BY <1>4, <1>5, <3>1
    <2> QED BY <2>1, <2>2
<1>7. power = Def(power)
    BY <1>6
<1> HIDE DEF power
<1>8. power[0] = 1 /\ DOMAIN power = 0..n /\ power = [m \in 0..n |-> power[m]]
    BY <1>7
<1>9. ASSUME NEW m \in 1..n PROVE power[m] = 2 * power[m - 1]
    BY <1>7
<1> DEFINE S == {m \in 0..n : /\ power[m] \in Nat /\ power[m] > 0
                              /\ \A l \in 0..n : l < m => power[l] \in Nat /\ power[l] < power[m]}
<1>10. 0 \in S
    BY <1>8
<1>11. ASSUME NEW m \in 1..n, m - 1 \in S PROVE m \in S
    <2>1. m \in 0..n /\ power[m - 1] \in Nat /\ power[m - 1] > 0 /\ power[m] = 2 * power[m - 1]
        BY <1>9, <1>11
    <2>2. power[m] \in Nat /\ power[m] > power[m - 1]
        BY <2>1
    <2>3. ASSUME NEW l \in 0..n, l < m PROVE power[l] \in Nat /\ power[l] < power[m]
        <3>1. CASE l = m - 1
            BY <2>1, <2>2, <3>1
        <3>2. CASE l # m - 1
            <4>1. l < m - 1
                BY <2>3, <3>2
            <4>2. power[l] < power[m - 1] /\ power[l] \in Nat
                BY <1>11, <4>1
            <4> QED BY <2>1, <2>2, <4>2
        <3> QED BY <3>1, <3>2
    <2> QED BY <2>1, <2>2, <2>3
<1> HIDE DEF S
<1>12. \A m \in 0..n : m \in S
    BY <1>10, <1>11, UpToInduction
<1>13. power \in [0..n -> Nat]
    BY <1>8, <1>12 DEF S
<1>14. Alpha(n) = power
    BY DEF Alpha, power
<1> QED BY <1>12, <1>13, <1>14 DEF S

\* The reward of a sample is the sum of its token-level rewards, whatever the mask.
LEMMA ScoreIsReward ==
    ASSUME NEW w \in Nat \ {0}, NEW batch, NEW i, Sample(batch[i])
    PROVE  Score(batch, i, w) = batch[i].reward
<1> DEFINE s == batch[i]
           last == SumOver(1..w, Attended(s, w))
           p == IF last = 0 THEN w ELSE last
           rm == RmScores(s, w)
<1>1. IsFiniteSet(1..w) /\ Cardinality(1..w) = w
    BY FS_Interval
<1>2. last \in 0..w
    <2>1. \A t \in 1..w : Attended(s, w)[t] \in {0, 1}
        BY DEF Attended
    <2> HIDE DEF s
    <2> QED BY <1>1, <2>1, SumBits
<1>3. p \in 1..w
    <2> HIDE DEF last
    <2> QED BY <1>2
<1>4. rm = [t \in 1..w |-> IF t = p THEN s.reward ELSE 0]
    BY DEF RmScores
<1>5. s.reward \in Int
    BY DEF Sample
<1> HIDE DEF rm, p, s
<1>6. rm[p] = s.reward /\ (\A t \in 1..w : t # p => rm[t] = 0) /\ \A t \in 1..w : rm[t] \in Int
    BY <1>3, <1>4, <1>5
<1>7. Summable(1..w, rm)
    BY <1>1, <1>6 DEF Summable
<1>8. SumOver(1..w, rm) = s.reward
    BY <1>3, <1>6, <1>7, SumPoint
<1> QED BY <1>8 DEF Score, rm, s

\* Centring gives the distance from the mean of the group as a fraction.
LEMMA CentredIsGap ==
    ASSUME NEW w \in Nat \ {0}, NEW V, NEW batch \in Seq(V), \A j \in DOMAIN batch : Sample(batch[j]),
           NEW i \in DOMAIN batch
    PROVE  /\ GroupSize(batch, i) \in Nat \ {0} /\ Gap(batch, i) \in Int
           /\ Centred(batch, i, w).num = Gap(batch, i) /\ Centred(batch, i, w).den = GroupSize(batch, i)
<1> DEFINE g == Group(batch, i)
           others == Others(batch, i)
           n == GroupSize(batch, i)
           rewards == [j \in g |-> batch[j].reward]
           scores == [j \in g |-> Score(batch, j, w)]
<1>1. DOMAIN batch = 1..Len(batch) /\ Len(batch) \in Nat
    OBVIOUS
<1>2. g \subseteq DOMAIN batch /\ i \in g
    BY DEF Group
<1>3. IsFiniteSet(g)
    <2>1. IsFiniteSet(1..Len(batch))
        BY <1>1, FS_Interval
    <2> HIDE DEF g
    <2> QED BY <1>1, <1>2, <2>1, FS_Subset
<1>4. others = g \ {i} /\ others \union {i} = g /\ n = Cardinality(others) + 1
    BY <1>2 DEF Others, GroupSize
<1> HIDE DEF g, n
<1>5. IsFiniteSet(others) /\ Cardinality(others) \in Nat /\ Cardinality(g) = n
    <2>1. IsFiniteSet(g \ {i}) /\ Cardinality(g \ {i}) = Cardinality(g) - 1
        BY <1>2, <1>3, FS_RemoveElement
    <2>2. Cardinality(g) \in Nat /\ Cardinality(g \ {i}) \in Nat
        BY <1>3, <2>1, FS_CardinalityType
    <2> HIDE DEF others
    <2> QED BY <1>4, <2>1, <2>2
<1>6. others = {} <=> n = 1
    <2>1. Cardinality(others) = 0 <=> others = {}
        BY <1>5, FS_EmptySet
    <2> HIDE DEF others
    <2> QED BY <1>4, <1>5, <2>1
<1>7. \A j \in g : Score(batch, j, w) = batch[j].reward /\ batch[j].reward \in Int
    BY <1>2, ScoreIsReward DEF Sample
<1>8. Summable(g, rewards) /\ \A j \in g : scores[j] = rewards[j]
    BY <1>3, <1>7 DEF Summable
<1> HIDE DEF others, n, scores, rewards
<1>9. SumOver(g, scores) = SumOver(g, rewards) /\ SumOver(g, rewards) \in Int
    BY <1>8, SumSame, SumRemove
<1> DEFINE reward == batch[i].reward
           total == SumOver(g, rewards)
<1>10. Centred(batch, i, w) = IF n = 1 THEN [num |-> reward, den |-> 1]
                              ELSE [num |-> n * reward - total, den |-> n]
    BY <1>2, <1>5, <1>7, <1>9 DEF Centred, g, scores
<1> DEFINE gap == IF others = {} THEN reward ELSE n * reward - total
<1>11. n \in Nat \ {0} /\ reward \in Int /\ total \in Int
    BY <1>2, <1>4, <1>5, <1>7, <1>9
<1>12. gap = Gap(batch, i)
    <2>1. rewards = [j \in others \union {i} |-> batch[j].reward]
        BY <1>4 DEF rewards
    <2> QED BY <1>4, <2>1 DEF Gap, n, others
<1> HIDE DEF reward, total
<1>13. gap \in Int
    BY <1>11
<1>14. Centred(batch, i, w).num = gap /\ Centred(batch, i, w).den = n
    BY <1>6, <1>10
<1> HIDE DEF gap
<1> QED BY <1>11, <1>12, <1>13, <1>14 DEF n

\* A product with a factor that is not zero grows, in square, with the other factor.
LEMMA SquaresGrow ==
    ASSUME NEW k \in Int, k # 0, NEW a \in Nat, NEW b \in Nat, a > b
    PROVE  (k * a) * (k * a) > (k * b) * (k * b)
<1>1. k * k \in Int /\ k * k >= 1
    BY Z3
<1>2. a * a \in Int /\ b * b \in Int /\ a * a > b * b
    BY Z3
<1>3. (k * a) * (k * a) = (k * k) * (a * a) /\ (k * b) * (k * b) = (k * k) * (b * b)
    BY Z3
<1>4. \A x, y, z \in Int : x >= 1 /\ y > z => x * y > x * z
    BY Z3
<1> QED BY <1>1, <1>2, <1>3, <1>4

\* What the turn discount does to one sample.
LEMMA SampleCredit ==
    ASSUME NEW w \in Nat \ {0}, NEW V, NEW batch \in Seq(V), \A j \in DOMAIN batch : Sample(batch[j])
    PROVE  CreditConserved(batch, w)
<1> SUFFICES ASSUME NEW i \in DOMAIN batch, Trains(batch, i, w)
             PROVE  LET adv == Advantage(batch, i, w)
                        mask == Mask(batch[i], w)
                    IN  /\ SumOver(1..w, adv.num) * GroupSize(batch, i)
                               = Gap(batch, i) * Active(batch[i], w) * adv.den
                        /\ \A t \in 1..w : mask[t] = 0 => adv.num[t] = 0
                        /\ \A t, u \in 1..w : t < u /\ mask[t] = 1 /\ mask[u] = 1 /\ Gap(batch, i) # 0 =>
                               adv.num[t] * adv.num[t] > adv.num[u] * adv.num[u]
    BY DEF CreditConserved
<1> DEFINE adv == Advantage(batch, i, w)
           mask == Mask(batch[i], w)
           n == GroupSize(batch, i)
           gap == Gap(batch, i)
           weight == Weights(batch[i], w)
           act == Active(batch[i], w)
           k == gap * act
           W == SumOver(1..w, weight)
<1>1. /\ n \in Nat \ {0} /\ gap \in Int
      /\ Centred(batch, i, w).num = gap /\ Centred(batch, i, w).den = n
    BY CentredIsGap
<1> HIDE DEF n, gap
<1>2. IsFiniteSet(1..w)
    BY FS_Interval
<1>3. \A t \in 1..w : mask[t] \in {0, 1}
    <2>1. batch[i].mask \in Seq({0, 1})
        BY DEF Sample
    <2> QED BY <2>1 DEF Mask
<1>4. act \in Int /\ act > 0
    <2>1. act \in 0..Cardinality(1..w)
        BY <1>2, <1>3, SumBits DEF Active
    <2>2. Cardinality(1..w) \in Nat
        BY <1>2, FS_CardinalityType
    <2> QED BY <2>1, <2>2 DEF Trains
<1>5. /\ Alpha(w) \in [0..w -> Nat]
      /\ \A m \in 0..w : Alpha(w)[m] > 0 /\ \A l \in 0..w : l < m => Alpha(w)[l] < Alpha(w)[m]
    BY AlphaGrows
<1>6. \A t \in 1..w : w - t \in 0..w /\ Alpha(w)[w - t] \in Nat
    BY <1>5
<1>7. \A t \in 1..w : weight[t] = mask[t] * Alpha(w)[w - t]
    BY DEF Weights
<1>8. \A t \in 1..w : /\ mask[t] = 0 => weight[t] = 0
                      /\ mask[t] = 1 => weight[t] = Alpha(w)[w - t]
                      /\ weight[t] \in Nat
    BY <1>3, <1>6, <1>7
<1>9. adv.num = [t \in 1..w |-> k * weight[t]] /\ adv.den = n * W
    BY <1>1 DEF Advantage
<1> HIDE DEF adv, mask, weight, act, W
<1>10. k \in Int /\ (gap # 0 => k # 0)
    <2>1. \A x, y \in Int : y > 0 => x * y \in Int /\ (x # 0 => x * y # 0)
        BY Z3
    <2> QED BY <1>1, <1>4, <2>1
<1> HIDE DEF k
<1>11. Summable(1..w, weight)
    BY <1>2, <1>8 DEF Summable
<1>12. SumOver(1..w, adv.num) = k * W /\ W \in Int
    <2>1. \A t \in 1..w : adv.num[t] = k * weight[t]
        BY <1>9
    <2> QED BY <1>10, <1>11, <2>1, SumScale, SumRemove DEF W
<1>13. SumOver(1..w, adv.num) * n = gap * act * adv.den
    <2>1. \A x, y, z, v \in Int : ((x * y) * z) * v = (x * y) * (v * z)
        BY Z3
    <2>2. n \in Int
        BY <1>1
    <2>3. ((gap * act) * W) * n = (gap * act) * (n * W)
        BY <1>1, <1>4, <1>12, <2>1, <2>2
    <2> QED BY <1>9, <1>12, <2>3 DEF k
<1>14. ASSUME NEW t \in 1..w, mask[t] = 0 PROVE adv.num[t] = 0
    BY <1>8, <1>9, <1>10, <1>14
<1>15. ASSUME NEW t \in 1..w, NEW u \in 1..w, t < u, mask[t] = 1, mask[u] = 1, gap # 0
       PROVE  adv.num[t] * adv.num[t] > adv.num[u] * adv.num[u]
    <2>1. weight[t] = Alpha(w)[w - t] /\ weight[u] = Alpha(w)[w - u] /\ weight[t] \in Nat /\ weight[u] \in Nat
        BY <1>8, <1>15
    <2>2. w - t \in 0..w /\ w - u \in 0..w /\ w - u < w - t
        BY <1>15
    <2>3. weight[t] > weight[u]
        BY <1>5, <2>1, <2>2
    <2>4. adv.num[t] = k * weight[t] /\ adv.num[u] = k * weight[u]
        BY <1>9
    <2> QED BY <1>10, <1>15, <2>1, <2>3, <2>4, SquaresGrow
<1> QED BY <1>13, <1>14, <1>15 DEF adv, mask, gap, n, act

\* In a batch of any size, with masks of any length and any rewards, the turn discount
\* moves credit between the tokens of a sample and never between samples.
THEOREM CreditStays == Spec => []CreditIsConserved
<1>1. Typed => CreditIsConserved
    <2> SUFFICES ASSUME Typed, fn = "advantage" PROVE CreditConserved(input, Width)
        BY DEF CreditIsConserved
    <2>1. input \in Seq(Inputs["advantage"])
        BY DEF Typed
    <2>2. \A j \in DOMAIN input : Sample(input[j])
        <3>1. \A j \in DOMAIN input : input[j] \in Inputs["advantage"]
            BY <2>1
        <3> QED BY <3>1, ComputationsAssumption DEF Sample, ComputationsAssumption
    <2>3. Width \in Nat \ {0}
        BY ComputationsAssumption DEF ComputationsAssumption
    <2> QED BY <2>1, <2>2, <2>3, SampleCredit
<1> QED BY <1>1, TypedAlways, PTL

-----------------------------------------------------------------------------
(* Products over finite sets of integers, and subsets of k elements.       *)

Integral(S, k) == IsFiniteSet(S) /\ S \subseteq Int /\ k \in Int

Multiplying(S, k) == [p \in S \X Int |-> (p[1] - k) * p[2]]

\* Product folds the multiplication.
LEMMA ProductFolds ==
    ASSUME NEW S, NEW k, Integral(S, k)
    PROVE  \E h : Folding(h, S, Int, 1, Multiplying(S, k)) /\ Product(S, k) = h[S]
<1> DEFINE step == Multiplying(S, k)
           Def(g) == [s \in SUBSET S |-> IF s = {} THEN 1
                                         ELSE LET x == CHOOSE x \in s : TRUE IN (x - k) * g[s \ {x}]]
           iter == CHOOSE g : g = Def(g)
<1>1. IsFiniteSet(S) /\ k \in Int /\ \A x \in S : x - k \in Int
    BY DEF Integral
<1>2. \A x \in S : \A v \in Int : step[<<x, v>>] = (x - k) * v
    BY DEF Multiplying
<1>3. Folder(step, S, Int)
    <2>1. \A x, v \in Int : x * v \in Int
        OBVIOUS
    <2>2. \A p \in S \X Int : (p[1] - k) * p[2] \in Int
        BY <1>1, <2>1
    <2> QED BY <2>2 DEF Folder, Multiplying
<1>4. Commutes(step, S, Int)
    <2> SUFFICES ASSUME NEW x \in S, NEW y \in S, NEW v \in Int
                 PROVE  step[<<x, step[<<y, v>>]>>] = step[<<y, step[<<x, v>>]>>]
        BY DEF Commutes
    <2> HIDE DEF step
    <2> DEFINE a == x - k
               b == y - k
    <2>1. a \in Int /\ b \in Int
        BY <1>1
    <2>2. step[<<x, v>>] = a * v /\ step[<<y, v>>] = b * v
        BY <1>2
    <2> HIDE DEF a, b
    <2>3. a * v \in Int /\ b * v \in Int
        BY <2>1
    <2>4. step[<<x, b * v>>] = a * (b * v) /\ step[<<y, a * v>>] = b * (a * v)
        BY <1>2, <2>3 DEF a, b
    <2>5. a * (b * v) = b * (a * v)
        BY <2>1
    <2> QED BY <2>2, <2>4, <2>5
<1> HIDE DEF step
<1>5. 1 \in Int
    OBVIOUS
<1>6. PICK h : Follows(h, S, Int, 1, step)
    BY <1>1, <1>3, <1>5, FoldExists
<1>7. h = Def(h)
    <2>1. h \in [SUBSET S -> Int] /\ h[{}] = 1
        BY <1>6 DEF Follows
    <2>2. ASSUME NEW s \in SUBSET S, s # {}
          PROVE  h[s] = LET x == CHOOSE x \in s : TRUE IN (x - k) * h[s \ {x}]
        <3>1. h[s] = step[<<Chosen(s), h[s \ {Chosen(s)}]>>]
            BY <1>6, <2>2 DEF Follows
        <3>2. Chosen(s) \in S /\ h[s \ {Chosen(s)}] \in Int
            BY <2>1, <2>2, ChosenIn
        <3>3. h[s] = (Chosen(s) - k) * h[s \ {Chosen(s)}]
            BY <1>2, <3>1, <3>2
        <3> QED BY <3>3 DEF Chosen
    <2> QED BY <2>1, <2>2
<1>8. iter = Def(iter)
    BY <1>7
<1> HIDE DEF iter
<1>9. Follows(iter, S, Int, 1, step)
    <2>1. iter = [s \in SUBSET S |-> iter[s]] /\ iter[{}] = 1
        BY <1>8
    <2>2. ASSUME NEW s \in SUBSET S, s # {}
          PROVE  iter[s] = (Chosen(s) - k) * iter[s \ {Chosen(s)}]
        BY <1>8, <2>2 DEF Chosen
    <2>3. \A s \in SUBSET S : s # {} /\ iter[s \ {Chosen(s)}] \in Int =>
              iter[s] = step[<<Chosen(s), iter[s \ {Chosen(s)}]>>]
        BY <1>2, <2>2, ChosenIn
    <2> QED BY <1>1, <1>3, <1>5, <2>1, <2>3, Iterates
<1>10. Folding(iter, S, Int, 1, step)
    BY <1>1, <1>3, <1>4, <1>5, <1>9, FollowsFolds
<1>11. Product(S, k) = iter[S]
    BY DEF Product, FoldSet, MapThenFoldSet, iter
<1> QED BY <1>10, <1>11 DEF step

\* Any factor may be taken out of a product first.
LEMMA ProductRemove ==
    ASSUME NEW S, NEW k, Integral(S, k)
    PROVE  /\ Product(S, k) \in Int
           /\ S = {} => Product(S, k) = 1
           /\ \A x \in S : Integral(S \ {x}, k) /\ Product(S, k) = (x - k) * Product(S \ {x}, k)
<1>1. PICK h : Folding(h, S, Int, 1, Multiplying(S, k)) /\ Product(S, k) = h[S]
    BY ProductFolds
<1>2. h \in [SUBSET S -> Int] /\ h[{}] = 1 /\ \A x \in S : h[S] = Multiplying(S, k)[<<x, h[S \ {x}]>>]
    BY <1>1 DEF Folding
<1>3. ASSUME NEW x \in S
      PROVE  Integral(S \ {x}, k) /\ Product(S, k) = (x - k) * Product(S \ {x}, k)
    <2> DEFINE R == S \ {x}
    <2>1. IsFiniteSet(S) /\ R \in SUBSET S
        BY DEF Integral
    <2>2. Integral(R, k)
        BY <2>1, FS_Subset DEF Integral
    <2> HIDE DEF R
    <2>3. PICK g : Folding(g, R, Int, 1, Multiplying(R, k)) /\ Product(R, k) = g[R]
        BY <2>2, ProductFolds
    <2>4. \A y \in R : \A v \in Int : Multiplying(R, k)[<<y, v>>] = Multiplying(S, k)[<<y, v>>]
        BY <2>1 DEF Multiplying
    <2>5. \A T \in SUBSET R : g[T] = h[T]
        <3> DEFINE step == Multiplying(S, k)
                   other == Multiplying(R, k)
                   one == 1
        <3>1. \A y \in R : \A v \in Int : other[<<y, v>>] = step[<<y, v>>]
            BY <2>4
        <3>2. Folding(h, S, Int, one, step) /\ Folding(g, R, Int, one, other)
            BY <1>1, <2>3
        <3> HIDE DEF step, other, one
        <3> QED BY <2>1, <3>1, <3>2, FoldsAgree
    <2>6. g[R] = h[R]
        BY <2>5
    <2>7. h[R] \in Int
        BY <1>2, <2>1
    <2>8. h[S] = (x - k) * h[R]
        <3>1. h[S] = Multiplying(S, k)[<<x, h[R]>>]
            BY <1>2 DEF R
        <3> QED BY <2>7, <3>1 DEF Multiplying
    <2> QED BY <1>1, <2>2, <2>3, <2>6, <2>8 DEF R
<1>4. h[S] \in Int /\ (S = {} => h[S] = 1)
    BY <1>2
<1> QED BY <1>1, <1>3, <1>4

\* The number of subsets of k elements.
Ways(k, S) == Cardinality(kSubset(k, S))

\* There are finitely many.
LEMMA WaysType ==
    ASSUME NEW S, IsFiniteSet(S), NEW k
    PROVE  IsFiniteSet(kSubset(k, S)) /\ Ways(k, S) \in Nat
<1>1. IsFiniteSet(SUBSET S)
    BY FS_SUBSET
<1>2. kSubset(k, S) \in SUBSET (SUBSET S)
    BY DEF kSubset
<1>3. IsFiniteSet(kSubset(k, S))
    BY <1>1, <1>2, FS_Subset
<1> QED BY <1>3, FS_CardinalityType DEF Ways

\* Pascal's rule: a subset of k elements holds a given one or does not.
LEMMA Pascal ==
    ASSUME NEW T, IsFiniteSet(T), NEW x, x \notin T, NEW k \in Nat \ {0}
    PROVE  Ways(k, T \union {x}) = Ways(k, T) + Ways(k - 1, T)
<1> DEFINE S == T \union {x}
           old == kSubset(k, T)
           less == kSubset(k - 1, T)
           new == {A \in kSubset(k, S) : x \in A}
           add == [A \in less |-> A \union {x}]
<1>1. IsFiniteSet(S) /\ k - 1 \in Nat /\ \A A \in SUBSET S : IsFiniteSet(A) /\ Cardinality(A) \in Nat
    <2>1. IsFiniteSet(S)
        BY FS_AddElement
    <2> HIDE DEF S
    <2>2. \A A \in SUBSET S : IsFiniteSet(A) /\ Cardinality(A) \in Nat
        BY <2>1, FS_Subset, FS_CardinalityType
    <2> QED BY <2>1, <2>2
<1>2. IsFiniteSet(old) /\ IsFiniteSet(less)
    BY WaysType
<1>3. old \union new = kSubset(k, S) /\ old \intersect new = {}
    BY DEF kSubset
<1>4. add \in Bijection(less, new)
    <2>1. ASSUME NEW A \in less PROVE A \union {x} \in new
        <3>1. A \in SUBSET S /\ x \notin A /\ Cardinality(A) = k - 1
            BY DEF kSubset
        <3>2. Cardinality(A \union {x}) = Cardinality(A) + 1
            BY <1>1, <3>1, FS_AddElement
        <3>3. Cardinality(A \union {x}) = k
            BY <3>1, <3>2
        <3> QED BY <3>1, <3>3 DEF kSubset
    <2>2. ASSUME NEW B \in new PROVE \E A \in less : A \union {x} = B
        <3>1. B \in SUBSET S /\ x \in B /\ Cardinality(B) = k
            BY DEF kSubset
        <3>2. Cardinality(B \ {x}) = Cardinality(B) - 1
            BY <1>1, <3>1, FS_RemoveElement
        <3>3. B \ {x} \in less /\ (B \ {x}) \union {x} = B
            BY <3>1, <3>2 DEF kSubset
        <3> QED BY <3>3
    <2>3. ASSUME NEW A \in less, NEW B \in less, A \union {x} = B \union {x} PROVE A = B
        <3>1. x \notin A /\ x \notin B
            BY DEF kSubset
        <3> QED BY <2>3, <3>1
    <2> HIDE DEF less, new
    <2>4. add \in [less -> new] /\ \A A \in less : add[A] = A \union {x}
        BY <2>1
    <2>5. add \in Injection(less, new)
        BY <2>3, <2>4 DEF Injection, IsInjective
    <2>6. add \in Surjection(less, new)
        BY <2>2, <2>4 DEF Surjection
    <2> QED BY <2>5, <2>6 DEF Bijection
<1> HIDE DEF old, less, new, add, S
<1>5. IsFiniteSet(new) /\ Cardinality(new) = Cardinality(less)
    <2>1. ExistsBijection(less, new)
        BY <1>4 DEF ExistsBijection
    <2> QED BY <1>2, <2>1, FS_Bijection
<1>6. Cardinality(old \union new) = Cardinality(old) + Cardinality(new) - Cardinality(old \intersect new)
    BY <1>2, <1>5, FS_Union
<1>7. Cardinality(old \intersect new) = 0 /\ Cardinality(old) \in Nat /\ Cardinality(less) \in Nat
    BY <1>2, <1>3, FS_EmptySet, FS_CardinalityType
<1>8. Cardinality(kSubset(k, S)) = Cardinality(old) + Cardinality(less)
    <2>1. Cardinality(kSubset(k, S)) = Cardinality(old \union new)
        BY <1>3
    <2> QED BY <1>5, <1>6, <1>7, <2>1
<1> QED BY <1>8 DEF Ways, S, old, less

\* From k - 1 elements to k: each of the subsets grows in as many ways as are left, and
\* each of the new ones is met k times.
Absorbs(k, S) == k * Ways(k, S) = (Cardinality(S) + 1 - k) * Ways(k - 1, S)

\* The numbers in the step of the induction below.
LEMMA AbsorbStep ==
    ASSUME NEW k \in Int, NEW n \in Int, NEW a \in Int, NEW b \in Int, NEW c \in Int,
           k * a = (n + 1 - k) * b, (k - 1) * b = (n + 2 - k) * c
    PROVE  k * (a + b) = (n + 2 - k) * (b + c)
<1>1. k * (a + b) = k * a + k * b
    OBVIOUS
<1>2. (n + 2 - k) * (b + c) = (n + 2 - k) * b + (n + 2 - k) * c
    OBVIOUS
<1>3. (n + 1 - k) * b + k * b = (n + 1) * b
    OBVIOUS
<1>4. (n + 2 - k) * b + (k - 1) * b = (n + 1) * b
    OBVIOUS
<1> QED BY <1>1, <1>2, <1>3, <1>4

\* It holds of every finite set.
LEMMA WaysAbsorb ==
    ASSUME NEW S, IsFiniteSet(S)
    PROVE  \A k \in Nat \ {0} : Absorbs(k, S)
<1> DEFINE D == {T \in SUBSET S : \A k \in Nat \ {0} : Absorbs(k, T)}
<1>1. \A T \in SUBSET S : IsFiniteSet(T) /\ Cardinality(T) \in Nat
    BY FS_Subset, FS_CardinalityType
<1>2. \A T \in SUBSET S : \A k \in Int : Ways(k, T) \in Nat
    BY <1>1, WaysType
<1>3. \A T \in SUBSET S : Ways(0, T) = 1
    <2> TAKE T \in SUBSET S
    <2>1. \A A \in SUBSET T : Cardinality(A) = 0 <=> A = {}
        BY <1>1, FS_EmptySet
    <2>2. kSubset(0, T) = {{}}
        BY <2>1 DEF kSubset
    <2> QED BY <2>2, FS_Singleton DEF Ways
<1>4. ASSUME NEW k \in Nat \ {0} PROVE Ways(k, {}) = 0
    <2>1. kSubset(k, {}) = {}
        BY FS_EmptySet DEF kSubset
    <2> QED BY <2>1, FS_EmptySet DEF Ways
<1>5. ASSUME NEW T \in SUBSET S, \A x \in T : T \ {x} \in D PROVE T \in D
    <2> SUFFICES ASSUME NEW k \in Nat \ {0} PROVE Absorbs(k, T)
        OBVIOUS
    <2>1. CASE T = {}
        <3>1. Ways(k, T) = 0 /\ Cardinality(T) = 0 /\ Ways(k - 1, T) \in Nat
            BY <1>2, <1>4, <2>1, FS_EmptySet
        <3>2. CASE k = 1
            BY <3>1, <3>2 DEF Absorbs
        <3>3. CASE k # 1
            <4>1. Ways(k - 1, T) = 0
                BY <1>4, <2>1, <3>3
            <4> QED BY <3>1, <4>1 DEF Absorbs
        <3> QED BY <3>2, <3>3
    <2>2. CASE T # {}
        <3>1. PICK x \in T : TRUE
            BY <2>2
        <3> DEFINE R == T \ {x}
                   n == Cardinality(R)
        <3>2. R \in D /\ R \in SUBSET S /\ IsFiniteSet(R) /\ x \notin R /\ T = R \union {x} /\ n \in Nat
            BY <1>1, <1>5, <3>1
        <3>3. \A j \in Nat \ {0} : Absorbs(j, R)
            BY <3>2
        <3> HIDE DEF R, D
        <3>4. Cardinality(T) = n + 1
            BY <3>2, FS_AddElement
        <3>5. Ways(k, T) = Ways(k, R) + Ways(k - 1, R)
            BY <3>2, Pascal
        <3>6. Ways(k, R) \in Int /\ Ways(k - 1, R) \in Int /\ Ways(k - 2, R) \in Int
            BY <1>2, <3>2
        <3> HIDE DEF n
        <3>7. k * Ways(k, R) = (n + 1 - k) * Ways(k - 1, R)
            BY <3>3 DEF Absorbs, n
        <3>8. CASE k = 1
            <4>1. Ways(k - 1, R) = 1 /\ Ways(k - 1, T) = 1
                BY <1>3, <3>2, <3>8
            <4> QED BY <3>2, <3>4, <3>5, <3>6, <3>7, <3>8, <4>1 DEF Absorbs
        <3>9. CASE k # 1
            <4>1. k - 1 \in Nat \ {0} /\ (k - 1) - 1 = k - 2
                BY <3>9
            <4>2. Ways(k - 1, T) = Ways(k - 1, R) + Ways(k - 2, R)
                <5>1. Ways(k - 1, T) = Ways(k - 1, R) + Ways((k - 1) - 1, R)
                    BY <3>2, <4>1, Pascal
                <5> QED BY <4>1, <5>1
            <4>3. (k - 1) * Ways(k - 1, R) = (n + 2 - k) * Ways(k - 2, R)
                <5>1. (k - 1) * Ways(k - 1, R) = (n + 1 - (k - 1)) * Ways((k - 1) - 1, R)
                    BY <3>3, <4>1 DEF Absorbs, n
                <5>2. n + 1 - (k - 1) = n + 2 - k
                    BY <3>2
                <5> QED BY <4>1, <5>1, <5>2
            <4>4. k * (Ways(k, R) + Ways(k - 1, R)) = (n + 2 - k) * (Ways(k - 1, R) + Ways(k - 2, R))
                BY <3>2, <3>6, <3>7, <4>3, AbsorbStep
            <4>5. Cardinality(T) + 1 - k = n + 2 - k
                BY <3>2, <3>4
            <4> QED BY <3>5, <4>2, <4>4, <4>5 DEF Absorbs
        <3> QED BY <3>8, <3>9
    <2> QED BY <2>1, <2>2
<1> HIDE DEF D
<1>6. \A T \in SUBSET S : T \in D
    BY <1>5, SubsetInduction
<1> QED BY <1>6 DEF D

\* One more element multiplies the ways by (n + 1) / (n + 1 - k).
LEMMA WaysGrow ==
    ASSUME NEW T, IsFiniteSet(T), NEW x, x \notin T, NEW k \in Nat \ {0}
    PROVE  (Cardinality(T) + 1 - k) * Ways(k, T \union {x}) = (Cardinality(T) + 1) * Ways(k, T)
<1> DEFINE n == Cardinality(T)
           a == Ways(k, T)
           b == Ways(k - 1, T)
<1>1. n \in Int /\ a \in Int /\ b \in Int
    BY WaysType, FS_CardinalityType
<1>2. Ways(k, T \union {x}) = a + b
    BY Pascal
<1>3. k * a = (n + 1 - k) * b
    BY WaysAbsorb DEF Absorbs
<1> HIDE DEF n, a, b
<1>4. (n + 1 - k) * (a + b) = (n + 1 - k) * a + (n + 1 - k) * b
    BY <1>1
<1>5. (n + 1 - k) * a + k * a = (n + 1) * a
    BY <1>1
<1>6. (n + 1 - k) * (a + b) = (n + 1) * a
    BY <1>3, <1>4, <1>5
<1> QED BY <1>2, <1>6 DEF n, a

\* The product that the estimator takes over |U| factors is the share of the subsets of
\* k elements of F and U that keep to F.
KeptTo(F, U, k) ==
    LET m == Cardinality(F)
        r == (m + 1)..(m + Cardinality(U))
    IN  Product(r, k) * Ways(k, F \union U) = Product(r, 0) * Ways(k, F)

\* The factor that one more success adds.
LEMMA FactorOut ==
    ASSUME NEW a \in Nat, NEW b \in Nat \ {0}, NEW k \in Int
    PROVE  /\ Product((a + 1)..(a + b), k) = (a + b - k) * Product((a + 1)..(a + (b - 1)), k)
           /\ Product((a + 1)..(a + (b - 1)), k) \in Int
<1> DEFINE r == (a + 1)..(a + b)
           e == a + b
           rest == (a + 1)..(a + (b - 1))
<1>1. IsFiniteSet(r) /\ r \subseteq Int
    BY FS_Interval
<1>2. e \in r /\ r \ {e} = rest
    OBVIOUS
<1> HIDE DEF r, e, rest
<1>3. Integral(r, k)
    BY <1>1 DEF Integral
<1>4. Product(r, k) = (e - k) * Product(r \ {e}, k) /\ Integral(r \ {e}, k)
    <2>1. \A x \in r : Integral(r \ {x}, k) /\ Product(r, k) = (x - k) * Product(r \ {x}, k)
        BY <1>3, ProductRemove
    <2> QED BY <1>2, <2>1
<1>5. Product(r \ {e}, k) \in Int
    BY <1>4, ProductRemove
<1>6. Product(r, k) = (e - k) * Product(rest, k) /\ Product(rest, k) \in Int
    BY <1>2, <1>4, <1>5
<1> QED BY <1>6 DEF r, e, rest

\* It is that share whatever the failures F and the successes.
LEMMA KeptToAlways ==
    ASSUME NEW F, IsFiniteSet(F), NEW S, IsFiniteSet(S), F \intersect S = {}, NEW k \in Nat \ {0}
    PROVE  KeptTo(F, S, k)
<1> DEFINE m == Cardinality(F)
           D == {U \in SUBSET S : KeptTo(F, U, k)}
<1>1. m \in Nat
    BY FS_CardinalityType
<1>2. \A U \in SUBSET S : IsFiniteSet(U) /\ Cardinality(U) \in Nat
    BY FS_Subset, FS_CardinalityType
<1>3. ASSUME NEW U \in SUBSET S, \A x \in U : U \ {x} \in D PROVE U \in D
    <2>1. CASE U = {}
        <3>1. Cardinality(U) = 0 /\ F \union U = F
            BY <2>1, FS_EmptySet
        <3>2. (m + 1)..(m + Cardinality(U)) = {}
            BY <1>1, <3>1
        <3>3. Integral({}, k) /\ Integral({}, 0)
            BY FS_EmptySet DEF Integral
        <3>4. Product({}, k) = 1 /\ Product({}, 0) = 1
            BY <3>3, ProductRemove
        <3> QED BY <3>1, <3>2, <3>4 DEF KeptTo
    <2>2. CASE U # {}
        <3>1. PICK x \in U : TRUE
            BY <2>2
        <3> DEFINE R == U \ {x}
                   u == Cardinality(U)
                   G == F \union R
                   new == (m + 1)..(m + u)
                   old == (m + 1)..(m + (u - 1))
        <3>2. R \in D /\ R \in SUBSET S /\ Cardinality(R) = u - 1 /\ u \in Nat \ {0}
            <4>1. Cardinality(R) = u - 1 /\ R \in SUBSET S
                BY <1>2, <3>1, FS_RemoveElement
            <4>2. u # 0
                BY <1>2, <2>2, FS_EmptySet
            <4> QED BY <1>2, <1>3, <3>1, <4>1, <4>2
        <3>3. KeptTo(F, R, k)
            BY <3>2
        <3>4. IsFiniteSet(G) /\ x \notin G /\ F \union U = G \union {x}
            <4>1. IsFiniteSet(R)
                BY <1>2, <3>2
            <4> QED BY <3>1, <4>1, FS_Union
        <3>5. Cardinality(G) = m + u - 1
            <4>1. Cardinality(G) = Cardinality(F) + Cardinality(R) - Cardinality(F \intersect R)
                <5>1. IsFiniteSet(R)
                    BY <1>2, <3>2
                <5> HIDE DEF R
                <5> QED BY <5>1, FS_Union
            <4>2. F \intersect R = {}
                BY <3>2
            <4>3. Cardinality(F \intersect R) = 0
                BY <4>2, FS_EmptySet
            <4> HIDE DEF G, R, u
            <4> QED BY <1>1, <3>2, <4>1, <4>3
        <3> HIDE DEF D, R
        <3>6. Product(old, k) * Ways(k, G) = Product(old, 0) * Ways(k, F)
            BY <3>2, <3>3 DEF KeptTo
        <3> HIDE DEF m, u, G
        <3>7. /\ Product(new, k) = (m + u - k) * Product(old, k)
              /\ Product(new, 0) = (m + u - 0) * Product(old, 0)
              /\ Product(old, k) \in Int /\ Product(old, 0) \in Int
            <4>1. \A j \in Int : /\ Product(new, j) = (m + u - j) * Product(old, j)
                                 /\ Product(old, j) \in Int
                BY <1>1, <3>2, FactorOut
            <4>2. k \in Int /\ 0 \in Int
                OBVIOUS
            <4> HIDE DEF new, old
            <4> QED BY <4>1, <4>2
        <3>8. (m + u - k) * Ways(k, G \union {x}) = (m + u) * Ways(k, G)
            <4>1. (Cardinality(G) + 1 - k) * Ways(k, G \union {x}) = (Cardinality(G) + 1) * Ways(k, G)
                BY <3>4, WaysGrow
            <4>2. Cardinality(G) + 1 - k = m + u - k /\ Cardinality(G) + 1 = m + u
                BY <1>1, <3>2, <3>5
            <4> QED BY <4>1, <4>2
        <3>9. Ways(k, G) \in Int /\ Ways(k, F) \in Int /\ Ways(k, G \union {x}) \in Int
            <4>1. IsFiniteSet(G \union {x})
                BY <3>4, FS_AddElement
            <4> QED BY <3>4, <4>1, WaysType
        <3> HIDE DEF new, old
        <3>10. Product(new, k) * Ways(k, G \union {x}) = Product(new, 0) * Ways(k, F)
            <4>1. \A a, b, c \in Int : (a * b) * c = b * (a * c)
                OBVIOUS
            <4>2. m + u - k \in Int /\ m + u - 0 = m + u /\ m + u \in Int
                BY <1>1, <3>2
            <4>3. Product(new, k) * Ways(k, G \union {x})
                      = Product(old, k) * ((m + u - k) * Ways(k, G \union {x}))
                BY <3>7, <3>9, <4>1, <4>2
            <4>4. Product(old, k) * ((m + u) * Ways(k, G)) = (m + u) * (Product(old, k) * Ways(k, G))
                BY <3>7, <3>9, <4>2
            <4>5. (m + u) * (Product(old, 0) * Ways(k, F)) = Product(new, 0) * Ways(k, F)
                BY <3>7, <3>9, <4>2
            <4> QED BY <3>6, <3>8, <4>3, <4>4, <4>5
        <3> QED BY <3>4, <3>10 DEF KeptTo, D, m, u, new
    <2> QED BY <2>1, <2>2
<1> HIDE DEF D
<1>4. \A U \in SUBSET S : U \in D
    BY <1>3, SubsetInduction
<1> QED BY <1>4 DEF D

\* The denominator of the estimate is positive.
LEMMA PositiveProduct ==
    ASSUME NEW S, IsFiniteSet(S), S \subseteq Nat \ {0}
    PROVE  Product(S, 0) \in Nat \ {0}
<1> DEFINE D == {T \in SUBSET S : Product(T, 0) \in Nat \ {0}}
<1>1. \A a, b \in Nat \ {0} : a * b \in Nat \ {0}
    OBVIOUS
<1>2. ASSUME NEW T \in SUBSET S, \A x \in T : T \ {x} \in D PROVE T \in D
    <2>1. Integral(T, 0)
        <3>1. IsFiniteSet(T)
            BY FS_Subset
        <3>2. T \subseteq Int /\ 0 \in Int
            OBVIOUS
        <3> QED BY <3>1, <3>2 DEF Integral
    <2>2. /\ T = {} => Product(T, 0) = 1
          /\ \A x \in T : Product(T, 0) = (x - 0) * Product(T \ {x}, 0)
        BY <2>1, ProductRemove
    <2>3. CASE T = {}
        BY <2>2, <2>3
    <2>4. CASE T # {}
        <3>1. PICK x \in T : TRUE
            BY <2>4
        <3>2. Product(T \ {x}, 0) \in Nat \ {0} /\ x - 0 \in Nat \ {0}
            BY <1>2, <3>1
        <3> QED BY <1>1, <2>2, <3>1, <3>2
    <2> QED BY <2>3, <2>4
<1> HIDE DEF D
<1>3. \A T \in SUBSET S : T \in D
    BY <1>2, SubsetInduction
<1> QED BY <1>3 DEF D

\* A finite set has subsets of every size up to its own.
LEMMA SubsetOfSize ==
    ASSUME NEW S, IsFiniteSet(S), NEW j \in Nat, j <= Cardinality(S)
    PROVE  \E A \in SUBSET S : Cardinality(A) = j
<1> DEFINE D == {T \in SUBSET S : \A i \in Nat : i <= Cardinality(T) =>
                                      \E A \in SUBSET T : Cardinality(A) = i}
<1>1. ASSUME NEW T \in SUBSET S, \A x \in T : T \ {x} \in D PROVE T \in D
    <2> SUFFICES ASSUME NEW i \in Nat, i <= Cardinality(T), i # Cardinality(T)
                 PROVE  \E A \in SUBSET T : Cardinality(A) = i
        OBVIOUS
    <2>1. IsFiniteSet(T) /\ Cardinality(T) \in Nat
        BY FS_Subset, FS_CardinalityType
    <2>2. PICK x \in T : TRUE
        BY <2>1, FS_EmptySet
    <2>3. Cardinality(T \ {x}) = Cardinality(T) - 1
        BY <2>1, FS_RemoveElement
    <2>4. i <= Cardinality(T \ {x}) /\ T \ {x} \in D
        BY <1>1, <2>1, <2>3
    <2>5. PICK A \in SUBSET (T \ {x}) : Cardinality(A) = i
        BY <2>4
    <2> QED BY <2>5
<1> HIDE DEF D
<1>2. \A T \in SUBSET S : T \in D
    BY <1>1, SubsetInduction
<1> QED BY <1>2 DEF D

\* The estimate for any trajectories.
LEMMA EstimateIsShare ==
    ASSUME NEW V, NEW trajs \in Seq(V), NEW k \in Nat \ {0}
    PROVE  /\ EstimatesPassAtK(trajs, k)
           /\ Reported(trajs, k).num \in Int /\ Reported(trajs, k).den \in Int
<1> DEFINE all == DOMAIN trajs
           n == Len(trajs)
           S == Successes(trajs)
           F == all \ S
           c == Cardinality(S)
           m == Cardinality(F)
           attempts == kSubset(k, all)
           none == kSubset(k, F)
           some == {A \in attempts : A \intersect S # {}}
<1>1. IsFiniteSet(all) /\ Cardinality(all) = n /\ n \in Nat
    <2>1. n \in Nat /\ all = 1..n
        OBVIOUS
    <2> QED BY <2>1, FS_Interval
<1>2. S \in SUBSET all
    BY DEF Successes
<1> HIDE DEF all, S, n
<1>3. IsFiniteSet(S) /\ IsFiniteSet(F) /\ c \in Nat /\ m \in Nat
    <2>1. IsFiniteSet(S) /\ IsFiniteSet(F)
        BY <1>1, <1>2, FS_Subset
    <2> HIDE DEF F
    <2> QED BY <2>1, FS_CardinalityType
<1>4. F \union S = all /\ F \intersect S = {}
    BY <1>2
<1> HIDE DEF F
<1>5. n = m + c
    <2>1. Cardinality(F \union S) = m + c - Cardinality(F \intersect S)
        BY <1>3, FS_Union
    <2>2. Cardinality(F \intersect S) = 0
        BY <1>4, FS_EmptySet
    <2>3. Cardinality(F \union S) = n
        BY <1>1, <1>4
    <2> HIDE DEF m, c
    <2> QED BY <1>1, <1>3, <2>1, <2>2, <2>3
<1>6. /\ IsFiniteSet(attempts) /\ Cardinality(attempts) \in Nat
      /\ IsFiniteSet(none) /\ Cardinality(none) \in Nat
    BY <1>1, <1>3, WaysType DEF Ways
<1>7. none \subseteq attempts /\ some = attempts \ none
    BY <1>2, <1>4 DEF kSubset, F
<1> HIDE DEF attempts, none, some
<1>8. Cardinality(some) = Cardinality(attempts) - Cardinality(none) /\ Cardinality(some) \in Int
    <2>1. attempts \intersect none = none
        BY <1>7
    <2>2. Cardinality(attempts \ none) = Cardinality(attempts) - Cardinality(attempts \intersect none)
        BY <1>6, FS_Difference
    <2>3. Cardinality(some) = Cardinality(attempts) - Cardinality(none)
        BY <1>7, <2>1, <2>2
    <2> QED BY <1>6, <2>3
<1> HIDE DEF m, c
<1>9. n - c = m /\ n - c + 1 = m + 1
    BY <1>3, <1>5
<1>10. /\ Equals(PassAtK(n, c, k), Cardinality(some), Cardinality(attempts))
       /\ PassAtK(n, c, k).num \in Int /\ PassAtK(n, c, k).den \in Int
    <2>1. CASE m < k
        <3>1. none = {}
            <4>1. \A A \in SUBSET F : Cardinality(A) <= m
                BY <1>3, FS_Subset DEF m
            <4> QED BY <1>3, <2>1, <4>1 DEF none, kSubset
        <3>2. Cardinality(none) = 0
            BY <3>1, FS_EmptySet
        <3>3. PassAtK(n, c, k) = [num |-> 1, den |-> 1]
            BY <1>9, <2>1 DEF PassAtK
        <3> QED BY <1>6, <1>8, <3>2, <3>3 DEF Equals
    <2>2. CASE ~(m < k)
        <3> DEFINE r == (m + 1)..(m + c)
                   p == Product(r, k)
                   q == Product(r, 0)
                   a == Cardinality(attempts)
                   f == Cardinality(none)
        <3>1. PassAtK(n, c, k) = [num |-> q - p, den |-> q]
            BY <1>3, <1>5, <1>9, <2>2 DEF PassAtK
        <3>2. p * a = q * f
            <4>1. KeptTo(F, S, k)
                BY <1>3, <1>4, KeptToAlways
            <4> QED BY <1>4, <4>1 DEF KeptTo, Ways, m, c, attempts, none
        <3>3. p \in Int /\ q \in Int
            <4>1. IsFiniteSet(r)
                BY <1>3, FS_Interval
            <4>2. r \subseteq Int
                OBVIOUS
            <4> HIDE DEF r
            <4>3. Integral(r, k) /\ Integral(r, 0)
                BY <4>1, <4>2 DEF Integral
            <4> QED BY <4>3, ProductRemove
        <3>4. a \in Int /\ f \in Int /\ Cardinality(some) = a - f
            BY <1>6, <1>8
        <3>6. q > 0
            <4>1. IsFiniteSet(r) /\ r \subseteq Nat \ {0}
                BY <1>3, FS_Interval
            <4> HIDE DEF r
            <4>2. Product(r, 0) \in Nat \ {0}
                BY <4>1, PositiveProduct
            <4> QED BY <4>2
        <3> HIDE DEF p, q, a, f
        <3>5. (q - p) * a = (a - f) * q
            <4>1. (q - p) * a = q * a - p * a /\ (a - f) * q = q * a - q * f
                BY <3>3, <3>4
            <4> QED BY <3>2, <4>1
        <3> QED BY <3>1, <3>3, <3>4, <3>5, <3>6 DEF Equals, a
    <2> QED BY <2>1, <2>2
<1> QED BY <1>10 DEF EstimatesPassAtK, Reported, Attempts, some, attempts, all, n, c, S

\* A task solved and failed, and k > 1: there is a choice of k samples of both kinds, so
\* the estimate exceeds the share of the choices of successes only.
LEMMA EstimateExceeds ==
    ASSUME NEW V, NEW trajs \in Seq(V), NEW k \in Nat \ {0}
    PROVE  ExceedsPassHatK(trajs, k)
<1> DEFINE all == DOMAIN trajs
           S == Successes(trajs)
           attempts == Attempts(trajs, k)
           some == {A \in attempts : A \cap S # {}}
           every == {A \in attempts : A \subseteq S}
           q == Reported(trajs, k)
<1> SUFFICES ASSUME k > 1, k <= Len(trajs), S # {}, S # all
             PROVE  Exceeds(q, Cardinality(every), Cardinality(attempts))
    BY DEF ExceedsPassHatK
<1>1. IsFiniteSet(all) /\ Cardinality(all) = Len(trajs) /\ Len(trajs) \in Nat
    <2>1. Len(trajs) \in Nat /\ all = 1..Len(trajs)
        OBVIOUS
    <2> QED BY <2>1, FS_Interval
<1>2. S \in SUBSET all
    BY DEF Successes
<1>3. Equals(q, Cardinality(some), Cardinality(attempts))
    BY EstimateIsShare DEF EstimatesPassAtK
<1>4. attempts = kSubset(k, all)
    BY DEF Attempts
<1> HIDE DEF all, S, attempts, q
<1>5. IsFiniteSet(attempts) /\ Cardinality(attempts) \in Nat
    BY <1>1, <1>4, WaysType DEF Ways
<1>6. IsFiniteSet(some) /\ IsFiniteSet(every) /\ Cardinality(some) \in Nat /\ Cardinality(every) \in Nat
    BY <1>5, FS_Subset, FS_CardinalityType
<1>7. every \subseteq some
    <2> SUFFICES ASSUME NEW A \in every PROVE A \cap S # {}
        OBVIOUS
    <2>1. Cardinality(A) = k /\ A \subseteq S
        BY <1>4 DEF kSubset
    <2>2. A # {}
        BY <2>1, FS_EmptySet
    <2> QED BY <2>1, <2>2
<1>8. \E A \in some : A \notin every
    <2>1. PICK s \in S, f \in all : f \notin S
        BY <1>2
    <2> DEFINE rest == all \ {s, f}
    <2>2. IsFiniteSet(rest) /\ Cardinality(rest) = Len(trajs) - 2
        <3>1. IsFiniteSet(all \ {s}) /\ Cardinality(all \ {s}) = Len(trajs) - 1
            BY <1>1, <1>2, <2>1, FS_RemoveElement
        <3>2. rest = (all \ {s}) \ {f} /\ f \in all \ {s}
            BY <2>1
        <3> HIDE DEF rest
        <3>3. IsFiniteSet(rest) /\ Cardinality(rest) = Cardinality(all \ {s}) - 1
            BY <3>1, <3>2, FS_RemoveElement
        <3> QED BY <1>1, <3>1, <3>3
    <2> HIDE DEF rest
    <2>3. k - 2 \in Nat /\ k - 2 <= Cardinality(rest)
        BY <1>1, <2>2
    <2>4. PICK B \in SUBSET rest : Cardinality(B) = k - 2
        BY <2>2, <2>3, SubsetOfSize
    <2> DEFINE A == (B \cup {s}) \cup {f}
    <2>5. Cardinality(A) = k
        <3>1. IsFiniteSet(B) /\ s \notin B /\ f \notin B \cup {s}
            BY <2>1, <2>2, <2>4, FS_Subset DEF rest
        <3>2. IsFiniteSet(B \cup {s}) /\ Cardinality(B \cup {s}) = (k - 2) + 1
            BY <2>4, <3>1, FS_AddElement
        <3>3. Cardinality(A) = Cardinality(B \cup {s}) + 1
            BY <3>1, <3>2, FS_AddElement
        <3> QED BY <3>2, <3>3
    <2>6. A \subseteq all /\ A \cap S # {} /\ ~(A \subseteq S)
        BY <1>2, <2>1, <2>4 DEF rest
    <2> HIDE DEF A
    <2>7. A \in attempts
        BY <1>4, <2>5, <2>6 DEF kSubset
    <2> QED BY <2>6, <2>7
<1>9. Cardinality(every) < Cardinality(some)
    <2>1. every # some
        BY <1>8
    <2> HIDE DEF some, every
    <2>2. Cardinality(every) <= Cardinality(some) /\ Cardinality(every) # Cardinality(some)
        BY <1>6, <1>7, <2>1, FS_Subset
    <2> QED BY <1>6, <2>2
<1> HIDE DEF some, every
<1>10. PICK d \in Nat \ {0} : Cardinality(some) = Cardinality(every) + d
    <2> DEFINE d == Cardinality(some) - Cardinality(every)
    <2>1. d \in Nat \ {0} /\ Cardinality(some) = Cardinality(every) + d
        BY <1>6, <1>9
    <2> QED BY <2>1
<1>11. /\ q.num \in Int /\ q.den \in Int /\ q.den > 0
       /\ q.num * Cardinality(attempts) = (Cardinality(every) + d) * q.den
    BY <1>3, <1>10, EstimateIsShare DEF Equals, q
<1>12. (Cardinality(every) + d) * q.den > Cardinality(every) * q.den
    <2>1. \A e, x, y \in Nat : x > 0 /\ y > 0 => (e + x) * y = e * y + x * y /\ x * y > 0 /\ e * y \in Nat
        OBVIOUS
    <2>2. q.den \in Nat
        BY <1>11
    <2> QED BY <1>6, <1>11, <2>1, <2>2
<1> QED BY <1>11, <1>12 DEF Exceeds

\* For any number of samples, of successes and of samples asked for, in any order, the
\* estimate of pass_k_eval.py is the share of the k-subsets of the samples that hold a
\* success: it is pass@k, without bias, and exceeds what pass^k, its documented meaning, is
\* for every task that was both solved and failed, unless k = 1.
THEOREM PassAtKIsUnbiased == Spec => []IsPassAtK
<1>1. Typed => IsPassAtK
    <2> SUFFICES ASSUME Typed, fn = "pass_at_k", NEW k \in Ks
                 PROVE  EstimatesPassAtK(input, k) /\ ExceedsPassHatK(input, k)
        BY DEF IsPassAtK
    <2>1. input \in Seq(Inputs["pass_at_k"])
        BY DEF Typed
    <2>2. k \in Nat \ {0}
        BY ComputationsAssumption DEF ComputationsAssumption
    <2> QED BY <2>1, <2>2, EstimateIsShare, EstimateExceeds
<1> QED BY <1>1, TypedAlways, PTL
=============================================================================
