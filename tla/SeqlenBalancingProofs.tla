------------------------ MODULE SeqlenBalancingProofs ------------------------
(***************************************************************************)
(* What SeqlenBalancing promises, for batches of any number of samples of  *)
(* any lengths: sorting and the differencing method keep every item, and   *)
(* what they say of the work is true.                                      *)
(***************************************************************************)
EXTENDS ComputationsProofs

-----------------------------------------------------------------------------
(* sorted().                                                               *)

\* before compares elements by a key.
Weak(before, n) ==
    /\ \A i, j \in 1..n : <<i, j>> \in before => <<j, i>> \notin before
    /\ \A i, j, k \in 1..n : <<i, k>> \in before => <<i, j>> \in before \/ <<j, k>> \in before

\* p rearranges n elements.
Permutes(p, n) ==
    /\ p \in [1..n -> 1..n]
    /\ \A q, r \in 1..n : p[q] = p[r] => q = r
    /\ \A i \in 1..n : \E r \in 1..n : p[r] = i

\* Equal elements stay as they are.
Precedence(before, n) ==
    {p \in (1..n) \X (1..n) : p \in before \/ (<<p[2], p[1]>> \notin before /\ p[1] < p[2])}

\* Order lists the places as before says.
LEMMA OrderSorts ==
    ASSUME NEW n \in Nat, NEW before, Weak(before, n)
    PROVE  /\ Permutes(Order(n, before), n)
           /\ \A q, r \in 1..n : q < r => <<Order(n, before)[r], Order(n, before)[q]>> \notin before
<1> DEFINE R == Precedence(before, n)
           p == Order(n, before)
           c(i) == Cardinality(Below(R, n, i))
<1>1. \A i, j \in 1..n : <<i, j>> \in R <=> (<<i, j>> \in before \/ (<<j, i>> \notin before /\ i < j))
    BY DEF Precedence
<1>2. Orders(R, 1..n)
    <2> HIDE DEF R
    <2>1. \A x \in 1..n : <<x, x>> \notin R
        BY <1>1 DEF Weak
    <2>2. ASSUME NEW x \in 1..n, NEW y \in 1..n, NEW z \in 1..n, <<x, y>> \in R, <<y, z>> \in R
          PROVE  <<x, z>> \in R
        <3>1. \/ <<x, y>> \in before
              \/ <<y, x>> \notin before /\ x < y
            BY <1>1, <2>2
        <3>2. \/ <<y, z>> \in before
              \/ <<z, y>> \notin before /\ y < z
            BY <1>1, <2>2
        <3>3. <<z, x>> \in before => <<z, y>> \in before \/ <<y, x>> \in before
            BY DEF Weak
        <3>4. <<z, y>> \in before => <<y, z>> \notin before
            BY DEF Weak
        <3>5. <<x, y>> \in before => <<x, z>> \in before \/ <<z, y>> \in before
            BY DEF Weak
        <3>6. <<y, z>> \in before => <<y, x>> \in before \/ <<x, z>> \in before
            BY DEF Weak
        <3>7. <<x, y>> \in before => <<y, x>> \notin before
            BY DEF Weak
        <3> QED BY <1>1, <3>1, <3>2, <3>3, <3>4, <3>5, <3>6, <3>7
    <2>3. ASSUME NEW x \in 1..n, NEW y \in 1..n, x # y PROVE <<x, y>> \in R \/ <<y, x>> \in R
        <3>1. x < y \/ y < x
            BY <2>3
        <3>2. <<x, y>> \in R <=> (<<x, y>> \in before \/ (<<y, x>> \notin before /\ x < y))
            BY <1>1
        <3>3. <<y, x>> \in R <=> (<<y, x>> \in before \/ (<<x, y>> \notin before /\ y < x))
            BY <1>1
        <3> QED BY <3>1, <3>2, <3>3
    <2> QED BY <2>1, <2>2, <2>3 DEF Orders
<1>3. p = [r \in 1..n |-> CHOOSE i \in 1..n : c(i) = r - 1]
    <2> DEFINE B(i) == {j \in 1..n : <<j, i>> \in before \/ (<<i, j>> \notin before /\ j < i)}
    <2>1. \A i \in 1..n : Below(R, n, i) = B(i)
        BY <1>1 DEF Below
    <2> DEFINE b(r) == CHOOSE i \in 1..n : Cardinality(B(i)) = r - 1
               d(r) == CHOOSE i \in 1..n : c(i) = r - 1
    <2>2. p = [r \in 1..n |-> b(r)]
        BY DEF Order
    <2> HIDE DEF R, p, B
    <2>3. \A r \in 1..n : b(r) = d(r)
        BY <2>1
    <2>4. ASSUME \A r \in 1..n : b(r) = d(r) PROVE [r \in 1..n |-> b(r)] = [r \in 1..n |-> d(r)]
        <3> HIDE DEF b, d
        <3> QED BY <2>4
    <2> QED BY <2>2, <2>3, <2>4
<1>4. /\ \A i, j \in 1..n : <<i, j>> \in R => c(i) < c(j)
      /\ \A i \in 1..n : c(i) \in 0..n - 1
      /\ \A r \in 1..n : \E i \in 1..n : c(i) = r - 1
    <2> HIDE DEF R
    <2> QED BY <1>2, Ranking
<1> HIDE DEF p, R, c
<1>5. \A r \in 1..n : p[r] \in 1..n /\ c(p[r]) = r - 1
    BY <1>3, <1>4
<1>6. \A i, j \in 1..n : c(i) = c(j) => i = j
    <2> SUFFICES ASSUME NEW i \in 1..n, NEW j \in 1..n, c(i) = c(j), i # j PROVE FALSE
        OBVIOUS
    <2>1. <<i, j>> \in R \/ <<j, i>> \in R
        BY <1>2 DEF Orders
    <2> QED BY <1>4, <2>1
<1>7. p \in [1..n -> 1..n]
    BY <1>3, <1>5
<1>8. \A q, r \in 1..n : p[q] = p[r] => q = r
    BY <1>5
<1>9. ASSUME NEW i \in 1..n PROVE \E r \in 1..n : p[r] = i
    <2>1. c(i) + 1 \in 1..n
        BY <1>4
    <2>2. c(p[c(i) + 1]) = c(i) /\ p[c(i) + 1] \in 1..n
        BY <1>4, <1>5, <2>1
    <2> QED BY <1>6, <2>1, <2>2
<1>10. ASSUME NEW q \in 1..n, NEW r \in 1..n, q < r PROVE <<p[r], p[q]>> \notin before
    <2>1. p[q] \in 1..n /\ p[r] \in 1..n /\ c(p[q]) < c(p[r])
        BY <1>5, <1>10
    <2>2. <<p[r], p[q]>> \notin R
        BY <1>4, <2>1
    <2> QED BY <1>1, <2>1, <2>2
<1> QED BY <1>7, <1>8, <1>9, <1>10 DEF Permutes, p

\* So does Arranged with the elements.
LEMMA Arranges ==
    ASSUME NEW V, NEW s \in Seq(V), NEW before, Weak(before, Len(s))
    PROVE  \E p : /\ Permutes(p, Len(s))
                  /\ Arranged(s, before) = [r \in 1..Len(s) |-> s[p[r]]]
                  /\ \A q, r \in 1..Len(s) : q < r => <<p[r], p[q]>> \notin before
                  /\ p = Order(Len(s), before)
<1> DEFINE p == Order(Len(s), before)
           a == [r \in 1..Len(s) |-> s[p[r]]]
<1>1. Len(s) \in Nat
    OBVIOUS
<1>2. /\ Permutes(p, Len(s))
      /\ \A q, r \in 1..Len(s) : q < r => <<p[r], p[q]>> \notin before
    BY <1>1, OrderSorts
<1> HIDE DEF p
<1>3. a \in Seq(V)
    <2>1. \A r \in 1..Len(s) : p[r] \in 1..Len(s) /\ s[p[r]] \in V
        BY <1>2 DEF Permutes
    <2> QED BY <1>1, <2>1
<1>4. Arranged(s, before) = a \o <<>>
    BY DEF Arranged, p
<1> HIDE DEF a
<1>5. Arranged(s, before) = a
    BY <1>3, <1>4, ConcatEmptySeq
<1> QED BY <1>2, <1>5 DEF a, p

-----------------------------------------------------------------------------
(* Lists without repetition, and sums over them.                           *)

\* The elements of a sequence.
Held(q) == {q[i] : i \in 1..Len(q)}

\* No two places hold the same.
Distinct(q) == \A i, j \in 1..Len(q) : q[i] = q[j] => i = j

\* q has every element of A once.
Lists(q, A) == q \in Seq(A) /\ Distinct(q) /\ Held(q) = A

\* A list has as many places as elements.
LEMMA ListLength ==
    ASSUME NEW A, NEW q, Lists(q, A)
    PROVE  IsFiniteSet(A) /\ Cardinality(A) = Len(q) /\ Len(q) \in Nat
<1> DEFINE n == Len(q)
<1>1. n \in Nat /\ q \in [1..n -> A] /\ \A a \in A : \E i \in 1..n : q[i] = a
    BY DEF Lists, Held
<1>2. \A i, j \in 1..n : q[i] = q[j] => i = j
    BY DEF Lists, Distinct
<1> HIDE DEF n
<1>3. q \in Bijection(1..n, A)
    BY <1>1, <1>2 DEF Bijection, Injection, Surjection, IsInjective
<1>4. ExistsBijection(1..n, A)
    BY <1>3 DEF ExistsBijection
<1>5. Cardinality(A) = n
    BY <1>1, <1>4, FS_CountingElements
<1>6. IsFiniteSet(A)
    BY <1>1, <1>4, FS_NatBijection
<1> QED BY <1>1, <1>5, <1>6 DEF n

\* The same elements at other places.
Rearranges(t, s) ==
    \E p : Permutes(p, Len(s)) /\ t = [r \in 1..Len(s) |-> s[p[r]]]

\* What is rearranged lists the same elements.
LEMMA RearrangedHeld ==
    ASSUME NEW V, NEW s \in Seq(V), NEW t, Rearranges(t, s)
    PROVE  /\ t \in Seq(V) /\ Len(t) = Len(s) /\ Held(t) = Held(s)
           /\ Distinct(s) => Distinct(t)
<1> DEFINE n == Len(s)
<1>1. n \in Nat /\ \A i \in 1..n : s[i] \in V
    OBVIOUS
<1>2. PICK p : Permutes(p, n) /\ t = [r \in 1..n |-> s[p[r]]]
    BY DEF Rearranges
<1>3. /\ \A r \in 1..n : p[r] \in 1..n
      /\ \A q, r \in 1..n : p[q] = p[r] => q = r
      /\ \A i \in 1..n : \E r \in 1..n : p[r] = i
    BY <1>2 DEF Permutes
<1> HIDE DEF n
<1>4. t \in Seq(V) /\ Len(t) = n
    BY <1>1, <1>2, <1>3
<1>5. \A r \in 1..n : t[r] = s[p[r]]
    BY <1>2
<1>6. Held(t) = Held(s)
    <2>1. \A i \in 1..n : \E r \in 1..n : t[r] = s[i]
        BY <1>3, <1>5
    <2>2. \A r \in 1..n : \E i \in 1..n : s[i] = t[r]
        BY <1>3, <1>5
    <2> DEFINE X == {t[r] : r \in 1..n}
               Y == {s[i] : i \in 1..n}
    <2>3. \A x \in X : x \in Y
        BY <2>2
    <2>4. \A y \in Y : y \in X
        BY <2>1
    <2>5. X = Y
        BY <2>3, <2>4
    <2> QED BY <1>4, <2>5 DEF Held, n
<1>7. ASSUME Distinct(s) PROVE Distinct(t)
    <2> SUFFICES ASSUME NEW i \in 1..n, NEW j \in 1..n, t[i] = t[j] PROVE i = j
        BY <1>4 DEF Distinct
    <2>1. s[p[i]] = s[p[j]] /\ p[i] \in 1..n /\ p[j] \in 1..n
        BY <1>3, <1>5
    <2>2. p[i] = p[j]
        BY <1>7, <2>1 DEF Distinct, n
    <2> QED BY <1>3, <2>2
<1> QED BY <1>4, <1>6, <1>7 DEF n

\* A rearranged list of A's members is one, too.
LEMMA RearrangedLists ==
    ASSUME NEW A, NEW s, Lists(s, A), NEW t, Rearranges(t, s)
    PROVE  Lists(t, A)
BY RearrangedHeld DEF Lists

\* Two lists that share nothing make one.
LEMMA JoinedLists ==
    ASSUME NEW A, NEW B, NEW a, NEW b, Lists(a, A), Lists(b, B), A \cap B = {}
    PROVE  Lists(a \o b, A \union B)
<1> DEFINE m == Len(a)
           n == Len(b)
           c == a \o b
<1>1. /\ m \in Nat /\ n \in Nat /\ \A i \in 1..m : a[i] \in A
      /\ \A i \in 1..n : b[i] \in B
    BY DEF Lists
<1>2. /\ c \in Seq(A \union B) /\ Len(c) = m + n
      /\ \A i \in 1..m + n : c[i] = IF i <= m THEN a[i] ELSE b[i - m]
    <2>1. a \in Seq(A \union B) /\ b \in Seq(A \union B)
        BY DEF Lists
    <2> QED BY <2>1, ConcatProperties
<1>3. (\A i, j \in 1..m : a[i] = a[j] => i = j) /\ (\A i, j \in 1..n : b[i] = b[j] => i = j)
    BY DEF Lists, Distinct
<1>4. (\A x \in A : \E i \in 1..m : a[i] = x) /\ (\A x \in B : \E i \in 1..n : b[i] = x)
    BY DEF Lists, Held
<1> HIDE DEF m, n, c
<1>5. \A i \in 1..m + n : i \in 1..m \/ (i > m /\ i - m \in 1..n)
    BY <1>1
<1>6. \A i \in 1..m : i \in 1..m + n /\ c[i] = a[i]
    BY <1>1, <1>2
<1>7. \A i \in 1..n : m + i \in 1..m + n /\ c[m + i] = b[i]
    <2> TAKE i \in 1..n
    <2>1. m + i \in 1..m + n /\ ~(m + i <= m) /\ (m + i) - m = i
        BY <1>1
    <2> QED BY <1>2, <2>1
<1>8. Distinct(c)
    <2> SUFFICES ASSUME NEW i \in 1..m + n, NEW j \in 1..m + n, c[i] = c[j] PROVE i = j
        BY <1>2 DEF Distinct
    <2>1. CASE i \in 1..m /\ j \in 1..m
        BY <1>3, <1>6, <2>1
    <2>2. CASE i > m /\ i - m \in 1..n /\ j > m /\ j - m \in 1..n
        <3>1. c[i] = b[i - m] /\ c[j] = b[j - m]
            BY <1>1, <1>2, <2>2
        <3>2. i - m = j - m
            BY <1>3, <2>2, <3>1
        <3> QED BY <1>1, <3>2
    <2>3. CASE i \in 1..m /\ j > m /\ j - m \in 1..n
        <3>1. c[i] \in A /\ c[j] \in B
            BY <1>1, <1>2, <1>6, <2>3
        <3> QED BY <3>1
    <2>4. CASE j \in 1..m /\ i > m /\ i - m \in 1..n
        <3>1. c[j] \in A /\ c[i] \in B
            BY <1>1, <1>2, <1>6, <2>4
        <3> QED BY <3>1
    <2> QED BY <1>5, <2>1, <2>2, <2>3, <2>4
<1>9. Held(c) = A \union B
    <2>1. \A x \in A : \E i \in 1..m + n : c[i] = x
        BY <1>4, <1>6
    <2>2. \A x \in B : \E i \in 1..m + n : c[i] = x
        BY <1>4, <1>7
    <2>3. \A i \in 1..m + n : c[i] \in A \union B
        BY <1>2
    <2> QED BY <1>2, <2>1, <2>2, <2>3 DEF Held
<1> QED BY <1>2, <1>8, <1>9 DEF Lists, c

\* Sums over sets that share nothing add up.
LEMMA SumUnion ==
    ASSUME NEW S, NEW T, NEW f, Summable(S, f), Summable(T, f), S \cap T = {}
    PROVE  Summable(S \union T, f) /\ SumOver(S \union T, f) = SumOver(S, f) + SumOver(T, f)
<1>1. IsFiniteSet(S) /\ IsFiniteSet(T) /\ \A x \in S \union T : f[x] \in Int
    BY DEF Summable
<1>2. IsFiniteSet(S \union T)
    BY <1>1, FS_Union
<1>3. Summable(S \union T, f)
    BY <1>1, <1>2 DEF Summable
<1>4. \A U \in SUBSET S : Summable(U, f) /\ Summable(U \union T, f)
    <2> TAKE U \in SUBSET S
    <2>1. IsFiniteSet(U) /\ U \union T \in SUBSET (S \union T)
        BY <1>1, FS_Subset
    <2>2. IsFiniteSet(U \union T)
        BY <1>2, <2>1, FS_Subset
    <2> QED BY <1>1, <2>1, <2>2 DEF Summable
<1> DEFINE D == {U \in SUBSET S : SumOver(U \union T, f) = SumOver(U, f) + SumOver(T, f)}
<1>5. SumOver(T, f) \in Int
    BY SumRemove
<1>6. ASSUME NEW U \in SUBSET S, \A x \in U : U \ {x} \in D PROVE U \in D
    <2>1. CASE U = {}
        <3>1. U \union T = T
            BY <2>1
        <3>2. SumOver(U, f) = 0
            <4>1. Summable(U, f)
                BY <1>4
            <4> QED BY <2>1, <4>1, SumRemove
        <3>3. SumOver(U \union T, f) = SumOver(T, f)
            BY <3>1
        <3>4. SumOver(U \union T, f) = SumOver(U, f) + SumOver(T, f)
            <4> DEFINE b == SumOver(T, f)
                       c == SumOver(U \union T, f)
            <4>1. c = b /\ b \in Int
                BY <1>5, <3>3
            <4> HIDE DEF b, c
            <4>2. c = 0 + b
                BY <4>1
            <4> QED BY <3>2, <4>2 DEF b, c
        <3> QED BY <3>4
    <2>2. CASE U # {}
        <3>1. PICK x \in U : TRUE
            BY <2>2
        <3>2. SumOver(U, f) = f[x] + SumOver(U \ {x}, f)
            BY <1>4, SumRemove
        <3>3. SumOver(U \union T, f) = f[x] + SumOver((U \union T) \ {x}, f)
            <4>1. x \in U \union T /\ Summable(U \union T, f)
                BY <1>4
            <4> QED BY <4>1, SumRemove
        <3>4. (U \union T) \ {x} = (U \ {x}) \union T
            OBVIOUS
        <3>5. SumOver((U \ {x}) \union T, f) = SumOver(U \ {x}, f) + SumOver(T, f)
            BY <1>6
        <3>6. f[x] \in Int /\ SumOver(U \ {x}, f) \in Int
            BY <1>1, <1>4, SumRemove
        <3> DEFINE a == SumOver(U \ {x}, f)
                   b == SumOver(T, f)
                   c == SumOver(U \union T, f)
        <3>7. c = f[x] + (a + b) /\ SumOver(U, f) = f[x] + a /\ a \in Int /\ b \in Int /\ f[x] \in Int
            BY <1>5, <3>2, <3>3, <3>4, <3>5, <3>6
        <3> HIDE DEF a, b, c
        <3>8. c = SumOver(U, f) + b
            BY <3>7
        <3> QED BY <3>8 DEF b, c
    <2> QED BY <2>1, <2>2
<1> HIDE DEF D
<1>7. \A U \in SUBSET S : U \in D
    BY <1>1, <1>6, SubsetInduction
<1> QED BY <1>3, <1>7 DEF D

\* A sum over the places of a list is one over its elements.
LEMMA SumListed ==
    ASSUME NEW S, IsFiniteSet(S), NEW p, \A x, y \in S : p[x] = p[y] => x = y,
           NEW g, NEW f, \A x \in S : g[x] = f[p[x]] /\ f[p[x]] \in Int
    PROVE  SumOver(S, g) = SumOver({p[x] : x \in S}, f)
<1> DEFINE I(T) == {p[x] : x \in T}
           D == {T \in SUBSET S : Summable(I(T), f) /\ SumOver(T, g) = SumOver(I(T), f)}
<1>1. \A T \in SUBSET S : Summable(T, g)
    BY FS_Subset DEF Summable
<1>2. ASSUME NEW T \in SUBSET S, \A x \in T : T \ {x} \in D PROVE T \in D
    <2>1. CASE T = {}
        <3>1. I(T) = {} /\ IsFiniteSet({})
            BY <2>1, FS_EmptySet
        <3> HIDE DEF I
        <3>2. Summable(I(T), f)
            BY <3>1 DEF Summable
        <3>3. SumOver(T, g) = 0 /\ SumOver(I(T), f) = 0
            BY <1>1, <2>1, <3>1, <3>2, SumRemove
        <3> QED BY <3>2, <3>3
    <2>2. CASE T # {}
        <3>1. PICK x \in T : TRUE
            BY <2>2
        <3>2. T \ {x} \in D
            BY <1>2
        <3>3. I(T \ {x}) = I(T) \ {p[x]} /\ p[x] \in I(T)
            <4>1. \A y \in T : p[y] = p[x] => y = x
                OBVIOUS
            <4> QED BY <4>1
        <3>4. I(T) = I(T \ {x}) \union {p[x]}
            BY <3>3
        <3>9. \A y \in I(T) : f[y] \in Int
            OBVIOUS
        <3> HIDE DEF I
        <3>5. Summable(I(T \ {x}), f) /\ SumOver(T \ {x}, g) = SumOver(I(T \ {x}), f)
            BY <3>2
        <3>6. Summable(I(T), f)
            <4>1. IsFiniteSet(I(T \ {x}))
                BY <3>5 DEF Summable
            <4> DEFINE R == I(T \ {x})
            <4>3. IsFiniteSet(R \union {p[x]})
                <5> HIDE DEF R
                <5> QED BY <4>1, FS_AddElement DEF R
            <4>2. IsFiniteSet(I(T))
                BY <3>4, <4>3
            <4> QED BY <3>9, <4>2 DEF Summable
        <3>7. SumOver(I(T), f) = f[p[x]] + SumOver(I(T) \ {p[x]}, f)
            BY <3>3, <3>6, SumRemove
        <3>8. SumOver(T, g) = g[x] + SumOver(T \ {x}, g)
            BY <1>1, SumRemove
        <3> QED BY <3>3, <3>5, <3>6, <3>7, <3>8
    <2> QED BY <2>1, <2>2
<1> HIDE DEF D, I
<1>3. \A T \in SUBSET S : T \in D
    BY <1>2, SubsetInduction
<1> QED BY <1>3 DEF D, I

\* A sum of positive numbers is not negative, and positive if there is one.
LEMMA SumPositive ==
    ASSUME NEW S, IsFiniteSet(S), NEW f, \A x \in S : f[x] \in Nat \ {0}
    PROVE  SumOver(S, f) \in Nat /\ (S # {} => SumOver(S, f) > 0)
<1> DEFINE D == {T \in SUBSET S : SumOver(T, f) \in Nat /\ (T # {} => SumOver(T, f) > 0)}
<1>1. \A T \in SUBSET S : Summable(T, f)
    BY FS_Subset DEF Summable
<1>2. ASSUME NEW T \in SUBSET S, \A x \in T : T \ {x} \in D PROVE T \in D
    <2>1. CASE T = {}
        BY <1>1, <2>1, SumRemove
    <2>2. CASE T # {}
        <3>1. PICK x \in T : TRUE
            BY <2>2
        <3>2. SumOver(T, f) = f[x] + SumOver(T \ {x}, f)
            BY <1>1, SumRemove
        <3>3. SumOver(T \ {x}, f) \in Nat /\ f[x] \in Nat \ {0}
            BY <1>2
        <3>4. SumOver(T, f) \in Nat /\ SumOver(T, f) > 0
            BY <3>2, <3>3
        <3> QED BY <3>4
    <2> QED BY <2>1, <2>2
<1> HIDE DEF D
<1>3. \A T \in SUBSET S : T \in D
    BY <1>2, SubsetInduction
<1> QED BY <1>3 DEF D

\* Total is a sum over the places.
LEMMA TotalSums == ASSUME NEW q PROVE Total(q) = SumOver(DOMAIN q, q)
BY DEF Total, SumOver

\* The work of a list is the sum over what it lists.
LEMMA WorkListed ==
    ASSUME NEW A, NEW q, Lists(q, A), NEW f, \A x \in A : f[x] \in Int
    PROVE  Work(q, f) = SumOver(A, f)
<1> DEFINE g == [i \in DOMAIN q |-> f[q[i]]]
<1>1. DOMAIN q = 1..Len(q) /\ Len(q) \in Nat /\ \A i \in 1..Len(q) : q[i] \in A
    BY DEF Lists
<1>2. IsFiniteSet(1..Len(q))
    BY <1>1, FS_Interval
<1>3. Work(q, f) = SumOver(1..Len(q), g)
    <2>1. DOMAIN g = 1..Len(q)
        BY <1>1
    <2> QED BY <2>1, TotalSums DEF Work
<1>4. \A i \in 1..Len(q) : g[i] = f[q[i]] /\ f[q[i]] \in Int
    BY <1>1
<1>5. \A i, j \in 1..Len(q) : q[i] = q[j] => i = j
    BY DEF Lists, Distinct
<1> HIDE DEF g
<1> DEFINE X == 1..Len(q)
<1>7. /\ IsFiniteSet(X) /\ \A x, y \in X : q[x] = q[y] => x = y
      /\ \A x \in X : g[x] = f[q[x]] /\ f[q[x]] \in Int
    BY <1>2, <1>4, <1>5
<1> HIDE DEF X
<1>8. SumOver(X, g) = SumOver({q[x] : x \in X}, f)
    BY <1>7, SumListed
<1>6. SumOver(1..Len(q), g) = SumOver({q[i] : i \in 1..Len(q)}, f)
    BY <1>8 DEF X
<1> QED BY <1>3, <1>6 DEF Lists, Held

-----------------------------------------------------------------------------
(* Every second element forwards and the others backwards.                 *)

\* The places of a sequence, even ones first, are places of it.
LEMMA EvenThenOdd ==
    ASSUME NEW V, NEW s \in Seq(V)
    PROVE  Rearranges(EvenPlaces(s) \o Reverse(OddPlaces(s)), s)
<1> DEFINE n == Len(s)
           m == (n + 1) \div 2
           h == n \div 2
           a == EvenPlaces(s)
           b == Reverse(OddPlaces(s))
           p == [r \in 1..n |-> IF r <= m THEN 2 * r - 1 ELSE 2 * (n - r + 1)]
<1>1. /\ n \in Nat /\ m \in Nat /\ h \in Nat /\ m + h = n /\ 2 * m >= n /\ 2 * m <= n + 1
      /\ \A i \in 1..n : s[i] \in V
    OBVIOUS
<1> HIDE DEF n, m, h
<1>2. a = [i \in 1..m |-> s[2 * i - 1]]
    BY DEF EvenPlaces, m, n
<1>3. b = [j \in 1..h |-> s[2 * (h - j + 1)]]
    <2>1. OddPlaces(s) = [i \in 1..h |-> s[2 * i]]
        BY DEF OddPlaces, h, n
    <2>2. Len(OddPlaces(s)) = h
        BY <1>1, <2>1
    <2>3. \A j \in 1..h : h - j + 1 \in 1..h
        BY <1>1
    <2>4. \A j \in 1..h : OddPlaces(s)[h - j + 1] = s[2 * (h - j + 1)]
        BY <2>1, <2>3
    <2>5. b = [j \in 1..h |-> OddPlaces(s)[(h - j) + 1]]
        BY <2>2 DEF Reverse
    <2> QED BY <2>4, <2>5
<1>4. a \in Seq(V) /\ Len(a) = m
    <2>1. \A i \in 1..m : 2 * i - 1 \in 1..n
        BY <1>1
    <2> QED BY <1>1, <1>2, <2>1
<1>5. b \in Seq(V) /\ Len(b) = h
    <2>1. \A j \in 1..h : 2 * (h - j + 1) \in 1..n
        BY <1>1
    <2> QED BY <1>1, <1>3, <2>1
<1>6. \A i \in 1..m : a[i] = s[2 * i - 1]
    BY <1>2
<1>7. \A j \in 1..h : b[j] = s[2 * (h - j + 1)]
    BY <1>3
<1> HIDE DEF a, b
<1>8. /\ a \o b \in Seq(V) /\ Len(a \o b) = n
      /\ \A r \in 1..n : (a \o b)[r] = IF r <= m THEN a[r] ELSE b[r - m]
    BY <1>1, <1>4, <1>5, ConcatProperties
<1>9. \A r \in 1..n : p[r] \in 1..n /\ p[r] = IF r <= m THEN 2 * r - 1 ELSE 2 * (n - r + 1)
    BY <1>1
<1>10. p \in [1..n -> 1..n]
    BY <1>9
<1> HIDE DEF p
<1>11. \A q, r \in 1..n : p[q] = p[r] => q = r
    BY <1>1, <1>9
<1>12. ASSUME NEW i \in 1..n PROVE \E r \in 1..n : p[r] = i
    <2>1. PICK k \in Nat : i = 2 * k \/ i = 2 * k + 1
        <3>1. i \div 2 \in Nat /\ (i = 2 * (i \div 2) \/ i = 2 * (i \div 2) + 1)
            OBVIOUS
        <3> QED BY <3>1
    <2>2. CASE i = 2 * k + 1
        <3>1. k + 1 \in 1..n /\ k + 1 <= m
            BY <1>1, <2>2
        <3>2. p[k + 1] = 2 * (k + 1) - 1
            BY <1>9, <3>1
        <3> QED BY <2>2, <3>1, <3>2
    <2>3. CASE i = 2 * k
        <3>1. n - k + 1 \in 1..n /\ ~(n - k + 1 <= m)
            BY <1>1, <2>3
        <3>2. p[n - k + 1] = 2 * (n - (n - k + 1) + 1)
            BY <1>9, <3>1
        <3>3. n - (n - k + 1) + 1 = k
            BY <1>1
        <3> QED BY <2>3, <3>1, <3>2, <3>3
    <2> QED BY <2>1, <2>2, <2>3
<1>13. \A r \in 1..n : (a \o b)[r] = s[p[r]]
    <2> TAKE r \in 1..n
    <2>1. CASE r <= m
        BY <1>1, <1>6, <1>8, <1>9, <2>1
    <2>2. CASE ~(r <= m)
        <3>1. r - m \in 1..h /\ h - (r - m) + 1 = n - r + 1
            BY <1>1, <2>2
        <3>2. b[r - m] = s[2 * (h - (r - m) + 1)]
            BY <1>7, <3>1
        <3> QED BY <1>8, <1>9, <2>2, <3>1, <3>2
    <2> QED BY <2>1, <2>2
<1>14. a \o b = [r \in 1..n |-> s[p[r]]]
    <2> DEFINE c == a \o b
    <2>1. c \in Seq(V) /\ Len(c) = n /\ \A r \in 1..n : c[r] = s[p[r]]
        BY <1>8, <1>13
    <2> HIDE DEF c
    <2>2. c = [r \in 1..n |-> c[r]]
        BY <2>1
    <2>3. c = [r \in 1..n |-> s[p[r]]]
        BY <2>1, <2>2
    <2> QED BY <2>3 DEF c
<1>15. Permutes(p, n)
    BY <1>10, <1>11, <1>12 DEF Permutes
<1> QED BY <1>14, <1>15 DEF Rearranges, a, b, n

\* So are they the other way round.
LEMMA EvenBeforeOdd ==
    ASSUME NEW V, NEW s \in Seq(V)
    PROVE  Rearranges(Reverse(EvenPlaces(s)) \o OddPlaces(s), s)
<1> DEFINE n == Len(s)
           m == (n + 1) \div 2
           h == n \div 2
           a == Reverse(EvenPlaces(s))
           b == OddPlaces(s)
           p == [r \in 1..n |-> IF r <= m THEN 2 * (m - r + 1) - 1 ELSE 2 * (r - m)]
<1>1. /\ n \in Nat /\ m \in Nat /\ h \in Nat /\ m + h = n /\ 2 * m >= n /\ 2 * m <= n + 1
      /\ \A i \in 1..n : s[i] \in V
    OBVIOUS
<1> HIDE DEF n, m, h
<1>2. b = [i \in 1..h |-> s[2 * i]]
    BY DEF OddPlaces, h, n
<1>3. a = [j \in 1..m |-> s[2 * (m - j + 1) - 1]]
    <2>1. EvenPlaces(s) = [i \in 1..m |-> s[2 * i - 1]]
        BY DEF EvenPlaces, m, n
    <2>2. Len(EvenPlaces(s)) = m
        BY <1>1, <2>1
    <2>3. \A j \in 1..m : m - j + 1 \in 1..m
        BY <1>1
    <2>4. \A j \in 1..m : EvenPlaces(s)[m - j + 1] = s[2 * (m - j + 1) - 1]
        BY <2>1, <2>3
    <2>5. a = [j \in 1..m |-> EvenPlaces(s)[(m - j) + 1]]
        BY <2>2 DEF Reverse
    <2> QED BY <2>4, <2>5
<1>4. a \in Seq(V) /\ Len(a) = m
    <2>1. \A j \in 1..m : 2 * (m - j + 1) - 1 \in 1..n
        BY <1>1
    <2> QED BY <1>1, <1>3, <2>1
<1>5. b \in Seq(V) /\ Len(b) = h
    <2>1. \A i \in 1..h : 2 * i \in 1..n
        BY <1>1
    <2> QED BY <1>1, <1>2, <2>1
<1>6. \A j \in 1..m : a[j] = s[2 * (m - j + 1) - 1]
    BY <1>3
<1>7. \A i \in 1..h : b[i] = s[2 * i]
    BY <1>2
<1> HIDE DEF a, b
<1>8. /\ a \o b \in Seq(V) /\ Len(a \o b) = n
      /\ \A r \in 1..n : (a \o b)[r] = IF r <= m THEN a[r] ELSE b[r - m]
    BY <1>1, <1>4, <1>5, ConcatProperties
<1>9. \A r \in 1..n : p[r] \in 1..n /\ p[r] = IF r <= m THEN 2 * (m - r + 1) - 1 ELSE 2 * (r - m)
    BY <1>1
<1>10. p \in [1..n -> 1..n]
    BY <1>9
<1> HIDE DEF p
<1>11. ASSUME NEW q \in 1..n, NEW r \in 1..n, p[q] = p[r] PROVE q = r
    <2>1. CASE q <= m /\ r <= m
        BY <1>1, <1>9, <1>11, <2>1
    <2>2. CASE ~(q <= m) /\ ~(r <= m)
        BY <1>1, <1>9, <1>11, <2>2
    <2>3. CASE q <= m /\ ~(r <= m)
        <3>1. 2 * (m - q + 1) - 1 = 2 * (r - m)
            BY <1>9, <1>11, <2>3
        <3> QED BY <1>1, <3>1
    <2>4. CASE ~(q <= m) /\ r <= m
        <3>1. 2 * (m - r + 1) - 1 = 2 * (q - m)
            BY <1>9, <1>11, <2>4
        <3> QED BY <1>1, <3>1
    <2> QED BY <2>1, <2>2, <2>3, <2>4
<1>12. ASSUME NEW i \in 1..n PROVE \E r \in 1..n : p[r] = i
    <2>1. PICK k \in Nat : i = 2 * k \/ i = 2 * k + 1
        <3>1. i \div 2 \in Nat /\ (i = 2 * (i \div 2) \/ i = 2 * (i \div 2) + 1)
            OBVIOUS
        <3> QED BY <3>1
    <2>2. CASE i = 2 * k + 1
        <3>1. m - k \in 1..n /\ m - k <= m
            BY <1>1, <2>2
        <3>2. p[m - k] = 2 * (m - (m - k) + 1) - 1
            BY <1>9, <3>1
        <3>3. 2 * (m - (m - k) + 1) - 1 = 2 * k + 1
            BY <1>1
        <3> QED BY <2>2, <3>1, <3>2, <3>3
    <2>3. CASE i = 2 * k
        <3>1. m + k \in 1..n /\ ~(m + k <= m)
            BY <1>1, <2>3
        <3>2. p[m + k] = 2 * ((m + k) - m)
            BY <1>9, <3>1
        <3>3. (m + k) - m = k
            BY <1>1
        <3> QED BY <2>3, <3>1, <3>2, <3>3
    <2> QED BY <2>1, <2>2, <2>3
<1>13. \A r \in 1..n : (a \o b)[r] = s[p[r]]
    <2> TAKE r \in 1..n
    <2>1. CASE r <= m
        BY <1>1, <1>6, <1>8, <1>9, <2>1
    <2>2. CASE ~(r <= m)
        <3>1. r - m \in 1..h
            BY <1>1, <2>2
        <3>2. b[r - m] = s[2 * (r - m)]
            BY <1>7, <3>1
        <3> QED BY <1>8, <1>9, <2>2, <3>1, <3>2
    <2> QED BY <2>1, <2>2
<1>14. a \o b = [r \in 1..n |-> s[p[r]]]
    <2> DEFINE c == a \o b
    <2>1. c \in Seq(V) /\ Len(c) = n /\ \A r \in 1..n : c[r] = s[p[r]]
        BY <1>8, <1>13
    <2> HIDE DEF c
    <2>2. c = [r \in 1..n |-> c[r]]
        BY <2>1
    <2>3. c = [r \in 1..n |-> s[p[r]]]
        BY <2>1, <2>2
    <2> QED BY <2>3 DEF c
<1>15. Permutes(p, n)
    BY <1>10, <1>11, <1>12 DEF Permutes
<1> QED BY <1>14, <1>15 DEF Rearranges, a, b, n

-----------------------------------------------------------------------------
(* Parts that deal out a set.                                              *)

\* Every element of A is in one of the parts, once.
Deals(parts, A) ==
    /\ parts \in Seq(Seq(A))
    /\ \A p \in 1..Len(parts) : Distinct(parts[p])
    /\ \A p, q \in 1..Len(parts) : p # q => Held(parts[p]) \cap Held(parts[q]) = {}
    /\ \A a \in A : \E p \in 1..Len(parts) : a \in Held(parts[p])

\* One after the other they list it.
LEMMA FlatLists ==
    ASSUME NEW A, NEW parts, Deals(parts, A)
    PROVE  Lists(FlattenSeq(parts), A)
<1> DEFINE N == Len(parts)
           B(n) == {a \in A : \E p \in 1..n : a \in Held(parts[p])}
<1>1. /\ parts \in Seq(Seq(A)) /\ N \in Nat
      /\ \A p \in 1..N : parts[p] \in Seq(A) /\ Distinct(parts[p])
      /\ \A p, q \in 1..N : p # q => Held(parts[p]) \cap Held(parts[q]) = {}
      /\ \A a \in A : \E p \in 1..N : a \in Held(parts[p])
    <2>1. parts \in Seq(Seq(A))
        BY DEF Deals
    <2>2. N \in Nat /\ \A p \in 1..N : parts[p] \in Seq(A)
        BY <2>1
    <2> QED BY <2>1, <2>2 DEF Deals
<1>2. PICK f : Flattens(f, A, parts)
    BY <1>1, Flattening
<1>3. /\ f[0] = <<>> /\ FlattenSeq(parts) = f[N]
      /\ \A n \in 1..N : f[n] = f[n - 1] \o parts[n]
    BY <1>2 DEF Flattens
<1>4. \A p \in 1..N : Lists(parts[p], Held(parts[p])) /\ Held(parts[p]) \in SUBSET A
    <2> TAKE p \in 1..N
    <2> DEFINE q == parts[p]
    <2>1. q \in Seq(A) /\ Distinct(q)
        BY <1>1
    <2> HIDE DEF q
    <2>2. q \in Seq(Held(q)) /\ Held(q) \in SUBSET A
        BY <2>1 DEF Held
    <2> QED BY <2>1, <2>2 DEF Lists, q
<1> HIDE DEF N
<1> DEFINE S == {n \in 0..N : Lists(f[n], B(n))}
<1>5. 0 \in S
    <2>1. B(0) = {} /\ 0 \in 0..N
        BY <1>1
    <2> HIDE DEF B
    <2>2. Lists(<<>>, {})
        BY DEF Lists, Held, Distinct
    <2> QED BY <1>3, <2>1, <2>2
<1>6. ASSUME NEW n \in 1..N, n - 1 \in S PROVE n \in S
    <2>1. n - 1 \in Nat /\ 1..n = (1..(n - 1)) \union {n} /\ n \notin 1..(n - 1) /\ n \in 0..N /\ 1..(n - 1) \subseteq 1..N
        BY <1>1
    <2>2. B(n) = B(n - 1) \union Held(parts[n])
        <3>1. \A a \in A : (\E p \in 1..n : a \in Held(parts[p]))
                  <=> (\E p \in 1..(n - 1) : a \in Held(parts[p])) \/ a \in Held(parts[n])
            BY <2>1
        <3> QED BY <1>4, <3>1
    <2>3. B(n - 1) \cap Held(parts[n]) = {}
        <3>1. \A p \in 1..(n - 1) : Held(parts[p]) \cap Held(parts[n]) = {}
            BY <1>1, <2>1
        <3> QED BY <3>1
    <2> HIDE DEF B
    <2>4. Lists(f[n - 1], B(n - 1)) /\ Lists(parts[n], Held(parts[n]))
        BY <1>4, <1>6
    <2>5. Lists(f[n - 1] \o parts[n], B(n - 1) \union Held(parts[n]))
        BY <2>3, <2>4, JoinedLists
    <2> QED BY <1>3, <2>1, <2>2, <2>5
<1> HIDE DEF S
<1>7. \A n \in 0..N : n \in S
    BY <1>1, <1>5, <1>6, UpToInduction
<1>8. B(N) = A
    BY <1>1
<1>9. N \in 0..N
    BY <1>1
<1> QED BY <1>3, <1>7, <1>8, <1>9 DEF S

\* Where the parts are as long as each other, the r-th stretch is the r-th part.
LEMMA FlatShares ==
    ASSUME NEW A, NEW parts \in Seq(Seq(A)), NEW L \in Nat, \A p \in 1..Len(parts) : Len(parts[p]) = L
    PROVE  /\ Len(FlattenSeq(parts)) = Len(parts) * L
           /\ \A r \in 1..Len(parts) : SubSeq(FlattenSeq(parts), (r - 1) * L + 1, r * L) = parts[r]
<1> DEFINE N == Len(parts)
<1>1. N \in Nat /\ \A p \in 1..N : parts[p] \in Seq(A) /\ Len(parts[p]) = L
    OBVIOUS
<1>2. PICK f : Flattens(f, A, parts)
    BY Flattening
<1>3. /\ f[0] = <<>> /\ FlattenSeq(parts) = f[N]
      /\ \A n \in 0..N : f[n] \in Seq(A)
      /\ \A n \in 1..N : f[n] = f[n - 1] \o parts[n]
    BY <1>2 DEF Flattens
<1> HIDE DEF N
<1> DEFINE Cut(n) == /\ Len(f[n]) = n * L
                     /\ \A r \in 1..n : \A i \in 1..L : f[n][(r - 1) * L + i] = parts[r][i]
           S == {n \in 0..N : Cut(n)}
<1>4. 0 \in S
    <2>1. 0 \in 0..N /\ 0 * L = 0 /\ 1..0 = {}
        BY <1>1
    <2> QED BY <1>3, <2>1
<1>10. ASSUME NEW r \in Nat \ {0}, NEW i \in 1..L, NEW n \in Nat, r <= n
       PROVE  (r - 1) * L + i \in 1..n * L
    <2>1. PICK d \in Nat : n = r + d
        <3>1. n - r \in Nat /\ n = r + (n - r)
            BY <1>10
        <3> QED BY <3>1
    <2>2. PICK e \in Nat : r = e + 1
        <3>1. r - 1 \in Nat /\ r = (r - 1) + 1
            OBVIOUS
        <3> QED BY <3>1
    <2>3. n * L = e * L + L + d * L /\ e * L \in Nat /\ d * L \in Nat
        BY <2>1, <2>2
    <2>4. (r - 1) * L = e * L
        BY <2>2
    <2> DEFINE x == e * L
               y == d * L
               z == n * L
    <2>5. z = x + L + y /\ x \in Nat /\ y \in Nat /\ (r - 1) * L + i = x + i
        BY <2>3, <2>4
    <2> HIDE DEF x, y, z
    <2>6. x + i \in 1..z
        BY <2>5
    <2> QED BY <2>5, <2>6 DEF z
<1>5. ASSUME NEW n \in 1..N, n - 1 \in S PROVE n \in S
    <2> DEFINE a == f[n - 1]
               b == parts[n]
               c == f[n]
    <2>1. n - 1 \in 0..N /\ n \in 0..N /\ n - 1 \in Nat /\ n \in Nat
        BY <1>1
    <2>2. a \in Seq(A) /\ b \in Seq(A) /\ c = a \o b /\ Len(b) = L /\ Len(a) = (n - 1) * L
        BY <1>1, <1>3, <1>5, <2>1
    <2>3. \A r \in 1..(n - 1) : \A i \in 1..L : a[(r - 1) * L + i] = parts[r][i]
        BY <1>5
    <2>4. (n - 1) * L + L = n * L /\ n * L \in Nat /\ (n - 1) * L \in Nat
        BY <2>1
    <2> DEFINE m == (n - 1) * L
    <2> HIDE DEF a, b, c, m
    <2>5. /\ Len(c) = n * L
          /\ \A j \in 1..n * L : c[j] = IF j <= m THEN a[j] ELSE b[j - m]
        <3> DEFINE y == n * L
        <3>1. Len(a) = m /\ m + L = y /\ m \in Nat
            BY <2>2, <2>4 DEF m
        <3> HIDE DEF y
        <3>2. Len(c) = y /\ \A j \in 1..y : c[j] = IF j <= m THEN a[j] ELSE b[j - m]
            BY <2>2, <3>1, ConcatProperties
        <3> QED BY <3>2 DEF y
    <2>6. ASSUME NEW r \in 1..n, NEW i \in 1..L PROVE c[(r - 1) * L + i] = parts[r][i]
        <3> DEFINE j == (r - 1) * L + i
        <3>1. CASE r \in 1..(n - 1)
            <4>1. j \in 1..m /\ j \in 1..n * L
                BY <1>10, <2>1, <3>1 DEF m
            <4>2. a[j] = parts[r][i]
                BY <2>3, <3>1
            <4> HIDE DEF j
            <4>3. c[j] = a[j]
                BY <2>4, <2>5, <4>1 DEF m
            <4> QED BY <4>2, <4>3 DEF j
        <3>2. CASE r = n
            <4>1. j \in 1..n * L /\ j = m + i
                BY <1>10, <2>1, <3>2 DEF m
            <4>2. m \in Nat
                BY <2>4 DEF m
            <4>3. ~(j <= m) /\ j - m = i
                <5> HIDE DEF j
                <5> QED BY <4>1, <4>2
            <4> HIDE DEF j
            <4>4. c[j] = b[i]
                BY <2>5, <4>1, <4>3
            <4> QED BY <3>2, <4>4 DEF j, b
        <3>3. r \in 1..(n - 1) \/ r = n
            BY <2>1
        <3> QED BY <3>1, <3>2, <3>3
    <2> QED BY <2>1, <2>5, <2>6 DEF c
<1> HIDE DEF S
<1>6. \A n \in 0..N : n \in S
    BY <1>1, <1>4, <1>5, UpToInduction
<1> DEFINE F == FlattenSeq(parts)
<1>7. F = f[N] /\ F \in Seq(A) /\ Len(F) = N * L /\ \A r \in 1..N : \A i \in 1..L : F[(r - 1) * L + i] = parts[r][i]
    <2>1. N \in 0..N
        BY <1>1
    <2>2. Cut(N)
        BY <1>6, <2>1 DEF S
    <2> QED BY <1>3, <2>1, <2>2
<1> HIDE DEF F
<1>8. ASSUME NEW r \in 1..N PROVE SubSeq(F, (r - 1) * L + 1, r * L) = parts[r]
    <2> DEFINE x == (r - 1) * L
               y == r * L
    <2>1. x \in Nat /\ y = x + L /\ y <= Len(F) /\ y \in Nat
        <3>1. PICK e \in Nat : r = e + 1
            <4>1. r - 1 \in Nat /\ r = (r - 1) + 1
                BY <1>1
            <4> QED BY <4>1
        <3>2. PICK d \in Nat : N = r + d
            <4>1. N - r \in Nat /\ N = r + (N - r)
                BY <1>1
            <4> QED BY <4>1
        <3>3. e * L \in Nat /\ d * L \in Nat /\ x = e * L /\ y = e * L + L /\ N * L = y + d * L
            BY <3>1, <3>2
        <3> QED BY <1>7, <3>3
    <2>2. \A i \in 1..L : F[x + i] = parts[r][i]
        BY <1>7
    <2> HIDE DEF x, y
    <2>3. x + 1 \in 1..Len(F) + 1 /\ y \in x..Len(F)
        BY <1>7, <2>1
    <2>4. SubSeq(F, x + 1, y) = [i \in 1..L |-> F[x + i]]
        BY <1>7, <2>1, <2>3
    <2>5. parts[r] = [i \in 1..L |-> parts[r][i]]
        BY <1>1
    <2> QED BY <2>2, <2>4, <2>5 DEF x, y
<1> QED BY <1>7, <1>8 DEF F, N

-----------------------------------------------------------------------------
(* The states of karmarkar_karp.                                           *)

\* n items that weigh something.
Loads(f, n) == f \in [1..n -> Nat \ {0}]

\* A Set of the code, without its key.
Sets(n) == [sum : Int, items : Seq(1..n)]

\* The sets of a state share no item, and know their items' sum.
Dealt(s, k, n, f) ==
    /\ s \in [1..k -> Sets(n)]
    /\ \A i \in 1..k : Distinct(s[i].items) /\ s[i].sum = SumOver(Held(s[i].items), f)
    /\ \A i, j \in 1..k : i # j => Held(s[i].items) \cap Held(s[j].items) = {}

\* The items of a state.
Items(s, k) == UNION {Held(s[i].items) : i \in 1..k}

\* One number of G bounds the differences between the sums.
Close(s, k, G) == \E g \in G : \A i, j \in 1..k : s[i].sum - s[j].sum <= g

\* As many items everywhere, or else some everywhere unless it is one at most.
Even(s, k, equal_size) ==
    IF equal_size THEN \A i, j \in 1..k : Len(s[i].items) = Len(s[j].items)
    ELSE (\A i \in 1..k : Len(s[i].items) <= 1) \/ (\A i \in 1..k : s[i].items # <<>>)

\* The heaviest set first, and it has an item: that makes State.__lt__ total.
Ordered(s, k) ==
    s[1].items # <<>> /\ \A i, j \in 1..k : i < j => s[j].sum <= s[i].sum

\* What is true of every state on the heap.
Sound(s, k, n, f, G, equal_size) ==
    Dealt(s, k, n, f) /\ Close(s, k, G) /\ Even(s, k, equal_size) /\ Ordered(s, k)

\* The items of a set weigh something, unless there are none.
LEMMA SetSum ==
    ASSUME NEW n \in Nat, NEW f, Loads(f, n), NEW A \in SUBSET (1..n)
    PROVE  Summable(A, f) /\ SumOver(A, f) \in Nat /\ (SumOver(A, f) = 0 <=> A = {})
<1>1. IsFiniteSet(A)
    <2>1. IsFiniteSet(1..n)
        BY FS_Interval
    <2> QED BY <2>1, FS_Subset
<1>2. \A x \in A : f[x] \in Nat \ {0}
    BY DEF Loads
<1>3. Summable(A, f)
    BY <1>1, <1>2 DEF Summable
<1>4. SumOver(A, f) \in Nat /\ (A # {} => SumOver(A, f) > 0)
    BY <1>1, <1>2, SumPositive
<1>5. A = {} => SumOver(A, f) = 0
    BY <1>3, SumRemove
<1> QED BY <1>3, <1>4, <1>5

\* What a sequence holds.
LEMMA HeldIn ==
    ASSUME NEW V, NEW q \in Seq(V)
    PROVE  /\ Held(q) \in SUBSET V /\ q \in Seq(Held(q))
           /\ (Held(q) = {} <=> q = <<>>) /\ (q # <<>> => Head(q) \in Held(q))
<1>1. Held(q) \in SUBSET V /\ q \in Seq(Held(q))
    BY DEF Held
<1>2. CASE q = <<>>
    BY <1>1, <1>2 DEF Held
<1>3. CASE q # <<>>
    <2>1. 1 \in 1..Len(q) /\ Head(q) = q[1]
        BY <1>3
    <2> QED BY <1>1, <1>3, <2>1 DEF Held
<1> QED BY <1>2, <1>3

\* The items of a state are those of its sets.
LEMMA ItemsHeld ==
    ASSUME NEW s, NEW k
    PROVE  \A x : x \in Items(s, k) <=> \E i \in 1..k : x \in Held(s[i].items)
BY DEF Items

\* Set.__lt__ compares by a key.
LEMMA SmallerIsWeak ==
    ASSUME NEW k \in Nat, NEW n \in Nat, NEW u \in [1..k -> Sets(n)]
    PROVE  /\ u \in Seq(Sets(n)) /\ Len(u) = k
           /\ Weak({p \in Places(u) : Smaller(u[p[2]], u[p[1]])}, k)
<1>1. u \in Seq(Sets(n)) /\ Len(u) = k /\ DOMAIN u = 1..k
    OBVIOUS
<1> DEFINE before == {p \in Places(u) : Smaller(u[p[2]], u[p[1]])}
<1>2. \A i, j \in 1..k : <<i, j>> \in before <=> Smaller(u[j], u[i])
    BY <1>1 DEF Places
<1> HIDE DEF before
<1> DEFINE Key(a) == a.sum \in Int /\ Len(a.items) \in Nat /\ (a.items # <<>> => Head(a.items) \in Int)
                     /\ (Len(a.items) = 0 <=> a.items = <<>>)
<1>3. \A i \in 1..k : Key(u[i])
    <2> TAKE i \in 1..k
    <2>1. u[i].sum \in Int /\ u[i].items \in Seq(1..n)
        BY DEF Sets
    <2> DEFINE q == u[i].items
    <2> HIDE DEF q
    <2>2. q \in Seq(1..n) => /\ Len(q) \in Nat /\ (Len(q) = 0 <=> q = <<>>)
                             /\ (q # <<>> => Head(q) \in Int)
        OBVIOUS
    <2> QED BY <2>1, <2>2 DEF q
<1>4. ASSUME NEW a, NEW b, Key(a), Key(b), Smaller(a, b) PROVE ~Smaller(b, a)
    BY <1>4 DEF Smaller
<1>5. ASSUME NEW a, NEW b, NEW c, Key(a), Key(b), Key(c), Smaller(a, c) PROVE Smaller(a, b) \/ Smaller(b, c)
    BY <1>5 DEF Smaller
<1> HIDE DEF Key
<1>6. \A i, j \in 1..k : <<i, j>> \in before => <<j, i>> \notin before
    BY <1>2, <1>3, <1>4
<1>7. \A i, j, m \in 1..k : <<i, m>> \in before => <<i, j>> \in before \/ <<j, m>> \in before
    BY <1>2, <1>3, <1>5
<1> QED BY <1>1, <1>6, <1>7 DEF Weak, before

\* Sorting keeps what is true of the sets and puts the heaviest first.
LEMMA DecreasingSound ==
    ASSUME NEW k \in Nat \ {0}, NEW n \in Nat, NEW f, Loads(f, n), NEW G, NEW equal_size \in BOOLEAN,
           NEW u, Dealt(u, k, n, f), Close(u, k, G), Even(u, k, equal_size), Items(u, k) # {}
    PROVE  Sound(Decreasing(u), k, n, f, G, equal_size) /\ Items(Decreasing(u), k) = Items(u, k)
<1> DEFINE before == {p \in Places(u) : Smaller(u[p[2]], u[p[1]])}
           d == Decreasing(u)
<1>1. /\ u \in [1..k -> Sets(n)]
      /\ \A i \in 1..k : Distinct(u[i].items) /\ u[i].sum = SumOver(Held(u[i].items), f)
      /\ \A i, j \in 1..k : i # j => Held(u[i].items) \cap Held(u[j].items) = {}
    BY DEF Dealt
<1>2. u \in Seq(Sets(n)) /\ Len(u) = k /\ Weak(before, k)
    BY <1>1, SmallerIsWeak
<1>3. \A i, j \in 1..k : <<i, j>> \in before <=> Smaller(u[j], u[i])
    BY <1>1 DEF Places
<1>4. d = Arranged(u, before)
    BY DEF Decreasing
<1> HIDE DEF before, d
<1>5. PICK p : /\ Permutes(p, k) /\ d = [r \in 1..k |-> u[p[r]]]
               /\ \A q, r \in 1..k : q < r => <<p[r], p[q]>> \notin before
    BY <1>2, <1>4, Arranges
<1>6. /\ \A r \in 1..k : p[r] \in 1..k
      /\ \A q, r \in 1..k : p[q] = p[r] => q = r
      /\ \A i \in 1..k : \E r \in 1..k : p[r] = i
    BY <1>5 DEF Permutes
<1>7. \A r \in 1..k : d[r] = u[p[r]]
    BY <1>5
<1>8. Dealt(d, k, n, f)
    <2>1. d \in [1..k -> Sets(n)]
        <3>1. \A r \in 1..k : u[p[r]] \in Sets(n)
            BY <1>1, <1>6
        <3> QED BY <1>5, <3>1
    <2>2. \A i \in 1..k : Distinct(d[i].items) /\ d[i].sum = SumOver(Held(d[i].items), f)
        <3> TAKE i \in 1..k
        <3>1. p[i] \in 1..k /\ d[i] = u[p[i]]
            BY <1>6, <1>7
        <3>2. \A j \in 1..k : Distinct(u[j].items) /\ u[j].sum = SumOver(Held(u[j].items), f)
            BY <1>1
        <3> QED BY <3>1, <3>2
    <2>3. ASSUME NEW i \in 1..k, NEW j \in 1..k, i # j PROVE Held(d[i].items) \cap Held(d[j].items) = {}
        <3>1. p[i] \in 1..k /\ p[j] \in 1..k /\ p[i] # p[j] /\ d[i] = u[p[i]] /\ d[j] = u[p[j]]
            BY <1>6, <1>7, <2>3
        <3>2. Held(u[p[i]].items) \cap Held(u[p[j]].items) = {}
            BY <1>1, <3>1
        <3> QED BY <3>1, <3>2
    <2> QED BY <2>1, <2>2, <2>3 DEF Dealt
<1>9. Items(d, k) = Items(u, k)
    <2>1. \A x : (\E i \in 1..k : x \in Held(d[i].items)) <=> (\E i \in 1..k : x \in Held(u[i].items))
        BY <1>6, <1>7
    <2>2. \A x : x \in Items(d, k) <=> x \in Items(u, k)
        BY <2>1, ItemsHeld
    <2> QED BY <2>2
<1>10. Close(d, k, G)
    <2>1. PICK g \in G : \A i, j \in 1..k : u[i].sum - u[j].sum <= g
        BY DEF Close
    <2>2. \A i, j \in 1..k : d[i].sum - d[j].sum <= g
        BY <1>6, <1>7, <2>1
    <2> QED BY <2>2 DEF Close
<1>11. Even(d, k, equal_size)
    <2>1. CASE equal_size
        <3>1. \A i, j \in 1..k : Len(u[i].items) = Len(u[j].items)
            BY <2>1 DEF Even
        <3>2. ASSUME NEW i \in 1..k, NEW j \in 1..k PROVE Len(d[i].items) = Len(d[j].items)
            <4>1. p[i] \in 1..k /\ p[j] \in 1..k /\ d[i] = u[p[i]] /\ d[j] = u[p[j]]
                BY <1>6, <1>7
            <4>2. Len(u[p[i]].items) = Len(u[p[j]].items)
                BY <3>1, <4>1
            <4> QED BY <4>1, <4>2
        <3> QED BY <2>1, <3>2 DEF Even
    <2>2. CASE ~equal_size
        <3>1. (\A i \in 1..k : Len(u[i].items) <= 1) \/ (\A i \in 1..k : u[i].items # <<>>)
            BY <2>2 DEF Even
        <3>2. ASSUME NEW i \in 1..k
              PROVE  /\ (\A j \in 1..k : Len(u[j].items) <= 1) => Len(d[i].items) <= 1
                     /\ (\A j \in 1..k : u[j].items # <<>>) => d[i].items # <<>>
            <4>1. p[i] \in 1..k /\ d[i] = u[p[i]]
                BY <1>6, <1>7
            <4> QED BY <4>1
        <3> QED BY <2>2, <3>2 DEF Even
    <2> QED BY <2>1, <2>2
<1>12. \A i, j \in 1..k : i < j => d[j].sum <= d[i].sum
    <2> SUFFICES ASSUME NEW i \in 1..k, NEW j \in 1..k, i < j PROVE d[j].sum <= d[i].sum
        OBVIOUS
    <2>1. ~Smaller(d[i], d[j])
        BY <1>3, <1>5, <1>6, <1>7
    <2>2. d[i].sum \in Int /\ d[j].sum \in Int
        BY <1>8 DEF Dealt, Sets
    <2>3. ~(d[i].sum < d[j].sum)
        BY <2>1 DEF Smaller
    <2> QED BY <2>2, <2>3
<1>13. d[1].items # <<>>
    <2> SUFFICES ASSUME d[1].items = <<>> PROVE FALSE
        OBVIOUS
    <2>1. \A i \in 1..k : /\ d[i].items \in Seq(1..n) /\ d[i].sum = SumOver(Held(d[i].items), f)
        BY <1>8 DEF Dealt, Sets
    <2>2. \A i \in 1..k : d[i].sum \in Nat /\ (d[i].sum = 0 <=> Held(d[i].items) = {})
        <3> TAKE i \in 1..k
        <3>1. Held(d[i].items) \in SUBSET (1..n)
            BY <2>1, HeldIn
        <3>2. /\ SumOver(Held(d[i].items), f) \in Nat
              /\ SumOver(Held(d[i].items), f) = 0 <=> Held(d[i].items) = {}
            BY <3>1, SetSum
        <3>3. d[i].sum = SumOver(Held(d[i].items), f)
            BY <2>1
        <3> QED BY <3>2, <3>3
    <2>3. 1 \in 1..k /\ \A i \in 1..k : i = 1 \/ 1 < i
        OBVIOUS
    <2>4. Held(d[1].items) = {}
        BY <2>1, <2>3, HeldIn
    <2>5. \A i \in 1..k : d[i].sum = 0
        BY <1>12, <2>2, <2>3, <2>4
    <2>6. \A i \in 1..k : Held(d[i].items) = {}
        BY <2>2, <2>5
    <2>7. Items(d, k) = {}
        BY <2>6, ItemsHeld
    <2> QED BY <1>9, <2>7
<1> QED BY <1>8, <1>9, <1>10, <1>11, <1>12, <1>13 DEF Sound, Ordered, d

\* Merging keeps it: the heaviest set of one state takes the lightest of the other.
LEMMA MergeSound ==
    ASSUME NEW k \in Nat \ {0}, NEW n \in Nat, NEW f, Loads(f, n), NEW G \in SUBSET Int,
           NEW equal_size \in BOOLEAN,
           NEW s, Sound(s, k, n, f, G, equal_size), NEW t, Sound(t, k, n, f, G, equal_size),
           Items(s, k) \cap Items(t, k) = {}
    PROVE  /\ Sound(Merge(s, t), k, n, f, G, equal_size)
           /\ Items(Merge(s, t), k) = Items(s, k) \union Items(t, k)
<1> DEFINE u == [i \in 1..k |-> JoinSets(s[i], t[k + 1 - i])]
           o(i) == k + 1 - i
<1>1. /\ Dealt(s, k, n, f) /\ Close(s, k, G) /\ Even(s, k, equal_size) /\ Ordered(s, k)
      /\ Dealt(t, k, n, f) /\ Close(t, k, G) /\ Even(t, k, equal_size) /\ Ordered(t, k)
    BY DEF Sound
<1>2. DOMAIN s = 1..k /\ Len(s) = k
    BY <1>1 DEF Dealt
<1>3. Merge(s, t) = Decreasing(u)
    BY <1>2 DEF Merge
<1>4. \A i \in 1..k : o(i) \in 1..k /\ o(o(i)) = i
    OBVIOUS
<1>5. \A i \in 1..k : u[i] = JoinSets(s[i], t[o(i)])
    OBVIOUS
<1>6. \A i \in 1..k : /\ s[i].sum \in Int /\ s[i].items \in Seq(1..n) /\ t[i].sum \in Int /\ t[i].items \in Seq(1..n)
    BY <1>1 DEF Dealt, Sets
<1>7. \A i \in 1..k : u[i].sum = s[i].sum + t[o(i)].sum /\ u[i].items = s[i].items \o t[o(i)].items
    BY DEF JoinSets
<1>8. \A i, j \in 1..k : i < j => o(j) < o(i)
    OBVIOUS
<1> DEFINE S(i) == Held(s[i].items)
           T(i) == Held(t[i].items)
<1>9. \A i \in 1..k : /\ Lists(s[i].items, S(i)) /\ s[i].sum = SumOver(S(i), f) /\ S(i) \in SUBSET (1..n)
                      /\ Lists(t[i].items, T(i)) /\ t[i].sum = SumOver(T(i), f) /\ T(i) \in SUBSET (1..n)
    <2> TAKE i \in 1..k
    <2>1. Distinct(s[i].items) /\ Distinct(t[i].items)
        BY <1>1 DEF Dealt
    <2>2. /\ s[i].items \in Seq(S(i)) /\ S(i) \in SUBSET (1..n)
          /\ t[i].items \in Seq(T(i)) /\ T(i) \in SUBSET (1..n)
        BY <1>6, HeldIn
    <2>3. s[i].sum = SumOver(S(i), f) /\ t[i].sum = SumOver(T(i), f)
        BY <1>1 DEF Dealt
    <2> QED BY <2>1, <2>2, <2>3 DEF Lists
<1>10. /\ \A i, j \in 1..k : i # j => S(i) \cap S(j) = {} /\ T(i) \cap T(j) = {}
       /\ \A i, j \in 1..k : S(i) \cap T(j) = {}
    <2>1. \A i, j \in 1..k : i # j => S(i) \cap S(j) = {} /\ T(i) \cap T(j) = {}
        BY <1>1 DEF Dealt
    <2>2. \A i \in 1..k : S(i) \subseteq Items(s, k) /\ T(i) \subseteq Items(t, k)
        BY DEF Items
    <2> HIDE DEF S, T
    <2> QED BY <2>1, <2>2
<1> HIDE DEF u, o
<1>11. \A i \in 1..k : /\ Lists(u[i].items, S(i) \union T(o(i)))
                       /\ u[i].sum = SumOver(S(i) \union T(o(i)), f)
    <2> TAKE i \in 1..k
    <2> HIDE DEF S, T
    <2>1. Lists(s[i].items \o t[o(i)].items, S(i) \union T(o(i)))
        BY <1>4, <1>9, <1>10, JoinedLists
    <2>2. Summable(S(i), f) /\ Summable(T(o(i)), f)
        BY <1>4, <1>9, SetSum
    <2>3. SumOver(S(i) \union T(o(i)), f) = SumOver(S(i), f) + SumOver(T(o(i)), f)
        BY <1>4, <1>10, <2>2, SumUnion
    <2> QED BY <1>4, <1>7, <1>9, <2>1, <2>3
<1>12. \A i \in 1..k : Held(u[i].items) = S(i) \union T(o(i)) /\ Distinct(u[i].items)
    BY <1>11 DEF Lists
<1>13. Dealt(u, k, n, f)
    <2>1. u \in [1..k -> Sets(n)]
        <3>1. \A i \in 1..k : JoinSets(s[i], t[o(i)]) \in Sets(n)
            <4> TAKE i \in 1..k
            <4>1. s[i].items \in Seq(1..n) /\ t[o(i)].items \in Seq(1..n)
                BY <1>4, <1>6
            <4>2. s[i].sum + t[o(i)].sum \in Int
                <5>1. s[i].sum \in Int /\ t[o(i)].sum \in Int
                    BY <1>4, <1>6
                <5> QED BY <5>1
            <4> DEFINE q == s[i].items \o t[o(i)].items
            <4>3. q \in Seq(1..n)
                BY <4>1
            <4> HIDE DEF q
            <4>4. [sum |-> s[i].sum + t[o(i)].sum, items |-> q] \in Sets(n)
                BY <4>2, <4>3 DEF Sets
            <4> QED BY <4>4 DEF JoinSets, q
        <3> QED BY <3>1 DEF u, o
    <2>2. \A i, j \in 1..k : i # j => (S(i) \union T(o(i))) \cap (S(j) \union T(o(j))) = {}
        <3> HIDE DEF S, T
        <3> SUFFICES ASSUME NEW i \in 1..k, NEW j \in 1..k, i # j
                     PROVE  (S(i) \union T(o(i))) \cap (S(j) \union T(o(j))) = {}
            OBVIOUS
        <3>1. o(i) # o(j) /\ o(i) \in 1..k /\ o(j) \in 1..k
            BY <1>4
        <3>2. /\ S(i) \cap S(j) = {} /\ T(o(i)) \cap T(o(j)) = {}
              /\ S(i) \cap T(o(j)) = {} /\ S(j) \cap T(o(i)) = {}
            BY <1>10, <3>1
        <3> QED BY <3>2
    <2> QED BY <1>11, <1>12, <2>1, <2>2 DEF Dealt
<1>14. Items(u, k) = Items(s, k) \union Items(t, k)
    <2>1. \A x : x \in Items(u, k) <=> \E i \in 1..k : x \in S(i) \/ x \in T(o(i))
        BY <1>12, ItemsHeld
    <2>2. \A x : x \in Items(s, k) <=> \E i \in 1..k : x \in S(i)
        BY ItemsHeld
    <2>3. \A x : x \in Items(t, k) <=> \E i \in 1..k : x \in T(i)
        BY ItemsHeld
    <2> HIDE DEF S, T
    <2>4. \A x : (\E i \in 1..k : x \in T(i)) <=> (\E i \in 1..k : x \in T(o(i)))
        BY <1>4
    <2>5. \A x : x \in Items(u, k) <=> x \in Items(s, k) \/ x \in Items(t, k)
        BY <2>1, <2>2, <2>3, <2>4
    <2> QED BY <2>5
<1>15. Close(u, k, G)
    <2>1. PICK g \in G : \A i, j \in 1..k : s[i].sum - s[j].sum <= g
        BY <1>1 DEF Close
    <2>2. PICK h \in G : \A i, j \in 1..k : t[i].sum - t[j].sum <= h
        BY <1>1 DEF Close
    <2> DEFINE m == IF g < h THEN h ELSE g
    <2>3. ASSUME NEW i \in 1..k, NEW j \in 1..k PROVE u[i].sum - u[j].sum <= m
        <3> DEFINE a == s[i].sum
                   b == s[j].sum
                   c == t[o(i)].sum
                   e == t[o(j)].sum
        <3>1. a \in Int /\ b \in Int /\ c \in Int /\ e \in Int /\ u[i].sum = a + c /\ u[j].sum = b + e
            BY <1>4, <1>6, <1>7
        <3>2. a - b <= g /\ c - e <= h /\ g \in Int /\ h \in Int
            BY <1>4, <2>1, <2>2
        <3>3. (i < j => c <= e) /\ (j < i => a <= b) /\ (i = j => a = b /\ c = e)
            <4>1. i < j => o(j) < o(i)
                BY <1>8
            <4>2. i < j => c <= e
                BY <1>1, <1>4, <4>1 DEF Ordered
            <4>3. j < i => a <= b
                BY <1>1 DEF Ordered
            <4> QED BY <4>2, <4>3
        <3>4. i < j \/ j < i \/ i = j
            OBVIOUS
        <3> HIDE DEF a, b, c, e
        <3> QED BY <3>1, <3>2, <3>3, <3>4
    <2>4. m \in G
        OBVIOUS
    <2> HIDE DEF m
    <2> QED BY <2>3, <2>4 DEF Close
<1>16. \A i \in 1..k : /\ Len(u[i].items) = Len(s[i].items) + Len(t[o(i)].items)
                       /\ Len(s[i].items) \in Nat /\ Len(t[o(i)].items) \in Nat
                       /\ (Len(s[i].items) = 0 <=> s[i].items = <<>>)
                       /\ (Len(t[o(i)].items) = 0 <=> t[o(i)].items = <<>>)
                       /\ (Len(u[i].items) = 0 <=> u[i].items = <<>>)
    <2> TAKE i \in 1..k
    <2> DEFINE a == s[i].items
               b == t[o(i)].items
    <2>1. a \in Seq(1..n) /\ b \in Seq(1..n) /\ u[i].items = a \o b
        BY <1>4, <1>6, <1>7
    <2> HIDE DEF a, b
    <2>2. /\ Len(a \o b) = Len(a) + Len(b) /\ Len(a) \in Nat /\ Len(b) \in Nat
          /\ (Len(a) = 0 <=> a = <<>>) /\ (Len(b) = 0 <=> b = <<>>)
          /\ (Len(a \o b) = 0 <=> a \o b = <<>>)
        BY <2>1
    <2> QED BY <2>1, <2>2 DEF a, b
<1>17. Even(u, k, equal_size)
    <2>1. CASE equal_size
        <3>1. \A i, j \in 1..k : Len(s[i].items) = Len(s[j].items) /\ Len(t[i].items) = Len(t[j].items)
            BY <1>1, <2>1 DEF Even
        <3>2. ASSUME NEW i \in 1..k, NEW j \in 1..k PROVE Len(u[i].items) = Len(u[j].items)
            <4>1. o(i) \in 1..k /\ o(j) \in 1..k
                BY <1>4
            <4>2. Len(s[i].items) = Len(s[j].items) /\ Len(t[o(i)].items) = Len(t[o(j)].items)
                BY <3>1, <4>1
            <4>3. /\ Len(u[i].items) = Len(s[i].items) + Len(t[o(i)].items)
                  /\ Len(u[j].items) = Len(s[j].items) + Len(t[o(j)].items)
                BY <1>16
            <4> QED BY <4>2, <4>3
        <3> QED BY <2>1, <3>2 DEF Even
    <2>2. CASE ~equal_size
        <3>1. (\A i \in 1..k : Len(s[i].items) <= 1) \/ (\A i \in 1..k : s[i].items # <<>>)
            BY <1>1, <2>2 DEF Even
        <3>2. (\A i \in 1..k : Len(t[i].items) <= 1) \/ (\A i \in 1..k : t[i].items # <<>>)
            BY <1>1, <2>2 DEF Even
        <3>3. CASE \A i \in 1..k : u[i].items # <<>>
            BY <2>2, <3>3 DEF Even
        <3>4. CASE \E i \in 1..k : u[i].items = <<>>
            <4>1. PICK e \in 1..k : u[e].items = <<>>
                BY <3>4
            <4>2. Len(s[e].items) = 0 /\ Len(t[o(e)].items) = 0
                <5> DEFINE a == Len(s[e].items)
                           b == Len(t[o(e)].items)
                           c == Len(u[e].items)
                <5>1. c = a + b /\ a \in Nat /\ b \in Nat /\ c = 0
                    BY <1>16, <4>1
                <5> HIDE DEF a, b, c
                <5>2. a = 0 /\ b = 0
                    BY <5>1
                <5> QED BY <5>2 DEF a, b
            <4>3. s[e].items = <<>> /\ t[o(e)].items = <<>> /\ o(e) \in 1..k
                BY <1>4, <1>16, <4>2
            <4>4. (\A i \in 1..k : Len(s[i].items) <= 1) /\ (\A i \in 1..k : Len(t[i].items) <= 1)
                BY <3>1, <3>2, <4>3
            <4>5. s[e].sum = 0 /\ t[o(e)].sum = 0
                <5>1. S(e) = {} /\ T(o(e)) = {}
                    BY <1>6, <4>3, HeldIn
                <5> QED BY <1>9, <4>3, <5>1, SetSum
            <4>6. \A i \in 1..k : /\ s[i].sum \in Nat /\ (s[i].sum = 0 <=> S(i) = {})
                                  /\ t[i].sum \in Nat /\ (t[i].sum = 0 <=> T(i) = {})
                BY <1>9, SetSum
            <4>7. \A i \in 1..k : (S(i) = {} <=> Len(s[i].items) = 0) /\ (T(o(i)) = {} <=> Len(t[o(i)].items) = 0)
                <5> TAKE i \in 1..k
                <5>1. s[i].items \in Seq(1..n) /\ t[o(i)].items \in Seq(1..n)
                    BY <1>4, <1>6
                <5>2. (S(i) = {} <=> s[i].items = <<>>) /\ (T(o(i)) = {} <=> t[o(i)].items = <<>>)
                    BY <5>1, HeldIn
                <5>3. (Len(s[i].items) = 0 <=> s[i].items = <<>>) /\ (Len(t[o(i)].items) = 0 <=> t[o(i)].items = <<>>)
                    BY <1>16
                <5> QED BY <5>2, <5>3
            <4> HIDE DEF S, T
            <4>8. \A i \in 1..k : (e < i => s[i].sum = 0) /\ (i < e => t[o(i)].sum = 0)
                <5> TAKE i \in 1..k
                <5>1. ASSUME e < i PROVE s[i].sum = 0
                    <6>1. s[i].sum <= s[e].sum
                        BY <1>1, <5>1 DEF Ordered
                    <6> QED BY <4>5, <4>6, <6>1
                <5>2. ASSUME i < e PROVE t[o(i)].sum = 0
                    <6>1. o(e) < o(i) /\ o(i) \in 1..k
                        BY <1>4, <1>8, <5>2
                    <6>2. t[o(i)].sum <= t[o(e)].sum
                        BY <1>1, <4>3, <6>1 DEF Ordered
                    <6> QED BY <4>5, <4>6, <6>1, <6>2
                <5> QED BY <5>1, <5>2
            <4>9. \A i \in 1..k : Len(u[i].items) <= 1
                <5> TAKE i \in 1..k
                <5>1. e < i => Len(s[i].items) = 0
                    BY <4>6, <4>7, <4>8
                <5>2. i < e => Len(t[o(i)].items) = 0
                    BY <1>4, <4>6, <4>7, <4>8
                <5>3. e < i \/ i < e \/ i = e
                    OBVIOUS
                <5>4. Len(s[i].items) <= 1 /\ Len(t[o(i)].items) <= 1
                    BY <1>4, <4>4
                <5> DEFINE a == Len(s[i].items)
                           b == Len(t[o(i)].items)
                           c == Len(u[i].items)
                <5>5. c = a + b /\ a \in Nat /\ b \in Nat /\ (i = e => a = 0)
                    BY <1>16, <4>2
                <5>6. (e < i => a = 0) /\ (i < e => b = 0) /\ a <= 1 /\ b <= 1
                    BY <5>1, <5>2, <5>4
                <5> HIDE DEF a, b, c
                <5>7. c <= 1
                    BY <5>3, <5>5, <5>6
                <5> QED BY <5>7 DEF c
            <4> QED BY <2>2, <4>9 DEF Even
        <3> QED BY <3>3, <3>4
    <2> QED BY <2>1, <2>2
<1>18. Items(u, k) # {}
    <2>1. 1 \in 1..k /\ s[1].items # <<>>
        BY <1>1 DEF Ordered
    <2>2. Head(s[1].items) \in S(1)
        BY <1>6, <2>1, HeldIn
    <2> QED BY <1>14, <2>1, <2>2, ItemsHeld
<1>19. Sound(Decreasing(u), k, n, f, G, equal_size) /\ Items(Decreasing(u), k) = Items(u, k)
    BY <1>13, <1>15, <1>17, <1>18, DecreasingSound
<1> QED BY <1>3, <1>14, <1>19

-----------------------------------------------------------------------------
(* The heap of karmarkar_karp.                                             *)

\* Its states share no item.
Apart(H, k, n, f, G, equal_size) ==
    /\ IsFiniteSet(H)
    /\ \A s \in H : Sound(s, k, n, f, G, equal_size)
    /\ \A s, t \in H : s # t => Items(s, k) \cap Items(t, k) = {}

\* And have every item.
Heap(H, k, n, f, G, equal_size) ==
    Apart(H, k, n, f, G, equal_size) /\ \A x \in 1..n : \E s \in H : x \in Items(s, k)

\* What State.__lt__ looks at.
LEMMA StateKey ==
    ASSUME NEW k \in Nat \ {0}, NEW n \in Nat, NEW f, NEW G, NEW equal_size,
           NEW s, Sound(s, k, n, f, G, equal_size)
    PROVE  /\ spread(s) \in Int /\ s[1].sum \in Int /\ Len(s[1].items) \in Nat
           /\ s[1].items # <<>> /\ Head(s[1].items) \in 1..n /\ Head(s[1].items) \in Items(s, k)
<1>1. s \in [1..k -> Sets(n)] /\ s[1].items # <<>>
    BY DEF Sound, Dealt, Ordered
<1>2. Len(s) = k /\ 1 \in 1..k /\ k \in 1..k
    BY <1>1
<1>3. s[1] \in Sets(n) /\ s[k] \in Sets(n)
    BY <1>1, <1>2
<1>4. s[1].sum \in Int /\ s[k].sum \in Int /\ s[1].items \in Seq(1..n)
    BY <1>3 DEF Sets
<1> DEFINE q == s[1].items
<1>5. Head(q) \in Held(q) /\ Held(q) \in SUBSET (1..n)
    BY <1>1, <1>4, HeldIn
<1>6. Head(q) \in Items(s, k)
    BY <1>2, <1>5, ItemsHeld
<1>7. Len(q) \in Nat
    <2> HIDE DEF q
    <2>1. q \in Seq(1..n)
        BY <1>4 DEF q
    <2> QED BY <2>1
<1> QED BY <1>1, <1>2, <1>4, <1>5, <1>6, <1>7 DEF spread

\* There is a first state on a heap that is not empty.
LEMMA PoppedIn ==
    ASSUME NEW k \in Nat \ {0}, NEW n \in Nat, NEW f, NEW G, NEW equal_size,
           NEW H, Apart(H, k, n, f, G, equal_size), H # {}
    PROVE  Popped(H) \in H
<1> DEFINE R == {p \in H \X H : PopsFirst(p[1], p[2])}
           Key(s) == /\ spread(s) \in Int /\ s[1].sum \in Int /\ Len(s[1].items) \in Nat
                     /\ s[1].items # <<>> /\ Head(s[1].items) \in Int
<1>1. \A s \in H : Key(s) /\ Head(s[1].items) \in Items(s, k)
    <2> TAKE s \in H
    <2>1. Sound(s, k, n, f, G, equal_size)
        BY DEF Apart
    <2> QED BY <2>1, StateKey
<1>2. \A s, t \in H : <<s, t>> \in R <=> PopsFirst(s, t)
    OBVIOUS
<1>3. \A s, t \in H : s # t => Head(s[1].items) # Head(t[1].items)
    <2>1. \A s, t \in H : s # t => Items(s, k) \cap Items(t, k) = {}
        BY DEF Apart
    <2> HIDE DEF Key
    <2> QED BY <1>1, <2>1
<1> HIDE DEF R
<1>4. \A s : Key(s) => ~PopsFirst(s, s)
    BY DEF PopsFirst, Smaller
<1>5. ASSUME NEW s, NEW t, NEW u, Key(s), Key(t), Key(u), PopsFirst(s, t), PopsFirst(t, u)
      PROVE  PopsFirst(s, u)
    <2>1. ASSUME NEW a, NEW b, NEW c, Key(a), Key(b), Key(c), Smaller(a[1], b[1]), Smaller(b[1], c[1])
          PROVE  Smaller(a[1], c[1])
        <3> DEFINE x == a[1]
                   y == b[1]
                   z == c[1]
        <3>1. /\ x.sum \in Int /\ y.sum \in Int /\ z.sum \in Int
              /\ Len(x.items) \in Nat /\ Len(y.items) \in Nat /\ Len(z.items) \in Nat
              /\ Head(x.items) \in Int /\ Head(y.items) \in Int /\ Head(z.items) \in Int
              /\ x.items # <<>> /\ Smaller(x, y) /\ Smaller(y, z)
            BY <2>1
        <3> HIDE DEF x, y, z, Key
        <3>2. Smaller(x, z)
            BY <3>1 DEF Smaller
        <3> QED BY <3>2 DEF x, z
    <2>2. spread(s) \in Int /\ spread(t) \in Int /\ spread(u) \in Int
        BY <1>5
    <2>3. Smaller(u[1], t[1]) /\ Smaller(t[1], s[1]) => Smaller(u[1], s[1])
        BY <1>5, <2>1
    <2> HIDE DEF Key
    <2> QED BY <1>5, <2>2, <2>3 DEF PopsFirst
<1>6. \A s, t : Key(s) /\ Key(t) /\ Head(s[1].items) # Head(t[1].items) => PopsFirst(s, t) \/ PopsFirst(t, s)
    BY DEF PopsFirst, Smaller
<1> HIDE DEF Key
<1>7. Orders(R, H)
    <2>1. \A x \in H : <<x, x>> \notin R
        BY <1>1, <1>2, <1>4
    <2>2. \A x, y, z \in H : <<x, y>> \in R /\ <<y, z>> \in R => <<x, z>> \in R
        BY <1>1, <1>2, <1>5
    <2>3. \A x, y \in H : x # y => <<x, y>> \in R \/ <<y, x>> \in R
        BY <1>1, <1>2, <1>3, <1>6
    <2> QED BY <2>1, <2>2, <2>3 DEF Orders
<1>8. IsFiniteSet(H)
    BY DEF Apart
<1>9. \E x \in H : \A y \in H \ {x} : <<x, y>> \in R
    BY <1>7, <1>8, FirstExists
<1>10. \E x \in H : \A y \in H \ {x} : PopsFirst(x, y)
    BY <1>2, <1>9
<1> QED BY <1>10 DEF Popped

\* Merging the two first states leaves one less.
LEMMA MergeTwoHeap ==
    ASSUME NEW k \in Nat \ {0}, NEW n \in Nat, NEW f, Loads(f, n), NEW G \in SUBSET Int,
           NEW equal_size \in BOOLEAN,
           NEW H, Heap(H, k, n, f, G, equal_size), Cardinality(H) > 1
    PROVE  Heap(MergeTwo(H), k, n, f, G, equal_size) /\ Cardinality(MergeTwo(H)) = Cardinality(H) - 1
<1> DEFINE s == Popped(H)
           H1 == H \ {s}
           t == Popped(H1)
           H2 == H1 \ {t}
           m == Merge(s, t)
<1>1. /\ IsFiniteSet(H) /\ \A a \in H : Sound(a, k, n, f, G, equal_size)
      /\ \A a, b \in H : a # b => Items(a, k) \cap Items(b, k) = {}
      /\ \A x \in 1..n : \E a \in H : x \in Items(a, k)
      /\ Apart(H, k, n, f, G, equal_size)
    BY DEF Heap, Apart
<1>2. Cardinality(H) \in Nat /\ H # {}
    BY <1>1, FS_CardinalityType, FS_EmptySet
<1>3. s \in H
    BY <1>1, <1>2, PoppedIn
<1>4. IsFiniteSet(H1) /\ Cardinality(H1) = Cardinality(H) - 1
    <2> HIDE DEF s
    <2> QED BY <1>1, <1>3, FS_RemoveElement
<1>5. H1 # {} /\ Apart(H1, k, n, f, G, equal_size)
    <2>1. H1 # {}
        <3> SUFFICES ASSUME H1 = {} PROVE FALSE
            OBVIOUS
        <3>1. Cardinality(H1) = 0
            BY FS_EmptySet
        <3> HIDE DEF H1
        <3> QED BY <1>2, <1>4, <3>1
    <2> HIDE DEF s
    <2> QED BY <1>1, <1>4, <2>1 DEF Apart
<1>6. t \in H1
    <2> HIDE DEF H1
    <2> QED BY <1>5, PoppedIn
<1>7. IsFiniteSet(H2) /\ Cardinality(H2) = Cardinality(H1) - 1
    <2> HIDE DEF t, H1
    <2> QED BY <1>4, <1>6, FS_RemoveElement
<1>8. MergeTwo(H) = H2 \union {m}
    <2>1. H2 = H \ {s, t}
        <3> HIDE DEF s, t
        <3> QED OBVIOUS
    <2> QED BY <2>1 DEF MergeTwo
<1> HIDE DEF s, t, m
<1>9. Sound(m, k, n, f, G, equal_size) /\ Items(m, k) = Items(s, k) \union Items(t, k)
    <2>1. Sound(s, k, n, f, G, equal_size) /\ Sound(t, k, n, f, G, equal_size) /\ Items(s, k) \cap Items(t, k) = {}
        BY <1>1, <1>3, <1>6
    <2>2. /\ Sound(Merge(s, t), k, n, f, G, equal_size)
          /\ Items(Merge(s, t), k) = Items(s, k) \union Items(t, k)
        <3>1. ASSUME NEW a, NEW b, Sound(a, k, n, f, G, equal_size), Sound(b, k, n, f, G, equal_size),
                     Items(a, k) \cap Items(b, k) = {}
              PROVE  /\ Sound(Merge(a, b), k, n, f, G, equal_size)
                     /\ Items(Merge(a, b), k) = Items(a, k) \union Items(b, k)
            BY <3>1, MergeSound
        <3> HIDE DEF H1, H2
        <3> QED BY <2>1, <3>1
    <2> QED BY <2>2 DEF m
<1>10. \A a \in H2 : a \in H /\ a # s /\ a # t
    OBVIOUS
<1>11. \A a \in H2 : Items(a, k) \cap Items(m, k) = {}
    <2> TAKE a \in H2
    <2>1. Items(a, k) \cap Items(s, k) = {} /\ Items(a, k) \cap Items(t, k) = {}
        BY <1>1, <1>3, <1>6, <1>10
    <2> QED BY <1>9, <2>1
<1>12. m \notin H2
    <2>1. Head(m[1].items) \in Items(m, k)
        BY <1>9, StateKey
    <2> QED BY <1>11, <2>1
<1>13. IsFiniteSet(H2 \union {m}) /\ Cardinality(H2 \union {m}) = Cardinality(H2) + 1
    <2> HIDE DEF H2
    <2> QED BY <1>7, <1>12, FS_AddElement
<1>14. \A x \in 1..n : \E a \in H2 \union {m} : x \in Items(a, k)
    <2> TAKE x \in 1..n
    <2>1. PICK a \in H : x \in Items(a, k)
        BY <1>1
    <2>2. a \in H2 \/ a = s \/ a = t
        OBVIOUS
    <2> HIDE DEF H2
    <2> QED BY <1>9, <2>1, <2>2
<1>15. \A a, b \in H2 \union {m} : a # b => Items(a, k) \cap Items(b, k) = {}
    <2>1. \A a, b \in H2 : a # b => Items(a, k) \cap Items(b, k) = {}
        BY <1>1, <1>10
    <2> HIDE DEF H2
    <2> QED BY <1>11, <2>1
<1>16. \A a \in H2 \union {m} : Sound(a, k, n, f, G, equal_size)
    <2>1. \A a \in H2 : Sound(a, k, n, f, G, equal_size)
        BY <1>1, <1>10
    <2> HIDE DEF H2
    <2> QED BY <1>9, <2>1
<1>17. Heap(H2 \union {m}, k, n, f, G, equal_size)
    <2> HIDE DEF H2
    <2> QED BY <1>13, <1>14, <1>15, <1>16 DEF Heap, Apart
<1>18. Cardinality(H2 \union {m}) = Cardinality(H) - 1
    <2> HIDE DEF H1, H2
    <2> QED BY <1>2, <1>4, <1>7, <1>13
<1> QED BY <1>8, <1>17, <1>18

\* The heap after i rounds.
Loop(h, H, n) == h = [i \in 0..n |-> IF i = 0 THEN H ELSE MergeTwo(h[i - 1])]

\* The heap comes down to one state, that has every item.
LEMMA MergedSound ==
    ASSUME NEW k \in Nat \ {0}, NEW n \in Nat, NEW f, Loads(f, n), NEW G \in SUBSET Int,
           NEW equal_size \in BOOLEAN,
           NEW states, Heap(states, k, n, f, G, equal_size), states # {}
    PROVE  \E s : /\ Merged(states) = {s} /\ Sound(s, k, n, f, G, equal_size)
                  /\ \A x \in 1..n : x \in Items(s, k)
<1> DEFINE N == Cardinality(states) - 1
           V == {H \in SUBSET [1..k -> Sets(n)] : Heap(H, k, n, f, G, equal_size)}
           next(H) == IF Cardinality(H) > 1 THEN MergeTwo(H) ELSE H
           step == [p \in (1..N) \X V |-> next(p[2])]
<1>1. IsFiniteSet(states)
    BY DEF Heap, Apart
<1>2. Cardinality(states) \in Nat /\ Cardinality(states) # 0
    BY <1>1, FS_CardinalityType, FS_EmptySet
<1>3. N \in Nat /\ Cardinality(states) = N + 1
    BY <1>2
<1>4. \A H : Heap(H, k, n, f, G, equal_size) => H \in V
    BY DEF Heap, Apart, Sound, Dealt
<1>5. \A H \in V : Heap(H, k, n, f, G, equal_size)
    OBVIOUS
<1>6. \A i \in 1..N : \A H \in V : step[<<i, H>>] = next(H)
    OBVIOUS
<1> HIDE DEF N, V
<1>7. \A H \in V : next(H) \in V
    <2> TAKE H \in V
    <2>1. CASE Cardinality(H) > 1
        BY <1>4, <1>5, <2>1, MergeTwoHeap
    <2>2. CASE ~(Cardinality(H) > 1)
        BY <2>2
    <2> QED BY <2>1, <2>2
<1>8. step \in Steps(N, V)
    BY <1>7 DEF Steps
<1>9. \A H \in V : Cardinality(H) > 1 => next(H) = MergeTwo(H) /\ Cardinality(next(H)) = Cardinality(H) - 1
    <2> TAKE H \in V
    <2> HAVE Cardinality(H) > 1
    <2>1. Cardinality(MergeTwo(H)) = Cardinality(H) - 1
        BY <1>5, MergeTwoHeap
    <2> QED BY <2>1
<1> HIDE DEF step, next
<1>10. states \in V
    BY <1>4
<1>11. PICK g : Solution(g, N, V, states, step)
    BY <1>3, <1>8, <1>10, Recursion
<1>12. /\ \A i \in 0..N : g[i] \in V
       /\ g[0] = states /\ g = [i \in 0..N |-> g[i]]
       /\ \A i \in 1..N : g[i] = step[<<i, g[i - 1]>>]
    BY <1>11 DEF Solution
<1> DEFINE S == {i \in 0..N : Cardinality(g[i]) = (N - i) + 1 /\ (i # 0 => g[i] = MergeTwo(g[i - 1]))}
<1>13. 0 \in S
    <2>1. 0 \in 0..N /\ (N - 0) + 1 = N + 1
        BY <1>3
    <2> QED BY <1>3, <1>12, <2>1
<1>14. ASSUME NEW i \in 1..N, i - 1 \in S PROVE i \in S
    <2>1. i - 1 \in 0..N /\ i \in 0..N /\ (N - (i - 1)) + 1 > 1 /\ ((N - (i - 1)) + 1) - 1 = (N - i) + 1
        BY <1>3
    <2>2. g[i - 1] \in V /\ Cardinality(g[i - 1]) = (N - (i - 1)) + 1
        BY <1>12, <1>14, <2>1
    <2>3. g[i] = next(g[i - 1])
        BY <1>6, <1>12, <2>2
    <2>4. g[i] = MergeTwo(g[i - 1]) /\ Cardinality(g[i]) = Cardinality(g[i - 1]) - 1
        BY <1>9, <2>1, <2>2, <2>3
    <2> QED BY <2>1, <2>2, <2>4
<1> HIDE DEF S
<1>15. \A i \in 0..N : i \in S
    BY <1>3, <1>13, <1>14, UpToInduction
<1>16. /\ \A i \in 0..N : i # 0 => g[i] = MergeTwo(g[i - 1])
       /\ \A i \in 0..N : Cardinality(g[i]) = (N - i) + 1
    BY <1>15 DEF S
<1>17. Loop(g, states, N)
    <2>1. \A i \in 0..N : g[i] = IF i = 0 THEN states ELSE MergeTwo(g[i - 1])
        BY <1>12, <1>16
    <2> QED BY <1>12, <2>1 DEF Loop
<1> DEFINE h == CHOOSE e : Loop(e, states, N)
<1>18. Loop(h, states, N)
    BY <1>17
<1>19. Merged(states) = h[N]
    BY DEF Merged, Loop, N
<1> HIDE DEF h
<1>20. \A i \in 0..N : h[i] = IF i = 0 THEN states ELSE MergeTwo(h[i - 1])
    BY <1>18 DEF Loop
<1> DEFINE T == {i \in 0..N : h[i] = g[i]}
<1>21. 0 \in T
    <2>1. 0 \in 0..N
        BY <1>3
    <2> QED BY <1>12, <1>20, <2>1
<1>22. ASSUME NEW i \in 1..N, i - 1 \in T PROVE i \in T
    <2>1. i \in 0..N /\ i # 0
        BY <1>3
    <2>2. h[i] = MergeTwo(h[i - 1]) /\ g[i] = MergeTwo(g[i - 1])
        BY <1>16, <1>20, <2>1
    <2> QED BY <1>22, <2>1, <2>2
<1> HIDE DEF T
<1>23. \A i \in 0..N : i \in T
    BY <1>3, <1>21, <1>22, UpToInduction
<1>24. N \in 0..N
    BY <1>3
<1>25. h[N] = g[N] /\ g[N] \in V /\ Cardinality(g[N]) = 1
    <2>1. (N - N) + 1 = 1
        BY <1>3
    <2> QED BY <1>12, <1>16, <1>23, <1>24, <2>1 DEF T
<1>26. Heap(g[N], k, n, f, G, equal_size)
    BY <1>5, <1>25
<1>27. PICK s : g[N] = {s}
    <2>1. IsFiniteSet(g[N])
        BY <1>26 DEF Heap, Apart
    <2> QED BY <1>25, <2>1, FS_Singleton
<1>28. Sound(s, k, n, f, G, equal_size) /\ \A x \in 1..n : x \in Items(s, k)
    BY <1>26, <1>27 DEF Heap, Apart
<1> QED BY <1>19, <1>25, <1>27, <1>28

-----------------------------------------------------------------------------
(* The first heap: the sorted items in groups of equal size.               *)

\* Order depends on which places precede which.
LEMMA OrderOf ==
    ASSUME NEW n \in Nat, NEW a, NEW b, Precedence(a, n) = Precedence(b, n)
    PROVE  Order(n, a) = Order(n, b)
<1> DEFINE A(i) == {j \in 1..n : <<j, i>> \in a \/ (<<i, j>> \notin a /\ j < i)}
           B(i) == {j \in 1..n : <<j, i>> \in b \/ (<<i, j>> \notin b /\ j < i)}
           x(r) == CHOOSE i \in 1..n : Cardinality(A(i)) = r - 1
           y(r) == CHOOSE i \in 1..n : Cardinality(B(i)) = r - 1
<1>1. Order(n, a) = [r \in 1..n |-> x(r)] /\ Order(n, b) = [r \in 1..n |-> y(r)]
    BY DEF Order
<1>2. \A i \in 1..n : A(i) = B(i)
    <2>1. \A i, j \in 1..n : <<j, i>> \in Precedence(a, n) <=> (<<j, i>> \in a \/ (<<i, j>> \notin a /\ j < i))
        BY DEF Precedence
    <2>2. \A i, j \in 1..n : <<j, i>> \in Precedence(b, n) <=> (<<j, i>> \in b \/ (<<i, j>> \notin b /\ j < i))
        BY DEF Precedence
    <2> QED BY <2>1, <2>2
<1> HIDE DEF A, B
<1>3. \A r \in 1..n : x(r) = y(r)
    BY <1>2
<1> HIDE DEF x, y
<1>4. [r \in 1..n |-> x(r)] = [r \in 1..n |-> y(r)]
    BY <1>3
<1> QED BY <1>1, <1>4

\* The positions by their weight, and the weights in the same order.
LEMMA SortedPositions ==
    ASSUME NEW n \in Nat, NEW f, Loads(f, n)
    PROVE  /\ Permutes(Sorted(Positions(n), f), n) /\ Len(Sorted(Positions(n), f)) = n
           /\ \A q, r \in 1..n : q < r => f[Sorted(Positions(n), f)[q]] <= f[Sorted(Positions(n), f)[r]]
           /\ Ascending(f) = [r \in 1..n |-> f[Sorted(Positions(n), f)[r]]]
<1> DEFINE s == Positions(n)
           a == {p \in Places(s) : Lighter(s[p[1]], s[p[2]], f)}
           b == {p \in Places(f) : f[p[1]] < f[p[2]]}
<1>1. /\ f \in Seq(Nat) /\ Len(f) = n /\ DOMAIN f = 1..n /\ \A i \in 1..n : f[i] \in Nat
    BY DEF Loads
<1>2. s \in Seq(1..n) /\ Len(s) = n /\ DOMAIN s = 1..n /\ \A i \in 1..n : s[i] = i
    BY DEF Positions
<1>3. \A i, j \in 1..n : <<i, j>> \in a <=> (f[i] < f[j] \/ (f[i] = f[j] /\ i < j))
    <2> HIDE DEF s
    <2> QED BY <1>2 DEF Places, Lighter
<1>4. \A i, j \in 1..n : <<i, j>> \in b <=> f[i] < f[j]
    BY <1>1 DEF Places
<1>5. Sorted(s, f) = Arranged(s, a) /\ Ascending(f) = Arranged(f, b)
    BY DEF Sorted, Ascending
<1> HIDE DEF a, b, s
<1>6. Weak(a, n)
    <2>1. \A i, j \in 1..n : <<i, j>> \in a => <<j, i>> \notin a
        BY <1>1, <1>3
    <2>2. ASSUME NEW i \in 1..n, NEW j \in 1..n, NEW m \in 1..n, <<i, m>> \in a
          PROVE  <<i, j>> \in a \/ <<j, m>> \in a
        <3>1. f[i] < f[m] \/ (f[i] = f[m] /\ i < m)
            BY <1>3, <2>2
        <3>2. /\ f[i] \in Nat /\ f[j] \in Nat /\ f[m] \in Nat
              /\ i \in Nat /\ j \in Nat /\ m \in Nat
            BY <1>1
        <3>3. \/ f[i] < f[j] \/ (f[i] = f[j] /\ i < j)
              \/ f[j] < f[m] \/ (f[j] = f[m] /\ j < m)
            BY <3>1, <3>2
        <3> QED BY <1>3, <3>3
    <2> QED BY <2>1, <2>2 DEF Weak
<1>7. Weak(b, n)
    <2>1. \A i, j \in 1..n : <<i, j>> \in b => <<j, i>> \notin b
        BY <1>1, <1>4
    <2>2. \A i, j, m \in 1..n : <<i, m>> \in b => <<i, j>> \in b \/ <<j, m>> \in b
        BY <1>1, <1>4
    <2> QED BY <2>1, <2>2 DEF Weak
<1>8. Precedence(a, n) = Precedence(b, n)
    <2>1. ASSUME NEW i \in 1..n, NEW j \in 1..n
          PROVE  (<<i, j>> \in a \/ (<<j, i>> \notin a /\ i < j)) <=> (<<i, j>> \in b \/ (<<j, i>> \notin b /\ i < j))
        BY <1>1, <1>3, <1>4
    <2>2. \A x : x \in Precedence(a, n) <=> x \in Precedence(b, n)
        BY <2>1 DEF Precedence
    <2> QED BY <2>2
<1>9. PICK p : /\ Permutes(p, n) /\ Sorted(s, f) = [r \in 1..n |-> s[p[r]]]
               /\ \A q, r \in 1..n : q < r => <<p[r], p[q]>> \notin a
               /\ p = Order(n, a)
    BY <1>2, <1>5, <1>6, Arranges
<1>10. PICK o : /\ Ascending(f) = [r \in 1..n |-> f[o[r]]] /\ o = Order(n, b)
    BY <1>1, <1>5, <1>7, Arranges
<1>11. o = p
    BY <1>8, <1>9, <1>10, OrderOf
<1>12. p \in [1..n -> 1..n] /\ \A r \in 1..n : p[r] \in 1..n
    BY <1>9 DEF Permutes
<1>13. Sorted(s, f) = p
    <2>1. \A r \in 1..n : s[p[r]] = p[r]
        BY <1>2, <1>12
    <2>2. p = [r \in 1..n |-> p[r]]
        BY <1>12
    <2> QED BY <1>9, <2>1, <2>2
<1>14. \A q, r \in 1..n : q < r => f[p[q]] <= f[p[r]]
    <2> SUFFICES ASSUME NEW q \in 1..n, NEW r \in 1..n, q < r PROVE f[p[q]] <= f[p[r]]
        OBVIOUS
    <2>1. p[q] \in 1..n /\ p[r] \in 1..n /\ ~(f[p[r]] < f[p[q]])
        BY <1>3, <1>9, <1>12
    <2>2. f[p[q]] \in Nat /\ f[p[r]] \in Nat
        BY <1>1, <2>1
    <2> QED BY <2>1, <2>2
<1>15. Len(p) = n
    BY <1>12
<1> QED BY <1>9, <1>10, <1>11, <1>13, <1>14, <1>15 DEF s

\* n places in m groups of w.
InGroups(n, w, m) ==
    /\ m \in Nat \ {0} /\ n = w * m
    /\ \A c \in 0..m - 1 : c \in Nat /\ w * c \in Nat /\ w * c + w <= n
    /\ \A r \in 1..n : \E c \in 0..m - 1 : \E i \in 1..w : r = w * c + i
    /\ \A c, d \in 0..m - 1 : \A i, j \in 1..w : w * c + i = w * d + j => c = d /\ i = j

\* n places, cut into groups of w when w divides n.
LEMMA Grid ==
    ASSUME NEW n \in Nat \ {0}, NEW w \in Nat \ {0}, n % w = 0
    PROVE  InGroups(n, w, n \div w)
<1> DEFINE m == n \div w
<1>1. m \in Nat /\ n = w * m
    <2>1. m \in Int /\ w * m <= n /\ n < w * m + w /\ w * m \in Int
        OBVIOUS
    <2>2. m >= 0
        OBVIOUS
    <2>3. n % w = n - w * m
        BY SMTT(30)
    <2> QED BY <2>1, <2>2, <2>3
<1> HIDE DEF m
<1>2. m # 0
    BY <1>1
<1>3. ASSUME NEW c \in 0..m - 1 PROVE c \in Nat /\ w * c \in Nat /\ w * c + w <= n
    <2>1. PICK d \in Nat : m = c + 1 + d
        <3>1. m - c - 1 \in Nat /\ m = c + 1 + (m - c - 1)
            BY <1>1
        <3> QED BY <3>1
    <2>2. w * m = w * c + w + w * d /\ w * c \in Nat /\ w * d \in Nat
        BY <2>1
    <2> QED BY <1>1, <2>2
<1>4. ASSUME NEW r \in 1..n PROVE \E c \in 0..m - 1 : \E i \in 1..w : r = w * c + i
    <2> DEFINE c == (r - 1) \div w
               i == r - w * c
    <2>1. c \in Nat /\ i \in 1..w /\ r = w * c + i
        <3>1. r - 1 \in Nat
            BY <1>1
        <3>2. ASSUME NEW a \in Nat PROVE a \div w \in Nat /\ w * (a \div w) <= a /\ a < w * (a \div w) + w
            OBVIOUS
        <3>3. c \in Nat /\ w * c <= r - 1 /\ r - 1 < w * c + w
            BY <3>1, <3>2
        <3> HIDE DEF c
        <3>4. w * c \in Nat
            BY <3>3
        <3> QED BY <3>1, <3>3, <3>4
    <2> HIDE DEF c, i
    <2>2. c < m
        <3> SUFFICES ASSUME c >= m PROVE FALSE
            BY <1>1, <2>1
        <3>1. PICK d \in Nat : c = m + d
            <4>1. c - m \in Nat /\ c = m + (c - m)
                BY <1>1, <2>1
            <4> QED BY <4>1
        <3>2. w * c = n + w * d /\ w * d \in Nat
            BY <1>1, <3>1
        <3> QED BY <2>1, <3>2
    <2>3. c \in 0..m - 1
        BY <1>1, <2>1, <2>2
    <2> QED BY <2>1, <2>3
<1>5. ASSUME NEW c \in Nat, NEW d \in Nat, NEW i \in 1..w, NEW j \in 1..w, c < d
      PROVE  w * c + i # w * d + j
    <2>1. PICK e \in Nat : d = c + 1 + e
        <3>1. d - c - 1 \in Nat /\ d = c + 1 + (d - c - 1)
            BY <1>5
        <3> QED BY <3>1
    <2>2. w * d = w * c + w + w * e /\ w * c \in Nat /\ w * e \in Nat
        BY <2>1
    <2> QED BY <2>2
<1>6. ASSUME NEW c \in 0..m - 1, NEW d \in 0..m - 1, NEW i \in 1..w, NEW j \in 1..w, w * c + i = w * d + j
      PROVE  c = d /\ i = j
    <2>1. c \in Nat /\ d \in Nat
        OBVIOUS
    <2>2. ~(c < d) /\ ~(d < c)
        BY <1>5, <1>6, <2>1
    <2>3. c = d
        BY <2>1, <2>2
    <2>4. w * c \in Nat
        BY <2>1
    <2> QED BY <1>6, <2>3, <2>4
<1>7. InGroups(n, w, m)
    BY <1>1, <1>2, <1>3, <1>4, <1>6 DEF InGroups
<1> QED BY <1>7 DEF m

\* An item's weight, or nothing for a set without item.
Load(f, items, i) == IF i <= Len(items) THEN f[items[i]] ELSE 0

\* A state of one group is sound.
LEMMA StateSound ==
    ASSUME NEW k \in Nat \ {0}, NEW n \in Nat, NEW f, Loads(f, n), NEW G, NEW equal_size \in BOOLEAN,
           NEW items \in Seq(1..n), Distinct(items), Len(items) \in 1..k, equal_size => Len(items) = k,
           \E g \in G : \A i, j \in 1..k : Load(f, items, i) - Load(f, items, j) <= g
    PROVE  Sound(State(items, k, f), k, n, f, G, equal_size) /\ Items(State(items, k, f), k) = Held(items)
<1> DEFINE u == [i \in 1..k |-> IF i <= Len(items)
                                THEN [sum |-> f[items[i]], items |-> <<items[i]>>]
                                ELSE [sum |-> 0, items |-> <<>>]]
<1>1. State(items, k, f) = Decreasing(u)
    BY DEF State
<1>2. \A i \in 1..k : i <= Len(items) => i \in 1..Len(items) /\ items[i] \in 1..n
    OBVIOUS
<1>3. \A i \in 1..k : /\ i <= Len(items) => u[i].sum = f[items[i]] /\ u[i].items = <<items[i]>>
                      /\ ~(i <= Len(items)) => u[i].sum = 0 /\ u[i].items = <<>>
                      /\ u[i].sum = Load(f, items, i)
    BY DEF Load
<1>4. \A x : Held(<<x>>) = {x} /\ Distinct(<<x>>) /\ Len(<<x>>) = 1
    BY DEF Held, Distinct
<1>5. Held(<<>>) = {} /\ Distinct(<<>>) /\ Len(<<>>) = 0
    BY DEF Held, Distinct
<1>6. \A x \in 1..n : SumOver({x}, f) = f[x]
    <2> TAKE x \in 1..n
    <2>1. {x} \in SUBSET (1..n)
        OBVIOUS
    <2>2. Summable({x}, f)
        BY <2>1, SetSum
    <2> QED BY <2>2, SumPoint
<1>7. SumOver({}, f) = 0
    BY SetSum
<1>8. u \in [1..k -> Sets(n)]
    <2>1. ASSUME NEW i \in 1..k, i <= Len(items)
          PROVE  [sum |-> f[items[i]], items |-> <<items[i]>>] \in Sets(n)
        <3>1. f[items[i]] \in Int /\ <<items[i]>> \in Seq(1..n)
            BY <1>2, <2>1 DEF Loads
        <3> QED BY <3>1 DEF Sets
    <2>2. [sum |-> 0, items |-> <<>>] \in Sets(n)
        BY DEF Sets
    <2> QED BY <2>1, <2>2
<1> HIDE DEF u
<1>9. \A i \in 1..k : Held(u[i].items) = IF i <= Len(items) THEN {items[i]} ELSE {}
    BY <1>3, <1>4, <1>5
<1>10. Dealt(u, k, n, f)
    <2>1. ASSUME NEW i \in 1..k PROVE Distinct(u[i].items) /\ u[i].sum = SumOver(Held(u[i].items), f)
        <3>1. CASE i <= Len(items)
            <4>1. u[i].sum = f[items[i]] /\ u[i].items = <<items[i]>> /\ items[i] \in 1..n
                BY <1>2, <1>3, <3>1
            <4>2. Distinct(<<items[i]>>) /\ Held(<<items[i]>>) = {items[i]} /\ SumOver({items[i]}, f) = f[items[i]]
                BY <1>4, <1>6, <4>1
            <4> QED BY <4>1, <4>2
        <3>2. CASE ~(i <= Len(items))
            BY <1>3, <1>5, <1>7, <3>2
        <3> QED BY <3>1, <3>2
    <2>2. ASSUME NEW i \in 1..k, NEW j \in 1..k, i # j PROVE Held(u[i].items) \cap Held(u[j].items) = {}
        <3>1. i <= Len(items) /\ j <= Len(items) => items[i] # items[j]
            BY <1>2, <2>2 DEF Distinct
        <3> QED BY <1>9, <3>1
    <2> QED BY <1>8, <2>1, <2>2 DEF Dealt
<1>11. Close(u, k, G)
    <2>1. PICK g \in G : \A i, j \in 1..k : Load(f, items, i) - Load(f, items, j) <= g
        OBVIOUS
    <2>2. \A i, j \in 1..k : u[i].sum - u[j].sum <= g
        BY <1>3, <2>1
    <2> QED BY <2>2 DEF Close
<1>12. Even(u, k, equal_size)
    <2>1. ASSUME NEW i \in 1..k PROVE Len(u[i].items) <= 1
        <3>1. CASE i <= Len(items)
            <4>1. u[i].items = <<items[i]>> /\ Len(<<items[i]>>) = 1
                BY <1>3, <3>1
            <4> QED BY <4>1
        <3>2. CASE ~(i <= Len(items))
            <4>1. u[i].items = <<>>
                BY <1>3, <3>2
            <4> QED BY <4>1
        <3> QED BY <3>1, <3>2
    <2>2. equal_size => \A i \in 1..k : Len(u[i].items) = 1
        <3> HAVE equal_size
        <3> TAKE i \in 1..k
        <3>1. i <= Len(items)
            OBVIOUS
        <3> QED BY <1>3, <1>4, <3>1
    <2> QED BY <2>1, <2>2 DEF Even
<1>13. Items(u, k) = Held(items)
    <2>1. \A x : x \in Items(u, k) <=> \E i \in 1..k : i <= Len(items) /\ x = items[i]
        <3>1. \A x : x \in Items(u, k) <=> \E i \in 1..k : x \in Held(u[i].items)
            BY ItemsHeld
        <3>2. ASSUME NEW i \in 1..k, NEW x PROVE x \in Held(u[i].items) <=> i <= Len(items) /\ x = items[i]
            BY <1>9
        <3> QED BY <3>1, <3>2
    <2>2. \A x : x \in Held(items) <=> \E i \in 1..Len(items) : x = items[i]
        BY DEF Held
    <2>3. \A i : (i \in 1..k /\ i <= Len(items)) <=> i \in 1..Len(items)
        OBVIOUS
    <2>4. \A x : x \in Items(u, k) <=> x \in Held(items)
        BY <2>1, <2>2, <2>3
    <2> QED BY <2>4
<1>14. Items(u, k) # {}
    <2>1. items # <<>>
        OBVIOUS
    <2> QED BY <1>13, <2>1, HeldIn
<1>15. Sound(Decreasing(u), k, n, f, G, equal_size) /\ Items(Decreasing(u), k) = Items(u, k)
    BY <1>10, <1>11, <1>12, <1>14, DecreasingSound
<1> QED BY <1>1, <1>13, <1>15

\* What bounds the differences between the sums: the largest difference in a group, or
\* the largest weight.
Gaps(f, n, k, equal_size) ==
    IF equal_size
    THEN {f[Sorted(Positions(n), f)[k * c + k]] - f[Sorted(Positions(n), f)[k * c + 1]] : c \in 0..n \div k - 1}
    ELSE {f[i] : i \in 1..n}

\* How many items a first state is made of.
Width1(k, equal_size) == IF equal_size THEN k ELSE 1

\* The first heap.
Start(f, n, k, equal_size) ==
    {State(items, k, f) : items \in Chunks(Sorted(Positions(n), f), Width1(k, equal_size))}

\* The group of w places number c.
Chunk(p, w, c) == SubSeq(p, w * c + 1, w * c + w)

\* A group has w of the places, each once.
LEMMA GroupOf ==
    ASSUME NEW n \in Nat \ {0}, NEW p, Permutes(p, n), Len(p) = n, NEW w \in Nat \ {0},
           NEW c \in Nat, w * c \in Nat, w * c + w <= n
    PROVE  /\ Chunk(p, w, c) \in Seq(1..n) /\ Len(Chunk(p, w, c)) = w /\ Distinct(Chunk(p, w, c))
           /\ \A i \in 1..w : Chunk(p, w, c)[i] = p[w * c + i] /\ w * c + i \in 1..n
<1> DEFINE a == w * c
           g == Chunk(p, w, c)
<1>1. a \in Nat /\ a + w <= n /\ g = SubSeq(p, a + 1, a + w)
    BY DEF Chunk
<1> HIDE DEF a, g
<1>2. p \in [1..n -> 1..n] /\ p \in Seq(1..n) /\ \A q, r \in 1..n : p[q] = p[r] => q = r
    <2>1. p \in [1..n -> 1..n] /\ n \in Nat
        BY DEF Permutes
    <2>2. p \in Seq(1..n)
        BY <2>1
    <2> QED BY <2>1, <2>2 DEF Permutes
<1>3. \A i \in 1..w : a + i \in 1..n /\ (a + 1) + i - 1 = a + i
    BY <1>1
<1>4. g = [i \in 1..w |-> p[a + i]]
    <2> DEFINE b == a + w
    <2>1. a \in Nat /\ b \in Nat /\ b = a + w /\ b <= Len(p) /\ p \in Seq(1..n) /\ Len(p) \in Nat
        BY <1>1, <1>2
    <2> HIDE DEF b
    <2>2. SubSeq(p, a + 1, b) = [i \in 1..w |-> p[a + i]]
        BY <2>1
    <2> QED BY <1>1, <2>2 DEF b
<1>5. g \in Seq(1..n) /\ Len(g) = w
    <2>1. \A i \in 1..w : p[a + i] \in 1..n
        BY <1>2, <1>3
    <2>2. w \in Nat
        OBVIOUS
    <2> QED BY <1>4, <2>1, <2>2
<1>6. \A i \in 1..w : g[i] = p[a + i]
    BY <1>4
<1>7. Distinct(g)
    <2> SUFFICES ASSUME NEW i \in 1..w, NEW j \in 1..w, g[i] = g[j] PROVE i = j
        BY <1>5 DEF Distinct
    <2>1. a + i = a + j
        BY <1>2, <1>3, <1>6
    <2> QED BY <1>1, <2>1
<1> QED BY <1>3, <1>5, <1>6, <1>7 DEF a, g

\* The first heap has every item once.
LEMMA StartHeap ==
    ASSUME NEW k \in Nat \ {0}, NEW n \in Nat \ {0}, NEW f, Loads(f, n), NEW equal_size \in BOOLEAN,
           equal_size => n % k = 0
    PROVE  /\ Heap(Start(f, n, k, equal_size), k, n, f, Gaps(f, n, k, equal_size), equal_size)
           /\ Start(f, n, k, equal_size) # {} /\ Gaps(f, n, k, equal_size) \in SUBSET Int
<1> DEFINE p == Sorted(Positions(n), f)
           w == Width1(k, equal_size)
           m == n \div w
           g(c) == Chunk(p, w, c)
           st(c) == State(g(c), k, f)
           G == Gaps(f, n, k, equal_size)
           S == Start(f, n, k, equal_size)
<1>1. /\ Permutes(p, n) /\ Len(p) = n /\ \A q, r \in 1..n : q < r => f[p[q]] <= f[p[r]]
    BY SortedPositions
<1>2. w \in Nat \ {0} /\ n % w = 0 /\ (equal_size => w = k) /\ (~equal_size => w = 1)
    <2>1. n % 1 = 0
        BY SMTT(30)
    <2> QED BY <2>1 DEF Width1
<1> HIDE DEF p, w
<1>3. /\ m \in Nat \ {0} /\ \A c \in 0..m - 1 : c \in Nat /\ w * c \in Nat /\ w * c + w <= n
      /\ \A r \in 1..n : \E c \in 0..m - 1 : \E i \in 1..w : r = w * c + i
      /\ \A c, d \in 0..m - 1 : \A i, j \in 1..w : w * c + i = w * d + j => c = d
    <2>1. InGroups(n, w, m)
        BY <1>2, Grid
    <2> HIDE DEF m
    <2> QED BY <2>1 DEF InGroups
<1>4. S = {st(c) : c \in 0..m - 1}
    BY <1>1 DEF Start, Chunks, Chunk, p, w
<1> HIDE DEF m, S
<1>5. \A i \in 1..n : p[i] \in 1..n /\ f[p[i]] \in Nat \ {0}
    BY <1>1 DEF Permutes, Loads
<1>6. \A c \in 0..m - 1 : /\ g(c) \in Seq(1..n) /\ Len(g(c)) = w /\ Distinct(g(c))
                          /\ \A i \in 1..w : g(c)[i] = p[w * c + i] /\ w * c + i \in 1..n
    <2> TAKE c \in 0..m - 1
    <2>1. c \in Nat /\ w * c \in Nat /\ w * c + w <= n
        BY <1>3
    <2>2. /\ Chunk(p, w, c) \in Seq(1..n) /\ Len(Chunk(p, w, c)) = w /\ Distinct(Chunk(p, w, c))
          /\ \A i \in 1..w : Chunk(p, w, c)[i] = p[w * c + i] /\ w * c + i \in 1..n
        BY <1>1, <1>2, <2>1, GroupOf
    <2> QED BY <2>2
<1>7. ASSUME NEW c \in 0..m - 1
      PROVE  \E x \in G : \A i, j \in 1..k : Load(f, g(c), i) - Load(f, g(c), j) <= x
    <2>1. CASE equal_size
        <3> DEFINE a == w * c
                   x == f[p[a + k]] - f[p[a + 1]]
        <3>1. a \in Nat /\ a + k <= n /\ w = k
            BY <1>2, <1>3, <2>1
        <3>2. c \in 0..n \div k - 1
            BY <1>2, <2>1 DEF m
        <3>3. x \in G
            BY <1>2, <2>1, <3>2 DEF Gaps, p
        <3>4. \A i \in 1..k : Load(f, g(c), i) = f[p[a + i]]
            BY <1>6, <3>1 DEF Load
        <3> HIDE DEF a, g
        <3>5. a + 1 \in 1..n /\ a + k \in 1..n /\ \A i \in 1..k : a + i \in 1..n
            BY <3>1
        <3>6. ASSUME NEW i \in 1..k PROVE f[p[a + 1]] <= f[p[a + i]] /\ f[p[a + i]] <= f[p[a + k]] /\ f[p[a + i]] \in Nat
            <4>1. (i = 1 \/ a + 1 < a + i) /\ (i = k \/ a + i < a + k)
                BY <3>1
            <4>2. f[p[a + 1]] \in Nat /\ f[p[a + i]] \in Nat /\ f[p[a + k]] \in Nat
                BY <1>5, <3>5
            <4>3. f[p[a + 1]] <= f[p[a + i]]
                BY <1>1, <3>5, <4>1, <4>2
            <4>4. f[p[a + i]] <= f[p[a + k]]
                BY <1>1, <3>5, <4>1, <4>2
            <4> QED BY <4>2, <4>3, <4>4
        <3>7. ASSUME NEW i \in 1..k, NEW j \in 1..k PROVE Load(f, g(c), i) - Load(f, g(c), j) <= x
            <4> DEFINE b == f[p[a + 1]]
                       d == f[p[a + k]]
                       e == f[p[a + i]]
                       h == f[p[a + j]]
            <4>1. b <= h /\ e <= d /\ b \in Nat /\ d \in Nat /\ e \in Nat /\ h \in Nat
                BY <1>5, <3>5, <3>6
            <4>2. e - h <= d - b
                <5> HIDE DEF b, d, e, h
                <5> QED BY <4>1
            <4> QED BY <3>4, <4>2
        <3> QED BY <3>3, <3>7
    <2>2. CASE ~equal_size
        <3> DEFINE a == w * c
                   x == f[p[a + 1]]
        <3>1. w = 1 /\ a + 1 \in 1..n /\ Len(g(c)) = 1 /\ g(c)[1] = p[a + 1]
            BY <1>2, <1>6, <2>2
        <3>2. p[a + 1] \in 1..n /\ x \in Nat
            BY <1>5, <3>1
        <3>3. x \in G
            BY <2>2, <3>2 DEF Gaps
        <3> HIDE DEF a
        <3>4. \A i \in 1..k : Load(f, g(c), i) \in {0, x}
            <4> TAKE i \in 1..k
            <4>1. i = 1 \/ ~(i <= 1)
                OBVIOUS
            <4> QED BY <3>1, <4>1 DEF Load
        <3> HIDE DEF x, g
        <3>5. \A i, j \in 1..k : Load(f, g(c), i) - Load(f, g(c), j) <= x
            BY <3>2, <3>4
        <3> QED BY <3>3, <3>5
    <2> QED BY <2>1, <2>2
<1> HIDE DEF G
<1>8. \A c \in 0..m - 1 : Sound(st(c), k, n, f, G, equal_size) /\ Items(st(c), k) = Held(g(c))
    <2> TAKE c \in 0..m - 1
    <2>1. /\ g(c) \in Seq(1..n) /\ Distinct(g(c)) /\ Len(g(c)) \in 1..k /\ (equal_size => Len(g(c)) = k)
        BY <1>2, <1>6
    <2>2. \E x \in G : \A i, j \in 1..k : Load(f, g(c), i) - Load(f, g(c), j) <= x
        BY <1>7
    <2> HIDE DEF g
    <2> QED BY <2>1, <2>2, StateSound
<1>9. ASSUME NEW c \in 0..m - 1 PROVE \A x : x \in Held(g(c)) <=> \E i \in 1..w : x = p[w * c + i]
    BY <1>6 DEF Held
<1>10. \A c, d \in 0..m - 1 : c # d => Held(g(c)) \cap Held(g(d)) = {}
    <2> SUFFICES ASSUME NEW c \in 0..m - 1, NEW d \in 0..m - 1, c # d, NEW x, x \in Held(g(c)), x \in Held(g(d))
                 PROVE  FALSE
        OBVIOUS
    <2>1. PICK i \in 1..w : x = p[w * c + i]
        BY <1>9
    <2>2. PICK j \in 1..w : x = p[w * d + j]
        BY <1>9
    <2>3. w * c + i \in 1..n /\ w * d + j \in 1..n
        BY <1>6
    <2>4. w * c + i = w * d + j
        BY <1>1, <2>1, <2>2, <2>3 DEF Permutes
    <2> QED BY <1>3, <2>4
<1>11. \A x \in 1..n : \E c \in 0..m - 1 : x \in Held(g(c))
    <2> TAKE x \in 1..n
    <2>1. PICK r \in 1..n : p[r] = x
        BY <1>1 DEF Permutes
    <2>2. PICK c \in 0..m - 1 : \E i \in 1..w : r = w * c + i
        BY <1>3
    <2> QED BY <1>9, <2>1, <2>2
<1> HIDE DEF st, g
<1>12. IsFiniteSet(S)
    <2> DEFINE h == [c \in 0..m - 1 |-> st(c)]
               M == 0..m - 1
    <2>1. h \in Surjection(M, S)
        BY <1>4 DEF Surjection
    <2>2. IsFiniteSet(M)
        BY <1>3, FS_Interval
    <2> HIDE DEF h, M
    <2> QED BY <2>1, <2>2, FS_Surjection
<1>13. \A s \in S : Sound(s, k, n, f, G, equal_size)
    BY <1>4, <1>8
<1>14. \A s, t \in S : s # t => Items(s, k) \cap Items(t, k) = {}
    <2> SUFFICES ASSUME NEW s \in S, NEW t \in S, s # t PROVE Items(s, k) \cap Items(t, k) = {}
        OBVIOUS
    <2>1. PICK c \in 0..m - 1 : s = st(c)
        BY <1>4
    <2>2. PICK d \in 0..m - 1 : t = st(d)
        BY <1>4
    <2>3. c # d
        BY <2>1, <2>2
    <2>4. Held(g(c)) \cap Held(g(d)) = {}
        BY <1>10, <2>3
    <2> QED BY <1>8, <2>1, <2>2, <2>4
<1>15. \A x \in 1..n : \E s \in S : x \in Items(s, k)
    BY <1>4, <1>8, <1>11
<1>16. S # {}
    <2>1. 0 \in 0..m - 1
        BY <1>3
    <2> QED BY <1>4, <2>1
<1>17. G \in SUBSET Int
    <2>1. CASE equal_size
        <3>1. ASSUME NEW c \in 0..m - 1 PROVE f[p[k * c + k]] - f[p[k * c + 1]] \in Int
            <4>1. 1 \in 1..w /\ w \in 1..w /\ w = k
                BY <1>2, <2>1
            <4>2. k * c + 1 \in 1..n /\ k * c + k \in 1..n
                BY <1>6, <4>1
            <4>3. f[p[k * c + 1]] \in Nat /\ f[p[k * c + k]] \in Nat
                BY <1>5, <4>2
            <4> QED BY <4>3
        <3>2. m = n \div k
            BY <1>2, <2>1 DEF m
        <3> QED BY <2>1, <3>1, <3>2 DEF G, Gaps, p
    <2>2. CASE ~equal_size
        BY <2>2 DEF G, Gaps, Loads
    <2> QED BY <2>1, <2>2
<1> QED BY <1>12, <1>13, <1>14, <1>15, <1>16, <1>17 DEF Heap, Apart, S, G

-----------------------------------------------------------------------------
(* karmarkar_karp.                                                         *)

\* One number of G bounds the differences between the work of the parts.
Bounded(parts, f, G) ==
    \E g \in G : \A p, q \in 1..Len(parts) : Work(parts[p], f) - Work(parts[q], f) <= g

\* Partitions of equal size, and partitions none of which is empty.
EqualParts(P, k, n, f) ==
    /\ Deals(P, 1..n) /\ Len(P) = k /\ Bounded(P, f, Gaps(f, n, k, TRUE))
    /\ \A p \in 1..k : Len(P[p]) = n \div k

FilledParts(P, k, n, f) ==
    /\ Deals(P, 1..n) /\ Len(P) = k /\ Bounded(P, f, Gaps(f, n, k, FALSE))
    /\ \A p \in 1..k : P[p] # <<>>

\* k parts deal out the positions; they are as long as each other, or else none is
\* empty unless there are more parts than positions.
LEMMA Partitioned ==
    ASSUME NEW k \in Nat \ {0}, NEW n \in Nat \ {0}, NEW f, Loads(f, n), NEW equal_size \in BOOLEAN,
           equal_size => n % k = 0
    PROVE  /\ equal_size => EqualParts(karmarkar_karp(f, k, equal_size), k, n, f)
           /\ ~equal_size /\ k <= n => FilledParts(karmarkar_karp(f, k, equal_size), k, n, f)
<1> DEFINE G == Gaps(f, n, k, equal_size)
           S == Start(f, n, k, equal_size)
           parts == karmarkar_karp(f, k, equal_size)
<1>1. Heap(S, k, n, f, G, equal_size) /\ S # {} /\ G \in SUBSET Int
    BY StartHeap
<1>2. Len(f) = n
    BY DEF Loads
<1>3. parts = [p \in 1..k |-> (CHOOSE s \in Merged(S) : TRUE)[p].items]
    BY <1>2 DEF karmarkar_karp, Start, Width1
<1> HIDE DEF G, S
<1>4. PICK s : /\ Merged(S) = {s} /\ Sound(s, k, n, f, G, equal_size)
               /\ \A x \in 1..n : x \in Items(s, k)
    BY <1>1, MergedSound
<1>5. (CHOOSE t \in Merged(S) : TRUE) = s
    BY <1>4
<1>6. parts = [p \in 1..k |-> s[p].items]
    BY <1>3, <1>5
<1>7. Dealt(s, k, n, f) /\ Close(s, k, G) /\ Even(s, k, equal_size)
    BY <1>4 DEF Sound
<1>8. \A p \in 1..k : /\ s[p].items \in Seq(1..n) /\ Distinct(s[p].items) /\ s[p].sum \in Int
                      /\ s[p].sum = SumOver(Held(s[p].items), f)
    BY <1>7 DEF Dealt, Sets
<1>9. parts \in Seq(Seq(1..n)) /\ Len(parts) = k /\ \A p \in 1..k : parts[p] = s[p].items
    BY <1>6, <1>8
<1> HIDE DEF parts
<1>10. Deals(parts, 1..n)
    <2>1. \A p, q \in 1..k : p # q => Held(parts[p]) \cap Held(parts[q]) = {}
        BY <1>7, <1>9 DEF Dealt
    <2>2. \A x \in 1..n : \E p \in 1..k : x \in Held(parts[p])
        BY <1>4, <1>9, ItemsHeld
    <2>3. \A p \in 1..k : Distinct(parts[p])
        BY <1>8, <1>9
    <2> QED BY <1>9, <2>1, <2>2, <2>3 DEF Deals
<1>11. \A p \in 1..k : Work(parts[p], f) = s[p].sum
    <2> TAKE p \in 1..k
    <2>1. Lists(parts[p], Held(parts[p])) /\ Held(parts[p]) \in SUBSET (1..n)
        BY <1>8, <1>9, HeldIn DEF Lists
    <2>2. \A x \in Held(parts[p]) : f[x] \in Int
        BY <2>1 DEF Loads
    <2>3. Work(parts[p], f) = SumOver(Held(parts[p]), f)
        BY <2>1, <2>2, WorkListed
    <2> QED BY <1>8, <1>9, <2>3
<1>12. Bounded(parts, f, G)
    <2>1. PICK g \in G : \A p, q \in 1..k : s[p].sum - s[q].sum <= g
        BY <1>7 DEF Close
    <2>2. \A p, q \in 1..k : Work(parts[p], f) - Work(parts[q], f) <= g
        BY <1>11, <2>1
    <2> QED BY <1>9, <2>2 DEF Bounded
<1>13. ASSUME equal_size PROVE \A p \in 1..k : Len(parts[p]) = n \div k
    <2> DEFINE L == Len(parts[1])
    <2>1. \A p \in 1..k : Len(parts[p]) = L
        <3>1. 1 \in 1..k /\ \A i, j \in 1..k : Len(s[i].items) = Len(s[j].items)
            BY <1>7, <1>13 DEF Even
        <3> TAKE p \in 1..k
        <3>2. Len(s[p].items) = Len(s[1].items)
            BY <3>1
        <3>3. parts[p] = s[p].items /\ parts[1] = s[1].items
            BY <1>9, <3>1
        <3> QED BY <3>2, <3>3
    <2>2. L \in Nat
        BY <1>9
    <2> HIDE DEF L
    <2>3. Len(FlattenSeq(parts)) = k * L
        BY <1>9, <2>1, <2>2, FlatShares
    <2>4. Lists(FlattenSeq(parts), 1..n)
        BY <1>10, FlatLists
    <2>5. Cardinality(1..n) = k * L
        BY <2>3, <2>4, ListLength
    <2>6. Cardinality(1..n) = n
        BY FS_Interval
    <2>7. n = k * (n \div k) /\ n \div k \in Nat
        <3> DEFINE d == n \div k
        <3>1. InGroups(n, k, d)
            BY <1>13, Grid
        <3> HIDE DEF d
        <3>2. n = k * d /\ d \in Nat
            BY <3>1 DEF InGroups
        <3> QED BY <3>2 DEF d
    <2>8. L = n \div k
        <3> DEFINE d == n \div k
        <3>1. k * L = k * d /\ d \in Nat
            BY <2>5, <2>6, <2>7
        <3> HIDE DEF d
        <3>2. L = d
            BY <2>2, <3>1
        <3> QED BY <3>2 DEF d
    <2> QED BY <2>1, <2>8
<1>14. ASSUME ~equal_size, k <= n PROVE \A p \in 1..k : parts[p] # <<>>
    <2> SUFFICES ASSUME NEW e \in 1..k, parts[e] = <<>> PROVE FALSE
        OBVIOUS
    <2>1. \A p \in 1..k : Len(parts[p]) <= 1
        BY <1>7, <1>9, <1>14 DEF Even
    <2> DEFINE T == (1..k) \ {e}
               owner == [x \in 1..n |-> CHOOSE p \in 1..k : x \in Held(parts[p])]
    <2>2. \A x \in 1..n : owner[x] \in 1..k /\ x \in Held(parts[owner[x]])
        BY <1>9, <1>10 DEF Deals
    <2> HIDE DEF owner
    <2>3. Held(parts[e]) = {}
        BY DEF Held
    <2>4. \A x \in 1..n : owner[x] \in T
        BY <2>2, <2>3
    <2>5. owner \in [1..n -> T]
        BY <2>4 DEF owner
    <2>6. IsFiniteSet(1..k) /\ Cardinality(1..k) = k /\ IsFiniteSet(1..n) /\ Cardinality(1..n) = n
        BY FS_Interval
    <2>7. IsFiniteSet(T) /\ Cardinality(T) = k - 1
        <3> DEFINE K == 1..k
        <3>1. IsFiniteSet(K) /\ e \in K /\ Cardinality(K) = k /\ T = K \ {e}
            BY <2>6
        <3> HIDE DEF K, T
        <3>2. IsFiniteSet(K \ {e}) /\ Cardinality(K \ {e}) = Cardinality(K) - 1
            BY <3>1, FS_RemoveElement
        <3> QED BY <3>1, <3>2
    <2> HIDE DEF T
    <2>8. \E x, y \in 1..n : x # y /\ owner[x] = owner[y]
        <3> DEFINE N == 1..n
        <3>1. IsFiniteSet(N) /\ Cardinality(T) < Cardinality(N) /\ owner \in [N -> T]
            BY <1>14, <2>5, <2>6, <2>7
        <3> HIDE DEF N
        <3>2. \E x, y \in N : x # y /\ owner[x] = owner[y]
            BY <2>7, <3>1, FS_PigeonHole
        <3> QED BY <3>2 DEF N
    <2>9. PICK x \in 1..n, y \in 1..n : x # y /\ owner[x] = owner[y]
        BY <2>8
    <2>10. PICK i \in 1..Len(parts[owner[x]]) : parts[owner[x]][i] = x
        BY <2>2 DEF Held
    <2>11. PICK j \in 1..Len(parts[owner[x]]) : parts[owner[x]][j] = y
        BY <2>2, <2>9 DEF Held
    <2>12. Len(parts[owner[x]]) <= 1 /\ Len(parts[owner[x]]) \in Nat
        BY <1>9, <2>1, <2>2
    <2>13. i = j
        BY <2>12
    <2> QED BY <2>9, <2>10, <2>11, <2>13
<1>15. ASSUME equal_size PROVE EqualParts(parts, k, n, f)
    <2>1. equal_size = TRUE
        BY <1>15
    <2>2. Bounded(parts, f, Gaps(f, n, k, TRUE))
        BY <1>12, <2>1 DEF G
    <2>3. \A p \in 1..k : Len(parts[p]) = n \div k
        BY <1>13, <1>15
    <2> QED BY <1>9, <1>10, <2>2, <2>3 DEF EqualParts
<1>16. ASSUME ~equal_size, k <= n PROVE FilledParts(parts, k, n, f)
    <2>1. equal_size = FALSE
        BY <1>16
    <2>2. Bounded(parts, f, Gaps(f, n, k, FALSE))
        BY <1>12, <2>1 DEF G
    <2>3. \A p \in 1..k : parts[p] # <<>>
        BY <1>14, <1>16
    <2> QED BY <1>9, <1>10, <2>2, <2>3 DEF FilledParts
<1> QED BY <1>15, <1>16 DEF parts

-----------------------------------------------------------------------------
(* Reordering partitions and their items.                                  *)

\* The parts of Q have the items of the parts of P, in any order.
Reordered(Q, P, A) ==
    /\ Q \in Seq(Seq(A)) /\ Len(Q) = Len(P)
    /\ \A p \in 1..Len(P) : /\ Len(Q[p]) = Len(P[p]) /\ Held(Q[p]) = Held(P[p])
                            /\ (Distinct(P[p]) => Distinct(Q[p]))

\* A partition's work is that of its items.
LEMMA PartWork ==
    ASSUME NEW n \in Nat, NEW f, Loads(f, n), NEW q \in Seq(1..n), Distinct(q)
    PROVE  Work(q, f) = SumOver(Held(q), f) /\ Work(q, f) \in Nat /\ (q # <<>> => Work(q, f) > 0)
<1>1. Lists(q, Held(q)) /\ Held(q) \in SUBSET (1..n) /\ (Held(q) = {} <=> q = <<>>)
    BY HeldIn DEF Lists
<1>2. \A x \in Held(q) : f[x] \in Int
    BY <1>1 DEF Loads
<1>3. Work(q, f) = SumOver(Held(q), f)
    BY <1>1, <1>2, WorkListed
<1>4. SumOver(Held(q), f) \in Nat /\ (SumOver(Held(q), f) = 0 <=> Held(q) = {})
    BY <1>1, SetSum
<1> QED BY <1>1, <1>3, <1>4

\* Reordering the items of each part changes neither who has them nor the work.
LEMMA ReorderedDeals ==
    ASSUME NEW n \in Nat, NEW f, Loads(f, n), NEW P, Deals(P, 1..n), NEW Q, Reordered(Q, P, 1..n), NEW G
    PROVE  Deals(Q, 1..n) /\ (Bounded(P, f, G) => Bounded(Q, f, G))
<1>1. /\ P \in Seq(Seq(1..n)) /\ \A p \in 1..Len(P) : P[p] \in Seq(1..n) /\ Distinct(P[p])
    <2>1. P \in Seq(Seq(1..n))
        BY DEF Deals
    <2>2. \A p \in 1..Len(P) : P[p] \in Seq(1..n)
        BY <2>1
    <2> QED BY <2>1, <2>2 DEF Deals
<1>2. Q \in Seq(Seq(1..n)) /\ Len(Q) = Len(P)
    BY DEF Reordered
<1>3. \A p \in 1..Len(P) : Q[p] \in Seq(1..n) /\ Distinct(Q[p]) /\ Held(Q[p]) = Held(P[p])
    <2> TAKE p \in 1..Len(P)
    <2>1. Q[p] \in Seq(1..n)
        BY <1>2
    <2>2. Held(Q[p]) = Held(P[p]) /\ (Distinct(P[p]) => Distinct(Q[p]))
        BY DEF Reordered
    <2> QED BY <1>1, <2>1, <2>2
<1>4. Deals(Q, 1..n)
    <2>1. \A p, q \in 1..Len(P) : p # q => Held(Q[p]) \cap Held(Q[q]) = {}
        BY <1>3 DEF Deals
    <2>2. \A a \in 1..n : \E p \in 1..Len(P) : a \in Held(Q[p])
        BY <1>3 DEF Deals
    <2> QED BY <1>2, <1>3, <2>1, <2>2 DEF Deals
<1>5. \A p \in 1..Len(P) : Work(Q[p], f) = Work(P[p], f)
    <2> TAKE p \in 1..Len(P)
    <2>1. Work(Q[p], f) = SumOver(Held(Q[p]), f) /\ Work(P[p], f) = SumOver(Held(P[p]), f)
        BY <1>1, <1>3, PartWork
    <2> QED BY <1>3, <2>1
<1>6. ASSUME Bounded(P, f, G) PROVE Bounded(Q, f, G)
    <2>1. PICK g \in G : \A p, q \in 1..Len(P) : Work(P[p], f) - Work(P[q], f) <= g
        BY <1>6 DEF Bounded
    <2>2. ASSUME NEW p \in 1..Len(P), NEW q \in 1..Len(P) PROVE Work(Q[p], f) - Work(Q[q], f) <= g
        <3>1. Work(P[p], f) - Work(P[q], f) <= g
            BY <2>1
        <3>2. Work(Q[p], f) = Work(P[p], f) /\ Work(Q[q], f) = Work(P[q], f)
            BY <1>5
        <3> QED BY <3>1, <3>2
    <2> QED BY <1>2, <2>2 DEF Bounded
<1> QED BY <1>4, <1>6

\* Nor does another order of the parts.
LEMMA RearrangedDeals ==
    ASSUME NEW n \in Nat, NEW f, NEW P, Deals(P, 1..n), NEW Q, Rearranges(Q, P), NEW G
    PROVE  /\ Deals(Q, 1..n) /\ Len(Q) = Len(P) /\ (Bounded(P, f, G) => Bounded(Q, f, G))
           /\ (\A p \in 1..Len(P) : P[p] # <<>>) => (\A p \in 1..Len(Q) : Q[p] # <<>>)
<1> DEFINE m == Len(P)
<1>1. P \in Seq(Seq(1..n)) /\ m \in Nat
    BY DEF Deals
<1>2. Q \in Seq(Seq(1..n)) /\ Len(Q) = m
    BY <1>1, RearrangedHeld
<1>3. PICK o : Permutes(o, m) /\ Q = [r \in 1..m |-> P[o[r]]]
    BY DEF Rearranges
<1>4. /\ \A r \in 1..m : o[r] \in 1..m
      /\ \A q, r \in 1..m : o[q] = o[r] => q = r
      /\ \A i \in 1..m : \E r \in 1..m : o[r] = i
    BY <1>3 DEF Permutes
<1>5. /\ \A p \in 1..m : Distinct(P[p])
      /\ \A p, q \in 1..m : p # q => Held(P[p]) \cap Held(P[q]) = {}
      /\ \A a \in 1..n : \E p \in 1..m : a \in Held(P[p])
    BY DEF Deals
<1>6. \A r \in 1..m : Q[r] = P[o[r]]
    BY <1>3
<1> HIDE DEF m
<1>7. Deals(Q, 1..n)
    <2>1. \A p \in 1..m : Distinct(Q[p])
        BY <1>4, <1>5, <1>6
    <2>2. ASSUME NEW p \in 1..m, NEW q \in 1..m, p # q PROVE Held(Q[p]) \cap Held(Q[q]) = {}
        <3>1. o[p] # o[q] /\ o[p] \in 1..m /\ o[q] \in 1..m
            BY <1>4, <2>2
        <3>2. Held(P[o[p]]) \cap Held(P[o[q]]) = {}
            BY <1>5, <3>1
        <3> QED BY <1>6, <3>2
    <2>3. \A a \in 1..n : \E p \in 1..m : a \in Held(Q[p])
        <3> TAKE a \in 1..n
        <3>1. PICK i \in 1..m : a \in Held(P[i])
            BY <1>5
        <3>2. PICK r \in 1..m : o[r] = i
            BY <1>4
        <3> QED BY <1>6, <3>1, <3>2
    <2> QED BY <1>2, <2>1, <2>2, <2>3 DEF Deals
<1>8. ASSUME Bounded(P, f, G) PROVE Bounded(Q, f, G)
    <2>1. PICK g \in G : \A p, q \in 1..m : Work(P[p], f) - Work(P[q], f) <= g
        BY <1>8 DEF Bounded, m
    <2>2. ASSUME NEW p \in 1..m, NEW q \in 1..m PROVE Work(Q[p], f) - Work(Q[q], f) <= g
        <3>1. o[p] \in 1..m /\ o[q] \in 1..m /\ Q[p] = P[o[p]] /\ Q[q] = P[o[q]]
            BY <1>4, <1>6
        <3>2. Work(P[o[p]], f) - Work(P[o[q]], f) <= g
            BY <2>1, <3>1
        <3> QED BY <3>1, <3>2
    <2> QED BY <1>2, <2>2 DEF Bounded
<1>9. ASSUME \A p \in 1..m : P[p] # <<>> PROVE \A p \in 1..m : Q[p] # <<>>
    <2> TAKE p \in 1..m
    <2>1. o[p] \in 1..m /\ Q[p] = P[o[p]]
        BY <1>4, <1>6
    <2> QED BY <1>9, <2>1
<1> QED BY <1>2, <1>7, <1>8, <1>9 DEF m

\* sorted() rearranges a partition, by weight and by position.
LEMMA SortedRearranges ==
    ASSUME NEW n \in Nat, NEW f, Loads(f, n), NEW q \in Seq(1..n)
    PROVE  Rearranges(Sorted(q, f), q)
<1> DEFINE a == {p \in Places(q) : Lighter(q[p[1]], q[p[2]], f)}
           m == Len(q)
           v(i) == f[q[i]]
           h(i) == q[i]
<1>1. m \in Nat /\ DOMAIN q = 1..m /\ \A i \in 1..m : h(i) \in Int /\ v(i) \in Int
    <2>1. \A i \in 1..m : q[i] \in 1..n
        OBVIOUS
    <2> QED BY <2>1 DEF Loads
<1>2. \A i, j \in 1..m : <<i, j>> \in a <=> (v(i) < v(j) \/ (v(i) = v(j) /\ h(i) < h(j)))
    BY <1>1 DEF Places, Lighter
<1>3. Sorted(q, f) = Arranged(q, a)
    BY DEF Sorted
<1>6. \A i \in 1..m : h(i) \in Int /\ v(i) \in Int
    BY <1>1
<1> HIDE DEF a, m, v, h
<1>4. Weak(a, m)
    <2>1. \A i, j \in 1..m : <<i, j>> \in a => <<j, i>> \notin a
        BY <1>2, <1>6
    <2>2. ASSUME NEW i \in 1..m, NEW j \in 1..m, NEW l \in 1..m, <<i, l>> \in a
          PROVE  <<i, j>> \in a \/ <<j, l>> \in a
        <3>1. v(i) < v(l) \/ (v(i) = v(l) /\ h(i) < h(l))
            BY <1>2, <2>2
        <3>2. /\ v(i) \in Int /\ v(j) \in Int /\ v(l) \in Int
              /\ h(i) \in Int /\ h(j) \in Int /\ h(l) \in Int
            BY <1>6
        <3>3. \/ v(i) < v(j) \/ (v(i) = v(j) /\ h(i) < h(j))
              \/ v(j) < v(l) \/ (v(j) = v(l) /\ h(j) < h(l))
            BY <3>1, <3>2
        <3> QED BY <1>2, <3>3
    <2> QED BY <2>1, <2>2 DEF Weak
<1>5. \E p : Permutes(p, m) /\ Arranged(q, a) = [r \in 1..m |-> q[p[r]]]
    BY <1>4, Arranges DEF m
<1> QED BY <1>3, <1>5 DEF Rearranges, m

\* sorted() rearranges the positions of a pass.
LEMMA AscendingRearranges ==
    ASSUME NEW n \in Nat, NEW q \in Seq(1..n)
    PROVE  Rearranges(Ascending(q), q)
<1> DEFINE a == {p \in Places(q) : q[p[1]] < q[p[2]]}
           m == Len(q)
<1>1. m \in Nat /\ DOMAIN q = 1..m /\ \A i \in 1..m : q[i] \in Int
    OBVIOUS
<1>2. \A i, j \in 1..m : <<i, j>> \in a <=> q[i] < q[j]
    BY <1>1 DEF Places
<1>3. Ascending(q) = Arranged(q, a)
    BY DEF Ascending
<1> HIDE DEF a, m
<1>4. Weak(a, m)
    <2>1. \A i, j \in 1..m : <<i, j>> \in a => <<j, i>> \notin a
        BY <1>1, <1>2
    <2>2. \A i, j, l \in 1..m : <<i, l>> \in a => <<i, j>> \in a \/ <<j, l>> \in a
        BY <1>1, <1>2
    <2> QED BY <2>1, <2>2 DEF Weak
<1>5. \E p : Permutes(p, m) /\ Arranged(q, a) = [r \in 1..m |-> q[p[r]]]
    BY <1>4, Arranges DEF m
<1> QED BY <1>3, <1>5 DEF Rearranges, m

\* sorted() rearranges the passes, by work and first position.
LEMMA HeavierRearranges ==
    ASSUME NEW n \in Nat, NEW f, Loads(f, n), NEW P, Deals(P, 1..n)
    PROVE  Rearranges(HeavierFirst(P, f), P)
<1> DEFINE a == {p \in Places(P) : Heavier(P[p[1]], P[p[2]], f)}
           m == Len(P)
           w(i) == Work(P[i], f)
           h(i) == FirstPosition(P[i])
<1>1. P \in Seq(Seq(1..n)) /\ m \in Nat /\ DOMAIN P = 1..m /\ \A i \in 1..m : P[i] \in Seq(1..n)
    <2>1. P \in Seq(Seq(1..n))
        BY DEF Deals
    <2> QED BY <2>1
<1>2. \A i \in 1..m : w(i) \in Int /\ h(i) \in Int
    <2> TAKE i \in 1..m
    <2>1. P[i] \in Seq(1..n) /\ Distinct(P[i])
        BY <1>1 DEF Deals
    <2>2. Work(P[i], f) \in Nat
        BY <2>1, PartWork
    <2>3. P[i] # <<>> => Head(P[i]) \in 1..n
        BY <2>1, HeldIn
    <2> QED BY <2>2, <2>3 DEF FirstPosition
<1>3. \A i, j \in 1..m : <<i, j>> \in a <=> (w(i) > w(j) \/ (w(i) = w(j) /\ h(i) > h(j)))
    BY <1>1 DEF Places, Heavier
<1>4. HeavierFirst(P, f) = Arranged(P, a)
    BY DEF HeavierFirst
<1> HIDE DEF a, m, w, h
<1>5. Weak(a, m)
    <2>1. \A i, j \in 1..m : <<i, j>> \in a => <<j, i>> \notin a
        BY <1>2, <1>3
    <2>2. \A i, j, l \in 1..m : <<i, l>> \in a => <<i, j>> \in a \/ <<j, l>> \in a
        BY <1>2, <1>3
    <2> QED BY <2>1, <2>2 DEF Weak
<1>6. \E p : Permutes(p, m) /\ Arranged(P, a) = [r \in 1..m |-> P[p[r]]]
    <2> DEFINE V == Seq(1..n)
    <2>1. P \in Seq(V)
        BY <1>1
    <2> HIDE DEF V
    <2> QED BY <1>5, <2>1, Arranges DEF m
<1> QED BY <1>4, <1>6 DEF Rearranges, m

-----------------------------------------------------------------------------
(* The batch of the ranks.                                                 *)

\* A length above zero makes for some work.
LEMMA WorkloadsLoad ==
    ASSUME NEW batch \in Seq(Nat \ {0})
    PROVE  Loads(Workloads(batch), Len(batch))
<1>1. DOMAIN batch = 1..Len(batch) /\ \A i \in 1..Len(batch) : batch[i] \in Nat \ {0}
    OBVIOUS
<1>2. ASSUME NEW x \in Nat \ {0} PROVE calculate_workload(x) \in Nat \ {0}
    <2>1. x * x \in Nat /\ x > 0
        OBVIOUS
    <2> DEFINE y == x * x
    <2> HIDE DEF y
    <2>2. 24576 * x + y \in Nat \ {0}
        BY <2>1 DEF y
    <2> QED BY <2>2 DEF calculate_workload, y
<1> QED BY <1>1, <1>2 DEF Loads, Workloads

\* Parts that deal out the positions, laid end to end, have each position once.
LEMMA DealtOnce ==
    ASSUME NEW n \in Nat, NEW P, Deals(P, 1..n), NEW batch \in Seq(Nat), Len(batch) = n
    PROVE  /\ Once(FlattenSeq(P), batch) /\ Lists(FlattenSeq(P), 1..n)
           /\ FlattenSeq(P) \in Seq(1..n) /\ Len(FlattenSeq(P)) = n
<1> DEFINE q == FlattenSeq(P)
<1>1. Lists(q, 1..n)
    BY FlatLists
<1>2. Cardinality(1..n) = Len(q)
    BY <1>1, ListLength
<1>3. Len(q) = n
    <2>1. 1 \in Int /\ n \in Int /\ n - 1 + 1 = n /\ (1 > n => n = 0)
        OBVIOUS
    <2>2. Cardinality(1..n) = n
        BY <2>1, FS_Interval
    <2> QED BY <1>2, <2>2
<1>4. q \in Seq(1..n) /\ DOMAIN q = 1..Len(q) /\ DOMAIN batch = 1..n
    BY <1>1 DEF Lists
<1>5. {q[i] : i \in DOMAIN q} = 1..n
    BY <1>1, <1>4 DEF Lists, Held
<1> QED BY <1>1, <1>3, <1>4, <1>5 DEF Once

\* For the ranks.
LEMMA EquallyPartitioned ==
    ASSUME NEW k \in Nat \ {0}, NEW n \in Nat \ {0}, NEW f, Loads(f, n), n % k = 0
    PROVE  EqualParts(karmarkar_karp(f, k, TRUE), k, n, f)
<1>1. TRUE \in BOOLEAN /\ (TRUE => n % k = 0)
    OBVIOUS
<1> QED BY <1>1, Partitioned

\* For the passes.
LEMMA LooselyPartitioned ==
    ASSUME NEW k \in Nat \ {0}, NEW n \in Nat \ {0}, NEW f, Loads(f, n), k <= n
    PROVE  FilledParts(karmarkar_karp(f, k, FALSE), k, n, f)
<1>1. FALSE \in BOOLEAN /\ (FALSE => n % k = 0)
    OBVIOUS
<1> QED BY <1>1, Partitioned

\* The partitions of _balance_batch, each in the order in which it goes to its rank.
RankParts(f, w) ==
    [p \in 1..w |-> EvenPlaces(Sorted(karmarkar_karp(f, w, TRUE)[p], f))
                        \o Reverse(OddPlaces(Sorted(karmarkar_karp(f, w, TRUE)[p], f)))]

\* They deal out the samples, as many to each rank, and about the same work.
LEMMA RankPartsDeal ==
    ASSUME NEW w \in Nat \ {0}, NEW n \in Nat \ {0}, NEW f, Loads(f, n), n % w = 0
    PROVE  /\ Deals(RankParts(f, w), 1..n) /\ Len(RankParts(f, w)) = w
           /\ Bounded(RankParts(f, w), f, Gaps(f, n, w, TRUE))
           /\ \A p \in 1..w : Len(RankParts(f, w)[p]) = n \div w
<1> DEFINE P == karmarkar_karp(f, w, TRUE)
           Q == RankParts(f, w)
           G == Gaps(f, n, w, TRUE)
<1>1. /\ Deals(P, 1..n) /\ Len(P) = w /\ Bounded(P, f, G)
      /\ \A p \in 1..w : Len(P[p]) = n \div w
    <2>1. EqualParts(P, w, n, f)
        BY EquallyPartitioned
    <2> QED BY <2>1 DEF EqualParts
<1>2. Q = [p \in 1..w |-> EvenPlaces(Sorted(P[p], f)) \o Reverse(OddPlaces(Sorted(P[p], f)))]
    BY DEF RankParts
<1> HIDE DEF P, Q, G
<1>3. P \in Seq(Seq(1..n))
    BY <1>1 DEF Deals
<1>4. ASSUME NEW p \in 1..w
      PROVE  /\ Q[p] \in Seq(1..n) /\ Len(Q[p]) = Len(P[p]) /\ Held(Q[p]) = Held(P[p])
             /\ Distinct(P[p]) => Distinct(Q[p])
    <2> DEFINE s == Sorted(P[p], f)
               V == 1..n
    <2>1. P[p] \in Seq(V)
        BY <1>1, <1>3
    <2>2. Rearranges(s, P[p])
        BY <2>1, SortedRearranges
    <2>3. Q[p] = EvenPlaces(s) \o Reverse(OddPlaces(s))
        BY <1>2
    <2> HIDE DEF s, V
    <2>4. s \in Seq(V) /\ Len(s) = Len(P[p]) /\ Held(s) = Held(P[p]) /\ (Distinct(P[p]) => Distinct(s))
        BY <2>1, <2>2, RearrangedHeld
    <2>5. Rearranges(Q[p], s)
        BY <2>3, <2>4, EvenThenOdd
    <2>6. Q[p] \in Seq(V) /\ Len(Q[p]) = Len(s) /\ Held(Q[p]) = Held(s) /\ (Distinct(s) => Distinct(Q[p]))
        BY <2>4, <2>5, RearrangedHeld
    <2> QED BY <2>4, <2>6 DEF V
<1>5. Q \in Seq(Seq(1..n)) /\ Len(Q) = w
    <2>1. \A p \in 1..w : Q[p] \in Seq(1..n)
        BY <1>4
    <2>2. DOMAIN Q = 1..w /\ Q = [p \in 1..w |-> Q[p]]
        BY <1>2
    <2> QED BY <2>1, <2>2
<1>6. Reordered(Q, P, 1..n)
    BY <1>1, <1>4, <1>5 DEF Reordered
<1>7. Deals(Q, 1..n) /\ (Bounded(P, f, G) => Bounded(Q, f, G))
    BY <1>1, <1>6, ReorderedDeals
<1>8. \A p \in 1..w : Len(Q[p]) = n \div w
    BY <1>1, <1>4
<1> QED BY <1>1, <1>5, <1>7, <1>8 DEF Q, G

\* The share of a rank is its part.
LEMMA Shares ==
    ASSUME NEW w \in Nat \ {0}, NEW n \in Nat \ {0}, n % w = 0,
           NEW Q, Deals(Q, 1..n), Len(Q) = w, \A p \in 1..w : Len(Q[p]) = n \div w
    PROVE  \A r \in 1..w : /\ Share(FlattenSeq(Q), r, w) = Q[r] /\ Q[r] \in Seq(1..n)
                           /\ n \div w \in Nat \ {0}
<1> DEFINE L == n \div w
           q == FlattenSeq(Q)
<1>1. InGroups(n, w, L)
    BY Grid
<1> HIDE DEF L
<1>2. L \in Nat \ {0} /\ n = w * L
    BY <1>1 DEF InGroups
<1>3. Q \in Seq(Seq(1..n)) /\ \A r \in 1..w : Q[r] \in Seq(1..n)
    <2>1. Q \in Seq(Seq(1..n))
        BY DEF Deals
    <2> QED BY <2>1
<1>4. \A p \in 1..Len(Q) : Len(Q[p]) = L
    BY DEF L
<1>5. L \in Nat
    BY <1>2
<1>6. /\ Len(q) = Len(Q) * L
      /\ \A r \in 1..Len(Q) : SubSeq(q, (r - 1) * L + 1, r * L) = Q[r]
    BY <1>3, <1>4, <1>5, FlatShares
<1>7. Len(q) = n
    BY <1>2, <1>6
<1>8. Len(q) \div w = L
    BY <1>7 DEF L
<1>9. \A r \in 1..w : Share(q, r, w) = SubSeq(q, (r - 1) * L + 1, r * L)
    BY <1>8 DEF Share
<1> QED BY <1>2, <1>3, <1>6, <1>9 DEF L

\* A group of the heap's first states is a group of the work in order.
LEMMA GapIsSpan ==
    ASSUME NEW w \in Nat \ {0}, NEW n \in Nat \ {0}, n % w = 0,
           NEW batch \in Seq(Nat \ {0}), Len(batch) = n, NEW g \in Gaps(Workloads(batch), n, w, TRUE)
    PROVE  \E c \in 0..n \div w - 1 : g = Span(batch, w, c)
<1> DEFINE f == Workloads(batch)
           p == Sorted(Positions(n), f)
           a == Ascending(f)
           L == n \div w
<1>1. PICK c \in 0..L - 1 : g = f[p[w * c + w]] - f[p[w * c + 1]]
    BY DEF Gaps
<1>2. Loads(f, n)
    BY WorkloadsLoad
<1>3. a = [r \in 1..n |-> f[p[r]]]
    BY <1>2, SortedPositions
<1>4. InGroups(n, w, L)
    BY Grid
<1>5. Span(batch, w, c) = a[w * c + w] - a[w * c + 1]
    BY DEF Span
<1> HIDE DEF f, p, a, L
<1>6. w * c \in Nat /\ w * c + w <= n
    BY <1>4 DEF InGroups
<1>7. w * c + w \in 1..n /\ w * c + 1 \in 1..n
    <2> DEFINE d == w * c
    <2>1. d \in Nat /\ d + w <= n
        BY <1>6
    <2> HIDE DEF d
    <2>2. d + w \in 1..n /\ d + 1 \in 1..n
        BY <2>1
    <2> QED BY <2>2 DEF d
<1>8. a[w * c + w] = f[p[w * c + w]] /\ a[w * c + 1] = f[p[w * c + 1]]
    BY <1>3, <1>7
<1> QED BY <1>1, <1>5, <1>8 DEF L

\* The ranks share any batch that can be cut for them.
LEMMA BatchBalanced ==
    ASSUME NEW batch \in Seq(Nat \ {0}), batch # <<>>, NEW w \in Nat \ {0}, Len(batch) % w = 0
    PROVE  RanksBalanced(batch, w)
<1> DEFINE n == Len(batch)
           f == Workloads(batch)
           Q == RankParts(f, w)
           order == _balance_batch(batch, w)
           G == Gaps(f, n, w, TRUE)
<1>1. n \in Nat \ {0} /\ n % w = 0 /\ Loads(f, n)
    BY WorkloadsLoad
<1>2. order = FlattenSeq(Q)
    BY DEF _balance_batch, RankParts
<1>3. /\ Deals(Q, 1..n) /\ Len(Q) = w /\ Bounded(Q, f, G)
      /\ \A p \in 1..w : Len(Q[p]) = n \div w
    BY <1>1, RankPartsDeal
<1>4. \A g \in G : \E c \in 0..n \div w - 1 : g = Span(batch, w, c)
    <2> TAKE g \in G
    <2>1. g \in Gaps(Workloads(batch), n, w, TRUE)
        OBVIOUS
    <2> HIDE DEF n, f, G
    <2>2. Len(batch) = n
        BY DEF n
    <2>3. g \in Gaps(Workloads(batch), Len(batch), w, TRUE) /\ Len(batch) \in Nat \ {0} /\ Len(batch) % w = 0
        BY <1>1, <2>1, <2>2
    <2>4. \E c \in 0..Len(batch) \div w - 1 : g = Span(batch, w, c)
        BY <2>3, GapIsSpan
    <2> QED BY <2>2, <2>4
<1>5. n = Len(batch) /\ batch \in Seq(Nat) /\ f = Workloads(batch)
    OBVIOUS
<1> HIDE DEF n, f, Q, order, G
<1>6. Once(order, batch)
    <2>1. n \in Nat /\ Len(batch) = n
        BY <1>1, <1>5
    <2> QED BY <1>2, <1>3, <1>5, <2>1, DealtOnce
<1>7. \A r \in 1..w : Share(order, r, w) = Q[r]
    BY <1>1, <1>2, <1>3, Shares
<1>8. PICK g \in G : \A p, q \in 1..w : Work(Q[p], f) - Work(Q[q], f) <= g
    BY <1>3 DEF Bounded
<1>9. PICK c \in 0..n \div w - 1 : g = Span(batch, w, c)
    BY <1>4
<1>10. ASSUME NEW r \in 1..w, NEW s \in 1..w
       PROVE  Work(Share(order, r, w), f) - Work(Share(order, s, w), f) <= Span(batch, w, c)
    BY <1>7, <1>8, <1>9
<1> QED BY <1>5, <1>6, <1>9, <1>10 DEF RanksBalanced, order

-----------------------------------------------------------------------------
(* The passes of a rank.                                                   *)

\* The partitions of rearrange_micro_batches, in the order of the passes.
SortedParts(f, m) ==
    LET parts == karmarkar_karp(f, m, FALSE)
    IN  HeavierFirst([p \in DOMAIN parts |-> Ascending(parts[p])], f)

\* The partitions with their positions in order.
LEMMA AscendingDeals ==
    ASSUME NEW n \in Nat \ {0}, NEW f, Loads(f, n), NEW P, NEW m \in Nat \ {0}, FilledParts(P, m, n, f)
    PROVE  FilledParts([p \in DOMAIN P |-> Ascending(P[p])], m, n, f)
<1> DEFINE Q == [p \in DOMAIN P |-> Ascending(P[p])]
           G == Gaps(f, n, m, FALSE)
<1>1. /\ Deals(P, 1..n) /\ Len(P) = m /\ Bounded(P, f, G)
      /\ \A p \in 1..m : P[p] # <<>>
    BY DEF FilledParts
<1>2. P \in Seq(Seq(1..n))
    BY <1>1 DEF Deals
<1>3. DOMAIN P = 1..m /\ \A p \in 1..m : P[p] \in Seq(1..n)
    BY <1>1, <1>2
<1>4. DOMAIN Q = 1..m /\ Q = [p \in 1..m |-> Q[p]] /\ \A p \in 1..m : Q[p] = Ascending(P[p])
    BY <1>3
<1> HIDE DEF Q, G
<1>5. ASSUME NEW p \in 1..m
      PROVE  /\ Q[p] \in Seq(1..n) /\ Len(Q[p]) = Len(P[p]) /\ Held(Q[p]) = Held(P[p])
             /\ Distinct(P[p]) => Distinct(Q[p])
    <2> DEFINE V == 1..n
    <2>1. P[p] \in Seq(V) /\ n \in Nat
        BY <1>3
    <2>2. Rearranges(Ascending(P[p]), P[p])
        BY <2>1, AscendingRearranges
    <2>3. Rearranges(Q[p], P[p])
        BY <1>4, <2>2
    <2> HIDE DEF V
    <2>4. Q[p] \in Seq(V) /\ Len(Q[p]) = Len(P[p]) /\ Held(Q[p]) = Held(P[p]) /\ (Distinct(P[p]) => Distinct(Q[p]))
        BY <2>1, <2>3, RearrangedHeld
    <2> QED BY <2>4 DEF V
<1>6. Q \in Seq(Seq(1..n)) /\ Len(Q) = m
    BY <1>4, <1>5
<1>7. Reordered(Q, P, 1..n)
    BY <1>1, <1>5, <1>6 DEF Reordered
<1>8. Deals(Q, 1..n) /\ (Bounded(P, f, G) => Bounded(Q, f, G))
    BY <1>1, <1>7, ReorderedDeals
<1>9. \A p \in 1..m : Q[p] # <<>>
    <2> TAKE p \in 1..m
    <2>1. Q[p] \in Seq(1..n) /\ P[p] \in Seq(1..n) /\ P[p] # <<>> /\ Len(Q[p]) = Len(P[p])
        BY <1>1, <1>3, <1>5
    <2> QED BY <2>1
<1> QED BY <1>1, <1>6, <1>8, <1>9 DEF FilledParts, Q, G

\* Partitions in another order.
LEMMA RearrangedFilled ==
    ASSUME NEW n \in Nat \ {0}, NEW f, NEW P, NEW m \in Nat \ {0}, FilledParts(P, m, n, f),
           NEW Q, Rearranges(Q, P)
    PROVE  FilledParts(Q, m, n, f)
<1> DEFINE G == Gaps(f, n, m, FALSE)
<1>1. /\ Deals(P, 1..n) /\ Len(P) = m /\ Bounded(P, f, G)
      /\ \A p \in 1..Len(P) : P[p] # <<>>
    BY DEF FilledParts
<1> HIDE DEF G
<1>2. n \in Nat
    OBVIOUS
<1>3. /\ Deals(Q, 1..n) /\ Len(Q) = Len(P) /\ (Bounded(P, f, G) => Bounded(Q, f, G))
      /\ (\A p \in 1..Len(P) : P[p] # <<>>) => (\A p \in 1..Len(Q) : Q[p] # <<>>)
    BY <1>1, <1>2, RearrangedDeals
<1> QED BY <1>1, <1>3 DEF FilledParts, G

\* The passes deal out the samples of the rank.
LEMMA PassesFilled ==
    ASSUME NEW local \in Seq(Nat \ {0}), NEW m \in Nat \ {0}, m <= Len(local)
    PROVE  FilledParts(rearrange_micro_batches(local, m), m, Len(local), Workloads(local))
<1> DEFINE n == Len(local)
           f == Workloads(local)
           P == karmarkar_karp(f, m, FALSE)
           A == [p \in DOMAIN P |-> Ascending(P[p])]
           S == HeavierFirst(A, f)
           Q == Reverse(EvenPlaces(S)) \o OddPlaces(S)
<1>1. n \in Nat \ {0} /\ Loads(f, n) /\ m <= n
    BY WorkloadsLoad
<1>2. rearrange_micro_batches(local, m) = Q
    BY DEF rearrange_micro_batches
<1> HIDE DEF n, f
<1>3. FilledParts(P, m, n, f)
    BY <1>1, LooselyPartitioned
<1> HIDE DEF P
<1>4. FilledParts(A, m, n, f)
    BY <1>1, <1>3, AscendingDeals
<1> HIDE DEF A
<1>5. Deals(A, 1..n) /\ n \in Nat
    BY <1>1, <1>4 DEF FilledParts
<1>6. Rearranges(S, A)
    BY <1>1, <1>5, HeavierRearranges
<1> HIDE DEF S
<1>7. FilledParts(S, m, n, f)
    BY <1>1, <1>4, <1>6, RearrangedFilled
<1>8. Rearranges(Q, S)
    <2> DEFINE V == Seq(1..n)
    <2>1. S \in Seq(V)
        BY <1>7 DEF FilledParts, Deals
    <2> HIDE DEF V
    <2> QED BY <2>1, EvenBeforeOdd
<1> HIDE DEF Q
<1>9. FilledParts(Q, m, n, f)
    BY <1>1, <1>7, <1>8, RearrangedFilled
<1> QED BY <1>2, <1>9 DEF n, f

\* The indices of the passes, put back, are the positions.
LEMMA Restored ==
    ASSUME NEW n \in Nat, NEW passes, NEW q, q = FlattenSeq(passes), Lists(q, 1..n), Len(q) = n
    PROVE  restore_dynamic_batch(q, passes) = Positions(n)
<1> DEFINE r == get_reverse_idx(q)
<1>1. DOMAIN q = 1..n /\ Held(q) = 1..n
    <2>1. q \in Seq(1..n)
        BY DEF Lists
    <2> QED BY <2>1 DEF Lists
<1>2. restore_dynamic_batch(q, passes) = [i \in 1..n |-> q[r[i]]]
    BY <1>1 DEF restore_dynamic_batch
<1>3. ASSUME NEW i \in 1..n PROVE q[r[i]] = i
    <2>1. \E j \in 1..n : q[j] = i
        BY <1>1 DEF Held
    <2>2. r[i] = CHOOSE j \in 1..n : q[j] = i
        BY <1>1 DEF get_reverse_idx
    <2> QED BY <2>1, <2>2
<1> HIDE DEF r
<1> QED BY <1>2, <1>3 DEF Positions

\* A rank's passes fit, whatever number of them it is told to make.
LEMMA PassesFitAny ==
    ASSUME NEW local \in Seq(Nat \ {0}), NEW m \in Nat \ {0}, m <= Len(local)
    PROVE  PassesFit(local, m)
<1> DEFINE n == Len(local)
           f == Workloads(local)
           passes == rearrange_micro_batches(local, m)
           q == FlattenSeq(passes)
<1>1. FilledParts(passes, m, n, f) /\ n \in Nat /\ local \in Seq(Nat) /\ DOMAIN local = 1..n
    BY PassesFilled
<1>2. n = Len(local) /\ f = Workloads(local)
    OBVIOUS
<1> HIDE DEF n, f, passes
<1>3. /\ Deals(passes, 1..n) /\ Len(passes) = m /\ Bounded(passes, f, Gaps(f, n, m, FALSE))
      /\ \A p \in 1..m : passes[p] # <<>>
    BY <1>1 DEF FilledParts
<1>4. DOMAIN passes = 1..m
    <2>1. passes \in Seq(Seq(1..n))
        BY <1>3 DEF Deals
    <2> QED BY <1>3, <2>1
<1>5. Once(q, local) /\ Lists(q, 1..n) /\ Len(q) = n
    <2>1. Len(local) = n
        BY <1>2
    <2> QED BY <1>1, <1>3, <2>1, DealtOnce
<1>6. restore_dynamic_batch(q, passes) = Positions(n)
    BY <1>1, <1>5, Restored
<1>7. ASSUME NEW p \in DOMAIN passes, NEW s \in DOMAIN passes
      PROVE  \E i \in DOMAIN local : Work(passes[p], f) - Work(passes[s], f) <= f[i]
    <2>1. PICK g \in Gaps(f, n, m, FALSE) : \A a, b \in 1..m : Work(passes[a], f) - Work(passes[b], f) <= g
        BY <1>3 DEF Bounded
    <2>2. PICK i \in 1..n : g = f[i]
        BY DEF Gaps
    <2> QED BY <1>1, <1>4, <2>1, <2>2
<1>8. \A p \in DOMAIN passes : passes[p] # <<>>
    BY <1>3, <1>4
<1> HIDE DEF q
<1> QED BY <1>2, <1>5, <1>6, <1>7, <1>8 DEF PassesFit, passes, q

-----------------------------------------------------------------------------
(* The number of passes.                                                   *)

\* A rank wants a pass at least, and not more of them than it has samples.
LEMMA WantedFits ==
    ASSUME NEW local \in Seq(Nat \ {0}), local # <<>>, NEW max_token_len \in Nat \ {0}
    PROVE  Wanted(local, max_token_len) \in 1..Len(local)
<1> DEFINE total == Total(local)
           c == ceildiv(total, max_token_len)
           n == Len(local)
<1>1. total = SumOver(DOMAIN local, local)
    BY TotalSums
<1>2. n \in Nat \ {0} /\ DOMAIN local = 1..n /\ \A i \in 1..n : local[i] \in Nat \ {0}
    OBVIOUS
<1> HIDE DEF total, n
<1>3. IsFiniteSet(1..n) /\ 1 \in 1..n
    BY <1>2, FS_Interval
<1>4. SumOver(1..n, local) \in Nat /\ (1..n # {} => SumOver(1..n, local) > 0)
    <2> DEFINE N == 1..n
    <2>1. IsFiniteSet(N) /\ \A i \in N : local[i] \in Nat \ {0}
        BY <1>2, <1>3
    <2> HIDE DEF N
    <2>2. SumOver(N, local) \in Nat /\ (N # {} => SumOver(N, local) > 0)
        BY <2>1, SumPositive
    <2> QED BY <2>2 DEF N
<1>5. total \in Nat \ {0}
    <2>1. SumOver(1..n, local) \in Nat /\ SumOver(1..n, local) > 0
        BY <1>3, <1>4
    <2>2. total = SumOver(1..n, local)
        BY <1>1, <1>2
    <2> QED BY <2>1, <2>2
<1>6. c \in Nat \ {0}
    <2> DEFINE x == total + max_token_len - 1
    <2>1. x \in Nat /\ x >= max_token_len
        BY <1>5
    <2>2. c = x \div max_token_len
        BY DEF ceildiv
    <2> HIDE DEF x
    <2>3. x \div max_token_len \in Nat \ {0}
        BY <2>1, SMTT(30)
    <2> QED BY <2>2, <2>3
<1>7. Wanted(local, max_token_len) = IF c < n THEN c ELSE n
    BY DEF Wanted, total, n
<1> HIDE DEF c
<1>8. Wanted(local, max_token_len) \in 1..n
    BY <1>2, <1>6, <1>7
<1> QED BY <1>8 DEF n

\* The largest of finitely many numbers.
LEMMA LargestExists ==
    ASSUME NEW S, IsFiniteSet(S), S # {}, \A x \in S : x \in Int
    PROVE  \E x \in S : \A y \in S : y <= x
<1> DEFINE R == {p \in S \X S : p[1] > p[2]}
<1>1. \A x, y \in S : <<x, y>> \in R <=> x > y
    OBVIOUS
<1>2. Orders(R, S)
    <2> HIDE DEF R
    <2> QED BY <1>1 DEF Orders
<1> HIDE DEF R
<1>3. PICK x \in S : \A y \in S \ {x} : <<x, y>> \in R
    BY <1>2, FirstExists
<1>4. \A y \in S : y <= x
    <2> TAKE y \in S
    <2>1. y = x \/ <<x, y>> \in R
        BY <1>3
    <2>2. x \in Int /\ y \in Int /\ (y = x \/ x > y)
        BY <1>1, <2>1
    <2> QED BY <2>2
<1> QED BY <1>4

\* What a rank has of a batch.
LEMMA PartFits ==
    ASSUME NEW batch \in Seq(Nat \ {0}), NEW share \in Seq(1..Len(batch))
    PROVE  Part(batch, share) \in Seq(Nat \ {0}) /\ Len(Part(batch, share)) = Len(share)
<1>1. Len(share) \in Nat /\ DOMAIN share = 1..Len(share)
    OBVIOUS
<1>2. \A i \in 1..Len(share) : share[i] \in 1..Len(batch)
    OBVIOUS
<1>3. \A i \in 1..Len(share) : batch[share[i]] \in Nat \ {0}
    BY <1>2
<1> QED BY <1>1, <1>3 DEF Part

\* The ranks' passes give each sample its own result back.
LEMMA PassesRestoredAny ==
    ASSUME NEW batch \in Seq(Nat \ {0}), batch # <<>>, NEW w \in Nat \ {0}, Len(batch) % w = 0,
           NEW max_token_len \in Nat \ {0}
    PROVE  PassesRestored(batch, w, max_token_len)
<1> DEFINE n == Len(batch)
           f == Workloads(batch)
           Q == RankParts(f, w)
           order == _balance_batch(batch, w)
           local(r) == Part(batch, Share(order, r, w))
           wants(r) == Wanted(local(r), max_token_len)
           wanted == {wants(r) : r \in 1..w}
           agreed == CHOOSE m \in wanted : \A x \in wanted : x <= m
           L == n \div w
<1>1. n \in Nat \ {0} /\ n % w = 0 /\ Loads(f, n) /\ n = Len(batch)
    BY WorkloadsLoad
<1>2. order = FlattenSeq(Q)
    BY DEF _balance_batch, RankParts
<1>3. /\ Deals(Q, 1..n) /\ Len(Q) = w /\ \A p \in 1..w : Len(Q[p]) = L
    BY <1>1, RankPartsDeal
<1> HIDE DEF n, f, Q, order
<1>4. \A r \in 1..w : Share(order, r, w) = Q[r] /\ Q[r] \in Seq(1..n) /\ L \in Nat \ {0}
    BY <1>1, <1>2, <1>3, Shares
<1>5. ASSUME NEW r \in 1..w PROVE local(r) \in Seq(Nat \ {0}) /\ Len(local(r)) = L /\ L \in Nat \ {0}
    <2>1. Share(order, r, w) \in Seq(1..Len(batch)) /\ Len(Share(order, r, w)) = L /\ L \in Nat \ {0}
        BY <1>1, <1>3, <1>4
    <2> HIDE DEF L
    <2> QED BY <2>1, PartFits
<1> HIDE DEF local, L
<1>6. \A r \in 1..w : wants(r) \in 1..L
    <2> TAKE r \in 1..w
    <2>1. local(r) \in Seq(Nat \ {0}) /\ Len(local(r)) = L /\ local(r) # <<>>
        BY <1>5
    <2>2. Wanted(local(r), max_token_len) \in 1..Len(local(r))
        BY <2>1, WantedFits
    <2> QED BY <2>1, <2>2
<1> HIDE DEF wants
<1>7. IsFiniteSet(wanted) /\ wanted # {} /\ \A x \in wanted : x \in 1..L /\ x \in Int
    <2> DEFINE N == 1..w
    <2>1. IsFiniteSet(N) /\ 1 \in N
        BY FS_Interval
    <2>2. wanted = {wants(r) : r \in N}
        OBVIOUS
    <2> HIDE DEF N
    <2>3. IsFiniteSet({wants(r) : r \in N})
        <3> DEFINE wish == [r \in N |-> wants(r)]
                   W == {wants(r) : r \in N}
        <3>1. wish \in Surjection(N, W)
            BY DEF Surjection
        <3> HIDE DEF wish, W
        <3>2. IsFiniteSet(W)
            BY <2>1, <3>1, FS_Surjection
        <3> QED BY <3>2 DEF W
    <2>4. IsFiniteSet(wanted) /\ wanted # {}
        BY <2>1, <2>2, <2>3
    <2>5. \A x \in wanted : x \in 1..L
        BY <1>6
    <2>6. \A x \in 1..L : x \in Int
        OBVIOUS
    <2> QED BY <2>4, <2>5, <2>6
<1> HIDE DEF wanted
<1>8. \E m \in wanted : \A x \in wanted : x <= m
    BY <1>7, LargestExists
<1>9. agreed \in wanted
    BY <1>8
<1>10. agreed \in 1..L
    BY <1>7, <1>9
<1> HIDE DEF agreed
<1>11. \A r \in 1..w : PassesFit(local(r), agreed)
    <2> TAKE r \in 1..w
    <2>1. local(r) \in Seq(Nat \ {0}) /\ Len(local(r)) = L /\ agreed \in Nat \ {0} /\ agreed <= L
        BY <1>5, <1>10
    <2> QED BY <2>1, PassesFitAny
<1> QED BY <1>11 DEF PassesRestored, agreed, wanted, wants, local, order

-----------------------------------------------------------------------------
(* The theorems.                                                           *)

\* The inputs of the balancing are the lengths of samples.
LEMMA Lengths ==
    ASSUME Typed, fn = "balance", NEW w \in Divides
    PROVE  input \in Seq(Nat \ {0}) /\ input # <<>> /\ w \in Nat \ {0} /\ Len(input) % w = 0
<1>1. input \in Seq(Inputs["balance"])
    BY DEF Typed
<1>2. Inputs["balance"] \in SUBSET (Nat \ {0}) /\ Worlds \in SUBSET (Nat \ {0})
    BY ComputationsAssumption DEF ComputationsAssumption
<1>3. input \in Seq(Nat \ {0})
    <2>1. \A i \in 1..Len(input) : input[i] \in Nat \ {0}
        BY <1>1, <1>2
    <2> QED BY <1>1, <2>1
<1> QED BY <1>2, <1>3 DEF Divides

\* For a batch of any number of samples of any lengths, and any number of ranks that
\* divides it, _balance_batch gives each sample to one rank and each rank as many, and the
\* work of two ranks differs by no more than that of two samples of one group.
THEOREM BatchesAreShared == Spec => []BatchIsShared
<1>1. Typed => BatchIsShared
    <2> SUFFICES ASSUME Typed, fn = "balance", NEW w \in Divides PROVE RanksBalanced(input, w)
        BY DEF BatchIsShared
    <2> QED BY Lengths, BatchBalanced
<1> QED BY <1>1, TypedAlways, PTL

\* For any batch, number of ranks and token limit, no pass of a rank is empty, none has
\* more work than another and a sample, and every sample gets its own result back.
THEOREM PassesReturnEverything == Spec => []PassesReturnAll
<1>1. Typed => PassesReturnAll
    <2> SUFFICES ASSUME Typed, fn = "balance", NEW w \in Divides
                 PROVE  PassesRestored(input, w, MaxTokens)
        BY DEF PassesReturnAll
    <2>1. MaxTokens \in Nat \ {0}
        BY ComputationsAssumption DEF ComputationsAssumption
    <2> QED BY <2>1, Lengths, PassesRestoredAny
<1> QED BY <1>1, TypedAlways, PTL
=============================================================================
