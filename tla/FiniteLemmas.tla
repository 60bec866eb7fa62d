---------------------------- MODULE FiniteLemmas ----------------------------
(***************************************************************************)
(* What the proofs of several modules need of numbers, finite sets and      *)
(* sequences.                                                              *)
(***************************************************************************)
EXTENDS Integers, SequencesExt, FiniteSetTheorems, SequenceTheorems, WellFoundedInduction, TLAPS

\* A set of natural numbers has a least one.
LEMMA Smallest ==
    ASSUME NEW T, T \subseteq Nat, T # {}
    PROVE  \E k \in T : \A j \in T : k <= j
<1> DEFINE L == {p \in Nat \X Nat : p[1] < p[2]}
<1>1. IsWellFoundedOn(L, Nat)
  BY NatLessThanWellFounded DEF OpToRel
<1> HIDE DEF L
<1>2. PICK k \in T : \A i \in T : <<i, k>> \notin L
  BY <1>1, WFMin
<1>3. ASSUME NEW j \in T PROVE k <= j
  <2>1. j \in Nat /\ k \in Nat /\ <<j, k>> \notin L
    BY <1>2
  <2>2. j < k => <<j, k>> \in L
    BY <2>1 DEF L
  <2> QED
    BY <2>1, <2>2
<1>4. \A j \in T : k <= j
  BY <1>3
<1> QED
  BY <1>4

\* What holds of 0, and of a number if of the one before, holds up to n.
LEMMA Counting ==
    ASSUME NEW n \in Nat, NEW G, 0 \in G, \A k \in 1..n : k - 1 \in G => k \in G
    PROVE  \A k \in 0..n : k \in G
<1> DEFINE T == {k \in 0..n : k \notin G}
<1> SUFFICES ASSUME T # {} PROVE FALSE
  OBVIOUS
<1>1. T \subseteq Nat
  OBVIOUS
<1>2. PICK k \in T : \A j \in T : k <= j
  BY <1>1, Smallest
<1>3. k \in 1..n /\ k - 1 \in 0..n /\ ~(k <= k - 1)
  BY <1>2
<1>4. k - 1 \in G
  BY <1>2, <1>3
<1> QED
  BY <1>2, <1>3, <1>4

\* A function takes finitely many values on a finite set.
LEMMA FiniteImage ==
    ASSUME NEW S, IsFiniteSet(S), NEW f, f = [x \in S |-> f[x]]
    PROVE  IsFiniteSet({f[x] : x \in S})
<1> DEFINE T == {f[x] : x \in S}
<1>1. f \in Surjection(S, T)
  BY DEF Surjection
<1> QED
  BY <1>1, FS_Surjection DEF ExistsSurjection

-----------------------------------------------------------------------------
(***************************************************************************)
(* Recursion on the numbers: a function whose value is made from the one   *)
(* before exists, as far as needed and for all of Nat.                     *)
(***************************************************************************)
LooksBack(Step(_, _)) ==
    \A f, g, k : k = 0 \/ f[k - 1] = g[k - 1] => Step(f, k) = Step(g, k)
Unfolds(f, S, Step(_, _)) == f = [k \in S |-> Step(f, k)]

LEMMA UnfoldsUpTo ==
    ASSUME NEW Step(_, _), LooksBack(Step), NEW n \in Nat
    PROVE  \E f : Unfolds(f, 0..n, Step)
<1> DEFINE G == {k \in Nat : \E f : Unfolds(f, 0..k, Step)}
<1>1. 0 \in G
  <2> DEFINE f == [k \in 0..0 |-> Step(0, 0)]
  <2>1. \A k \in 0..0 : Step(f, k) = Step(0, 0)
    BY DEF LooksBack
  <2>2. Unfolds(f, 0..0, Step)
    BY <2>1 DEF Unfolds
  <2> QED
    BY <2>2
<1>2. ASSUME NEW k \in 1..n, k - 1 \in G PROVE k \in G
  <2>1. PICK f : Unfolds(f, 0..(k - 1), Step)
    BY <1>2
  <2> DEFINE g == [j \in 0..k |-> IF j = k THEN Step(f, k) ELSE f[j]]
  <2>2. Unfolds(g, 0..k, Step)
    <3>1. ASSUME NEW j \in 0..k PROVE g[j] = Step(g, j)
      <4>1. j = 0 \/ g[j - 1] = f[j - 1]
        OBVIOUS
      <4>2. Step(g, j) = Step(f, j)
        BY <4>1 DEF LooksBack
      <4>3. j # k => f[j] = Step(f, j)
        <5>1. j # k => j \in 0..(k - 1)
          OBVIOUS
        <5> HIDE DEF g
        <5> QED
          BY <2>1, <5>1 DEF Unfolds
      <4> QED
        BY <4>2, <4>3
    <3>2. g = [j \in 0..k |-> g[j]]
      OBVIOUS
    <3> HIDE DEF g
    <3> QED
      BY <3>1, <3>2 DEF Unfolds
  <2> QED
    BY <2>2
<1> HIDE DEF G
<1>3. n \in G
  BY <1>1, <1>2, Counting
<1> QED
  BY <1>3 DEF G

LEMMA UnfoldsAgree ==
    ASSUME NEW Step(_, _), LooksBack(Step), NEW n \in Nat, NEW S, NEW T, NEW f, NEW g,
           0..n \subseteq S, 0..n \subseteq T, Unfolds(f, S, Step), Unfolds(g, T, Step)
    PROVE  \A k \in 0..n : f[k] = g[k]
<1> DEFINE G == {k \in 0..n : f[k] = g[k]}
<1>1. \A k \in 0..n : f[k] = Step(f, k) /\ g[k] = Step(g, k)
  <2> SUFFICES ASSUME NEW k \in 0..n PROVE f[k] = Step(f, k) /\ g[k] = Step(g, k)
    OBVIOUS
  <2>1. k \in S /\ k \in T
    OBVIOUS
  <2> QED
    BY <2>1 DEF Unfolds
<1>2. 0 \in G
  BY <1>1 DEF LooksBack
<1>3. ASSUME NEW k \in 1..n, k - 1 \in G PROVE k \in G
  BY <1>1, <1>3 DEF LooksBack
<1> HIDE DEF G
<1>4. \A k \in 0..n : k \in G
  BY <1>2, <1>3, Counting
<1> QED
  BY <1>4 DEF G

LEMMA UnfoldsOnNat ==
    ASSUME NEW Step(_, _), LooksBack(Step)
    PROVE  \E f : Unfolds(f, Nat, Step)
<1> DEFINE upto(n) == CHOOSE f : Unfolds(f, 0..n, Step)
           g == [n \in Nat |-> upto(n)[n]]
<1>1. \A n \in Nat : Unfolds(upto(n), 0..n, Step)
  BY UnfoldsUpTo
<1> HIDE DEF upto
<1>2. ASSUME NEW n \in Nat PROVE g[n] = Step(g, n)
  <2>1. upto(n)[n] = Step(upto(n), n)
    <3>1. n \in 0..n /\ Unfolds(upto(n), 0..n, Step)
      BY <1>1
    <3> QED
      BY <3>1 DEF Unfolds
  <2>2. n = 0 \/ upto(n)[n - 1] = g[n - 1]
    <3> SUFFICES ASSUME n # 0 PROVE upto(n)[n - 1] = g[n - 1]
      OBVIOUS
    <3> DEFINE m == n - 1
    <3>1. m \in Nat /\ 0..m \subseteq 0..n /\ m \in 0..m
      OBVIOUS
    <3>2. Unfolds(upto(n), 0..n, Step) /\ Unfolds(upto(m), 0..m, Step)
      BY <1>1, <3>1
    <3> HIDE DEF m
    <3>3. upto(n)[m] = upto(m)[m]
      BY <3>1, <3>2, UnfoldsAgree
    <3> QED
      BY <3>1, <3>3 DEF m
  <2>3. Step(g, n) = Step(upto(n), n)
    BY <2>2 DEF LooksBack
  <2> QED
    BY <2>1, <2>3
<1>3. g = [n \in Nat |-> g[n]]
  OBVIOUS
<1> HIDE DEF g
<1>4. Unfolds(g, Nat, Step)
  BY <1>2, <1>3 DEF Unfolds
<1> QED
  BY <1>4
-----------------------------------------------------------------------------
(***************************************************************************)
(* A finite set listed in an order: each element where as many precede it. *)
(***************************************************************************)
Below(D, R, x) == {y \in D : <<y, x>> \in R}
Orders(R, D) ==
    /\ \A x \in D : <<x, x>> \notin R
    /\ \A x, y \in D : x # y => <<x, y>> \in R \/ <<y, x>> \in R
    /\ \A x, y, z \in D : <<x, y>> \in R /\ <<y, z>> \in R => <<x, z>> \in R
Ranked(D, R) == [k \in 1..Cardinality(D) |-> CHOOSE x \in D : Cardinality(Below(D, R, x)) = k - 1]

\* Everything is in the list once, after all that precede it.
Lists(list, D, R) ==
    /\ Len(list) = Cardinality(D) /\ DOMAIN list = 1..Len(list) /\ Len(list) \in Nat
    /\ \A k \in 1..Len(list) :
        /\ list[k] \in D
        /\ \A y \in D : <<y, list[k]>> \in R => \E j \in 1..(k - 1) : list[j] = y
    /\ \A j, k \in 1..Len(list) : list[j] = list[k] => j = k
    /\ \A x \in D : \E k \in 1..Len(list) : list[k] = x

LEMMA RankedLists ==
    ASSUME NEW D, IsFiniteSet(D), NEW R, Orders(R, D)
    PROVE  Lists(Ranked(D, R), D, R)
<1> DEFINE n == Cardinality(D)
           r == [x \in D |-> Cardinality(Below(D, R, x))]
           at(k) == CHOOSE x \in D : Cardinality(Below(D, R, x)) = k - 1
           list == Ranked(D, R)
<1>1. n \in Nat
  BY FS_CardinalityType
<1>2. list = [k \in 1..n |-> at(k)]
  BY DEF Ranked
<1>3. Len(list) = n /\ DOMAIN list = 1..n
  <2> HIDE DEF at, n, list
  <2> QED
    BY <1>1, <1>2
<1> HIDE DEF list
<1>4. ASSUME NEW x \in D
      PROVE  /\ IsFiniteSet(Below(D, R, x)) /\ r[x] = Cardinality(Below(D, R, x))
             /\ r[x] \in 0..(n - 1)
  <2> DEFINE B == Below(D, R, x)
  <2>1. B \in SUBSET D /\ B # D
    BY DEF Orders, Below
  <2> HIDE DEF B
  <2>2. IsFiniteSet(B) /\ Cardinality(B) <= n /\ Cardinality(B) # n
    BY <1>1, <2>1, FS_Subset
  <2>3. Cardinality(B) \in Nat
    BY <2>2, FS_CardinalityType
  <2> HIDE DEF n
  <2>4. Cardinality(B) \in 0..(n - 1)
    BY <1>1, <2>2, <2>3
  <2> QED
    BY <2>2, <2>4 DEF B
<1>5. ASSUME NEW x \in D, NEW y \in D, <<x, y>> \in R PROVE r[x] < r[y]
  <2> DEFINE A == Below(D, R, x)
             B == Below(D, R, y)
  <2>1. A \in SUBSET B /\ A # B
    BY <1>5 DEF Orders, Below
  <2>2. IsFiniteSet(B) /\ r[y] = Cardinality(B) /\ r[y] \in 0..(n - 1)
    BY <1>4
  <2>3. r[x] = Cardinality(A) /\ r[x] \in 0..(n - 1)
    BY <1>4
  <2> HIDE DEF A, B, n, r
  <2>4. Cardinality(A) <= Cardinality(B) /\ Cardinality(B) # Cardinality(A)
    BY <2>1, <2>2, FS_Subset
  <2> QED
    BY <1>1, <2>2, <2>3, <2>4
<1>6. r = [x \in D |-> r[x]]
  OBVIOUS
<1> HIDE DEF r
<1>7. ASSUME NEW x \in D, NEW y \in D, r[x] = r[y] PROVE x = y
  <2>1. r[x] \in Int /\ r[y] \in Int
    BY <1>4
  <2>2. <<x, y>> \notin R /\ <<y, x>> \notin R
    BY <1>5, <1>7, <2>1
  <2> QED
    BY <2>2 DEF Orders
<1>8. r \in Injection(D, 0..(n - 1))
  BY <1>4, <1>6, <1>7 DEF Injection, IsInjective
<1>9. r \in Surjection(D, 0..(n - 1))
  <2>1. IsFiniteSet(0..(n - 1)) /\ Cardinality(0..(n - 1)) = n
    <3> HIDE DEF n
    <3>1. n - 1 \in Int /\ 0 \in Int
      BY <1>1
    <3>2. /\ IsFiniteSet(0..(n - 1))
          /\ Cardinality(0..(n - 1)) = IF 0 > n - 1 THEN 0 ELSE (n - 1) - 0 + 1
      BY <3>1, FS_Interval
    <3> QED
      BY <1>1, <3>2
  <2> QED
    BY <1>8, <2>1, FS_Injection
<1>10. ASSUME NEW k \in 1..n PROVE list[k] \in D /\ r[list[k]] = k - 1
  <2>1. k - 1 \in 0..(n - 1)
    BY <1>1
  <2>2. PICK x \in D : r[x] = k - 1
    BY <1>9, <2>1 DEF Surjection
  <2>3. \E y \in D : Cardinality(Below(D, R, y)) = k - 1
    BY <1>4, <2>2
  <2>4. list[k] = CHOOSE y \in D : Cardinality(Below(D, R, y)) = k - 1
    BY <1>2
  <2>5. list[k] \in D /\ Cardinality(Below(D, R, list[k])) = k - 1
    BY <2>3, <2>4
  <2> QED
    BY <1>4, <2>5
<1>11. ASSUME NEW x \in D PROVE r[x] + 1 \in 1..n /\ list[r[x] + 1] = x
  <2>1. r[x] \in 0..(n - 1)
    BY <1>4
  <2>2. r[x] + 1 \in 1..n /\ (r[x] + 1) - 1 = r[x]
    BY <1>1, <2>1
  <2>3. list[r[x] + 1] \in D /\ r[list[r[x] + 1]] = r[x]
    BY <1>10, <2>2
  <2> QED
    BY <1>7, <2>2, <2>3
<1>12. ASSUME NEW k \in 1..n, NEW y \in D, <<y, list[k]>> \in R
       PROVE  \E j \in 1..(k - 1) : list[j] = y
  <2>1. list[k] \in D /\ r[list[k]] = k - 1
    BY <1>10
  <2>2. r[y] < k - 1 /\ r[y] \in 0..(n - 1)
    BY <1>4, <1>5, <1>12, <2>1
  <2>3. r[y] + 1 \in 1..(k - 1)
    BY <1>1, <2>2
  <2> QED
    BY <1>11, <2>3
<1>13. ASSUME NEW j \in 1..n, NEW k \in 1..n, list[j] = list[k] PROVE j = k
  <2>1. r[list[j]] = j - 1 /\ r[list[k]] = k - 1
    BY <1>10
  <2> QED
    BY <1>1, <1>13, <2>1
<1> HIDE DEF n
<1>14. \A x \in D : \E k \in 1..n : list[k] = x
  BY <1>11
<1>15. \A j, k \in 1..n : list[j] = list[k] => j = k
  BY <1>13
<1>16. \A k \in 1..n :
            /\ list[k] \in D
            /\ \A y \in D : <<y, list[k]>> \in R => \E j \in 1..(k - 1) : list[j] = y
  BY <1>10, <1>12
<1>17. Len(list) = Cardinality(D)
  BY <1>3 DEF n
<1> HIDE DEF list
<1>18. Lists(list, D, R)
  BY <1>1, <1>3, <1>14, <1>15, <1>16, <1>17 DEF Lists
<1> QED
  BY <1>18 DEF list

-----------------------------------------------------------------------------
(***************************************************************************)
(* FlattenSeq is a recursive function of the position.  That it takes      *)
(* another item as a concatenation is shown by least counterexamples.      *)
(***************************************************************************)
\* f[i] is the concatenation of the first i of s.
Flattens(f, s, n) == f = [i \in 1..n |-> IF i = 1 THEN s[i] ELSE f[i - 1] \o s[i]]

LEMMA FlattensStep ==
    ASSUME NEW f, NEW s, NEW n \in Nat, Flattens(f, s, n), NEW i \in 1..n
    PROVE  f[i] = IF i = 1 THEN s[i] ELSE f[i - 1] \o s[i]
<1> DEFINE g == [j \in 1..n |-> IF j = 1 THEN s[j] ELSE f[j - 1] \o s[j]]
<1>1. f = g
  BY DEF Flattens
<1>2. g[i] = IF i = 1 THEN s[i] ELSE f[i - 1] \o s[i]
  OBVIOUS
<1> QED
  BY <1>1, <1>2

LEMMA FlattensUnique ==
    ASSUME NEW f, NEW g, NEW s, NEW t, NEW m \in Nat, NEW n \in Nat, m <= n,
           Flattens(f, s, m), Flattens(g, t, n), \A i \in 1..m : s[i] = t[i]
    PROVE  \A i \in 1..m : f[i] = g[i]
<1> DEFINE T == {i \in 1..m : f[i] # g[i]}
<1> SUFFICES ASSUME T # {} PROVE FALSE
  OBVIOUS
<1>1. PICK i \in T : \A j \in T : i <= j
  <2>1. T \subseteq Nat
    OBVIOUS
  <2> HIDE DEF T
  <2> QED
    BY <2>1, Smallest
<1>2. f[i] = (IF i = 1 THEN s[i] ELSE f[i - 1] \o s[i]) /\ g[i] = (IF i = 1 THEN t[i] ELSE g[i - 1] \o t[i])
  BY <1>1, FlattensStep
<1>3. i # 1 => f[i - 1] = g[i - 1]
  BY <1>1
<1> QED
  BY <1>1, <1>2, <1>3

LEMMA FlattensExists ==
    ASSUME NEW S, NEW s \in Seq(Seq(S)), NEW n \in 0..Len(s)
    PROVE  \E f : Flattens(f, s, n) /\ \A i \in 1..n : f[i] \in Seq(S)
<1> DEFINE Good(k) == \E f : Flattens(f, s, k) /\ \A i \in 1..k : f[i] \in Seq(S)
           T == {k \in 0..Len(s) : ~Good(k)}
<1> SUFFICES ASSUME T # {} PROVE FALSE
  OBVIOUS
<1>1. PICK k \in T : \A j \in T : k <= j
  <2>1. T \subseteq Nat
    OBVIOUS
  <2> HIDE DEF T
  <2> QED
    BY <2>1, Smallest
<1>2. k \in Nat /\ k <= Len(s) /\ ~Good(k)
  BY <1>1
<1>3. k # 0
  <2> DEFINE e == [i \in 1..0 |-> 0]
  <2>1. Flattens(e, s, 0)
    BY DEF Flattens
  <2>2. Good(0)
    BY <2>1
  <2> QED
    BY <1>2, <2>2
<1>4. k - 1 \in 0..Len(s) /\ Good(k - 1)
  <2>1. k - 1 \in 0..Len(s)
    BY <1>2, <1>3
  <2>2. k - 1 \notin T
    <3> HIDE DEF T
    <3>1. k - 1 \in T => k <= k - 1
      BY <1>1
    <3> QED
      BY <1>2, <3>1
  <2> QED
    BY <2>1, <2>2
<1>5. PICK f : Flattens(f, s, k - 1) /\ \A i \in 1..(k - 1) : f[i] \in Seq(S)
  BY <1>4
<1> DEFINE last == IF k = 1 THEN s[k] ELSE f[k - 1] \o s[k]
           g == [i \in 1..k |-> IF i = k THEN last ELSE f[i]]
<1>6. s[k] \in Seq(S) /\ last \in Seq(S)
  BY <1>2, <1>3, <1>5
<1>7. \A i \in 1..k : g[i] \in Seq(S)
  BY <1>2, <1>5, <1>6
<1>8. \A i \in 1..k : g[i] = IF i = 1 THEN s[i] ELSE g[i - 1] \o s[i]
  <2> SUFFICES ASSUME NEW i \in 1..k PROVE g[i] = IF i = 1 THEN s[i] ELSE g[i - 1] \o s[i]
    OBVIOUS
  <2>1. CASE i = k
    BY <1>2, <2>1
  <2>2. CASE i # k
    <3>1. i \in 1..(k - 1) /\ k - 1 \in Nat /\ g[i] = f[i] /\ (i # 1 => g[i - 1] = f[i - 1])
      BY <1>2, <2>2
    <3> HIDE DEF g
    <3> QED
      BY <1>5, <3>1, FlattensStep
  <2> QED
    BY <2>1, <2>2
<1>9. Flattens(g, s, k)
  <2>1. g = [i \in 1..k |-> g[i]]
    OBVIOUS
  <2> HIDE DEF g
  <2>2. g = [i \in 1..k |-> IF i = 1 THEN s[i] ELSE g[i - 1] \o s[i]]
    BY <1>8, <2>1
  <2> QED
    BY <2>2 DEF Flattens
<1> QED
  BY <1>2, <1>7, <1>9

LEMMA FlattenIs ==
    ASSUME NEW S, NEW s \in Seq(Seq(S)), s # <<>>
    PROVE  \E f : /\ Flattens(f, s, Len(s)) /\ FlattenSeq(s) = f[Len(s)]
                  /\ \A i \in 1..Len(s) : f[i] \in Seq(S)
<1> DEFINE f == CHOOSE g : Flattens(g, s, Len(s))
<1>1. Len(s) \in Nat \ {0}
  OBVIOUS
<1>2. FlattenSeq(s) = f[Len(s)]
  BY <1>1 DEF FlattenSeq, Flattens
<1>3. PICK g : Flattens(g, s, Len(s)) /\ \A i \in 1..Len(s) : g[i] \in Seq(S)
  BY <1>1, FlattensExists
<1>4. Flattens(f, s, Len(s))
  BY <1>3
<1> HIDE DEF f
<1>5. \A i \in 1..Len(s) : f[i] = g[i]
  BY <1>1, <1>3, <1>4, FlattensUnique
<1> QED
  BY <1>2, <1>3, <1>4, <1>5

LEMMA FlattenType ==
    ASSUME NEW S, NEW s \in Seq(Seq(S))
    PROVE  FlattenSeq(s) \in Seq(S)
<1>1. CASE s = <<>>
  BY <1>1 DEF FlattenSeq
<1>2. CASE s # <<>>
  <2>1. Len(s) \in 1..Len(s)
    BY <1>2
  <2> QED
    BY <1>2, <2>1, FlattenIs
<1> QED
  BY <1>1, <1>2

\* Another item comes after those before.
LEMMA FlattenAppend ==
    ASSUME NEW S, NEW s \in Seq(Seq(S)), NEW x \in Seq(S)
    PROVE  FlattenSeq(Append(s, x)) = FlattenSeq(s) \o x
<1> DEFINE t == Append(s, x)
           n == Len(s)
<1>1. t \in Seq(Seq(S)) /\ t # <<>> /\ Len(t) = n + 1 /\ t[n + 1] = x /\ n \in Nat
      /\ \A i \in 1..n : s[i] = t[i]
  BY AppendProperties
<1> HIDE DEF t, n
<1>2. PICK g : Flattens(g, t, n + 1) /\ FlattenSeq(t) = g[n + 1]
  BY <1>1, FlattenIs
<1>3. g[n + 1] = IF n + 1 = 1 THEN x ELSE g[n] \o x
  BY <1>1, <1>2, FlattensStep
<1>4. CASE s = <<>>
  <2>1. FlattenSeq(s) = <<>> /\ n = 0
    BY <1>4 DEF FlattenSeq, n
  <2>2. <<>> \o x = x
    BY ConcatEmptySeq
  <2> QED
    BY <1>2, <1>3, <2>1, <2>2 DEF t
<1>5. CASE s # <<>>
  <2>1. PICK f : Flattens(f, s, n) /\ FlattenSeq(s) = f[n]
    BY <1>5, FlattenIs DEF n
  <2>2. n # 0
    BY <1>5 DEF n
  <2>3. f[n] = g[n]
    BY <1>1, <1>2, <2>1, <2>2, FlattensUnique
  <2> QED
    BY <1>1, <1>2, <1>3, <2>1, <2>2, <2>3 DEF t
<1> QED
  BY <1>4, <1>5

-----------------------------------------------------------------------------
(***************************************************************************)
(* Concatenations.                                                         *)
(***************************************************************************)
LEMMA ConcatIs ==
    ASSUME NEW S, NEW a \in Seq(S), NEW b \in Seq(S)
    PROVE  /\ a \o b \in Seq(S) /\ Len(a \o b) = Len(a) + Len(b)
           /\ \A i \in 1..Len(a) : (a \o b)[i] = a[i]
           /\ \A i \in 1..Len(b) : (a \o b)[Len(a) + i] = b[i]
  OBVIOUS

LEMMA ConcatRight ==
    ASSUME NEW S, NEW a \in Seq(S), NEW b \in Seq(S), NEW i \in 1..(Len(a) + Len(b)), ~(i <= Len(a))
    PROVE  i - Len(a) \in 1..Len(b) /\ (a \o b)[i] = b[i - Len(a)]
  OBVIOUS

Regroups(S) == \A a, b, c \in Seq(S) : (a \o b) \o c = a \o (b \o c)

LEMMA Regroup ==
    ASSUME NEW S
    PROVE  Regroups(S)
  BY ConcatAssociative DEF Regroups

LEMMA AppendAfter ==
    ASSUME NEW S, NEW a \in Seq(S), NEW b \in Seq(S), NEW x \in S
    PROVE  a \o Append(b, x) = Append(a \o b, x) /\ a \o b \in Seq(S)
  OBVIOUS

LEMMA FlattenConcat ==
    ASSUME NEW S, NEW a \in Seq(Seq(S)), NEW b \in Seq(Seq(S))
    PROVE  FlattenSeq(a \o b) = FlattenSeq(a) \o FlattenSeq(b)
<1> DEFINE n == Len(b)
           upto(k) == SubSeq(b, 1, k)
           G == {k \in 0..n : FlattenSeq(a \o upto(k)) = FlattenSeq(a) \o FlattenSeq(upto(k))}
<1>1. n \in Nat /\ \A k \in 0..n : upto(k) \in Seq(Seq(S)) /\ Len(upto(k)) = k
  OBVIOUS
<1>2. 0 \in G
  <2>1. upto(0) = <<>>
    OBVIOUS
  <2>2. a \o <<>> = a /\ FlattenSeq(<<>>) = <<>>
    BY ConcatEmptySeq DEF FlattenSeq
  <2>3. FlattenSeq(a) \o <<>> = FlattenSeq(a)
    BY FlattenType, ConcatEmptySeq
  <2>4. 0 \in 0..n
    BY <1>1
  <2> QED
    BY <2>1, <2>2, <2>3, <2>4
<1>3. ASSUME NEW k \in 1..n, k - 1 \in G PROVE k \in G
  <2> DEFINE c == upto(k - 1)
  <2>1. c \in Seq(Seq(S)) /\ b[k] \in Seq(S) /\ upto(k) = Append(c, b[k])
    BY <1>1
  <2> HIDE DEF c, upto
  <2>2. a \o Append(c, b[k]) = Append(a \o c, b[k]) /\ a \o c \in Seq(Seq(S))
    BY <2>1, AppendAfter
  <2>3. FlattenSeq(a \o upto(k)) = FlattenSeq(a \o c) \o b[k]
    BY <2>1, <2>2, FlattenAppend
  <2>4. FlattenSeq(upto(k)) = FlattenSeq(c) \o b[k]
    BY <2>1, FlattenAppend
  <2>5. FlattenSeq(a) \in Seq(S) /\ FlattenSeq(c) \in Seq(S)
    BY <2>1, FlattenType
  <2>6. (FlattenSeq(a) \o FlattenSeq(c)) \o b[k] = FlattenSeq(a) \o (FlattenSeq(c) \o b[k])
    <3>1. b[k] \in Seq(S) /\ Regroups(S)
      BY <2>1, Regroup
    <3> QED
      BY <2>5, <3>1, Zenon DEF Regroups
  <2>7. FlattenSeq(a \o c) = FlattenSeq(a) \o FlattenSeq(c)
    BY <1>3 DEF c
  <2>8. k \in 0..n
    BY <1>1
  <2> QED
    BY <2>3, <2>4, <2>6, <2>7, <2>8
<1> HIDE DEF G, upto
<1>4. n \in G
  <2>1. \A k \in 0..n : k \in G
    BY <1>1, <1>2, <1>3, Counting
  <2> QED
    BY <1>1, <2>1
<1>5. upto(n) = b
  BY DEF upto
<1> QED
  BY <1>4, <1>5 DEF G
-----------------------------------------------------------------------------
(***************************************************************************)
(* A fold of a sequence from the left, as a recursive function of the      *)
(* position.                                                               *)
(***************************************************************************)
Folds(f, base, Op(_, _), s) ==
    f = [n \in 0..Len(s) |-> IF n = 0 THEN base ELSE Op(f[n - 1], s[n])]

LEMMA FoldExists ==
    ASSUME NEW S, NEW s \in Seq(S), NEW base, NEW Op(_, _)
    PROVE  \E f : Folds(f, base, Op, s)
<1> DEFINE Step(f, n) == IF n = 0 THEN base ELSE Op(f[n - 1], s[n])
<1>1. LooksBack(Step)
  <2>1. ASSUME NEW f, NEW g, NEW k, k = 0 \/ f[k - 1] = g[k - 1] PROVE Step(f, k) = Step(g, k)
    BY <2>1
  <2> HIDE DEF Step
  <2> QED
    BY <2>1 DEF LooksBack
<1> HIDE DEF Step
<1>2. PICK f : Unfolds(f, 0..Len(s), Step)
  BY <1>1, UnfoldsUpTo
<1> QED
  BY <1>2 DEF Unfolds, Folds, Step

FoldStarts(f, base, Op(_, _), s) ==
    f[0] = base /\ \A n \in 1..Len(s) : f[n] = Op(f[n - 1], s[n])

LEMMA FoldSteps ==
    ASSUME NEW S, NEW s \in Seq(S), NEW base, NEW Op(_, _), NEW f, Folds(f, base, Op, s)
    PROVE  FoldStarts(f, base, Op, s)
<1> DEFINE g == [n \in 0..Len(s) |-> IF n = 0 THEN base ELSE Op(f[n - 1], s[n])]
<1>1. f = g
  BY DEF Folds
<1>2. g[0] = base /\ \A n \in 1..Len(s) : g[n] = Op(f[n - 1], s[n])
  OBVIOUS
<1> HIDE DEF g
<1> QED
  BY <1>1, <1>2 DEF FoldStarts

\* The fold of one element more.
FoldGoesOn(f, g, Op(_, _), n, x) == g[n + 1] = Op(f[n], x)

LEMMA FoldAppend ==
    ASSUME NEW S, NEW s \in Seq(S), NEW x \in S, NEW base, NEW Op(_, _),
           NEW f, Folds(f, base, Op, s), NEW g, Folds(g, base, Op, Append(s, x))
    PROVE  FoldGoesOn(f, g, Op, Len(s), x)
<1> DEFINE t == Append(s, x)
           n == Len(s)
<1>1. /\ t \in Seq(S) /\ n \in Nat /\ Len(t) = n + 1 /\ t[n + 1] = x
      /\ \A i \in 1..n : t[i] = s[i]
  OBVIOUS
<1> HIDE DEF t
<1>2. f[0] = base /\ \A k \in 1..n : f[k] = Op(f[k - 1], s[k])
  <2>1. FoldStarts(f, base, Op, s)
    BY FoldSteps
  <2> QED
    BY <2>1 DEF FoldStarts
<1>3. g[0] = base /\ \A k \in 1..(n + 1) : g[k] = Op(g[k - 1], t[k])
  <2>1. Folds(g, base, Op, t)
    BY DEF t
  <2> QED
    <3>1. FoldStarts(g, base, Op, t)
      BY <1>1, <2>1, FoldSteps
    <3> QED
      BY <1>1, <3>1 DEF FoldStarts
<1> HIDE DEF n
<1> DEFINE G == {k \in 0..n : f[k] = g[k]}
<1>4. 0 \in G
  <2>1. 0 \in 0..n /\ f[0] = g[0]
    BY <1>1, <1>2, <1>3
  <2> QED
    BY <2>1
<1>5. ASSUME NEW k \in 1..n, k - 1 \in G PROVE k \in G
  <2>1. k \in 1..(n + 1) /\ t[k] = s[k] /\ f[k - 1] = g[k - 1] /\ k \in 0..n
    BY <1>1, <1>5
  <2> QED
    BY <1>2, <1>3, <2>1
<1> HIDE DEF G
<1>6. n \in G
  <2>1. \A k \in 0..n : k \in G
    BY <1>1, <1>4, <1>5, Counting
  <2> QED
    BY <1>1, <2>1
<1>7. f[n] = g[n]
  BY <1>6 DEF G
<1>8. g[n + 1] = Op(g[n], x)
  <2>1. n + 1 \in 1..(n + 1) /\ (n + 1) - 1 = n
    BY <1>1
  <2> QED
    BY <1>1, <1>3, <2>1
<1> QED
  BY <1>7, <1>8 DEF n, FoldGoesOn

-----------------------------------------------------------------------------
(***************************************************************************)
(* Sequences, element by element.                                          *)
(***************************************************************************)
\* What holds of no sequence and of one element more, if before, holds of all.
LEMMA Growing ==
    ASSUME NEW S, NEW G, <<>> \in G, \A t \in Seq(S) : t \in G => \A x \in S : Append(t, x) \in G,
           NEW s \in Seq(S)
    PROVE  s \in G
<1> DEFINE upto(k) == SubSeq(s, 1, k)
           T == {k \in 0..Len(s) : upto(k) \in G}
<1>1. /\ Len(s) \in Nat /\ upto(0) = <<>> /\ upto(Len(s)) = s
      /\ \A k \in 0..Len(s) : upto(k) \in Seq(S)
      /\ \A k \in 1..Len(s) : s[k] \in S /\ upto(k) = Append(upto(k - 1), s[k])
  OBVIOUS
<1> HIDE DEF upto
<1>2. 0 \in T
  BY <1>1
<1>3. ASSUME NEW k \in 1..Len(s), k - 1 \in T PROVE k \in T
  <2>1. k - 1 \in 0..Len(s) /\ k \in 0..Len(s) /\ upto(k - 1) \in G
    BY <1>1, <1>3
  <2>2. upto(k) \in G
    BY <1>1, <2>1
  <2> QED
    BY <2>1, <2>2
<1> HIDE DEF T
<1>4. \A k \in 0..Len(s) : k \in T
  BY <1>1, <1>2, <1>3, Counting
<1>5. Len(s) \in T
  BY <1>1, <1>4
<1> QED
  BY <1>1, <1>5 DEF T

\* To replace the last element of what was appended, replace it first.
LEMMA ReplaceLast ==
    ASSUME NEW T, NEW a \in Seq(T), NEW b \in Seq(T), b # <<>>, NEW x \in T
    PROVE  [a \o b EXCEPT ![Len(a \o b)] = x] = a \o [b EXCEPT ![Len(b)] = x]
<1> DEFINE m == Len(a)
           n == Len(b)
           c == a \o b
           e == [b EXCEPT ![n] = x]
           l == [c EXCEPT ![m + n] = x]
           r == a \o e
<1>1. m \in Nat /\ n \in Nat \ {0}
  OBVIOUS
<1>2. e \in Seq(T) /\ Len(e) = n /\ \A i \in 1..n : e[i] = IF i = n THEN x ELSE b[i]
  OBVIOUS
<1> HIDE DEF e
<1>3. /\ c \in Seq(T) /\ Len(c) = m + n
      /\ \A i \in 1..m : c[i] = a[i]
      /\ \A i \in 1..n : c[m + i] = b[i]
  BY ConcatIs
<1>4. /\ r \in Seq(T) /\ Len(r) = m + Len(e)
      /\ \A i \in 1..m : r[i] = a[i]
      /\ \A i \in 1..Len(e) : r[m + i] = e[i]
  <2>1. e \in Seq(T)
    BY <1>2
  <2> QED
    BY <2>1, ConcatIs
<1> HIDE DEF c, r, m, n
<1>5. /\ l \in Seq(T) /\ Len(l) = m + n
      /\ \A i \in 1..(m + n) : l[i] = IF i = m + n THEN x ELSE c[i]
  BY <1>1, <1>3
<1> HIDE DEF l
<1>6. ASSUME NEW i \in 1..(m + n) PROVE l[i] = r[i]
  <2>1. CASE i \in 1..m
    <3>1. i # m + n
      BY <1>1, <2>1
    <3> QED
      BY <1>3, <1>4, <1>5, <2>1, <3>1
  <2>2. CASE i \notin 1..m
    <3>1. i - m \in 1..n /\ i = m + (i - m) /\ (i = m + n <=> i - m = n)
      BY <1>1, <2>2
    <3> DEFINE j == i - m
    <3> HIDE DEF j
    <3>2. j \in 1..n /\ i = m + j /\ (i = m + n <=> j = n)
      BY <3>1 DEF j
    <3>3. r[i] = IF j = n THEN x ELSE b[j]
      BY <1>2, <1>4, <3>2
    <3>4. l[i] = IF i = m + n THEN x ELSE b[j]
      BY <1>3, <1>5, <3>2
    <3> QED
      BY <3>2, <3>3, <3>4
  <2> QED
    BY <2>1, <2>2
<1>7. Len(r) = m + n
  BY <1>2, <1>4
<1>8. l = r
  BY <1>4, <1>5, <1>6, <1>7, SeqEqual
<1> QED
  BY <1>3, <1>8 DEF l, r, c, e, n
=============================================================================
