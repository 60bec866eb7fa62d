----------------------------- MODULE QueryProofs -----------------------------
(***************************************************************************)
(* Proofs about QueryBuilder: the SQL of a query selects what its calls    *)
(* asked for, and that of an association the parent's rows only, for any   *)
(* calls, comparisons, rows and values.                                    *)
(*                                                                         *)
(* An expression is told by what its clause does wherever it is written:   *)
(* at any depth, after any number of parameters, between any parentheses.  *)
(* Each call keeps that of the tree it makes, so no induction over trees is *)
(* needed (QueryInv).                                                      *)
(***************************************************************************)
EXTENDS QueryBuilder, PagingProofs

-----------------------------------------------------------------------------
(***************************************************************************)
(* What a query and its clause are made of.                                *)
(***************************************************************************)
\* Tokens: parentheses and AND, OR have no column and no marks.
Kinds == {"(", ")", "AND", "OR"}
Truths == Comparing \cup {"In", "IS NULL", "IS NOT NULL", "0 = 1"}
Columns == {None} \cup {p.column : p \in Predicate \cup {OwnedByParent}}
Tokens == [kind : Kinds \cup Truths, column : Columns, marks : Seq(Nat)]

LEMMA MarksConcat ==
    ASSUME NEW a \in Seq(Tokens), NEW b \in Seq(Tokens)
    PROVE  Marks(a \o b) = Marks(a) \o Marks(b)
<1> DEFINE of(c) == [i \in DOMAIN c |-> c[i].marks]
<1>1. ASSUME NEW c \in Seq(Tokens)
      PROVE  /\ of(c) \in Seq(Seq(Nat)) /\ Len(of(c)) = Len(c)
             /\ \A i \in 1..Len(c) : of(c)[i] = c[i].marks
  <2>1. DOMAIN c = 1..Len(c) /\ Len(c) \in Nat /\ \A i \in 1..Len(c) : c[i].marks \in Seq(Nat)
    <3>1. DOMAIN c = 1..Len(c) /\ Len(c) \in Nat
      BY LenProperties
    <3>2. ASSUME NEW i \in 1..Len(c) PROVE c[i].marks \in Seq(Nat)
      <4>1. c[i] \in Tokens
        BY ElementOfSeq
      <4> QED
        BY <4>1 DEF Tokens
    <3> QED
      BY <3>1, <3>2
  <2> QED
    BY <2>1
<1>2. of(a \o b) = of(a) \o of(b)
  <2>1. a \o b \in Seq(Tokens)
    BY ConcatProperties
  <2>2. /\ of(a \o b) \in Seq(Seq(Nat)) /\ of(a) \o of(b) \in Seq(Seq(Nat))
        /\ of(a) \in Seq(Seq(Nat)) /\ of(b) \in Seq(Seq(Nat))
        /\ Len(of(a \o b)) = Len(a) + Len(b) /\ Len(of(a)) = Len(a) /\ Len(of(b)) = Len(b)
        /\ Len(of(a) \o of(b)) = Len(a) + Len(b)
        /\ Len(a \o b) = Len(a) + Len(b)
    <3>1. Len(a \o b) = Len(a) + Len(b)
      BY ConcatProperties
    <3> HIDE DEF of
    <3>2. of(a) \in Seq(Seq(Nat)) /\ of(b) \in Seq(Seq(Nat)) /\ Len(of(a)) = Len(a) /\ Len(of(b)) = Len(b)
      BY <1>1
    <3>3. of(a \o b) \in Seq(Seq(Nat)) /\ Len(of(a \o b)) = Len(a \o b)
      BY <1>1, <2>1
    <3>4. of(a) \o of(b) \in Seq(Seq(Nat)) /\ Len(of(a) \o of(b)) = Len(of(a)) + Len(of(b))
      BY <3>2, ConcatProperties
    <3> QED
      BY <3>1, <3>2, <3>3, <3>4
  <2>3. ASSUME NEW i \in 1..(Len(a) + Len(b)) PROVE of(a \o b)[i] = (of(a) \o of(b))[i]
    <3>1. of(a \o b)[i] = (a \o b)[i].marks
      <4> HIDE DEF of
      <4> QED
        BY <1>1, <2>1, <2>2
    <3>2. CASE i <= Len(a)
      <4>1. i \in 1..Len(a) /\ (a \o b)[i] = a[i]
        BY <3>2, ConcatProperties
      <4> HIDE DEF of
      <4>2. (of(a) \o of(b))[i] = of(a)[i]
        BY <2>2, <3>2, ConcatProperties
      <4> QED
        BY <1>1, <3>1, <4>1, <4>2
    <3>3. CASE ~(i <= Len(a))
      <4>1. i - Len(a) \in 1..Len(b) /\ (a \o b)[i] = b[i - Len(a)]
        BY <3>3, ConcatProperties
      <4> HIDE DEF of
      <4>2. (of(a) \o of(b))[i] = of(b)[i - Len(a)]
        <5>1. i \in 1..(Len(of(a)) + Len(of(b))) /\ ~(i <= Len(of(a)))
          BY <2>2, <3>3
        <5>2. (of(a) \o of(b))[i] = of(b)[i - Len(of(a))]
          BY <2>2, <5>1, ConcatRight
        <5> QED
          BY <2>2, <5>2
      <4> QED
        BY <1>1, <3>1, <4>1, <4>2
    <3> QED
      BY <3>2, <3>3
  <2> HIDE DEF of
  <2> QED
    BY <2>2, <2>3, SeqEqual
<1> HIDE DEF of
<1>3. FlattenSeq(of(a) \o of(b)) = FlattenSeq(of(a)) \o FlattenSeq(of(b))
  BY <1>1, FlattenConcat
<1>4. Marks(a \o b) = FlattenSeq(of(a \o b)) /\ Marks(a) = FlattenSeq(of(a)) /\ Marks(b) = FlattenSeq(of(b))
  BY DEF Marks, of
<1> QED
  BY <1>2, <1>3, <1>4

LEMMA MarksOne ==
    ASSUME NEW token \in Tokens
    PROVE  Marks(<<token>>) = token.marks
<1> DEFINE s == [i \in DOMAIN <<token>> |-> <<token>>[i].marks]
<1>1. s = Append(<<>>, token.marks) /\ token.marks \in Seq(Nat)
  BY DEF Tokens
<1>2. FlattenSeq(<<>>) = <<>> /\ <<>> \o token.marks = token.marks /\ <<>> \in Seq(Seq(Nat))
  BY <1>1 DEF FlattenSeq
<1> HIDE DEF s
<1>3. FlattenSeq(s) = token.marks
  BY <1>1, <1>2, FlattenAppend
<1> QED
  BY <1>3 DEF Marks, s

-----------------------------------------------------------------------------
(***************************************************************************)
(* What the recursive functions compute.                                   *)
(***************************************************************************)
LEMMA ExpressionIs ==
    Expression = [depth \in Nat |->
        {Empty} \cup [kind : {"Predicate"}, comparison : Predicate \cup {OwnedByParent}]
        \cup IF depth = 0 THEN {}
             ELSE [kind : {"AND", "OR"}, left : Expression[depth - 1], right : Expression[depth - 1]]]
<1> DEFINE Grown(f, depth) ==
        {Empty} \cup [kind : {"Predicate"}, comparison : Predicate \cup {OwnedByParent}]
        \cup IF depth = 0 THEN {}
             ELSE [kind : {"AND", "OR"}, left : f[depth - 1], right : f[depth - 1]]
<1>1. LooksBack(Grown)
  <2>1. ASSUME NEW f, NEW g, NEW k, k = 0 \/ f[k - 1] = g[k - 1] PROVE Grown(f, k) = Grown(g, k)
    BY <2>1
  <2> HIDE DEF Grown
  <2> QED
    BY <2>1 DEF LooksBack
<1> HIDE DEF Grown
<1>2. PICK f : Unfolds(f, Nat, Grown)
  BY <1>1, UnfoldsOnNat
<1>3. \E h : h = [depth \in Nat |-> Grown(h, depth)]
  BY <1>2 DEF Unfolds
<1>4. Expression = CHOOSE h : h = [depth \in Nat |-> Grown(h, depth)]
  BY DEF Expression, Grown
<1>5. Expression = [depth \in Nat |-> Grown(Expression, depth)]
  BY <1>3, <1>4
<1> QED
  BY <1>5 DEF Grown

LEMMA IntoClauseIs ==
    \A depth \in Nat : \A e \in Expression[depth], n \in Nat :
        IntoClause[depth][e][n] = Write(e, n, IntoClause[depth - 1])
<1> DEFINE Clauses(f, depth) == [e \in Expression[depth] |-> [n \in Nat |-> Write(e, n, f[depth - 1])]]
<1>1. LooksBack(Clauses)
  <2>1. ASSUME NEW f, NEW g, NEW k, k = 0 \/ f[k - 1] = g[k - 1],
               NEW e \in Expression[k], NEW n \in Nat
        PROVE  Write(e, n, f[k - 1]) = Write(e, n, g[k - 1])
    <3>1. CASE k = 0
      <4>1. e = Empty \/ e \in [kind : {"Predicate"}, comparison : Predicate \cup {OwnedByParent}]
        BY <3>1, ExpressionIs
      <4>2. e.kind \in {"Empty", "Predicate"}
        BY <4>1 DEF Empty
      <4> QED
        BY <4>2 DEF Write
    <3>2. CASE f[k - 1] = g[k - 1]
      BY <3>2
    <3> QED
      BY <2>1, <3>1, <3>2
  <2>2. ASSUME NEW f, NEW g, NEW k, k = 0 \/ f[k - 1] = g[k - 1] PROVE Clauses(f, k) = Clauses(g, k)
    BY <2>1, <2>2
  <2> HIDE DEF Clauses
  <2> QED
    BY <2>2 DEF LooksBack
<1>2. IntoClause = CHOOSE f : f = [depth \in Nat |-> Clauses(f, depth)]
  BY DEF IntoClause
<1> HIDE DEF Clauses
<1>3. PICK f : Unfolds(f, Nat, Clauses)
  BY <1>1, UnfoldsOnNat
<1>4. \E g : g = [depth \in Nat |-> Clauses(g, depth)]
  BY <1>3 DEF Unfolds
<1>5. IntoClause = [depth \in Nat |-> Clauses(IntoClause, depth)]
  BY <1>2, <1>4
<1>6. ASSUME NEW depth \in Nat, NEW e \in Expression[depth], NEW n \in Nat
      PROVE  IntoClause[depth][e][n] = Write(e, n, IntoClause[depth - 1])
  <2>1. IntoClause[depth] = Clauses(IntoClause, depth)
    BY <1>5
  <2> QED
    BY <2>1 DEF Clauses
<1> QED
  BY <1>6

-----------------------------------------------------------------------------
(***************************************************************************)
(* Reading a clause from the left, from any level of parentheses.          *)
(***************************************************************************)
Steps(f, clause, params, row, from, to) ==
    /\ f[0] = from /\ f[Len(clause)] = to
    /\ \A i \in 1..Len(clause) : f[i] = Read(f[i - 1], clause[i], params, row)
Leads(clause, params, row, from, to) == \E f : Steps(f, clause, params, row, from, to)

Level(before, holds, outer) == [before |-> before, holds |-> holds, outer |-> outer]

\* A clause's value is b wherever it stands alone in its parentheses.
Judges(clause, params, row, b) ==
    \A outer : \E x \in BOOLEAN, y \in BOOLEAN :
        (x \/ y) = b /\ Leads(clause, params, row, Open(outer), Level(x, y, outer))

LEMMA LeadsOn ==
    ASSUME NEW a \in Seq(Tokens), NEW b \in Seq(Tokens), NEW params, NEW row, NEW x, NEW y, NEW z,
           Leads(a, params, row, x, y), Leads(b, params, row, y, z)
    PROVE  a \o b \in Seq(Tokens) /\ Leads(a \o b, params, row, x, z)
<1>1. PICK f : Steps(f, a, params, row, x, y)
  BY DEF Leads
<1>2. PICK g : Steps(g, b, params, row, y, z)
  BY DEF Leads
<1> DEFINE n == Len(a)
           m == Len(b)
           h == [i \in 0..(n + m) |-> IF i <= n THEN f[i] ELSE g[i - n]]
<1>3. /\ n \in Nat /\ m \in Nat /\ a \o b \in Seq(Tokens) /\ Len(a \o b) = n + m
      /\ \A i \in 1..n : (a \o b)[i] = a[i]
      /\ \A i \in 1..m : (a \o b)[n + i] = b[i]
  BY ConcatIs
<1>4. f[0] = x /\ f[n] = y /\ g[0] = y /\ g[m] = z
  BY <1>1, <1>2 DEF Steps
<1>5. \A i \in 1..n : f[i] = Read(f[i - 1], a[i], params, row)
  BY <1>1 DEF Steps
<1>6. \A i \in 1..m : g[i] = Read(g[i - 1], b[i], params, row)
  BY <1>2 DEF Steps
<1> HIDE DEF n, m
<1>7. \A i \in 0..n : h[i] = f[i]
  BY <1>3
<1>8. \A i \in 0..m : h[n + i] = g[i]
  BY <1>3, <1>4
<1> HIDE DEF h
<1>9. ASSUME NEW i \in 1..(n + m) PROVE h[i] = Read(h[i - 1], (a \o b)[i], params, row)
  <2>1. CASE i <= n
    <3>1. i \in 1..n /\ i - 1 \in 0..n /\ i \in 0..n
      BY <1>3, <2>1
    <3> QED
      BY <1>3, <1>5, <1>7, <3>1
  <2>2. CASE ~(i <= n)
    <3> DEFINE k == i - n
    <3>1. k \in 1..m /\ k - 1 \in 0..m /\ k \in 0..m /\ i = n + k /\ i - 1 = n + (k - 1)
      BY <1>3, <2>2
    <3> HIDE DEF k
    <3> QED
      BY <1>3, <1>6, <1>8, <3>1
  <2> QED
    BY <2>1, <2>2
<1>10. h[0] = x /\ h[n + m] = z
  <2>1. 0 \in 0..n /\ m \in 0..m
    BY <1>3
  <2> QED
    BY <1>4, <1>7, <1>8, <2>1
<1>11. Steps(h, a \o b, params, row, x, z)
  BY <1>3, <1>9, <1>10 DEF Steps
<1> QED
  BY <1>3, <1>11 DEF Leads

LEMMA LeadsOne ==
    ASSUME NEW token, NEW params, NEW row, NEW x
    PROVE  Leads(<<token>>, params, row, x, Read(x, token, params, row))
<1> DEFINE f == [i \in 0..1 |-> IF i = 0 THEN x ELSE Read(x, token, params, row)]
<1>1. f[0] = x /\ f[1] = Read(x, token, params, row)
  OBVIOUS
<1>2. Len(<<token>>) = 1 /\ <<token>>[1] = token
  OBVIOUS
<1> HIDE DEF f
<1>3. \A i \in 1..1 : f[i] = Read(f[i - 1], <<token>>[i], params, row)
  <2> SUFFICES f[1] = Read(f[1 - 1], <<token>>[1], params, row)
    OBVIOUS
  <2>1. 1 - 1 = 0
    OBVIOUS
  <2> QED
    BY <1>1, <1>2, <2>1
<1>4. Steps(f, <<token>>, params, row, x, Read(x, token, params, row))
  BY <1>1, <1>2, <1>3 DEF Steps
<1> QED
  BY <1>4 DEF Leads

LEMMA HoldsIs ==
    ASSUME NEW clause \in Seq(Tokens), NEW params, NEW row, NEW to,
           Leads(clause, params, row, Open(None), to)
    PROVE  Holds(clause, params, row) = Value(to)
<1> DEFINE Next1(f, i) == IF i = 0 THEN Open(None) ELSE Read(f[i - 1], clause[i], params, row)
           n == Len(clause)
           level == CHOOSE f : f = [i \in 0..n |-> Next1(f, i)]
<1>1. n \in Nat
  OBVIOUS
<1>2. Holds(clause, params, row) = Value(level[n])
  BY DEF Holds
<1>3. LooksBack(Next1)
  BY DEF LooksBack
<1> HIDE DEF Next1, n
<1>4. PICK f : Unfolds(f, 0..n, Next1)
  BY <1>1, <1>3, UnfoldsUpTo
<1>5. \E g : g = [i \in 0..n |-> Next1(g, i)]
  BY <1>4 DEF Unfolds
<1>6. level = [i \in 0..n |-> Next1(level, i)]
  BY <1>5
<1> HIDE DEF level
<1>7. PICK g : Steps(g, clause, params, row, Open(None), to)
  BY DEF Leads
<1> DEFINE G == {i \in 0..n : level[i] = g[i]}
<1>8. 0 \in G
  BY <1>1, <1>6, <1>7 DEF Steps, Next1
<1>9. ASSUME NEW i \in 1..n, i - 1 \in G PROVE i \in G
  <2>1. g[i] = Read(g[i - 1], clause[i], params, row)
    BY <1>7 DEF Steps, n
  <2>2. i \in 0..n /\ i # 0
    BY <1>1
  <2>3. level[i] = Next1(level, i)
    BY <1>6, <2>2
  <2>4. level[i] = Read(level[i - 1], clause[i], params, row)
    BY <2>2, <2>3 DEF Next1
  <2> QED
    BY <1>9, <2>1, <2>2, <2>4
<1> HIDE DEF G
<1>10. \A i \in 0..n : i \in G
  BY <1>1, <1>8, <1>9, Counting
<1>11. level[n] = g[n]
  BY <1>1, <1>10 DEF G
<1>12. g[n] = to
  BY <1>7 DEF Steps, n
<1> QED
  BY <1>2, <1>11, <1>12

-----------------------------------------------------------------------------
(***************************************************************************)
(* What AND, OR and parentheses make of clauses.                           *)
(***************************************************************************)
LEMMA ReadOpen ==
    ASSUME NEW token, token.kind = "(", NEW params, NEW row, NEW level
    PROVE  Read(level, token, params, row) = Open(level)
  BY DEF Read

LEMMA ReadClose ==
    ASSUME NEW token, token.kind = ")", NEW params, NEW row, NEW x \in BOOLEAN, NEW y \in BOOLEAN,
           NEW k \in BOOLEAN, NEW h \in BOOLEAN, NEW o
    PROVE  Read(Level(x, y, Level(k, h, o)), token, params, row) = Level(k, h /\ (x \/ y), o)
<1> DEFINE from == Level(x, y, Level(k, h, o))
<1>1. Read(from, token, params, row) = Conjoin(from.outer, Value(from))
  BY DEF Read
<1>2. from.outer = Level(k, h, o) /\ Value(from) = (x \/ y)
  BY DEF Level, Value
<1> QED
  BY <1>1, <1>2 DEF Level, Conjoin

LEMMA ReadTruth ==
    ASSUME NEW token, token.kind \notin Kinds, NEW params, NEW row,
           NEW x \in BOOLEAN, NEW y \in BOOLEAN, NEW o
    PROVE  Read(Level(x, y, o), token, params, row) = Level(x, y /\ Truth(token, params, row), o)
  BY DEF Kinds, Read, Conjoin, Level

LEMMA TokenIs ==
    \A kind \in Kinds :
        /\ Token(kind) \in Seq(Tokens)
        /\ Token(kind) = <<[kind |-> kind, column |-> None, marks |-> <<>>]>>
<1> SUFFICES ASSUME NEW kind \in Kinds
             PROVE  [kind |-> kind, column |-> None, marks |-> <<>>] \in Tokens
  BY DEF Token
<1>1. None \in Columns /\ kind \in Kinds \cup Truths /\ <<>> \in Seq(Nat)
  BY DEF Columns
<1> QED
  BY <1>1 DEF Tokens

\* One token of a kind more.
LEMMA LeadsToken ==
    ASSUME NEW kind \in Kinds, NEW params, NEW row, NEW x
    PROVE  \E token : /\ token.kind = kind
                      /\ Leads(Token(kind), params, row, x, Read(x, token, params, row))
  BY TokenIs, LeadsOne

LEMMA LeadsParentheses ==
    ASSUME NEW c \in Seq(Tokens), NEW params, NEW row, NEW b \in BOOLEAN, Judges(c, params, row, b),
           NEW k \in BOOLEAN, NEW h \in BOOLEAN, NEW o
    PROVE  /\ InParentheses(c) \in Seq(Tokens)
           /\ Leads(InParentheses(c), params, row, Level(k, h, o), Level(k, h /\ b, o))
<1> DEFINE from == Level(k, h, o)
<1>1. PICK x \in BOOLEAN, y \in BOOLEAN :
         (x \/ y) = b /\ Leads(c, params, row, Open(from), Level(x, y, from))
  BY DEF Judges
<1>2. Token("(") \in Seq(Tokens) /\ Token(")") \in Seq(Tokens)
  BY TokenIs DEF Kinds
<1>3. Leads(Token("("), params, row, from, Open(from))
  <2>1. PICK token : token.kind = "(" /\ Leads(Token("("), params, row, from, Read(from, token, params, row))
    BY LeadsToken DEF Kinds
  <2>2. Read(from, token, params, row) = Open(from)
    BY <2>1, ReadOpen
  <2> QED
    BY <2>1, <2>2
<1>4. Leads(Token(")"), params, row, Level(x, y, from), Level(k, h /\ b, o))
  <2>1. PICK token : /\ token.kind = ")"
                     /\ Leads(Token(")"), params, row, Level(x, y, from),
                              Read(Level(x, y, from), token, params, row))
    BY LeadsToken DEF Kinds
  <2>2. Read(Level(x, y, from), token, params, row) = Level(k, h /\ (x \/ y), o)
    BY <2>1, ReadClose
  <2> QED
    BY <1>1, <2>1, <2>2
<1> HIDE DEF from
<1>5. /\ Token("(") \o c \in Seq(Tokens)
      /\ Leads(Token("(") \o c, params, row, from, Level(x, y, from))
  BY <1>1, <1>2, <1>3, LeadsOn
<1>6. /\ (Token("(") \o c) \o Token(")") \in Seq(Tokens)
      /\ Leads((Token("(") \o c) \o Token(")"), params, row, from, Level(k, h /\ b, o))
  BY <1>2, <1>4, <1>5, LeadsOn
<1> QED
  BY <1>6 DEF InParentheses, from

Joined(l, kind, r) == InParentheses(l) \o Token(kind) \o InParentheses(r)

LEMMA JudgesJoined ==
    ASSUME NEW l \in Seq(Tokens), NEW r \in Seq(Tokens), NEW kind \in {"AND", "OR"},
           NEW params, NEW row, NEW b \in BOOLEAN, NEW c \in BOOLEAN,
           Judges(l, params, row, b), Judges(r, params, row, c)
    PROVE  /\ Joined(l, kind, r) \in Seq(Tokens)
           /\ Judges(Joined(l, kind, r), params, row, IF kind = "AND" THEN b /\ c ELSE b \/ c)
<1>1. Token(kind) \in Seq(Tokens)
  BY TokenIs DEF Kinds
<1>2. \A o : /\ InParentheses(l) \in Seq(Tokens)
             /\ Leads(InParentheses(l), params, row, Open(o), Level(FALSE, b, o))
  <2>1. \A o : Open(o) = Level(FALSE, TRUE, o)
    BY DEF Open, Level
  <2>2. (TRUE /\ b) = b
    OBVIOUS
  <2> QED
    BY <2>1, <2>2, LeadsParentheses
<1> DEFINE k == IF kind = "AND" THEN FALSE ELSE b
           h == IF kind = "AND" THEN b ELSE TRUE
<1>3. k \in BOOLEAN /\ h \in BOOLEAN
  OBVIOUS
<1>4. ASSUME NEW o PROVE Leads(Token(kind), params, row, Level(FALSE, b, o), Level(k, h, o))
  <2>1. PICK token : /\ token.kind = kind
                     /\ Leads(Token(kind), params, row, Level(FALSE, b, o),
                              Read(Level(FALSE, b, o), token, params, row))
    <3>1. kind \in Kinds
      BY DEF Kinds
    <3> QED
      BY <3>1, LeadsToken
  <2>2. kind = "AND" => Read(Level(FALSE, b, o), token, params, row) = Level(FALSE, b, o)
    BY <2>1 DEF Read
  <2>3. kind = "OR" => Read(Level(FALSE, b, o), token, params, row) = Level(FALSE \/ b, TRUE, o)
    BY <2>1 DEF Read, Level, Value
  <2>4. (FALSE \/ b) = b
    OBVIOUS
  <2> QED
    BY <2>1, <2>2, <2>3, <2>4
<1> HIDE DEF k, h
<1>5. \A o : /\ InParentheses(r) \in Seq(Tokens)
             /\ Leads(InParentheses(r), params, row, Level(k, h, o), Level(k, h /\ c, o))
  BY <1>3, LeadsParentheses
<1>6. ASSUME NEW o
      PROVE  /\ Joined(l, kind, r) \in Seq(Tokens)
             /\ Leads(Joined(l, kind, r), params, row, Open(o), Level(k, h /\ c, o))
  <2>1. /\ InParentheses(l) \o Token(kind) \in Seq(Tokens)
        /\ Leads(InParentheses(l) \o Token(kind), params, row, Open(o), Level(k, h, o))
    BY <1>1, <1>2, <1>4, LeadsOn
  <2>2. /\ (InParentheses(l) \o Token(kind)) \o InParentheses(r) \in Seq(Tokens)
        /\ Leads((InParentheses(l) \o Token(kind)) \o InParentheses(r), params, row,
                 Open(o), Level(k, h /\ c, o))
    BY <1>5, <2>1, LeadsOn
  <2> QED
    BY <2>2 DEF Joined
<1>7. (k \/ (h /\ c)) = (IF kind = "AND" THEN b /\ c ELSE b \/ c) /\ (h /\ c) \in BOOLEAN
  BY <1>3 DEF k, h
<1> QED
  BY <1>3, <1>6, <1>7 DEF Judges

-----------------------------------------------------------------------------
(***************************************************************************)
(* Comparisons.                                                            *)
(***************************************************************************)
Comparisons == Predicate \cup {OwnedByParent}
Values == UNION {IF p.operator = "In" THEN ToSet(p.operand) ELSE {p.operand} : p \in Comparisons}

LEMMA ComparisonIs ==
    ASSUME NEW p \in Comparisons
    PROVE  /\ p.operator \in Comparing \cup {"In", "IsNull", "IsNotNull"}
           /\ p.operator = "In" => p.operand \in Seq(ToSet(p.operand))
           /\ p.column \in Columns
<1>1. p \in Predicate \cup {OwnedByParent}
  BY DEF Comparisons
<1>2. p.column \in Columns
  BY <1>1 DEF Columns
<1>3. CASE p \in Predicate
  BY <1>2, <1>3, PredicateAssumption
<1>4. CASE p = OwnedByParent
  <2>1. p.operator = "Eq"
    BY <1>4 DEF OwnedByParent
  <2> QED
    BY <1>2, <2>1 DEF Comparing
<1> QED
  BY <1>1, <1>3, <1>4

\* An IN list keeps exactly the values that are not NULL.
LEMMA OperandsAre ==
    ASSUME NEW p \in Comparisons
    PROVE  /\ Operands(p) \in Seq(Values)
           /\ p.operator # "In" => Operands(p) = <<p.operand>>
           /\ p.operator = "In" =>
                \A v : (\E k \in 1..Len(Operands(p)) : Operands(p)[k] = v) <=> (v # Null /\ v \in ToSet(p.operand))
<1>1. CASE p.operator # "In"
  <2>1. p.operand \in Values
    BY <1>1 DEF Values
  <2>2. Operands(p) = <<p.operand>>
    BY <1>1 DEF Operands
  <2> QED
    BY <1>1, <2>1, <2>2
<1>2. CASE p.operator = "In"
  <2> DEFINE s == p.operand
             n == Len(s)
             Kept(f, k) == IF k = 0 THEN <<>>
                           ELSE IF s[k] = Null THEN f[k - 1] ELSE Append(f[k - 1], s[k])
             kept == CHOOSE f : f = [k \in 0..n |-> Kept(f, k)]
  <2>1. s \in Seq(ToSet(s)) /\ ToSet(s) \subseteq Values
    <3>1. s \in Seq(ToSet(s))
      BY <1>2, ComparisonIs
    <3>2. ToSet(s) \in {IF q.operator = "In" THEN ToSet(q.operand) ELSE {q.operand} : q \in Comparisons}
      BY <1>2
    <3> QED
      BY <3>1, <3>2 DEF Values
  <2>2. n \in Nat /\ n = Len(s) /\ s \in Seq(Values) /\ \A v : v \in ToSet(s) <=> \E j \in 1..n : s[j] = v
    <3> HIDE DEF s
    <3> QED
      BY <2>1 DEF ToSet
  <2>3. Operands(p) = kept[n]
    BY <1>2 DEF Operands
  <2>4. LooksBack(Kept)
    BY DEF LooksBack
  <2> HIDE DEF s, n, Kept
  <2>5. PICK f : Unfolds(f, 0..n, Kept)
    BY <2>2, <2>4, UnfoldsUpTo
  <2>6. \E g : g = [k \in 0..n |-> Kept(g, k)]
    BY <2>5 DEF Unfolds
  <2>7. kept = [k \in 0..n |-> Kept(kept, k)]
    BY <2>6
  <2> HIDE DEF kept
  <2> DEFINE Right(k) ==
               /\ kept[k] \in Seq(Values)
               /\ \A v : (\E j \in 1..Len(kept[k]) : kept[k][j] = v) <=> (v # Null /\ \E j \in 1..k : s[j] = v)
             G == {k \in 0..n : Right(k)}
  <2>8. 0 \in G
    <3>1. kept[0] = <<>> /\ 0 \in 0..n
      BY <2>2, <2>7 DEF Kept
    <3>2. Len(<<>>) = 0 /\ <<>> \in Seq(Values) /\ \A j : j \notin 1..0
      OBVIOUS
    <3>3. Right(0)
      BY <3>1, <3>2
    <3> HIDE DEF Right
    <3> QED
      BY <3>1, <3>3
  <2>9. ASSUME NEW k \in 1..n, k - 1 \in G PROVE k \in G
    <3>1. k \in 0..n /\ k # 0 /\ k \in Nat /\ s[k] \in Values
      BY <2>2
    <3>2. kept[k] = IF s[k] = Null THEN kept[k - 1] ELSE Append(kept[k - 1], s[k])
      BY <2>7, <3>1 DEF Kept
    <3>3. Right(k - 1)
      BY <2>9
    <3>4. \A v : (\E j \in 1..k : s[j] = v) <=> (s[k] = v \/ \E j \in 1..(k - 1) : s[j] = v)
      <4>1. 1..k = (1..(k - 1)) \cup {k}
        BY <3>1
      <4> QED
        BY <4>1
    <3>5. CASE s[k] = Null
      BY <3>1, <3>2, <3>3, <3>4, <3>5
    <3>6. CASE s[k] # Null
      <4> DEFINE c == kept[k - 1]
                 d == Append(c, s[k])
      <4>1. c \in Seq(Values)
        BY <3>3
      <4>2. /\ d \in Seq(Values)
            /\ \A v : (\E j \in 1..Len(d) : d[j] = v) <=> (s[k] = v \/ \E j \in 1..Len(c) : c[j] = v)
        <5> HIDE DEF c
        <5>1. Len(c) \in Nat /\ Len(d) = Len(c) + 1 /\ d[Len(c) + 1] = s[k]
              /\ d \in Seq(Values) /\ \A j \in 1..Len(c) : d[j] = c[j]
          BY <3>1, <4>1
        <5>2. 1..(Len(c) + 1) = (1..Len(c)) \cup {Len(c) + 1}
          BY <5>1
        <5> HIDE DEF d
        <5> QED
          BY <5>1, <5>2
      <4>3. kept[k] = d
        BY <3>2, <3>6
      <4> HIDE DEF d
      <4> QED
        BY <3>1, <3>3, <3>4, <3>6, <4>2, <4>3
    <3> QED
      BY <3>5, <3>6
  <2> HIDE DEF G
  <2>10. \A k \in 0..n : k \in G
    BY <2>2, <2>8, <2>9, Counting
  <2>11. Right(n)
    <3>1. n \in G
      BY <2>2, <2>10
    <3> HIDE DEF Right
    <3> QED
      BY <3>1 DEF G
  <2> QED
    BY <1>2, <2>2, <2>3, <2>11 DEF s
<1> QED
  BY <1>1, <1>2

-----------------------------------------------------------------------------
(***************************************************************************)
(* What an expression writes.                                              *)
(***************************************************************************)
Carries(params, n, own) == \A k \in 1..Len(own) : params[n + k] = own[k]

\* Written after n parameters, a clause is one for the rows that were asked for.
Writes(built, n, as) ==
    /\ built.valid = as.valid
    /\ built.clause \in Seq(Tokens) /\ built.params \in Seq(Values)
    /\ as.given = (built.clause # <<>>)
    /\ Marks(built.clause) = PushPlaceholders(n, built.params)
    /\ as.valid /\ as.given => \A row \in Row : \A params :
            Carries(params, n, built.params) => Judges(built.clause, params, row, row \in as.rows)

Asking == [given : BOOLEAN, rows : SUBSET Row, valid : BOOLEAN,
           limit : {NoLimit} \cup 0..MaxLimit, offset : 0..MaxOffset]
IsAsked(as) == as \in Asking /\ (~as.given => as.valid /\ as.rows = Row)

TokenOf(p, n) == PredicateClause(p, n).clause[1]

LEMMA PredicateToken ==
    ASSUME NEW p \in Comparisons, NEW n \in Nat
    PROVE  LET operands == IF Written(p) = p.operator THEN Operands(p) ELSE <<>> IN
           /\ TokenOf(p, n) = [kind |-> Written(p), column |-> p.column,
                               marks |-> PushPlaceholders(n, operands)]
           /\ TokenOf(p, n) \in Tokens /\ Written(p) \in Truths
           /\ PredicateClause(p, n).clause = <<TokenOf(p, n)>>
           /\ PredicateClause(p, n).params = operands /\ operands \in Seq(Values)
           /\ PredicateClause(p, n).valid = Asks(p).valid
<1> DEFINE operands == IF Written(p) = p.operator THEN Operands(p) ELSE <<>>
           token == [kind |-> Written(p), column |-> p.column,
                     marks |-> PushPlaceholders(n, operands)]
<1>1. operands \in Seq(Values)
  BY OperandsAre
<1>2. Written(p) \in Truths
  BY ComparisonIs DEF Written, Truths
<1>3. PushPlaceholders(n, operands) \in Seq(Nat)
  <2> HIDE DEF operands
  <2>1. DOMAIN operands = 1..Len(operands) /\ Len(operands) \in Nat
    BY <1>1, LenProperties
  <2> QED
    BY <2>1 DEF PushPlaceholders
<1>4. token \in Tokens
  <2> HIDE DEF operands
  <2> QED
    BY <1>2, <1>3, ComparisonIs DEF Tokens
<1>5. PredicateClause(p, n) = [valid |-> ~(p.operator \in Ordering /\ p.operand = Null),
                              clause |-> <<token>>, params |-> operands]
  BY DEF PredicateClause
<1>6. Asks(p).valid = ~(p.operator \in Ordering /\ p.operand = Null)
  BY DEF Asks, Everything
<1> HIDE DEF token, operands
<1>7. TokenOf(p, n) = token
  BY <1>5 DEF TokenOf
<1> QED
  BY <1>1, <1>2, <1>4, <1>5, <1>6, <1>7 DEF token, operands

LEMMA TruthIsMatches ==
    ASSUME NEW p \in Comparisons, NEW n \in Nat, NEW params, NEW row, Asks(p).valid,
           Carries(params, n, PredicateClause(p, n).params)
    PROVE  Truth(TokenOf(p, n), params, row) <=> Matches(p, row)
<1> DEFINE operands == IF Written(p) = p.operator THEN Operands(p) ELSE <<>>
           token == [kind |-> Written(p), column |-> p.column, marks |-> PushPlaceholders(n, operands)]
           cell == row[p.column]
<1>1. TokenOf(p, n) = token
  BY PredicateToken
<1>2. \A k \in 1..Len(operands) : params[n + k] = operands[k]
  <2>1. PredicateClause(p, n).params = operands
    BY PredicateToken
  <2> HIDE DEF operands
  <2> QED
    BY <2>1 DEF Carries
<1>3. /\ p.operator \in Comparing \cup {"In", "IsNull", "IsNotNull"}
      /\ ~(p.operator \in Ordering /\ p.operand = Null)
  BY ComparisonIs DEF Asks, Everything
<1>4. CASE p.operator = "IsNull"
  <2>1. Written(p) = "IS NULL"
    BY <1>4 DEF Written
  <2>2. Truth(token, params, row) <=> cell = Null
    BY <2>1 DEF Truth, Comparing
  <2>3. Matches(p, row) <=> cell = Null
    BY <1>4 DEF Matches, Comparing
  <2> QED
    BY <1>1, <2>2, <2>3
<1>5. CASE p.operator = "IsNotNull"
  <2>1. Written(p) = "IS NOT NULL"
    BY <1>5 DEF Written
  <2>2. Truth(token, params, row) <=> cell # Null
    BY <2>1 DEF Truth, Comparing
  <2>3. Matches(p, row) <=> cell # Null
    BY <1>5 DEF Matches, Comparing
  <2> QED
    BY <1>1, <2>2, <2>3
<1>6. CASE p.operator \in Comparing /\ p.operand = Null
  <2>1. p.operator \in {"Eq", "Ne"}
    BY <1>3, <1>6 DEF Comparing, Ordering
  <2>2. Matches(p, row) <=> (cell = Null) = (p.operator = "Eq")
    BY <1>6, <2>1 DEF Matches, Comparing
  <2>3. Written(p) = IF p.operator = "Eq" THEN "IS NULL" ELSE "IS NOT NULL"
    BY <1>6, <2>1 DEF Written
  <2>4. Truth(token, params, row) <=> IF p.operator = "Eq" THEN cell = Null ELSE cell # Null
    BY <2>1, <2>3 DEF Truth, Comparing
  <2> QED
    BY <1>1, <2>2, <2>4
<1>7. CASE p.operator \in Comparing /\ p.operand # Null
  <2>1. Written(p) = p.operator /\ p.operator # "In"
    BY <1>7 DEF Written, Comparing
  <2>2. operands = <<p.operand>>
    BY <2>1, OperandsAre
  <2>3. params[n + 1] = p.operand
    BY <1>2, <2>2
  <2>4. PushPlaceholders(n, operands)[1] = n + 1
    <3> HIDE DEF operands
    <3>1. 1 \in DOMAIN operands
      BY <2>2
    <3> QED
      BY <3>1 DEF PushPlaceholders
  <2>5. Matches(p, row) <=> cell # Null /\ Relates(p.operator, cell, p.operand)
    BY <1>7 DEF Matches, Comparing
  <2> HIDE DEF operands
  <2>6. /\ token.kind = p.operator /\ token.column = p.column /\ token.marks[1] = n + 1
        /\ token.kind \in Comparing
    BY <1>7, <2>1, <2>4
  <2> HIDE DEF token
  <2>7. Truth(token, params, row) <=> cell # Null /\ Relates(p.operator, cell, p.operand)
    BY <2>3, <2>6 DEF Truth, Comparing
  <2> QED
    BY <1>1, <2>5, <2>7
<1>8. CASE p.operator = "In"
  <2>1. Matches(p, row) <=> cell # Null /\ cell \in ToSet(p.operand)
    BY <1>8 DEF Matches, Comparing
  <2>2. \A v : (\E k \in 1..Len(Operands(p)) : Operands(p)[k] = v) <=> (v # Null /\ v \in ToSet(p.operand))
    BY <1>8, OperandsAre
  <2>3. CASE Operands(p) = <<>>
    <3>1. Written(p) = "0 = 1"
      BY <1>8, <2>3 DEF Written
    <3>2. ~Truth(token, params, row)
      BY <3>1 DEF Truth, Comparing
    <3>3. ~(cell # Null /\ cell \in ToSet(p.operand))
      BY <2>2, <2>3
    <3> QED
      BY <1>1, <2>1, <3>2, <3>3
  <2>4. CASE Operands(p) # <<>>
    <3>1. Written(p) = "In"
      BY <1>8, <2>4 DEF Written
    <3>2. operands = Operands(p)
      BY <1>8, <3>1
    <3>3. DOMAIN operands = 1..Len(operands)
      BY <3>2, OperandsAre, LenProperties
    <3> HIDE DEF operands
    <3>4. /\ token.kind = "In" /\ token.column = p.column
          /\ DOMAIN token.marks = 1..Len(operands) /\ \A k \in 1..Len(operands) : token.marks[k] = n + k
      BY <3>1, <3>3 DEF PushPlaceholders
    <3> HIDE DEF token
    <3>5. Truth(token, params, row) <=> \E k \in 1..Len(operands) : cell # Null /\ cell = params[n + k]
      BY <3>4 DEF Truth, Comparing
    <3> QED
      BY <1>1, <1>2, <2>1, <2>2, <3>2, <3>5
  <2> QED
    BY <2>3, <2>4
<1> QED
  BY <1>3, <1>4, <1>5, <1>6, <1>7, <1>8

LEMMA EverythingIsAsked == IsAsked(Everything)
  BY PagingAssumption DEF Everything, IsAsked, Asking

LEMMA AsksIsAsked ==
    ASSUME NEW p
    PROVE  IsAsked(Asks(p)) /\ Asks(p).given
<1> DEFINE valid == ~(p.operator \in Ordering /\ p.operand = Null)
           them == IF valid THEN {row \in Row : Matches(p, row)} ELSE {}
<1>1. Asks(p) = [given |-> TRUE, rows |-> them, valid |-> valid, limit |-> NoLimit, offset |-> 0]
  <2>1. Asks(p) = [Everything EXCEPT !.given = TRUE, !.valid = valid, !.rows = them]
    BY DEF Asks
  <2> HIDE DEF them, valid
  <2> QED
    BY <2>1 DEF Everything
<1>2. them \in SUBSET Row /\ valid \in BOOLEAN
  OBVIOUS
<1> HIDE DEF them, valid
<1> QED
  BY <1>1, <1>2, PagingAssumption DEF IsAsked, Asking

LEMMA PredicateWrites ==
    ASSUME NEW p \in Comparisons, NEW n \in Nat
    PROVE  Writes(PredicateClause(p, n), n, Asks(p))
<1> DEFINE built == PredicateClause(p, n)
           token == TokenOf(p, n)
<1>1. /\ token \in Tokens /\ token.kind \in Truths /\ built.clause = <<token>>
      /\ token.marks = PushPlaceholders(n, built.params)
      /\ built.params \in Seq(Values) /\ built.valid = Asks(p).valid
  <2> DEFINE operands == IF Written(p) = p.operator THEN Operands(p) ELSE <<>>
  <2>1. token = [kind |-> Written(p), column |-> p.column, marks |-> PushPlaceholders(n, operands)]
    BY PredicateToken
  <2>2. token \in Tokens /\ Written(p) \in Truths /\ built.clause = <<token>>
    BY PredicateToken
  <2>3. built.params = operands /\ operands \in Seq(Values)
    BY PredicateToken
  <2>4. built.valid = Asks(p).valid
    BY PredicateToken
  <2> HIDE DEF operands, token, built
  <2> QED
    BY <2>1, <2>2, <2>3, <2>4
<1>2. built.clause \in Seq(Tokens) /\ built.clause # <<>> /\ Marks(built.clause) = token.marks
  <2> HIDE DEF built, token
  <2>1. Marks(<<token>>) = token.marks
    BY <1>1, MarksOne
  <2> QED
    BY <1>1, <2>1
<1>3. ASSUME Asks(p).valid, NEW row \in Row, NEW params, Carries(params, n, built.params)
      PROVE  Judges(built.clause, params, row, row \in Asks(p).rows)
  <2>1. Truth(token, params, row) <=> Matches(p, row)
    BY <1>3, TruthIsMatches
  <2>2. row \in Asks(p).rows <=> Matches(p, row)
    BY <1>3 DEF Asks, Everything
  <2> HIDE DEF token, built
  <2>3. token.kind \notin Kinds
    BY <1>1 DEF Truths, Comparing, Kinds
  <2> DEFINE b == row \in Asks(p).rows
  <2>4. ASSUME NEW o PROVE Leads(<<token>>, params, row, Open(o), Level(FALSE, b, o))
    <3>1. Read(Open(o), token, params, row) = Level(FALSE, TRUE /\ Truth(token, params, row), o)
      BY <2>3 DEF Read, Conjoin, Open, Level, Kinds
    <3>2. (TRUE /\ Truth(token, params, row)) = b
      BY <2>1, <2>2
    <3> HIDE DEF b
    <3> QED
      BY <3>1, <3>2, LeadsOne
  <2>5. FALSE \in BOOLEAN /\ b \in BOOLEAN /\ (FALSE \/ b) = b
    OBVIOUS
  <2> HIDE DEF b
  <2>6. Judges(<<token>>, params, row, b)
    BY <2>4, <2>5 DEF Judges
  <2> QED
    BY <1>1, <2>6 DEF b
<1>4. Asks(p).given = (built.clause # <<>>)
  BY <1>2, AsksIsAsked
<1> HIDE DEF built, token
<1>5. Writes(built, n, Asks(p))
  BY <1>1, <1>2, <1>3, <1>4 DEF Writes
<1> QED
  BY <1>5 DEF built

LEMMA NothingWrites ==
    ASSUME NEW n \in Nat
    PROVE  Writes([valid |-> TRUE, clause |-> <<>>, params |-> <<>>], n, Everything)
<1>1. Marks(<<>>) = <<>>
  <2>1. [i \in DOMAIN <<>> |-> <<>>[i].marks] = <<>>
    OBVIOUS
  <2> QED
    BY <2>1 DEF Marks, FlattenSeq
<1>2. PushPlaceholders(n, <<>>) = <<>>
  BY DEF PushPlaceholders
<1>3. <<>> \in Seq(Tokens) /\ <<>> \in Seq(Values)
  OBVIOUS
<1> QED
  BY <1>1, <1>2, <1>3 DEF Writes, Everything

\* The reference: what a conjunction or a disjunction asks for.
Joins(as, kind, a, b) ==
    /\ as.given = (a.given \/ b.given) /\ as.valid = (a.valid /\ b.valid)
    /\ ~a.given => as.rows = b.rows
    /\ a.given /\ ~b.given => as.rows = a.rows
    /\ a.given /\ b.given /\ kind = "AND" => as.rows = a.rows \cap b.rows
    /\ a.given /\ b.given /\ kind = "OR" => as.rows = a.rows \cup b.rows
    /\ as.limit = a.limit /\ as.offset = a.offset

LEMMA MeansIs ==
    ASSUME NEW a, IsAsked(a), NEW b, IsAsked(b), NEW kind \in {"AND", "OR"}
    PROVE  IsAsked(Means(kind, a, b)) /\ Joins(Means(kind, a, b), kind, a, b)
<1>1. /\ a \in Asking /\ (~a.given => a.valid /\ a.rows = Row)
      /\ b \in Asking /\ (~b.given => b.valid /\ b.rows = Row)
  BY DEF IsAsked
<1> DEFINE them == IF ~a.given THEN b.rows ELSE IF ~b.given THEN a.rows
                   ELSE IF kind = "AND" THEN a.rows \cap b.rows ELSE a.rows \cup b.rows
<1>2. /\ a.given \in BOOLEAN /\ b.given \in BOOLEAN /\ a.valid \in BOOLEAN /\ b.valid \in BOOLEAN
      /\ a.rows \subseteq Row /\ b.rows \subseteq Row
  BY <1>1 DEF Asking
<1>3. Both(a, b) = [a EXCEPT !.given = a.given \/ b.given, !.valid = a.valid /\ b.valid,
                             !.rows = a.rows \cap b.rows]
  BY DEF Both
<1>4. Means(kind, a, b) = [a EXCEPT !.given = a.given \/ b.given, !.valid = a.valid /\ b.valid, !.rows = them]
  <2>1. CASE kind = "AND"
    <3>1. them = a.rows \cap b.rows
      BY <1>1, <1>2, <2>1
    <3> HIDE DEF them
    <3> QED
      BY <1>3, <2>1, <3>1 DEF Means
  <2>2. CASE kind = "OR"
    <3>1. them = IF ~a.given THEN b.rows ELSE IF ~b.given THEN a.rows ELSE a.rows \cup b.rows
      BY <2>2
    <3>2. Means(kind, a, b) = [Both(a, b) EXCEPT !.rows = them]
      BY <2>2, <3>1 DEF Means, Either
    <3> HIDE DEF them
    <3> QED
      BY <1>1, <1>3, <3>2 DEF Asking
  <2> QED
    BY <2>1, <2>2
<1>5. them \subseteq Row /\ (~(a.given \/ b.given) => a.valid /\ b.valid /\ them = Row)
  BY <1>1, <1>2
<1> HIDE DEF them
<1>6. /\ Means(kind, a, b) \in Asking
      /\ Means(kind, a, b).given = (a.given \/ b.given)
      /\ Means(kind, a, b).valid = (a.valid /\ b.valid)
      /\ Means(kind, a, b).rows = them
      /\ Means(kind, a, b).limit = a.limit /\ Means(kind, a, b).offset = a.offset
  <2>1. PICK g \in BOOLEAN : g = (a.given \/ b.given)
    OBVIOUS
  <2>2. PICK v \in BOOLEAN : v = (a.valid /\ b.valid)
    OBVIOUS
  <2>3. Means(kind, a, b) = [a EXCEPT !.given = g, !.valid = v, !.rows = them]
    BY <1>4, <2>1, <2>2
  <2>4. /\ Means(kind, a, b) \in Asking /\ Means(kind, a, b).given = g
        /\ Means(kind, a, b).valid = v /\ Means(kind, a, b).rows = them
        /\ Means(kind, a, b).limit = a.limit /\ Means(kind, a, b).offset = a.offset
    BY <1>1, <1>5, <2>3 DEF Asking
  <2> QED
    BY <2>1, <2>2, <2>4
<1>7. IsAsked(Means(kind, a, b))
  BY <1>5, <1>6 DEF IsAsked
<1> QED
  BY <1>6, <1>7 DEF them, Joins

LEMMA PushConcat ==
    ASSUME NEW n \in Nat, NEW a \in Seq(Values), NEW b \in Seq(Values)
    PROVE  PushPlaceholders(n, a \o b) = PushPlaceholders(n, a) \o PushPlaceholders(n + Len(a), b)
<1>1. ASSUME NEW c \in Seq(Values), NEW m \in Nat
      PROVE  /\ PushPlaceholders(m, c) \in Seq(Nat) /\ Len(PushPlaceholders(m, c)) = Len(c)
             /\ \A k \in 1..Len(c) : PushPlaceholders(m, c)[k] = m + k
  <2>1. DOMAIN c = 1..Len(c) /\ Len(c) \in Nat
    BY LenProperties
  <2> QED
    BY <2>1 DEF PushPlaceholders
<1>2. Len(a) \in Nat /\ Len(b) \in Nat /\ a \o b \in Seq(Values) /\ Len(a \o b) = Len(a) + Len(b)
  BY ConcatIs
<1> DEFINE x == PushPlaceholders(n, a)
           y == PushPlaceholders(n + Len(a), b)
           z == PushPlaceholders(n, a \o b)
<1>3. /\ x \in Seq(Nat) /\ Len(x) = Len(a) /\ \A k \in 1..Len(a) : x[k] = n + k
  BY <1>1
<1>4. /\ y \in Seq(Nat) /\ Len(y) = Len(b) /\ \A k \in 1..Len(b) : y[k] = n + Len(a) + k
  BY <1>1, <1>2
<1>5. /\ z \in Seq(Nat) /\ Len(z) = Len(a) + Len(b) /\ \A k \in 1..(Len(a) + Len(b)) : z[k] = n + k
  BY <1>1, <1>2
<1> HIDE DEF x, y, z
<1>6. x \o y \in Seq(Nat) /\ Len(x \o y) = Len(a) + Len(b)
  <2>1. x \in Seq(Nat) /\ y \in Seq(Nat)
    BY <1>3, <1>4
  <2>2. x \o y \in Seq(Nat) /\ Len(x \o y) = Len(x) + Len(y)
    BY <2>1, ConcatIs
  <2> QED
    BY <1>3, <1>4, <2>2
<1>7. ASSUME NEW k \in 1..(Len(a) + Len(b)) PROVE z[k] = (x \o y)[k]
  <2>1. CASE k <= Len(a)
    <3>1. k \in 1..Len(a)
      BY <1>2, <2>1
    <3> QED
      BY <1>3, <1>4, <1>5, <3>1, ConcatIs
  <2>2. CASE ~(k <= Len(a))
    <3>1. k - Len(a) \in 1..Len(b) /\ (x \o y)[k] = y[k - Len(a)]
      BY <1>2, <1>3, <1>4, <2>2, ConcatRight
    <3> QED
      BY <1>2, <1>4, <1>5, <3>1
  <2> QED
    BY <2>1, <2>2
<1>8. z = x \o y
  BY <1>5, <1>6, <1>7, SeqEqual
<1> QED
  BY <1>8 DEF x, y, z

LEMMA MarksJoined ==
    ASSUME NEW l \in Seq(Tokens), NEW r \in Seq(Tokens), NEW kind \in Kinds
    PROVE  Marks(Joined(l, kind, r)) = Marks(l) \o Marks(r)
<1>1. ASSUME NEW c \in Seq(Tokens) PROVE Marks(c) \in Seq(Nat)
  <2> DEFINE s == [i \in DOMAIN c |-> c[i].marks]
  <2>1. \A i \in 1..Len(c) : c[i].marks \in Seq(Nat)
    <3> SUFFICES ASSUME NEW i \in 1..Len(c) PROVE c[i].marks \in Seq(Nat)
      OBVIOUS
    <3>1. c[i] \in Tokens
      BY ElementOfSeq
    <3> QED
      BY <3>1 DEF Tokens
  <2>2. DOMAIN c = 1..Len(c) /\ Len(c) \in Nat
    BY LenProperties
  <2>3. s \in Seq(Seq(Nat))
    BY <2>1, <2>2
  <2> HIDE DEF s
  <2>4. FlattenSeq(s) \in Seq(Nat)
    BY <2>3, FlattenType
  <2> QED
    BY <2>4 DEF Marks, s
<1>2. ASSUME NEW k \in Kinds PROVE Token(k) \in Seq(Tokens) /\ Marks(Token(k)) = <<>>
  <2> DEFINE token == [kind |-> k, column |-> None, marks |-> <<>>]
  <2>1. Token(k) \in Seq(Tokens) /\ Token(k) = <<token>>
    BY TokenIs
  <2>2. token \in Tokens
    BY <2>1
  <2>3. token.marks = <<>>
    OBVIOUS
  <2> HIDE DEF token
  <2> QED
    BY <2>1, <2>2, <2>3, MarksOne
<1>3. ASSUME NEW s \in Seq(Nat) PROVE <<>> \o s = s /\ s \o <<>> = s
  BY ConcatEmptySeq
<1>4. ASSUME NEW c \in Seq(Tokens) PROVE InParentheses(c) \in Seq(Tokens) /\ Marks(InParentheses(c)) = Marks(c)
  <2> DEFINE p == Token("(")
             q == Token(")")
  <2>1. p \in Seq(Tokens) /\ q \in Seq(Tokens) /\ Marks(p) = <<>> /\ Marks(q) = <<>>
    BY <1>2 DEF Kinds
  <2> HIDE DEF p, q
  <2>2. p \o c \in Seq(Tokens) /\ (p \o c) \o q \in Seq(Tokens)
    BY <2>1, ConcatIs
  <2>3. Marks(p \o c) = Marks(p) \o Marks(c)
    BY <2>1, MarksConcat
  <2>4. Marks((p \o c) \o q) = Marks(p \o c) \o Marks(q)
    BY <2>1, <2>2, MarksConcat
  <2>5. Marks((p \o c) \o q) = Marks(c)
    BY <1>1, <1>3, <2>1, <2>3, <2>4
  <2> QED
    BY <2>2, <2>5 DEF InParentheses, p, q
<1> DEFINE a == InParentheses(l)
           t == Token(kind)
           b == InParentheses(r)
<1>5. /\ a \in Seq(Tokens) /\ t \in Seq(Tokens) /\ b \in Seq(Tokens)
      /\ Marks(a) = Marks(l) /\ Marks(t) = <<>> /\ Marks(b) = Marks(r)
  BY <1>2, <1>4
<1>6. Marks(l) \in Seq(Nat)
  BY <1>1
<1> HIDE DEF a, t, b
<1>7. a \o t \in Seq(Tokens)
  BY <1>5, ConcatIs
<1>8. Marks(a \o t) = Marks(l) \o <<>>
  BY <1>5, MarksConcat
<1>9. Marks((a \o t) \o b) = Marks(a \o t) \o Marks(r)
  BY <1>5, <1>7, MarksConcat
<1> QED
  BY <1>3, <1>6, <1>8, <1>9 DEF Joined, a, t, b

LEMMA JoinedIs ==
    ASSUME NEW l \in Seq(Tokens), NEW r \in Seq(Tokens), NEW kind \in Kinds
    PROVE  Joined(l, kind, r) \in Seq(Tokens) /\ Joined(l, kind, r) # <<>>
<1> DEFINE p == Token("(")
           q == Token(")")
           t == Token(kind)
<1>1. /\ p \in Seq(Tokens) /\ q \in Seq(Tokens) /\ t \in Seq(Tokens) /\ Len(t) = 1
  BY TokenIs DEF Kinds
<1> HIDE DEF p, q, t
<1>2. (p \o l) \o q \in Seq(Tokens) /\ (p \o r) \o q \in Seq(Tokens)
  BY <1>1
<1> DEFINE a == (p \o l) \o q
           b == (p \o r) \o q
<1>3. a \in Seq(Tokens) /\ b \in Seq(Tokens)
  BY <1>2
<1> HIDE DEF a, b
<1>4. (a \o t) \o b \in Seq(Tokens) /\ Len((a \o t) \o b) > 0
  <2>1. a \o t \in Seq(Tokens) /\ Len(a \o t) = Len(a) + 1 /\ Len(a) \in Nat
    <3>1. a \o t \in Seq(Tokens) /\ Len(a \o t) = Len(a) + Len(t)
      BY <1>1, <1>3, ConcatIs
    <3>2. Len(a) \in Nat
      BY <1>3
    <3> QED
      BY <1>1, <3>1, <3>2
  <2> DEFINE c == a \o t
  <2>2. c \in Seq(Tokens) /\ Len(c) > 0
    BY <2>1
  <2> HIDE DEF c
  <2>3. c \o b \in Seq(Tokens) /\ Len(c \o b) > 0
    BY <1>3, <2>2
  <2> QED
    BY <2>3 DEF c
<1>5. Len(<<>>) = 0
  OBVIOUS
<1>6. Joined(l, kind, r) = (a \o t) \o b
  BY DEF Joined, InParentheses, a, b, p, q, t
<1> QED
  BY <1>4, <1>5, <1>6

\* The clauses of two expressions, one after the other's parameters, make the
\* clause of what the call that joins them asks for.
LEMMA CombineWrites ==
    ASSUME NEW l, NEW r, NEW n \in Nat, NEW a, NEW b, IsAsked(a), IsAsked(b), NEW kind \in {"AND", "OR"},
           Writes(l, n, a), Writes(r, n + Len(l.params), b)
    PROVE  Writes([valid |-> l.valid /\ r.valid, clause |-> CombineClauses(l.clause, r.clause, kind),
                   params |-> l.params \o r.params], n, Means(kind, a, b))
<1> DEFINE lc == l.clause
           rc == r.clause
           lp == l.params
           rp == r.params
           m == Len(lp)
           clause == CombineClauses(lc, rc, kind)
           as == Means(kind, a, b)
<1>1. /\ l.valid = a.valid /\ lc \in Seq(Tokens) /\ lp \in Seq(Values) /\ a.given = (lc # <<>>)
      /\ Marks(lc) = PushPlaceholders(n, lp)
  BY DEF Writes
<1>2. /\ r.valid = b.valid /\ rc \in Seq(Tokens) /\ rp \in Seq(Values) /\ b.given = (rc # <<>>)
      /\ Marks(rc) = PushPlaceholders(n + m, rp)
  BY DEF Writes
<1>3. a.valid /\ a.given => \A row \in Row : \A params :
         Carries(params, n, lp) => Judges(lc, params, row, row \in a.rows)
  BY DEF Writes
<1>4. b.valid /\ b.given => \A row \in Row : \A params :
         Carries(params, n + m, rp) => Judges(rc, params, row, row \in b.rows)
  BY DEF Writes
<1>5. /\ as.given = (a.given \/ b.given) /\ as.valid = (a.valid /\ b.valid)
      /\ ~a.given => as.rows = b.rows
      /\ a.given /\ ~b.given => as.rows = a.rows
      /\ a.given /\ b.given /\ kind = "AND" => as.rows = a.rows \cap b.rows
      /\ a.given /\ b.given /\ kind = "OR" => as.rows = a.rows \cup b.rows
  <2>1. Joins(as, kind, a, b)
    BY MeansIs
  <2> HIDE DEF as
  <2> QED
    BY <2>1 DEF Joins
<1>6. m \in Nat /\ lp \o rp \in Seq(Values) /\ Len(lp \o rp) = m + Len(rp) /\ Len(rp) \in Nat
  BY <1>1, <1>2, ConcatIs
<1>7. /\ lc = <<>> => clause = rc
      /\ rc = <<>> => clause = lc
      /\ lc # <<>> /\ rc # <<>> => clause = Joined(lc, kind, rc)
  BY DEF CombineClauses, Joined
<1>8. kind \in Kinds
  BY DEF Kinds
<1> HIDE DEF lc, rc, lp, rp, m, clause, as
<1>9. Marks(<<>>) = <<>>
  <2>1. [i \in DOMAIN <<>> |-> <<>>[i].marks] = <<>>
    OBVIOUS
  <2> QED
    BY <2>1 DEF Marks, FlattenSeq
<1>10. ASSUME NEW k \in Nat, NEW s \in Seq(Values)
       PROVE  /\ PushPlaceholders(k, s) \in Seq(Nat)
              /\ PushPlaceholders(k, s) = <<>> => s = <<>>
  <2>1. DOMAIN s = 1..Len(s) /\ Len(s) \in Nat
    BY LenProperties
  <2>2. PushPlaceholders(k, s) \in Seq(Nat) /\ Len(PushPlaceholders(k, s)) = Len(s)
    BY <2>1 DEF PushPlaceholders
  <2>3. Len(s) = 0 => s = <<>>
    BY EmptySeq
  <2> QED
    BY <2>2, <2>3
<1>11. m = Len(lp) /\ (lc = <<>> => lp = <<>> /\ m = 0) /\ (rc = <<>> => rp = <<>>)
  <2>1. m = Len(lp)
    BY DEF m
  <2>2. lc = <<>> => lp = <<>>
    BY <1>1, <1>9, <1>10
  <2>3. rc = <<>> => rp = <<>>
    <3>1. n + m \in Nat
      BY <1>6
    <3> QED
      BY <1>2, <1>9, <1>10, <3>1
  <2>4. Len(<<>>) = 0
    OBVIOUS
  <2> QED
    BY <2>1, <2>2, <2>3, <2>4
<1>12. ASSUME NEW S, NEW s \in Seq(S) PROVE <<>> \o s = s /\ s \o <<>> = s
  BY ConcatEmptySeq
<1>13. clause \in Seq(Tokens) /\ as.given = (clause # <<>>) /\ Marks(clause) = Marks(lc) \o Marks(rc)
  <2>1. Marks(lc) \in Seq(Nat) /\ Marks(rc) \in Seq(Nat)
    <3>1. n + m \in Nat
      BY <1>6
    <3> QED
      BY <1>1, <1>2, <1>10, <3>1
  <2>2. CASE lc = <<>>
    <3>1. clause = rc /\ Marks(lc) = <<>> /\ as.given = (rc # <<>>)
      BY <1>1, <1>2, <1>5, <1>7, <1>9, <2>2
    <3>2. <<>> \o Marks(rc) = Marks(rc)
      BY <1>12, <2>1
    <3> QED
      BY <1>2, <3>1, <3>2
  <2>3. CASE rc = <<>>
    <3>1. clause = lc /\ Marks(rc) = <<>> /\ as.given = (lc # <<>>)
      BY <1>1, <1>2, <1>5, <1>7, <1>9, <2>3
    <3>2. Marks(lc) \o <<>> = Marks(lc)
      BY <1>12, <2>1
    <3> QED
      BY <1>1, <3>1, <3>2
  <2>4. CASE lc # <<>> /\ rc # <<>>
    <3>1. clause = Joined(lc, kind, rc) /\ as.given = TRUE
      BY <1>1, <1>2, <1>5, <1>7, <2>4
    <3>2. Joined(lc, kind, rc) \in Seq(Tokens) /\ Joined(lc, kind, rc) # <<>>
      BY <1>1, <1>2, <1>8, JoinedIs
    <3>3. Marks(Joined(lc, kind, rc)) = Marks(lc) \o Marks(rc)
      BY <1>1, <1>2, <1>8, MarksJoined
    <3> QED
      BY <3>1, <3>2, <3>3
  <2> QED
    BY <2>2, <2>3, <2>4
<1>14. Marks(clause) = PushPlaceholders(n, lp \o rp)
  BY <1>1, <1>2, <1>11, <1>13, PushConcat
<1>15. ASSUME as.valid, as.given, NEW row \in Row, NEW params, Carries(params, n, lp \o rp)
       PROVE  Judges(clause, params, row, row \in as.rows)
  <2>1. a.valid /\ b.valid
    BY <1>1, <1>5, <1>15 DEF IsAsked, Asking
  <2>2. Carries(params, n, lp)
    <3>1. ASSUME NEW k \in 1..m PROVE params[n + k] = lp[k]
      <4>1. k \in 1..Len(lp \o rp) /\ k \in 1..Len(lp)
        BY <1>6, <1>11
      <4>2. (lp \o rp)[k] = lp[k]
        BY <1>1, <1>2, <4>1, ConcatIs
      <4> QED
        BY <1>15, <4>1, <4>2 DEF Carries
    <3> QED
      BY <1>11, <3>1 DEF Carries
  <2>3. Carries(params, n + m, rp)
    <3>1. ASSUME NEW k \in 1..Len(rp) PROVE params[n + m + k] = rp[k]
      <4>1. m + k \in 1..Len(lp \o rp) /\ n + m + k = n + (m + k)
        BY <1>6
      <4>2. (lp \o rp)[m + k] = rp[k]
        BY <1>1, <1>2, <1>11, ConcatIs
      <4> QED
        BY <1>15, <4>1, <4>2 DEF Carries
    <3> QED
      BY <3>1 DEF Carries
  <2>4. CASE ~a.given
    <3>1. as.rows = b.rows /\ b.given /\ clause = rc
      BY <1>1, <1>5, <1>7, <1>15, <2>4
    <3> QED
      BY <1>4, <2>1, <2>3, <3>1
  <2>5. CASE ~b.given
    <3>1. as.rows = a.rows /\ a.given /\ clause = lc
      BY <1>2, <1>5, <1>7, <1>15, <2>5
    <3> QED
      BY <1>3, <2>1, <2>2, <3>1
  <2>6. CASE a.given /\ b.given
    <3> DEFINE x == row \in a.rows
               y == row \in b.rows
    <3>1. Judges(lc, params, row, x) /\ Judges(rc, params, row, y)
      BY <1>3, <1>4, <2>1, <2>2, <2>3, <2>6
    <3>2. (row \in as.rows) = (IF kind = "AND" THEN x /\ y ELSE x \/ y)
      <4>1. CASE kind = "AND"
        <5>1. as.rows = a.rows \cap b.rows
          BY <1>5, <2>6, <4>1
        <5> QED
          BY <4>1, <5>1
      <4>2. CASE kind = "OR"
        <5>1. as.rows = a.rows \cup b.rows
          BY <1>5, <2>6, <4>2
        <5> QED
          BY <4>2, <5>1
      <4> QED
        BY <4>1, <4>2
    <3>3. x \in BOOLEAN /\ y \in BOOLEAN
      OBVIOUS
    <3>4. clause = Joined(lc, kind, rc)
      BY <1>1, <1>2, <1>7, <2>6
    <3> HIDE DEF x, y
    <3>5. Judges(Joined(lc, kind, rc), params, row, IF kind = "AND" THEN x /\ y ELSE x \/ y)
      BY <1>1, <1>2, <3>1, <3>3, JudgesJoined
    <3> QED
      BY <3>2, <3>4, <3>5
  <2> QED
    BY <2>4, <2>5, <2>6
<1>16. as.valid = (l.valid /\ r.valid)
  BY <1>1, <1>2, <1>5
<1> DEFINE built == [valid |-> l.valid /\ r.valid, clause |-> clause, params |-> lp \o rp]
<1>17. built.valid = (l.valid /\ r.valid) /\ built.clause = clause /\ built.params = lp \o rp
  OBVIOUS
<1> HIDE DEF built
<1>18. Writes(built, n, as)
  BY <1>6, <1>13, <1>14, <1>15, <1>16, <1>17 DEF Writes
<1> QED
  BY <1>18 DEF built, clause, as, lc, rc, lp, rp

-----------------------------------------------------------------------------
(***************************************************************************)
(* Trees.                                                                  *)
(***************************************************************************)
\* A tree made by so many calls writes what they asked for, at every greater
\* depth and wherever its parameters start.
Grows(e, k, as) ==
    \A d \in Nat : d >= k =>
        e \in Expression[d] /\ \A n \in Nat : Writes(IntoClause[d][e][n], n, as)

LEMMA GrowsOn ==
    ASSUME NEW e, NEW k \in Nat, NEW j \in Nat, k <= j, NEW as, Grows(e, k, as)
    PROVE  Grows(e, j, as)
<1>1. ASSUME NEW d \in Nat, d >= j PROVE d >= k
  BY <1>1
<1> QED
  BY <1>1 DEF Grows

LEMMA GrowsAlike ==
    ASSUME NEW e, NEW k, NEW a, NEW b, Grows(e, k, a),
           a.given = b.given, a.valid = b.valid, a.rows = b.rows
    PROVE  Grows(e, k, b)
<1>1. ASSUME NEW w, NEW n, Writes(w, n, a) PROVE Writes(w, n, b)
  BY <1>1 DEF Writes
<1> QED
  BY <1>1 DEF Grows

LEMMA GrowsEmpty == Grows(Empty, 0, Everything)
<1>1. ASSUME NEW d \in Nat PROVE Empty \in Expression[d]
  BY ExpressionIs
<1>2. ASSUME NEW d \in Nat, NEW n \in Nat PROVE Writes(IntoClause[d][Empty][n], n, Everything)
  <2>1. IntoClause[d][Empty][n] = Write(Empty, n, IntoClause[d - 1])
    BY <1>1, IntoClauseIs
  <2>2. \A inner : Write(Empty, n, inner) = [valid |-> TRUE, clause |-> <<>>, params |-> <<>>]
    BY DEF Write, Empty
  <2> QED
    BY <2>1, <2>2, NothingWrites
<1> QED
  BY <1>1, <1>2 DEF Grows

Leaf(p) == [kind |-> "Predicate", comparison |-> p]
Node(kind, x, y) == [kind |-> kind, left |-> x, right |-> y]

LEMMA GrowsLeaf ==
    ASSUME NEW p \in Comparisons
    PROVE  Grows(Leaf(p), 0, Asks(p))
<1>1. Leaf(p) \in [kind : {"Predicate"}, comparison : Predicate \cup {OwnedByParent}]
  BY DEF Leaf, Comparisons
<1>2. ASSUME NEW d \in Nat PROVE Leaf(p) \in Expression[d]
  BY <1>1, ExpressionIs
<1>3. ASSUME NEW d \in Nat, NEW n \in Nat PROVE Writes(IntoClause[d][Leaf(p)][n], n, Asks(p))
  <2>1. IntoClause[d][Leaf(p)][n] = Write(Leaf(p), n, IntoClause[d - 1])
    BY <1>2, IntoClauseIs
  <2>2. \A inner : Write(Leaf(p), n, inner) = PredicateClause(p, n)
    BY DEF Write, Leaf
  <2> QED
    BY <2>1, <2>2, PredicateWrites
<1> QED
  BY <1>2, <1>3 DEF Grows

LEMMA GrowsNode ==
    ASSUME NEW kind \in {"AND", "OR"}, NEW k \in Nat, NEW a, IsAsked(a), NEW b, IsAsked(b),
           NEW x, Grows(x, k, a), NEW y, Grows(y, k, b)
    PROVE  Grows(Node(kind, x, y), k + 1, Means(kind, a, b))
<1> SUFFICES ASSUME NEW d \in Nat, d >= k + 1
             PROVE  /\ Node(kind, x, y) \in Expression[d]
                    /\ \A n \in Nat : Writes(IntoClause[d][Node(kind, x, y)][n], n, Means(kind, a, b))
  BY DEF Grows
<1>1. d - 1 \in Nat /\ d - 1 >= k /\ d # 0
  OBVIOUS
<1>2. /\ x \in Expression[d - 1] /\ y \in Expression[d - 1]
      /\ \A n \in Nat : Writes(IntoClause[d - 1][x][n], n, a)
      /\ \A n \in Nat : Writes(IntoClause[d - 1][y][n], n, b)
  BY <1>1 DEF Grows
<1>3. Node(kind, x, y) \in Expression[d]
  <2>1. Node(kind, x, y) \in [kind : {"AND", "OR"}, left : Expression[d - 1], right : Expression[d - 1]]
    BY <1>2 DEF Node
  <2> QED
    BY <1>1, <2>1, ExpressionIs
<1>4. ASSUME NEW n \in Nat PROVE Writes(IntoClause[d][Node(kind, x, y)][n], n, Means(kind, a, b))
  <2> DEFINE inner == IntoClause[d - 1]
             l == inner[x][n]
             m == n + Len(l.params)
             r == inner[y][m]
  <2>1. Writes(l, n, a)
    BY <1>2
  <2>2. m \in Nat
    <3>1. l.params \in Seq(Values)
      BY <2>1 DEF Writes
    <3> HIDE DEF l
    <3>2. Len(l.params) \in Nat
      BY <3>1, LenProperties
    <3> QED
      BY <3>2
  <2>3. Writes(r, m, b)
    <3> HIDE DEF m
    <3> QED
      BY <1>2, <2>2
  <2>4. IntoClause[d][Node(kind, x, y)][n] = Write(Node(kind, x, y), n, inner)
    BY <1>3, IntoClauseIs
  <2>5. \A f : Write(Node(kind, x, y), n, f) =
            [valid |-> f[x][n].valid /\ f[y][n + Len(f[x][n].params)].valid,
             clause |-> CombineClauses(f[x][n].clause, f[y][n + Len(f[x][n].params)].clause, kind),
             params |-> f[x][n].params \o f[y][n + Len(f[x][n].params)].params]
    BY DEF Write, Node
  <2>6. Write(Node(kind, x, y), n, inner) =
            [valid |-> l.valid /\ r.valid, clause |-> CombineClauses(l.clause, r.clause, kind),
             params |-> l.params \o r.params]
    BY <2>5
  <2> HIDE DEF l, r, inner
  <2>7. Writes([valid |-> l.valid /\ r.valid, clause |-> CombineClauses(l.clause, r.clause, kind),
                params |-> l.params \o r.params], n, Means(kind, a, b))
    BY <2>1, <2>3, CombineWrites DEF m
  <2> QED
    BY <2>4, <2>6, <2>7
<1> QED
  BY <1>3, <1>4

\* What a conjunction or a disjunction with a query nothing was asked of asks for.
LEMMA GrowsFirst ==
    ASSUME NEW kind \in {"AND", "OR"}, NEW k, NEW a, IsAsked(a), ~a.given, NEW b, IsAsked(b),
           NEW e, Grows(e, k, b)
    PROVE  Grows(e, k, Means(kind, a, b))
<1> DEFINE as == Means(kind, a, b)
<1>1. Joins(as, kind, a, b)
  BY MeansIs
<1> HIDE DEF as
<1>2. a.valid /\ b.given \in BOOLEAN /\ b.valid \in BOOLEAN
  BY DEF IsAsked, Asking
<1>3. b.given = as.given /\ b.valid = as.valid /\ b.rows = as.rows
  BY <1>1, <1>2 DEF Joins
<1>4. Grows(e, k, as)
  BY <1>3, GrowsAlike
<1> QED
  BY <1>4 DEF as

-----------------------------------------------------------------------------
(***************************************************************************)
(* The builder's invariant.                                                *)
(***************************************************************************)
IsQuery(q) ==
    /\ q = [expression |-> q.expression, ordering |-> q.ordering, limit |-> q.limit, offset |-> q.offset]
    /\ q.limit \in {NoLimit} \cup 0..MaxLimit /\ q.offset \in 0..MaxOffset

\* The query's own limit and offset, and a tree that writes what was asked for:
\* of an association, in a filter of its own beside the parent's constraint.
Tracks(from, q, as, k) ==
    /\ IsAsked(as) /\ IsQuery(q.scope) /\ q = [scope |-> q.scope, filters |-> q.filters]
    /\ q.scope.limit = as.limit /\ q.scope.offset = as.offset
    /\ from = "model" => q.filters = <<>> /\ Grows(q.scope.expression, k, as)
    /\ from # "model" =>
        /\ q.scope.expression = Leaf(OwnedByParent)
        /\ \/ q.filters = <<>> /\ ~as.given
           \/ \E f : IsQuery(f) /\ q.filters = <<f>> /\ Grows(f.expression, k, as)

QueryInv ==
    /\ root \in {"model", "association", "unbound"} /\ calls \in 0..MaxCalls
    /\ wrapper \in {Eager} \cup 0..MaxChunk
    /\ Tracks(root, query, asked, calls)
    /\ IsAsked(otherAsked) /\ IsQuery(other) /\ Grows(other.expression, calls, otherAsked)
    /\ other.limit = otherAsked.limit
    /\ phase # "building" => root = "model"

LEMMA RootIs ==
    /\ IsQuery(Root) /\ Root.expression = Empty /\ Root.limit = Everything.limit
    /\ Root.offset = Everything.offset
    /\ Tracks("model", [scope |-> Root, filters |-> <<>>], Everything, 0)
<1>1. NoLimit \in {NoLimit} \cup 0..MaxLimit /\ 0 \in 0..MaxOffset
  BY PagingAssumption
<1>2. IsQuery(Root)
  BY <1>1 DEF IsQuery, Root
<1>3. Root.expression = Empty /\ Root.limit = Everything.limit /\ Root.offset = Everything.offset
  BY DEF Root, Everything
<1>4. Grows(Root.expression, 0, Everything)
  BY <1>3, GrowsEmpty
<1> QED
  BY <1>2, <1>3, <1>4, EverythingIsAsked DEF Tracks

LEMMA NewIs ==
    ASSUME NEW p
    PROVE  /\ IsQuery(New(p)) /\ New(p).expression = Leaf(p)
           /\ New(p).limit = NoLimit /\ New(p).offset = 0
           /\ IsAsked(Asks(p)) /\ Asks(p).limit = NoLimit /\ Asks(p).offset = 0
<1>1. NoLimit \in {NoLimit} \cup 0..MaxLimit /\ 0 \in 0..MaxOffset
  BY PagingAssumption
<1>2. New(p) = [expression |-> Leaf(p), ordering |-> <<>>, limit |-> NoLimit, offset |-> 0]
  BY DEF New, Root, Leaf
<1>3. IsQuery(New(p))
  BY <1>1, <1>2 DEF IsQuery
<1>4. Asks(p).limit = NoLimit /\ Asks(p).offset = 0
  BY DEF Asks, Everything
<1> QED
  BY <1>2, <1>3, <1>4, AsksIsAsked

LEMMA CombineIs ==
    ASSUME NEW kind, NEW q, IsQuery(q), NEW argument
    PROVE  /\ IsQuery(Combine(kind, q, argument))
           /\ Combine(kind, q, argument).expression = Node(kind, q.expression, argument.expression)
           /\ Combine(kind, q, argument).limit = q.limit
           /\ Combine(kind, q, argument).offset = q.offset
<1>1. /\ q = [expression |-> q.expression, ordering |-> q.ordering, limit |-> q.limit, offset |-> q.offset]
      /\ q.limit \in {NoLimit} \cup 0..MaxLimit /\ q.offset \in 0..MaxOffset
  BY DEF IsQuery
<1>2. Combine(kind, q, argument) =
         [expression |-> Node(kind, q.expression, argument.expression), ordering |-> q.ordering,
          limit |-> q.limit, offset |-> q.offset]
  BY <1>1 DEF Combine, Node
<1>3. IsQuery(Combine(kind, q, argument))
  BY <1>1, <1>2 DEF IsQuery
<1> QED
  BY <1>1, <1>2, <1>3

LEMMA TracksOn ==
    ASSUME NEW from, NEW q, NEW as, NEW k \in Nat, NEW j \in Nat, k <= j, Tracks(from, q, as, k)
    PROVE  Tracks(from, q, as, j)
<1>1. \A e : Grows(e, k, as) => Grows(e, j, as)
  BY GrowsOn
<1> QED
  BY <1>1 DEF Tracks

\* A call joins an argument to the query: to its tree, or to the filter beside
\* the parent's constraint.
LEMMA TracksCombine ==
    ASSUME NEW kind \in {"AND", "OR"}, NEW q, NEW as, NEW k \in Nat, Tracks(root, q, as, k),
           NEW argument, IsQuery(argument), NEW b, IsAsked(b), Grows(argument.expression, k, b)
    PROVE  Tracks(root, CombineInto(kind, q, argument), Means(kind, as, b), k + 1)
<1> DEFINE new == CombineInto(kind, q, argument)
           then == Means(kind, as, b)
<1>1. IsAsked(as) /\ IsQuery(q.scope) /\ q = [scope |-> q.scope, filters |-> q.filters]
      /\ q.scope.limit = as.limit /\ q.scope.offset = as.offset
  BY DEF Tracks
<1>2. IsAsked(then) /\ then.limit = as.limit /\ then.offset = as.offset
  <2>1. IsAsked(then) /\ Joins(then, kind, as, b)
    BY <1>1, MeansIs
  <2> HIDE DEF then
  <2> QED
    BY <2>1 DEF Joins
<1>3. CASE root = "model"
  <2>1. q.filters = <<>> /\ Grows(q.scope.expression, k, as)
    BY <1>3 DEF Tracks
  <2>2. new = [scope |-> Combine(kind, q.scope, argument), filters |-> <<>>]
    <3>1. new = [q EXCEPT !.scope = Combine(kind, q.scope, argument)]
      BY <1>3 DEF CombineInto
    <3> QED
      BY <1>1, <2>1, <3>1
  <2>3. Grows(Node(kind, q.scope.expression, argument.expression), k + 1, then)
    BY <1>1, <2>1, GrowsNode
  <2> HIDE DEF new, then
  <2>4. /\ new.scope = Combine(kind, q.scope, argument) /\ new.filters = <<>>
        /\ new = [scope |-> new.scope, filters |-> new.filters]
    BY <2>2
  <2>5. /\ IsQuery(Combine(kind, q.scope, argument))
        /\ Combine(kind, q.scope, argument).limit = q.scope.limit
        /\ Combine(kind, q.scope, argument).offset = q.scope.offset
        /\ Combine(kind, q.scope, argument).expression = Node(kind, q.scope.expression, argument.expression)
    <3> DEFINE scope == q.scope
    <3>1. IsQuery(scope)
      BY <1>1
    <3> HIDE DEF scope
    <3>2. /\ IsQuery(Combine(kind, scope, argument))
          /\ Combine(kind, scope, argument).limit = scope.limit
          /\ Combine(kind, scope, argument).offset = scope.offset
          /\ Combine(kind, scope, argument).expression = Node(kind, scope.expression, argument.expression)
      BY <3>1, CombineIs
    <3> QED
      BY <3>2 DEF scope
  <2>6. /\ IsQuery(new.scope) /\ new.scope.limit = q.scope.limit /\ new.scope.offset = q.scope.offset
        /\ new.scope.expression = Node(kind, q.scope.expression, argument.expression)
    BY <2>4, <2>5
  <2> QED
    BY <1>1, <1>2, <1>3, <2>3, <2>4, <2>6 DEF Tracks, new, then
<1>4. CASE root # "model"
  <2>1. q.scope.expression = Leaf(OwnedByParent)
    BY <1>4 DEF Tracks
  <2>2. PICK g : IsQuery(g) /\ new = [scope |-> q.scope, filters |-> <<g>>] /\ Grows(g.expression, k + 1, then)
    <3>1. CASE q.filters = <<>> /\ ~as.given
      <4>1. new = [q EXCEPT !.filters = <<argument>>]
        BY <1>1, <1>4, <3>1 DEF CombineInto
      <4>2. new = [scope |-> q.scope, filters |-> <<argument>>]
        BY <1>1, <4>1
      <4>3. Grows(argument.expression, k, then)
        BY <1>1, <3>1, GrowsFirst
      <4> HIDE DEF new, then
      <4>4. Grows(argument.expression, k + 1, then)
        BY <4>3, GrowsOn
      <4> QED
        BY <4>2, <4>4
    <3>2. ASSUME NEW f, IsQuery(f), q.filters = <<f>>, Grows(f.expression, k, as)
          PROVE  \E g : IsQuery(g) /\ new = [scope |-> q.scope, filters |-> <<g>>] /\ Grows(g.expression, k + 1, then)
      <4> DEFINE g == Combine(kind, f, argument)
      <4>1. q.filters # <<>> /\ q.filters[1] = f
        BY <3>2
      <4>2. new = [q EXCEPT !.filters = <<g>>]
        BY <1>1, <1>4, <4>1 DEF CombineInto
      <4>3. new = [scope |-> q.scope, filters |-> <<g>>]
        BY <1>1, <4>2
      <4>4. IsQuery(g) /\ g.expression = Node(kind, f.expression, argument.expression)
        BY <3>2, CombineIs
      <4>5. Grows(Node(kind, f.expression, argument.expression), k + 1, then)
        BY <1>1, <3>2, GrowsNode
      <4> HIDE DEF g, new, then
      <4> QED
        BY <4>3, <4>4, <4>5
    <3> QED
      BY <1>4, <3>1, <3>2 DEF Tracks
  <2> HIDE DEF new, then
  <2>3. /\ new.scope = q.scope /\ new.filters = <<g>>
        /\ new = [scope |-> new.scope, filters |-> new.filters]
    BY <2>2
  <2> QED
    BY <1>1, <1>2, <1>4, <2>1, <2>2, <2>3 DEF Tracks, new, then
<1> QED
  BY <1>3, <1>4

\* A limit, an offset or an ordering leaves the tree alone.
LEMMA TracksScope ==
    ASSUME NEW from, NEW q, NEW as, NEW k \in Nat, Tracks(from, q, as, k), NEW scope, NEW then,
           IsQuery(scope), scope.expression = q.scope.expression,
           IsAsked(then), then.given = as.given, then.valid = as.valid, then.rows = as.rows,
           scope.limit = then.limit, scope.offset = then.offset
    PROVE  Tracks(from, [scope |-> scope, filters |-> q.filters], then, k + 1)
<1> DEFINE new == [scope |-> scope, filters |-> q.filters]
<1>1. new.scope = scope /\ new.filters = q.filters /\ new = [scope |-> new.scope, filters |-> new.filters]
  OBVIOUS
<1>2. \A e : Grows(e, k, as) => Grows(e, k + 1, then)
  <2>1. \A e : Grows(e, k, as) => Grows(e, k, then)
    BY GrowsAlike
  <2>2. \A e : Grows(e, k, then) => Grows(e, k + 1, then)
    BY GrowsOn
  <2> QED
    BY <2>1, <2>2
<1> HIDE DEF new
<1>3. Tracks(from, new, then, k + 1)
  BY <1>1, <1>2 DEF Tracks
<1> QED
  BY <1>3 DEF new

LEMMA QueryInvInit == QueryInit => QueryInv
<1> SUFFICES ASSUME QueryInit PROVE QueryInv
  OBVIOUS
<1>1. calls = 0 /\ phase = "building" /\ wrapper \in {Eager} \cup 0..MaxChunk /\ 0 \in 0..MaxCalls
  BY QueryAssumption DEF QueryInit
<1>2. IsAsked(otherAsked) /\ IsQuery(other) /\ Grows(other.expression, 0, otherAsked)
      /\ other.limit = otherAsked.limit
  <2>1. CASE other = Root /\ otherAsked = Everything
    BY <2>1, RootIs, EverythingIsAsked, GrowsEmpty
  <2>2. ASSUME NEW p \in Predicate, other = New(p), otherAsked = Asks(p)
        PROVE  IsAsked(otherAsked) /\ IsQuery(other) /\ Grows(other.expression, 0, otherAsked)
               /\ other.limit = otherAsked.limit
    <3>1. p \in Comparisons
      BY DEF Comparisons
    <3> QED
      BY <2>2, <3>1, NewIs, GrowsLeaf
  <2> QED
    BY <2>1, <2>2 DEF QueryInit
<1>3. root \in {"model", "association", "unbound"} /\ Tracks(root, query, asked, 0)
  <2>1. CASE root = "model" /\ query = [scope |-> Root, filters |-> <<>>] /\ asked = Everything
    BY <2>1, RootIs
  <2>2. ASSUME NEW p \in Predicate, root = "model", query = [scope |-> New(p), filters |-> <<>>],
               asked = Asks(p)
        PROVE  Tracks(root, query, asked, 0)
    <3>1. p \in Comparisons
      BY DEF Comparisons
    <3>2. query.scope = New(p) /\ query.filters = <<>> /\ query = [scope |-> query.scope, filters |-> query.filters]
      BY <2>2
    <3>3. /\ IsQuery(New(p)) /\ New(p).expression = Leaf(p) /\ New(p).limit = NoLimit /\ New(p).offset = 0
          /\ IsAsked(Asks(p)) /\ Asks(p).limit = NoLimit /\ Asks(p).offset = 0
      BY NewIs
    <3>4. Grows(Leaf(p), 0, Asks(p))
      BY <3>1, GrowsLeaf
    <3> QED
      BY <2>2, <3>2, <3>3, <3>4 DEF Tracks
  <2>3. CASE root \in {"association", "unbound"} /\ query = [scope |-> New(OwnedByParent), filters |-> <<>>]
             /\ asked = Everything
    <3> DEFINE p == OwnedByParent
    <3>1. query.scope = New(p) /\ query.filters = <<>> /\ query = [scope |-> query.scope, filters |-> query.filters]
      BY <2>3
    <3> HIDE DEF p
    <3>2. IsQuery(New(p)) /\ New(p).expression = Leaf(p) /\ New(p).limit = NoLimit /\ New(p).offset = 0
      BY NewIs
    <3>3. ~Everything.given /\ Everything.limit = NoLimit /\ Everything.offset = 0
      BY DEF Everything
    <3> QED
      BY <2>3, <3>1, <3>2, <3>3, EverythingIsAsked DEF Tracks, p
  <2> QED
    BY <2>1, <2>2, <2>3 DEF QueryInit, ModelRoot, AssociationRoot
<1> QED
  BY <1>1, <1>2, <1>3 DEF QueryInv

LEMMA CallStep ==
    ASSUME QueryInv, PassOn, calls' = calls + 1, UNCHANGED phase
    PROVE  QueryInv'
<1>0. /\ calls \in 0..MaxCalls /\ calls \in Nat /\ calls + 1 \in Nat /\ calls <= calls + 1
      /\ root \in {"model", "association", "unbound"} /\ wrapper \in {Eager} \cup 0..MaxChunk
      /\ Tracks(root, query, asked, calls) /\ IsAsked(asked)
      /\ IsAsked(otherAsked) /\ IsQuery(other) /\ Grows(other.expression, calls, otherAsked)
      /\ other.limit = otherAsked.limit /\ (phase # "building" => root = "model")
  BY QueryAssumption DEF QueryInv, Tracks
<1>1. calls' \in 0..MaxCalls /\ wrapper' = wrapper /\ root' = root
  <2>1. calls < MaxCalls
    BY DEF PassOn, CombineQuery, Q, CombineOther, OrderQuery, Limit, Offset, Building
  <2> QED
    BY <1>0, <2>1, QueryAssumption DEF PassOn, CombineQuery, Q, CombineOther, OrderQuery, Limit, Offset
<1>2. /\ Grows(other.expression, calls + 1, otherAsked)
      /\ Tracks(root, query, asked, calls + 1)
  BY <1>0, GrowsOn, TracksOn
\* It is enough that the query and the second one keep their parts.
<1> DEFINE Mine == Tracks(root, query', asked', calls + 1)
           Theirs == /\ IsAsked(otherAsked') /\ IsQuery(other') /\ Grows(other'.expression, calls + 1, otherAsked')
                     /\ other'.limit = otherAsked'.limit
<1>3. SUFFICES Mine /\ Theirs
  <2>1. calls' = calls + 1 /\ phase' = phase
    OBVIOUS
  <2> QED
    BY <1>0, <1>1, <2>1 DEF QueryInv
<1>4. CASE CombineQuery
  <2>1. PICK kind \in {"AND", "OR"} :
           query' = CombineInto(kind, query, other) /\ asked' = Means(kind, asked, otherAsked)
    BY <1>4 DEF CombineQuery
  <2>2. Mine
    BY <1>0, <2>1, TracksCombine
  <2>3. other' = Root /\ otherAsked' = Everything
    BY <1>4 DEF CombineQuery
  <2>4. Grows(Empty, calls + 1, Everything)
    BY <1>0, GrowsEmpty, GrowsOn
  <2>5. Theirs
    BY <2>3, <2>4, RootIs, EverythingIsAsked
  <2> QED
    BY <2>2, <2>5
<1>5. CASE Q
  <2>1. PICK p \in Predicate : query' = CombineInto("AND", query, New(p)) /\ asked' = Both(asked, Asks(p))
    BY <1>5 DEF Q
  <2>2. p \in Comparisons
    BY DEF Comparisons
  <2>3. IsQuery(New(p)) /\ New(p).expression = Leaf(p) /\ IsAsked(Asks(p))
    BY NewIs
  <2>4. Grows(Leaf(p), calls, Asks(p))
    BY <1>0, <2>2, GrowsLeaf, GrowsOn
  <2>5. asked' = Means("AND", asked, Asks(p))
    BY <2>1 DEF Means
  <2>6. Mine
    BY <1>0, <2>1, <2>3, <2>4, <2>5, TracksCombine
  <2>7. Theirs
    BY <1>0, <1>2, <1>5 DEF Q
  <2> QED
    BY <2>6, <2>7
<1>6. CASE CombineOther
  <2>1. PICK p \in Predicate, kind \in {"AND", "OR"} :
           other' = Combine(kind, other, New(p)) /\ otherAsked' = Means(kind, otherAsked, Asks(p))
    BY <1>6 DEF CombineOther
  <2>2. p \in Comparisons
    BY DEF Comparisons
  <2>3. New(p).expression = Leaf(p) /\ IsAsked(Asks(p))
    BY NewIs
  <2>4. Grows(Leaf(p), calls, Asks(p))
    BY <1>0, <2>2, GrowsLeaf, GrowsOn
  <2>5. Grows(Node(kind, other.expression, Leaf(p)), calls + 1, Means(kind, otherAsked, Asks(p)))
    BY <1>0, <2>3, <2>4, GrowsNode
  <2>6. /\ IsQuery(Combine(kind, other, New(p)))
        /\ Combine(kind, other, New(p)).expression = Node(kind, other.expression, Leaf(p))
        /\ Combine(kind, other, New(p)).limit = other.limit
    BY <1>0, <2>3, CombineIs
  <2>7. IsAsked(Means(kind, otherAsked, Asks(p))) /\ Joins(Means(kind, otherAsked, Asks(p)), kind, otherAsked, Asks(p))
    BY <1>0, <2>3, MeansIs
  <2>8. Means(kind, otherAsked, Asks(p)).limit = otherAsked.limit
    BY <2>7 DEF Joins
  <2>9. Theirs
    BY <1>0, <2>1, <2>5, <2>6, <2>7, <2>8
  <2>10. Mine
    BY <1>2, <1>6 DEF CombineOther
  <2> QED
    BY <2>9, <2>10
<1>7. CASE OrderQuery
  <2>1. PICK term \in OrderTerm : query' = [query EXCEPT !.scope.ordering = Append(@, term)]
    BY <1>7 DEF OrderQuery
  <2>2. asked' = asked /\ UNCHANGED <<other, otherAsked>>
    BY <1>7 DEF OrderQuery
  <2> DEFINE scope == [query.scope EXCEPT !.ordering = Append(@, term)]
  <2>3. query' = [scope |-> scope, filters |-> query.filters]
    BY <1>0, <2>1 DEF Tracks
  <2>4. IsQuery(query.scope) /\ query.scope.limit = asked.limit /\ query.scope.offset = asked.offset
    BY <1>0 DEF Tracks
  <2>5. /\ IsQuery(scope) /\ scope.expression = query.scope.expression
        /\ scope.limit = query.scope.limit /\ scope.offset = query.scope.offset
    <3> DEFINE o == Append(query.scope.ordering, term)
    <3>1. scope = [query.scope EXCEPT !.ordering = o]
      OBVIOUS
    <3> HIDE DEF o, scope
    <3>2. scope = [expression |-> query.scope.expression, ordering |-> o,
                   limit |-> query.scope.limit, offset |-> query.scope.offset]
      BY <2>4, <3>1 DEF IsQuery
    <3> QED
      BY <2>4, <3>2 DEF IsQuery
  <2> HIDE DEF scope
  <2>6. Tracks(root, [scope |-> scope, filters |-> query.filters], asked, calls + 1)
    BY <1>0, <2>4, <2>5, TracksScope
  <2> QED
    BY <1>0, <1>2, <2>2, <2>3, <2>6
<1>8. CASE Limit
  <2>1. PICK n \in 0..MaxLimit :
        \/ /\ query' = [query EXCEPT !.scope.limit = n] /\ asked' = [asked EXCEPT !.limit = n]
           /\ UNCHANGED <<other, otherAsked>>
        \/ /\ other' = [other EXCEPT !.limit = n] /\ otherAsked' = [otherAsked EXCEPT !.limit = n]
           /\ UNCHANGED <<query, asked>>
    BY <1>8 DEF Limit
  <2>2. ASSUME NEW as, IsAsked(as)
        PROVE  LET then == [as EXCEPT !.limit = n] IN
               /\ IsAsked(then) /\ then.given = as.given /\ then.valid = as.valid /\ then.rows = as.rows
               /\ then.limit = n /\ then.offset = as.offset
    BY <2>2 DEF IsAsked, Asking
  <2>3. CASE /\ query' = [query EXCEPT !.scope.limit = n] /\ asked' = [asked EXCEPT !.limit = n]
             /\ UNCHANGED <<other, otherAsked>>
    <3> DEFINE scope == [query.scope EXCEPT !.limit = n]
               then == [asked EXCEPT !.limit = n]
    <3>1. query' = [scope |-> scope, filters |-> query.filters]
      BY <1>0, <2>3 DEF Tracks
    <3>2. IsQuery(query.scope) /\ query.scope.limit = asked.limit /\ query.scope.offset = asked.offset
      BY <1>0 DEF Tracks
    <3>3. /\ IsQuery(scope) /\ scope.expression = query.scope.expression
          /\ scope.limit = n /\ scope.offset = query.scope.offset
      BY <3>2 DEF IsQuery
    <3>4. /\ IsAsked(then) /\ then.given = asked.given /\ then.valid = asked.valid /\ then.rows = asked.rows
          /\ then.limit = n /\ then.offset = asked.offset
      BY <1>0, <2>2
    <3> HIDE DEF scope, then
    <3>5. Tracks(root, [scope |-> scope, filters |-> query.filters], then, calls + 1)
      BY <1>0, <3>2, <3>3, <3>4, TracksScope
    <3>6. asked' = then
      BY <2>3 DEF then
    <3> QED
      BY <1>0, <1>2, <2>3, <3>1, <3>5, <3>6
  <2>4. CASE /\ other' = [other EXCEPT !.limit = n] /\ otherAsked' = [otherAsked EXCEPT !.limit = n]
             /\ UNCHANGED <<query, asked>>
    <3> DEFINE then == [otherAsked EXCEPT !.limit = n]
    <3>1. IsQuery(other') /\ other'.expression = other.expression /\ other'.limit = n
      BY <1>0, <2>4 DEF IsQuery
    <3>2. /\ IsAsked(then) /\ then.given = otherAsked.given /\ then.valid = otherAsked.valid
          /\ then.rows = otherAsked.rows /\ then.limit = n
      BY <1>0, <2>2
    <3>3. otherAsked' = then
      BY <2>4
    <3> HIDE DEF then
    <3>4. Grows(other.expression, calls + 1, then)
      BY <1>2, <3>2, GrowsAlike
    <3> QED
      BY <1>2, <2>4, <3>1, <3>2, <3>3, <3>4
  <2> QED
    BY <2>1, <2>3, <2>4
<1>9. CASE Offset
  <2>1. PICK n \in 0..MaxOffset :
           query' = [query EXCEPT !.scope.offset = n] /\ asked' = [asked EXCEPT !.offset = n]
    BY <1>9 DEF Offset
  <2>2. UNCHANGED <<other, otherAsked>>
    BY <1>9 DEF Offset
  <2> DEFINE scope == [query.scope EXCEPT !.offset = n]
             then == [asked EXCEPT !.offset = n]
  <2>3. query' = [scope |-> scope, filters |-> query.filters]
    BY <1>0, <2>1 DEF Tracks
  <2>4. IsQuery(query.scope) /\ query.scope.limit = asked.limit /\ query.scope.offset = asked.offset
    BY <1>0 DEF Tracks
  <2>5. /\ IsQuery(scope) /\ scope.expression = query.scope.expression
        /\ scope.limit = query.scope.limit /\ scope.offset = n
    BY <2>4 DEF IsQuery
  <2>6. /\ IsAsked(then) /\ then.given = asked.given /\ then.valid = asked.valid /\ then.rows = asked.rows
        /\ then.limit = asked.limit /\ then.offset = n
    BY <1>0 DEF IsAsked, Asking
  <2>7. asked' = then
    BY <2>1
  <2> HIDE DEF scope, then
  <2>8. Tracks(root, [scope |-> scope, filters |-> query.filters], then, calls + 1)
    BY <1>0, <2>4, <2>5, <2>6, TracksScope
  <2> QED
    BY <1>0, <1>2, <2>2, <2>3, <2>7, <2>8
<1> QED
  BY <1>4, <1>5, <1>6, <1>7, <1>8, <1>9 DEF PassOn

LEMMA QueryInvStep ==
    ASSUME QueryInv, [QueryNext]_allVars
    PROVE  QueryInv'
<1>1. CASE BuilderCall
  <2>1. CASE PassOn
    BY <1>1, <2>1, CallStep DEF BuilderCall
  <2>2. CASE Rewrap
    <3>1. /\ calls \in 0..MaxCalls /\ calls \in Nat /\ calls + 1 \in Nat /\ calls <= calls + 1
          /\ Tracks(root, query, asked, calls) /\ Grows(other.expression, calls, otherAsked)
      BY QueryAssumption DEF QueryInv
    <3>2. Tracks(root, query, asked, calls + 1) /\ Grows(other.expression, calls + 1, otherAsked)
      BY <3>1, TracksOn, GrowsOn
    <3>3. calls + 1 \in 0..MaxCalls
      BY <2>2, <3>1, QueryAssumption DEF Rewrap, Building
    <3>4. /\ calls' = calls + 1 /\ phase' = phase /\ wrapper' \in 0..MaxChunk
          /\ UNCHANGED <<root, query, asked, other, otherAsked>>
      BY <1>1, <2>2 DEF BuilderCall, Rewrap
    <3> QED
      BY <3>2, <3>3, <3>4 DEF QueryInv
  <2> QED
    BY <1>1, <2>1, <2>2 DEF BuilderCall
<1>2. CASE RunQuery
  <2>1. /\ query' = [scope |-> Root, filters |-> <<>>] /\ asked' = Everything
        /\ other' = Root /\ otherAsked' = Everything /\ calls' = 0
        /\ root' = "model" /\ wrapper' = Eager
    BY <1>2 DEF RunQuery, Consumed
  <2>2. 0 \in 0..MaxCalls
    BY QueryAssumption
  <2> QED
    BY <2>1, <2>2, RootIs, EverythingIsAsked, GrowsEmpty DEF QueryInv
<1>3. CASE UNCHANGED <<builder, phase>>
  BY <1>3 DEF QueryInv, builder
<1> QED
  BY <1>1, <1>2, <1>3 DEF QueryNext, Iterate, allVars

LEMMA QueryAlways == QuerySpec => []QueryInv
<1>1. QueryInv /\ [QueryNext]_allVars => QueryInv'
  BY QueryInvStep
<1> QED
  BY <1>1, QueryInvInit, PTL DEF QuerySpec

-----------------------------------------------------------------------------
(***************************************************************************)
(* The plan of a query.                                                    *)
(***************************************************************************)
Owned == {row \in Row : row.owner = Parent}

LEMMA OwnedIs == Asks(OwnedByParent).valid /\ Asks(OwnedByParent).rows = Owned
<1> DEFINE p == OwnedByParent
<1>1. p.operator = "Eq" /\ p.operand = Parent /\ p.column = "owner" /\ Parent # Null
  BY QueryAssumption DEF OwnedByParent
<1>2. p.operator \notin Ordering /\ p.operator \in Comparing /\ p.operator \notin {"In", "IsNull", "IsNotNull"}
  BY <1>1 DEF Ordering, Comparing
<1>3. ASSUME NEW row PROVE Matches(p, row) <=> row.owner = Parent
  <2>1. Matches(p, row) <=> (row["owner"] # Null /\ Relates("Eq", row["owner"], Parent))
    BY <1>1, <1>2 DEF Matches, Comparing
  <2>2. Relates("Eq", row["owner"], Parent) <=> row["owner"] = Parent
    BY DEF Relates
  <2>3. row["owner"] = row.owner
    OBVIOUS
  <2> QED
    BY <1>1, <2>1, <2>2, <2>3
<1> HIDE DEF p
<1>4. Asks(p).valid
  BY <1>2 DEF Asks, Everything
<1>5. Asks(p).rows = {row \in Row : Matches(p, row)}
  BY <1>2 DEF Asks, Everything
<1> QED
  BY <1>3, <1>4, <1>5 DEF Owned, p

Whole(q) == IF q.filters = <<>> THEN q.scope ELSE Combine("AND", q.scope, q.filters[1])

\* The whole tree writes what was asked for, within the scope.
LEMMA WholeIs ==
    ASSUME QueryInv
    PROVE  \E all : /\ IsAsked(all) /\ Grows(Whole(query).expression, MaxCalls + 1, all)
                    /\ all.valid = asked.valid
                    /\ all.rows = IF root = "model" THEN asked.rows ELSE asked.rows \cap Owned
                    /\ Whole(query).limit = asked.limit /\ Whole(query).offset = asked.offset
<1> DEFINE p == OwnedByParent
<1>1. /\ calls \in 0..MaxCalls /\ MaxCalls \in Nat /\ calls \in Nat /\ IsAsked(asked)
      /\ IsQuery(query.scope) /\ query.scope.limit = asked.limit /\ query.scope.offset = asked.offset
      /\ Tracks(root, query, asked, calls)
  BY QueryAssumption DEF QueryInv, Tracks
<1>2. CASE root = "model"
  <2>1. query.filters = <<>> /\ Grows(query.scope.expression, calls, asked)
    BY <1>1, <1>2 DEF Tracks
  <2>2. Whole(query) = query.scope
    BY <2>1 DEF Whole
  <2>3. Grows(query.scope.expression, MaxCalls + 1, asked)
    BY <1>1, <2>1, GrowsOn
  <2> QED
    BY <1>1, <1>2, <2>2, <2>3
<1>3. CASE root # "model"
  <2>1. /\ IsAsked(Asks(p)) /\ Asks(p).given /\ Asks(p).valid /\ Asks(p).rows = Owned /\ Owned \subseteq Row
    <3>1. Asks(p).given
      BY AsksIsAsked
    <3> QED
      BY <3>1, AsksIsAsked, OwnedIs DEF Owned
  <2>2. Grows(Leaf(p), calls, Asks(p)) /\ Grows(Leaf(p), MaxCalls + 1, Asks(p))
    <3>1. p \in Comparisons
      BY DEF Comparisons
    <3> QED
      BY <1>1, <3>1, GrowsLeaf, GrowsOn
  <2>3. query.scope.expression = Leaf(p)
    BY <1>1, <1>3 DEF Tracks
  <2>4. CASE query.filters = <<>> /\ ~asked.given
    <3>1. Whole(query) = query.scope
      BY <2>4 DEF Whole
    <3>2. asked.valid /\ asked.rows = Row
      BY <1>1, <2>4 DEF IsAsked
    <3>3. Asks(p).rows = asked.rows \cap Owned /\ Asks(p).valid = asked.valid
      BY <1>1, <2>1, <3>2 DEF IsAsked, Asking
    <3> QED
      BY <1>1, <1>3, <2>1, <2>2, <2>3, <3>1, <3>3
  <2>5. ASSUME NEW f, IsQuery(f), query.filters = <<f>>, Grows(f.expression, calls, asked)
        PROVE  \E all : /\ IsAsked(all) /\ Grows(Whole(query).expression, MaxCalls + 1, all)
                        /\ all.valid = asked.valid
                        /\ all.rows = IF root = "model" THEN asked.rows ELSE asked.rows \cap Owned
                        /\ Whole(query).limit = asked.limit /\ Whole(query).offset = asked.offset
    <3>1. query.filters # <<>> /\ query.filters[1] = f
      BY <2>5
    <3>2. Whole(query) = Combine("AND", query.scope, f)
      BY <3>1 DEF Whole
    <3> DEFINE scope == query.scope
               all == Means("AND", Asks(p), asked)
    <3>3. IsQuery(scope) /\ scope.limit = asked.limit /\ scope.offset = asked.offset /\ scope.expression = Leaf(p)
      BY <1>1, <2>3
    <3> HIDE DEF scope, p
    <3>4. /\ Combine("AND", scope, f).limit = scope.limit
          /\ Combine("AND", scope, f).offset = scope.offset
          /\ Combine("AND", scope, f).expression = Node("AND", scope.expression, f.expression)
      BY <3>3, CombineIs
    <3>5. Grows(Node("AND", Leaf(p), f.expression), calls + 1, all)
      BY <1>1, <2>1, <2>2, <2>5, GrowsNode
    <3>6. IsAsked(all) /\ Joins(all, "AND", Asks(p), asked)
      BY <1>1, <2>1, MeansIs
    <3> HIDE DEF all
    <3>7. Grows(Node("AND", Leaf(p), f.expression), MaxCalls + 1, all)
      BY <1>1, <3>5, GrowsOn
    <3>8. all.valid = asked.valid /\ all.rows = asked.rows \cap Owned
      <4>1. asked.valid \in BOOLEAN /\ asked.rows \subseteq Row /\ (~asked.given => asked.rows = Row)
        BY <1>1 DEF IsAsked, Asking
      <4>2. all.valid = (Asks(p).valid /\ asked.valid)
        BY <3>6 DEF Joins
      <4>3. CASE asked.given
        <5>1. all.rows = Asks(p).rows \cap asked.rows
          BY <2>1, <3>6, <4>3 DEF Joins
        <5> QED
          BY <2>1, <4>1, <4>2, <5>1
      <4>4. CASE ~asked.given
        <5>1. all.rows = Asks(p).rows
          BY <2>1, <3>6, <4>4 DEF Joins
        <5> QED
          BY <2>1, <4>1, <4>2, <4>4, <5>1
      <4> QED
        BY <4>3, <4>4
    <3> QED
      BY <1>3, <3>2, <3>3, <3>4, <3>6, <3>7, <3>8 DEF scope
  <2> QED
    BY <1>1, <1>3, <2>4, <2>5 DEF Tracks
<1> QED
  BY <1>2, <1>3

LEMMA PlanIs ==
    ASSUME QueryInv
    PROVE  LET built == IntoQueryPlan(root, query)
               rowsOf == IF root = "model" THEN asked.rows ELSE asked.rows \cap Owned
           IN  /\ built.valid <=> (asked.valid /\ root # "unbound")
               /\ Marks(built.clause) = [i \in DOMAIN built.params |-> i]
               /\ built.limit = asked.limit /\ built.offset = asked.offset
               /\ \A table : built.valid /\ table \subseteq Row => Selected(built, table) = table \cap rowsOf
<1> DEFINE built == IntoQueryPlan(root, query)
           rowsOf == IF root = "model" THEN asked.rows ELSE asked.rows \cap Owned
           w == IntoClause[MaxCalls + 1][Whole(query).expression][0]
<1>1. PICK all : /\ IsAsked(all) /\ Grows(Whole(query).expression, MaxCalls + 1, all)
                 /\ all.valid = asked.valid /\ all.rows = rowsOf
                 /\ Whole(query).limit = asked.limit /\ Whole(query).offset = asked.offset
  BY WholeIs
<1>2. Writes(w, 0, all)
  <2>1. MaxCalls + 1 \in Nat /\ MaxCalls + 1 >= MaxCalls + 1 /\ 0 \in Nat
    BY QueryAssumption
  <2> QED
    BY <1>1, <2>1 DEF Grows
<1>3. built = [valid |-> w.valid /\ root # "unbound", clause |-> w.clause, params |-> w.params,
               ordering |-> Whole(query).ordering, limit |-> Whole(query).limit, offset |-> Whole(query).offset]
  BY DEF IntoQueryPlan, Whole
<1> HIDE DEF w, built, rowsOf
<1>4. /\ built.valid = (w.valid /\ root # "unbound") /\ built.clause = w.clause /\ built.params = w.params
      /\ built.limit = asked.limit /\ built.offset = asked.offset
  BY <1>1, <1>3
<1>5. w.valid = asked.valid /\ w.clause \in Seq(Tokens) /\ w.params \in Seq(Values)
      /\ all.given = (w.clause # <<>>) /\ Marks(w.clause) = PushPlaceholders(0, w.params)
  BY <1>1, <1>2 DEF Writes
<1>6. asked.valid \in BOOLEAN
  BY DEF QueryInv, Tracks, IsAsked, Asking
<1>7. Marks(built.clause) = [i \in DOMAIN built.params |-> i]
  <2> DEFINE s == w.params
  <2>1. DOMAIN s = 1..Len(s) /\ Len(s) \in Nat
    BY <1>5, LenProperties
  <2> HIDE DEF s
  <2>2. [k \in DOMAIN s |-> 0 + k] = [k \in DOMAIN s |-> k]
    BY <2>1
  <2>3. PushPlaceholders(0, s) = [k \in DOMAIN s |-> k]
    BY <2>2 DEF PushPlaceholders
  <2> QED
    BY <1>4, <1>5, <2>3 DEF s
<1>8. ASSUME NEW table, built.valid, table \subseteq Row
      PROVE  Selected(built, table) = table \cap rowsOf
  <2>1. all.valid
    BY <1>1, <1>4, <1>5, <1>8
  <2>2. CASE all.given
    <3>1. Carries(w.params, 0, w.params)
      <4>1. \A k \in 1..Len(w.params) : 0 + k = k
        BY <1>5
      <4> QED
        BY <4>1 DEF Carries
    <3>2. ASSUME NEW row \in Row PROVE Holds(w.clause, w.params, row) <=> row \in all.rows
      <4> DEFINE b == row \in all.rows
      <4>1. Judges(w.clause, w.params, row, b)
        BY <1>2, <2>1, <2>2, <3>1 DEF Writes
      <4>2. PICK x \in BOOLEAN, y \in BOOLEAN :
               (x \/ y) = b /\ Leads(w.clause, w.params, row, Open(None), Level(x, y, None))
        BY <4>1 DEF Judges
      <4>3. Holds(w.clause, w.params, row) = Value(Level(x, y, None))
        BY <1>5, <4>2, HoldsIs
      <4>4. Value(Level(x, y, None)) = (x \/ y)
        BY DEF Value, Level
      <4> QED
        BY <4>2, <4>3, <4>4
    <3>3. w.clause # <<>>
      BY <1>5, <2>2
    <3>4. Selected(built, table) = {row \in table : Holds(w.clause, w.params, row)}
      BY <1>4, <3>3 DEF Selected
    <3> QED
      BY <1>1, <1>8, <3>2, <3>4
  <2>3. CASE ~all.given
    <3>1. w.clause = <<>> /\ all.rows = Row
      BY <1>1, <1>5, <2>3 DEF IsAsked
    <3>2. Selected(built, table) = table
      BY <1>4, <3>1 DEF Selected
    <3> QED
      BY <1>1, <1>8, <3>1, <3>2
  <2>4. all.given \in BOOLEAN
    BY <1>1 DEF IsAsked, Asking
  <2> QED
    BY <2>2, <2>3, <2>4
<1>9. built.valid <=> (asked.valid /\ root # "unbound")
  BY <1>4, <1>5
<1> QED
  BY <1>4, <1>7, <1>8, <1>9 DEF built, rowsOf

\* The SQL of a query selects the rows its calls asked for, and it is refused
\* exactly when it should be: calls grouped the way they were made, each
\* parameter bound to the placeholder written for it, the limit and the offset
\* the query's own (QueryDsl, src/src/model/query.rs:291), for any calls,
\* comparisons and rows.
THEOREM PlansMeanTheCalls == QuerySpec => []PlanMeansTheCalls
<1>1. ASSUME QueryInv PROVE PlanMeansTheCalls
  <2> DEFINE built == IntoQueryPlan(root, query)
             rowsOf == IF root = "model" THEN asked.rows ELSE asked.rows \cap Owned
  <2>1. built.valid <=> (asked.valid /\ root # "unbound")
    BY <1>1, PlanIs
  <2>2. Marks(built.clause) = [i \in DOMAIN built.params |-> i]
    BY <1>1, PlanIs
  <2>3. built.limit = asked.limit /\ built.offset = asked.offset
    BY <1>1, PlanIs
  <2>4. built.valid => Selected(built, Row) = Row \cap rowsOf
    BY <1>1, PlanIs
  <2>5. asked.rows \subseteq Row /\ root \in {"model", "association", "unbound"}
    BY <1>1 DEF QueryInv, Tracks, IsAsked, Asking
  <2> HIDE DEF built
  <2>6. built.valid => Selected(built, Row) = asked.rows \cap InScope
    BY <2>1, <2>4, <2>5 DEF InScope, Owned
  <2> QED
    BY <2>1, <2>2, <2>3, <2>6 DEF PlanMeansTheCalls, built
<1> QED
  BY <1>1, QueryAlways, PTL

\* What a query that runs selects is in the table, and in its scope.
LEMMA RunSelects ==
    ASSUME QueryInv, NEW chunk_size, Run(IntoQueryPlan(root, query), chunk_size),
           IntoQueryPlan(root, query).valid
    PROVE  /\ rows' \in Seq(Stored) /\ Len(rows') <= MaxRows
           /\ plan' = [limit |-> asked.limit, offset |-> asked.offset, chunk_size |-> chunk_size]
           /\ root = "association" => \A row \in ToSet(rows') : row.owner = Parent
<1> DEFINE built == IntoQueryPlan(root, query)
           set == Selected(built, Stored)
           rowsOf == IF root = "model" THEN asked.rows ELSE asked.rows \cap Owned
<1>1. set = Stored \cap rowsOf
  BY PlanIs, QueryAssumption
<1>2. built.limit = asked.limit /\ built.offset = asked.offset
  BY PlanIs
<1>3. rows' \in [1..Cardinality(set) -> set]
  BY DEF Run, InOrder
<1>4. plan' = [limit |-> built.limit, offset |-> built.offset, chunk_size |-> chunk_size]
  BY DEF Run
<1> HIDE DEF built, set
<1>5. Cardinality(set) \in Nat /\ Cardinality(set) <= Cardinality(Stored)
  <2>1. set \subseteq Stored
    BY <1>1
  <2> QED
    BY <2>1, QueryAssumption, FS_Subset, FS_CardinalityType
<1>6. rows' \in Seq(set) /\ Len(rows') = Cardinality(set)
  BY <1>3, <1>5
<1>7. Cardinality(Stored) \in Nat
  BY QueryAssumption, FS_CardinalityType
<1>8. rows' \in Seq(Stored) /\ Len(rows') <= MaxRows
  BY <1>1, <1>3, <1>5, <1>6, <1>7, QueryAssumption, PagingAssumption
<1>9. ASSUME root = "association", NEW row \in ToSet(rows') PROVE row.owner = Parent
  <2>1. row \in set
    BY <1>3, <1>9 DEF ToSet
  <2> QED
    BY <1>1, <1>9, <2>1 DEF Owned
<1> QED
  BY <1>2, <1>4, <1>8, <1>9

\* A query of an association returns the parent's rows only, "keeping the
\* association's parent constraint applied to every execution", or's included
\* (src/src/model/association/has_many.rs:306).
THEOREM AssociationsStayScoped == QuerySpec => AssociationStaysScoped
<1>1. ASSUME QueryInv, QueryNext, phase' \in {"answered", "iterating"}, root = "association"
      PROVE  \A row \in ToSet(rows') : row.owner = Parent
  <2>1. phase = "building"
    BY <1>1 DEF QueryInv
  <2>2. CASE RunQuery
    <3>1. phase' # "refused"
      BY <1>1
    <3>2. IntoQueryPlan(root, query).valid
      BY <2>2, <3>1 DEF RunQuery, RunFails
    <3>3. \E chunk_size : Run(IntoQueryPlan(root, query), chunk_size)
      BY <2>2, <3>2 DEF RunQuery, Answer, TryIter
    <3> QED
      BY <1>1, <3>2, <3>3, RunSelects
  <2>3. CASE BuilderCall
    BY <1>1, <2>1, <2>3 DEF BuilderCall
  <2>4. ~Iterate(Next)
    BY <2>1 DEF Iterate
  <2> QED
    BY <1>1, <2>2, <2>3, <2>4 DEF QueryNext
<1>2. QueryInv /\ [QueryNext]_allVars =>
        [(phase' \in {"answered", "iterating"} /\ root = "association") =>
            \A row \in ToSet(rows') : row.owner = Parent]_allVars
  BY <1>1
<1> QED
  BY <1>2, QueryAlways, PTL DEF QuerySpec, AssociationStaysScoped

-----------------------------------------------------------------------------
(***************************************************************************)
(* The pages of a query, from its plan on: those of Paging.                *)
(***************************************************************************)
Fresh == rows = <<>> /\ consumed = 0 /\ pages = <<>> /\ done = FALSE /\ failed = FALSE /\ shifted = FALSE
QueryPagingInv == PagingInv /\ (phase = "building" => Fresh)

\* An iterator that has returned nothing yet.
FreshPlan ==
    /\ rows \in Seq(Row) /\ Len(rows) <= MaxRows /\ plan \in Plan
    /\ consumed = 0 /\ pages = <<>> /\ done \in BOOLEAN /\ failed = FALSE /\ shifted = FALSE

LEMMA FreshPaging == FreshPlan => PagingInv
<1> SUFFICES ASSUME FreshPlan PROVE PagingInv
  OBVIOUS
<1> USE DEF FreshPlan
<1>1. Returned = <<>> /\ Len(Returned) = 0
  BY DEF Returned, FlattenSeq
<1>2. plan.limit # NoLimit => plan.limit \in Nat
  BY PagingAssumption DEF Plan
<1>3. TypeOK
  <2>1. consumed = 0 /\ pages \in Seq(Seq(Row)) /\ (plan.limit # NoLimit => consumed <= plan.limit)
    BY <1>2
  <2>2. rows \in Seq(Row) /\ Len(rows) <= MaxRows /\ plan \in Plan
    OBVIOUS
  <2>3. done \in BOOLEAN /\ failed \in BOOLEAN /\ shifted \in BOOLEAN
    OBVIOUS
  <2> QED
    BY <1>1, <2>1, <2>2, <2>3 DEF TypeOK
<1>4. PagesAreTheWindow
  BY DEF PagesAreTheWindow
<1>5. FullInv
  BY DEF FullInv
<1> QED
  BY <1>3, <1>4, <1>5 DEF PagingInv

LEMMA QueryPagingInit == QueryInit => QueryPagingInv
<1> SUFFICES ASSUME QueryInit PROVE QueryPagingInv
  OBVIOUS
<1>1. rows = <<>> /\ plan = [limit |-> NoLimit, offset |-> 0, chunk_size |-> 0] /\ Fresh
  BY DEF QueryInit, Fresh
<1>2. rows \in Seq(Row) /\ Len(rows) <= MaxRows /\ plan \in Plan
  BY <1>1, PagingAssumption DEF Plan
<1> QED
  BY <1>1, <1>2, FreshPaging DEF QueryPagingInv, Fresh, FreshPlan

LEMMA QueryPagingStep ==
    ASSUME QueryInv, QueryPagingInv, [QueryNext]_allVars
    PROVE  QueryPagingInv'
<1>1. CASE UNCHANGED vars /\ (phase' = "building" => phase = "building")
  <2>1. PagingInv'
    BY <1>1, PagingStep DEF QueryPagingInv
  <2> QED
    BY <1>1, <2>1 DEF QueryPagingInv, Fresh, vars
<1>2. CASE BuilderCall
  BY <1>1, <1>2 DEF BuilderCall
<1>3. CASE RunQuery
  <2> DEFINE built == IntoQueryPlan(root, query)
  <2>1. CASE ~built.valid
    <3>1. RunFails
      BY <1>3, <2>1 DEF RunQuery
    <3> QED
      BY <1>1, <3>1 DEF RunFails
  <2>2. ASSUME built.valid, NEW chunk_size \in 0..MaxChunk, Run(built, chunk_size),
               phase' \in {"answered", "iterating"}, done' \in BOOLEAN
        PROVE  QueryPagingInv'
    <3>1. /\ rows' \in Seq(Stored) /\ Len(rows') <= MaxRows
          /\ plan' = [limit |-> asked.limit, offset |-> asked.offset, chunk_size |-> chunk_size]
      BY <2>2, RunSelects
    <3>2. rows' \in Seq(Row)
      BY <3>1, QueryAssumption
    <3>3. plan' \in Plan
      BY <3>1 DEF QueryInv, Tracks, IsAsked, Asking, Plan
    <3>4. Fresh /\ UNCHANGED <<consumed, pages, failed, shifted>>
      BY <1>3, <2>2 DEF RunQuery, QueryPagingInv, Run
    <3>5. consumed' = 0 /\ pages' = <<>> /\ failed' = FALSE /\ shifted' = FALSE
      BY <3>4 DEF Fresh
    <3>6. FreshPlan'
      BY <2>2, <3>1, <3>2, <3>3, <3>5 DEF FreshPlan
    <3>7. FreshPlan' => PagingInv'
      BY FreshPaging, PTL
    <3> QED
      BY <2>2, <3>6, <3>7 DEF QueryPagingInv
  <2>3. CASE built.valid /\ Answer(built)
    <3>1. Run(built, 0) /\ phase' = "answered" /\ done' = TRUE /\ 0 \in 0..MaxChunk
      BY <2>3, PagingAssumption DEF Answer
    <3> QED
      BY <2>2, <2>3, <3>1
  <2>4. CASE built.valid /\ TryIter(built)
    <3>1. wrapper # Eager /\ Run(built, wrapper) /\ phase' = "iterating" /\ done' = done
      BY <2>4 DEF TryIter
    <3>2. wrapper \in 0..MaxChunk /\ done \in BOOLEAN
      BY <3>1 DEF QueryInv, QueryPagingInv, PagingInv, TypeOK
    <3> QED
      BY <2>2, <2>4, <3>1, <3>2
  <2> QED
    BY <1>3, <2>1, <2>3, <2>4 DEF RunQuery
<1>4. CASE Iterate(Next)
  <2>1. Next /\ phase' = phase /\ phase = "iterating"
    BY <1>4 DEF Iterate
  <2>2. PagingInv'
    BY <2>1, PagingStep DEF QueryPagingInv
  <2> QED
    BY <2>1, <2>2 DEF QueryPagingInv
<1>5. CASE UNCHANGED allVars
  BY <1>1, <1>5 DEF allVars
<1> QED
  BY <1>2, <1>3, <1>4, <1>5 DEF QueryNext

LEMMA QueryPagingAlways == QuerySpec => [](QueryInv /\ PagingInv)
<1>1. QueryInv /\ QueryPagingInv /\ [QueryNext]_allVars => QueryInv' /\ QueryPagingInv'
  BY QueryInvStep, QueryPagingStep
<1>2. QueryInit => QueryInv /\ QueryPagingInv
  BY QueryInvInit, QueryPagingInit
<1>3. QueryPagingInv => PagingInv
  BY DEF QueryPagingInv
<1> QED
  BY <1>1, <1>2, <1>3, PTL DEF QuerySpec

\* The pages of a query are those of Paging, whatever calls built it: none has a
\* row twice or leaves one out while no row before its place came or went, only
\* the last is short, no more come than the limit, and the eager forms agree
\* (try_iter, src/src/model/query/chunked.rs:110, src/src/model/query/lazy.rs:105).
THEOREM QueriesPage == QuerySpec => [](TypeOK /\ PagesAreTheWindow /\ PagesAreFull /\ EagerFormsAgree)
<1>1. PagingInv => TypeOK /\ PagesAreTheWindow /\ PagesAreFull
  BY FullPages DEF PagingInv
<1>2. PagingInv => EagerFormsAgree
  BY FormsAgree
<1> QED
  BY <1>1, <1>2, QueryPagingAlways, PTL

\* And an iteration of it that ends without an error has returned what all would
\* have then (src/src/model/query/chunked.rs:150).
THEOREM QueriesEndWithAll == QuerySpec => EndsWithAll
<1> DEFINE A == (done' /\ ~done /\ ~failed') =>
                    /\ consumed' >= Len(All)
                    /\ ~shifted => FlattenSeq(pages') = All
<1>1. ASSUME QueryPagingInv, QueryNext, done', ~done, ~failed'
      PROVE  /\ consumed' >= Len(All)
             /\ ~shifted => FlattenSeq(pages') = All
  <2>1. CASE Iterate(Next)
    <3>1. PagingInv /\ Next
      BY <1>1, <2>1 DEF Iterate, QueryPagingInv
    <3> QED
      BY <1>1, <3>1, EndsStep
  <2>2. CASE RunQuery
    <3>1. Fresh /\ UNCHANGED <<consumed, pages>>
      BY <1>1, <2>2 DEF RunQuery, QueryPagingInv, Run, RunFails, Answer, TryIter, vars
    <3>2. All = <<>>
      <4>1. rows = <<>> /\ PagingInv
        BY <1>1, <3>1 DEF Fresh, QueryPagingInv
      <4>2. /\ All \in Seq(Row)
            /\ Len(All) = IF plan.offset < Bound(plan.limit, plan.offset)
                          THEN Bound(plan.limit, plan.offset) - plan.offset ELSE 0
            /\ Bound(plan.limit, plan.offset) <= Len(rows) /\ plan.offset \in Nat
            /\ Bound(plan.limit, plan.offset) \in Nat
        BY <4>1, AllIs
      <4>3. Len(All) = 0
        BY <4>1, <4>2
      <4> QED
        BY <4>2, <4>3, EmptySeq
    <3>3. FlattenSeq(<<>>) = <<>> /\ Len(<<>>) = 0
      BY DEF FlattenSeq
    <3> QED
      BY <3>1, <3>2, <3>3 DEF Fresh
  <2>3. CASE BuilderCall
    BY <1>1, <2>3 DEF BuilderCall, vars
  <2> QED
    BY <1>1, <2>1, <2>2, <2>3 DEF QueryNext
<1>2. QueryInv /\ QueryPagingInv /\ [QueryNext]_allVars => [A]_vars
  <2>1. UNCHANGED allVars => UNCHANGED vars
    BY DEF allVars
  <2> QED
    BY <1>1, <2>1
<1>3. QueryInv /\ QueryPagingInv /\ [QueryNext]_allVars => QueryInv' /\ QueryPagingInv'
  BY QueryInvStep, QueryPagingStep
<1>4. QueryInit => QueryInv /\ QueryPagingInv
  BY QueryInvInit, QueryPagingInit
<1> QED
  BY <1>2, <1>3, <1>4, PTL DEF QuerySpec, EndsWithAll
=============================================================================
