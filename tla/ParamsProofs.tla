---------------------------- MODULE ParamsProofs ----------------------------
(***************************************************************************)
(* Proofs about Params: the tree a form builds holds for the field what    *)
(* its entries say of it, and a stored value reads back, for any entries,  *)
(* every type of the field and every width of an integer.                  *)
(***************************************************************************)
EXTENDS Params, FiniteLemmas

-----------------------------------------------------------------------------
(***************************************************************************)
(* The powers of two.                                                      *)
(***************************************************************************)
\* PowersOfTwo is what its definition says.
LEMMA PowersOfTwoDef ==
    PowersOfTwo = [n \in Nat |-> IF n = 0 THEN 1 ELSE 2 * PowersOfTwo[n - 1]]
<1> DEFINE Doubled(f, n) == IF n = 0 THEN 1 ELSE 2 * f[n - 1]
<1>1. LooksBack(Doubled)
  BY DEF LooksBack
<1>2. \E f : Unfolds(f, Nat, Doubled)
  <2> HIDE DEF Doubled
  <2> QED
    BY <1>1, UnfoldsOnNat
<1>3. PICK f : f = [n \in Nat |-> IF n = 0 THEN 1 ELSE 2 * f[n - 1]]
  BY <1>2 DEF Unfolds
<1> QED
  BY <1>3, Zenon DEF PowersOfTwo

LEMMA PowerOfTwo ==
    ASSUME NEW n \in Nat
    PROVE  /\ PowersOfTwo[n] \in Nat \ {0}
           /\ PowersOfTwo[n + 1] = 2 * PowersOfTwo[n]
<1> DEFINE G == {k \in Nat : PowersOfTwo[k] \in Nat \ {0}}
<1>1. \A k \in Nat : PowersOfTwo[k] = IF k = 0 THEN 1 ELSE 2 * PowersOfTwo[k - 1]
  BY PowersOfTwoDef
<1>2. 0 \in G
  BY <1>1
<1>3. ASSUME NEW k \in 1..n, k - 1 \in G PROVE k \in G
  BY <1>1, <1>3
<1> HIDE DEF G
<1>4. n \in G
  BY <1>2, <1>3, Counting
<1>5. n + 1 \in Nat /\ n + 1 # 0 /\ (n + 1) - 1 = n
  OBVIOUS
<1>6. PowersOfTwo[n + 1] = 2 * PowersOfTwo[n]
  BY <1>1, <1>5
<1> QED
  BY <1>4, <1>6 DEF G

\* The widths of the types: an i64 has half the values of each sign.
LEMMA Widths ==
    /\ PowersOfTwo[Bits - 1] \in Nat \ {0} /\ PowersOfTwo[Bits - 2] \in Nat \ {0}
    /\ PowersOfTwo[Bits] = 2 * PowersOfTwo[Bits - 1]
    /\ PowersOfTwo[Bits - 1] = 2 * PowersOfTwo[Bits - 2]
<1>1. Bits - 1 \in Nat /\ Bits - 2 \in Nat /\ (Bits - 1) + 1 = Bits /\ (Bits - 2) + 1 = Bits - 1
  BY ParamsAssumption
<1> QED
  BY <1>1, PowerOfTwo

-----------------------------------------------------------------------------
(***************************************************************************)
(* SqlField.                                                               *)
(***************************************************************************)
\* The remainder of a number at most one modulus away.
LEMMA Wraps ==
    ASSUME NEW K \in Nat \ {0}, NEW n \in (-K)..(2 * K - 1)
    PROVE  /\ n < 0 => n % K = n + K
           /\ n >= 0 /\ n < K => n % K = n
           /\ n >= K => n % K = n - K
<1>1. CASE n \in 0..(K - 1)
  BY <1>1
<1>2. CASE n \in K..(2 * K - 1)
  BY <1>2
<1>3. CASE n \in (-K)..(-1)
  BY <1>3
<1> QED
  BY <1>1, <1>2, <1>3

\* An i64 is stored as itself, and so is the lower half of the u64s; the upper
\* half is stored below zero.
LEMMA AsI64Wraps ==
    ASSUME NEW n \in Signed(Bits) \cup Unsigned(Bits)
    PROVE  /\ AsI64(n) = IF n \in Signed(Bits) THEN n ELSE n - PowersOfTwo[Bits]
           /\ AsI64(n) \in Signed(Bits)
           /\ n \in Unsigned(Bits) => AsU64(AsI64(n)) = n
<1> DEFINE H == PowersOfTwo[Bits - 1]
           K == PowersOfTwo[Bits]
           m == n + H
<1>1. H \in Nat \ {0} /\ K = 2 * H /\ K \in Nat \ {0}
  BY Widths
<1>2. n \in Int /\ -H <= n /\ n < K
  BY <1>1 DEF Signed, Unsigned
<1>3. m \in (-K)..(2 * K - 1) /\ m >= 0 /\ m = n + H
  BY <1>1, <1>2
<1>4. AsI64(n) = (m % K) - H
  BY DEF AsI64
<1>5. n \in Signed(Bits) <=> n < H
  BY <1>1, <1>2 DEF Signed
<1> HIDE DEF m
<1>6. AsI64(n) = IF n < H THEN n ELSE n - K
  <2>1. (m < K => m % K = m) /\ (m >= K => m % K = m - K)
    BY <1>1, <1>3, Wraps
  <2> HIDE DEF H, K
  <2> QED
    BY <2>1, <1>1, <1>2, <1>3, <1>4
<1>7. AsI64(n) \in Signed(Bits)
  BY <1>1, <1>2, <1>6 DEF Signed
<1>8. ASSUME n \in Unsigned(Bits) PROVE AsU64(AsI64(n)) = n
  <2>1. n >= 0
    BY <1>8, <1>1 DEF Unsigned
  <2>2. CASE n < H
    <3>1. n \in (-K)..(2 * K - 1) /\ n < K
      BY <2>2, <2>1, <1>1, <1>2
    <3> QED
      BY <3>1, <2>1, <2>2, <1>6, <1>1, Wraps DEF AsU64
  <2>3. CASE ~(n < H)
    <3>1. n - K \in (-K)..(2 * K - 1) /\ n - K < 0
      BY <2>3, <2>1, <1>1, <1>2
    <3>2. (n - K) % K = (n - K) + K
      BY <3>1, <1>1, Wraps
    <3> QED
      BY <3>1, <3>2, <2>3, <1>6, <1>2, <1>1 DEF AsU64
  <2> QED
    BY <2>2, <2>3
<1> QED
  BY <1>5, <1>6, <1>7, <1>8

\* The values of a column's type.
PlainValue(t, v) ==
    CASE t.kind = "bool" -> v \in BOOLEAN
      [] t.kind = "String" -> TRUE
      [] OTHER -> v \in IntegersOf(t)
ValueOf(t, v) == (t.kind = "Option" /\ v = None) \/ PlainValue(Inner(t), v)

\* Below the widest, a type's numbers are an i64's, and none are below zero.
LEMMA NarrowIntegers ==
    /\ \A n \in Unsigned(Bits - 2) : n \in Signed(Bits)
    /\ \A n \in Unsigned(Bits) : n >= 0 /\ (n \notin Signed(Bits) => ~(n - PowersOfTwo[Bits] >= 0))
    /\ \A n \in Signed(Bits) : n \in Int
<1> DEFINE Q == PowersOfTwo[Bits - 2]
           H == PowersOfTwo[Bits - 1]
           K == PowersOfTwo[Bits]
<1>1. Q \in Nat /\ H = 2 * Q /\ K = 2 * H
  BY Widths
<1> HIDE DEF Q, H, K
<1>2. Unsigned(Bits - 2) = 0..(Q - 1) /\ Signed(Bits) = (-H)..(H - 1) /\ Unsigned(Bits) = 0..(K - 1)
  BY DEF Q, H, K, Unsigned, Signed
<1> QED
  BY <1>1, <1>2 DEF K

\* Every value of a column's type is read back as itself, but the id of a
\* belongs_to above the largest i64.
LEMMA RoundTrip ==
    ASSUME NEW t, ColumnType(t), NEW v, ValueOf(t, v)
    PROVE  \/ FromSqlRow(t, ToSqlValue(t, v)) = Ok(v)
           \/ /\ ~FromSqlRow(t, ToSqlValue(t, v)).ok
              /\ Inner(t).kind = "BelongsTo" /\ v \notin Signed(Bits)
<1> DEFINE cell == ToSqlValue(t, v)
<1>1. CASE t.kind = "Option" /\ v = None
  <2>1. cell = [sql |-> "NULL"]
    BY <1>1 DEF ToSqlValue
  <2>2. FromSqlRow(t, [sql |-> "NULL"]) = Ok(None)
    BY <1>1 DEF FromSqlRow
  <2> QED
    BY <1>1, <2>1, <2>2
<1>2. CASE ~(t.kind = "Option" /\ v = None)
  <2>1. PlainValue(Inner(t), v) /\ Inner(t).kind \in Columns
    BY <1>2 DEF ValueOf, ColumnType, Inner, Columns
  <2>2. CASE Inner(t).kind = "bool"
    <3>1. cell = [sql |-> "INTEGER", value |-> IF v THEN 1 ELSE 0] /\ v \in BOOLEAN
      BY <1>2, <2>1, <2>2 DEF ToSqlValue, PlainValue
    <3>2. FromSqlRow(t, cell) = Ok(cell.value # 0)
      BY <3>1, <2>2 DEF FromSqlRow, FromNumber
    <3>3. (cell.value # 0) = v
      BY <3>1
    <3> QED
      BY <3>2, <3>3
  <2>3. CASE Inner(t).kind = "String"
    <3>1. cell = [sql |-> "TEXT", value |-> v]
      BY <1>2, <2>3 DEF ToSqlValue
    <3> QED
      BY <3>1, <2>3 DEF FromSqlRow
  <2>4. CASE Inner(t).kind \in {"i64", "u64", "u8", "BelongsTo"}
    <3>1. cell = [sql |-> "INTEGER", value |-> AsI64(v)] /\ v \in IntegersOf(Inner(t))
      BY <1>2, <2>1, <2>4 DEF ToSqlValue, PlainValue
    <3>2. v \in Signed(Bits) \cup Unsigned(Bits)
      BY <3>1, <2>4, NarrowIntegers DEF IntegersOf
    <3>3. /\ AsI64(v) = IF v \in Signed(Bits) THEN v ELSE v - PowersOfTwo[Bits]
          /\ v \in Unsigned(Bits) => AsU64(AsI64(v)) = v
      BY <3>2, AsI64Wraps
    <3>4. CASE Inner(t).kind = "u64"
      BY <3>4, <3>1, <3>3 DEF FromSqlRow, FromNumber, IntegersOf
    <3>5. CASE Inner(t).kind \in {"i64", "u8"}
      <4>1. v \in Signed(Bits)
        BY <3>5, <3>1, NarrowIntegers DEF IntegersOf
      <4> QED
        BY <4>1, <3>5, <3>1, <3>3 DEF FromSqlRow, FromNumber, Checked
    <3>6. CASE Inner(t).kind = "BelongsTo"
      <4>1. v \in Unsigned(Bits)
        BY <3>6, <3>1 DEF IntegersOf
      <4>2. FromSqlRow(t, cell) = AssociationId(AsI64(v))
        BY <3>1, <3>6 DEF FromSqlRow, FromNumber
      <4>3. CASE v \in Signed(Bits)
        BY <4>1, <4>2, <4>3, <3>3, NarrowIntegers DEF AssociationId
      <4>4. CASE v \notin Signed(Bits)
        BY <4>1, <4>2, <4>4, <3>3, <3>6, NarrowIntegers DEF AssociationId, Failed
      <4> QED
        BY <4>3, <4>4
    <3> QED
      BY <2>4, <3>4, <3>5, <3>6
  <2> QED
    BY <2>1, <2>2, <2>3, <2>4 DEF Columns
<1> QED
  BY <1>1, <1>2

-----------------------------------------------------------------------------
(***************************************************************************)
(* What is read of a form is of the field's type.                          *)
(***************************************************************************)
LEMMA PlainReads ==
    ASSUME NEW t, t.kind \in Columns, NEW v, NEW ReadOf(_, _), ReadAs(t, v, ReadOf).ok
    PROVE  PlainValue(t, ReadAs(t, v, ReadOf).value)
<1> DEFINE read == ReadAs(t, v, ReadOf)
<1>1. CASE t.kind = "bool"
  <2>1. ReadAs(t, v, ReadOf) = IF v.kind # "Scalar" THEN Failed ELSE ReadBool(v.raw)
    BY <1>1 DEF ReadAs, ReadScalar
  <2>2. (\E b \in BOOLEAN : read = Ok(b)) \/ read = Failed
    BY <2>1 DEF ReadBool
  <2>3. read.ok
    OBVIOUS
  <2> HIDE DEF read
  <2>4. PICK b \in BOOLEAN : read = Ok(b)
    BY <2>2, <2>3 DEF Failed
  <2> QED
    BY <1>1, <2>4 DEF PlainValue, Ok, read
<1>2. CASE t.kind = "String"
  BY <1>2 DEF PlainValue
<1>3. CASE t.kind \in Columns \ {"bool", "String"}
  BY <1>3 DEF ReadAs, ReadScalar, ParseScalar, PlainValue, Ok, Failed, Columns
<1> QED
  BY <1>1, <1>2, <1>3

LEMMA OptionReads ==
    ASSUME NEW t, t.kind = "Option", NEW v, NEW ReadOf(_, _)
    PROVE  ReadAs(t, v, ReadOf) = IF v = Null THEN Ok(None) ELSE ReadOf(t.of, v)
  BY DEF ReadAs

LEMMA Reads ==
    ASSUME NEW t, ColumnType(t), NEW v, Read(t, v).ok
    PROVE  ValueOf(t, Read(t, v).value)
<1> DEFINE read == Read(t, v)
<1>1. CASE t.kind \in Columns
  <2>1. PlainValue(t, Read(t, v).value)
    BY <1>1, PlainReads DEF Read
  <2> QED
    BY <2>1, <1>1 DEF ValueOf, Inner, Columns
<1>2. CASE t.kind = "Option" /\ t.of.kind \in Columns /\ v = Null
  <2>1. read = Ok(None)
    BY <1>2, OptionReads DEF Read
  <2> QED
    BY <1>2, <2>1 DEF Ok, ValueOf
<1>3. CASE t.kind = "Option" /\ t.of.kind \in Columns /\ v # Null
  <2>1. Read(t, v) = ReadElement(t.of, v)
    BY <1>3 DEF Read, ReadAs
  <2>2. PlainValue(t.of, Read(t, v).value)
    BY <1>3, <2>1, PlainReads DEF ReadElement
  <2> QED
    BY <2>2, <1>3 DEF ValueOf, Inner
<1> QED
  BY <1>1, <1>2, <1>3 DEF ColumnType

\* A record is saved with a value of the field's type.
FieldInv ==
    /\ phase = "params" /\ ColumnType(type) /\ sent # <<>> => ValueOf(type, sent[1])
    /\ phase = "stored" =>
        ColumnType(type) /\ ValueOf(type, sent[1]) /\ stored = ToSqlValue(type, sent[1])

LEMMA FieldInvStep == FieldInv /\ [Next]_vars => FieldInv'
<1> SUFFICES ASSUME FieldInv, [Next]_vars PROVE FieldInv'
  OBVIOUS
<1>1. CASE InsertEntry
  BY <1>1 DEF InsertEntry, FieldInv
<1>2. CASE Deserialize
  <2> DEFINE taken == TakePath(values, Root, Field)
  <2>1. phase' # "stored"
    BY <1>2 DEF Deserialize
  <2>2. CASE taken = <<>>
    BY <1>2, <2>1, <2>2 DEF Deserialize, FieldInv
  <2>3. CASE taken # <<>> /\ Read(type', taken[1]).ok
    <3>1. sent' = <<Read(type', taken[1]).value>>
      BY <1>2, <2>3 DEF Deserialize
    <3>2. ColumnType(type') => ValueOf(type', sent'[1])
      BY <3>1, <2>3, Reads
    <3> QED
      BY <2>1, <3>2 DEF FieldInv
  <2>4. CASE taken # <<>> /\ ~Read(type', taken[1]).ok
    BY <1>2, <2>1, <2>4 DEF Deserialize, FieldInv
  <2> QED
    BY <2>2, <2>3, <2>4
<1>3. CASE Create
  <2>1. phase = "params" /\ ColumnType(type) /\ type' = type
    BY <1>3 DEF Create
  <2>2. PICK allowed \in BOOLEAN :
            LET given == IF allowed /\ sent # <<>> THEN sent ELSE Omitted(allowed)
            IN  IF given = <<>> THEN phase' = "MissingField" /\ UNCHANGED <<sent, stored>>
                ELSE /\ phase' = "stored" /\ sent' = given
                     /\ stored' = ToSqlValue(type, given[1])
    BY <1>3 DEF Create
  <2> DEFINE given == IF allowed /\ sent # <<>> THEN sent ELSE Omitted(allowed)
  <2>3. CASE given = <<>>
    BY <2>2, <2>3 DEF FieldInv
  <2>4. CASE given # <<>>
    <3>1. phase' = "stored" /\ sent' = given /\ stored' = ToSqlValue(type, given[1])
      BY <2>2, <2>4
    <3>2. ValueOf(type, given[1])
      <4>1. CASE allowed /\ sent # <<>>
        BY <4>1, <2>1 DEF FieldInv
      <4>2. CASE ~(allowed /\ sent # <<>>)
        BY <4>2, <2>4 DEF Omitted, ValueOf, Inner, PlainValue
      <4> QED
        BY <4>1, <4>2
    <3> QED
      BY <2>1, <3>1, <3>2 DEF FieldInv
  <2> QED
    BY <2>3, <2>4
<1>4. CASE UNCHANGED vars
  BY <1>4 DEF vars, FieldInv
<1> QED
  BY <1>1, <1>2, <1>3, <1>4 DEF Next

\* What a record is saved with is what the next read of its row gives, for
\* every width of the integers, every type of a column and every form: but the
\* id of a belongs_to above the largest i64, which is refused.
THEOREM ValuesReadBack == Spec => []StoredValuesReadBack
<1>1. Init => FieldInv
  BY DEF Init, FieldInv
<1>2. FieldInv => StoredValuesReadBack
  BY RoundTrip DEF FieldInv, StoredValuesReadBack
<1> QED
  BY <1>1, <1>2, FieldInvStep, PTL DEF Spec

-----------------------------------------------------------------------------
(***************************************************************************)
(* What a form says of a field.                                            *)
(***************************************************************************)
\* A key has a segment at least.
LEMMA SegmentsOfKey ==
    ASSUME NEW key, NEW T, key \in Seq(T)
    PROVE  \E S : ParamKeySegments(key) \in Seq(S) /\ ParamKeySegments(key) # <<>>
<1> DEFINE brackets == {i \in DOMAIN key : key[i] = "["}
           closes(from) == {i \in from..Len(key) : key[i] = "]"}
           Least(S) == CHOOSE i \in S : \A j \in S : i <= j
           Opens(f) == f = [k \in 1..(Len(key) + 1) |->
                IF k = 1 THEN Least(brackets)
                ELSE IF closes(f[k - 1]) = {} THEN Len(key) + 1
                ELSE Least(closes(f[k - 1])) + 1]
           opens == CHOOSE f : Opens(f)
           pairs == {k \in DOMAIN key : opens[k] <= Len(key)}
           m == Cardinality(pairs)
           head == SubSeq(key, 1, opens[1] - 1)
           pair(k) == SubSeq(key, opens[k] + 1, opens[k + 1] - 2)
           inside == [k \in 1..m |-> pair(k)]
<1>1. ParamKeySegments(key) = <<key>> \/ ParamKeySegments(key) = <<head>> \o inside
  BY DEF ParamKeySegments
<1>2. m \in Nat
  <2>1. IsFiniteSet(DOMAIN key)
    <3>1. DOMAIN key = 1..Len(key) /\ Len(key) \in Nat
      OBVIOUS
    <3> QED
      BY <3>1, FS_Interval
  <2>2. pairs \subseteq DOMAIN key
    OBVIOUS
  <2> HIDE DEF pairs
  <2> QED
    BY <2>1, <2>2, FS_Subset, FS_CardinalityType
<1> HIDE DEF m, head, pair
<1>3. ASSUME ParamKeySegments(key) = <<key>>
      PROVE  \E S : ParamKeySegments(key) \in Seq(S) /\ ParamKeySegments(key) # <<>>
  <2>1. <<key>> \in Seq({key}) /\ <<key>> # <<>>
    OBVIOUS
  <2> QED
    BY <1>3, <2>1
<1>4. ASSUME ParamKeySegments(key) = <<head>> \o inside
      PROVE  \E S : ParamKeySegments(key) \in Seq(S) /\ ParamKeySegments(key) # <<>>
  <2> DEFINE S == {head} \cup {inside[k] : k \in 1..m}
  <2>1. inside \in Seq(S)
    <3>1. inside \in [1..m -> S]
      OBVIOUS
    <3> QED
      BY <1>2, <3>1
  <2>2. <<head>> \in Seq(S) /\ Len(<<head>>) = 1
    OBVIOUS
  <2> HIDE DEF S, inside
  <2>3. <<head>> \o inside \in Seq(S) /\ <<head>> \o inside # <<>>
    BY <2>1, <2>2
  <2> QED
    BY <1>4, <2>3
<1> QED
  BY <1>1, <1>3, <1>4

\* The values on the way down a path, and on the way back up.
GoesDown(v, segments, at) ==
    /\ at[1] = v
    /\ \A i \in 1..(Len(segments) - 1) :
        at[i + 1] = Child(at[i], segments[i], SubSeq(segments, i + 1, Len(segments)))
ComesUp(segments, value, at, with) ==
    /\ with[Len(segments) + 1] = value
    /\ \A i \in 1..Len(segments) :
        with[i] = Holding(at[i], segments[i], SubSeq(segments, i + 1, Len(segments)), with[i + 1])

Descends(f, n, v, Next1(_, _)) ==
    f = [i \in 1..n |-> IF i = 1 THEN v ELSE Next1(f[i - 1], i - 1)]
Ascends(f, n, v, Next1(_, _)) ==
    f = [i \in 1..(n + 1) |-> IF i = n + 1 THEN v ELSE Next1(f[i + 1], i)]

LEMMA DownExists ==
    ASSUME NEW n \in Nat, NEW v, NEW Next1(_, _)
    PROVE  \E f : Descends(f, n, v, Next1)
<1> DEFINE Step(f, i) == IF i = 0 \/ i = 1 THEN v ELSE Next1(f[i - 1], i - 1)
<1>1. LooksBack(Step)
  BY DEF LooksBack
<1> HIDE DEF Step
<1>2. PICK g : Unfolds(g, 0..n, Step)
  BY <1>1, UnfoldsUpTo
<1> DEFINE f == [i \in 1..n |-> g[i]]
<1>3. ASSUME NEW i \in 1..n PROVE g[i] = IF i = 1 THEN v ELSE Next1(f[i - 1], i - 1)
  <2>1. g[i] = Step(g, i)
    <3>1. i \in 0..n
      OBVIOUS
    <3> QED
      BY <1>2, <3>1 DEF Unfolds
  <2>2. i # 1 => f[i - 1] = g[i - 1]
    OBVIOUS
  <2> HIDE DEF f
  <2> QED
    BY <2>1, <2>2 DEF Step
<1>4. f = [i \in 1..n |-> IF i = 1 THEN v ELSE Next1(f[i - 1], i - 1)]
  BY <1>3
<1> QED
  BY <1>4 DEF Descends

LEMMA UpExists ==
    ASSUME NEW n \in Nat, NEW v, NEW Next1(_, _)
    PROVE  \E f : Ascends(f, n, v, Next1)
<1> DEFINE Step(f, k) == IF k = 0 THEN v ELSE Next1(f[k - 1], n + 1 - k)
<1>1. LooksBack(Step)
  BY DEF LooksBack
<1> HIDE DEF Step
<1>2. PICK g : Unfolds(g, 0..n, Step)
  BY <1>1, UnfoldsUpTo
<1> DEFINE f == [i \in 1..(n + 1) |-> g[n + 1 - i]]
<1>3. ASSUME NEW i \in 1..(n + 1) PROVE g[n + 1 - i] = IF i = n + 1 THEN v ELSE Next1(f[i + 1], i)
  <2> DEFINE k == n + 1 - i
  <2>1. k \in 0..n /\ n + 1 - k = i /\ (k = 0 <=> i = n + 1)
    OBVIOUS
  <2>2. g[k] = Step(g, k)
    BY <1>2, <2>1 DEF Unfolds
  <2>3. i # n + 1 => i + 1 \in 1..(n + 1) /\ n + 1 - (i + 1) = k - 1
    OBVIOUS
  <2> HIDE DEF k
  <2>4. i # n + 1 => f[i + 1] = g[k - 1]
    BY <2>3
  <2> HIDE DEF f
  <2>5. g[k] = IF i = n + 1 THEN v ELSE Next1(f[i + 1], i)
    BY <2>1, <2>2, <2>4 DEF Step
  <2> QED
    BY <2>5 DEF k
<1>4. f = [i \in 1..(n + 1) |-> IF i = n + 1 THEN v ELSE Next1(f[i + 1], i)]
  BY <1>3
<1> QED
  BY <1>4 DEF Ascends

LEMMA PathIs ==
    ASSUME NEW v, NEW S, NEW segments \in Seq(S), segments # <<>>, NEW value
    PROVE  \E at, with : /\ GoesDown(v, segments, at) /\ ComesUp(segments, value, at, with)
                         /\ InsertPath(v, segments, value) = with[1]
<1> DEFINE n == Len(segments)
           rest(i) == SubSeq(segments, i + 1, n)
           Below1(x, i) == Child(x, segments[i], rest(i))
           Down(f) == f = [i \in 1..n |-> IF i = 1 THEN v ELSE Below1(f[i - 1], i - 1)]
           at == CHOOSE f : Down(f)
           Above1(x, i) == Holding(at[i], segments[i], rest(i), x)
           Up(f) == f = [i \in 1..(n + 1) |-> IF i = n + 1 THEN value ELSE Above1(f[i + 1], i)]
           with == CHOOSE f : Up(f)
<1>1. n \in Nat /\ n # 0
  OBVIOUS
<1>2. InsertPath(v, segments, value) = with[1]
  BY DEF InsertPath
<1> HIDE DEF n
<1>3. Down(at)
  <2> HIDE DEF Below1
  <2>1. \E f : Descends(f, n, v, Below1)
    BY <1>1, DownExists
  <2>2. \E f : Down(f)
    BY <2>1 DEF Descends
  <2> HIDE DEF Down
  <2> QED
    BY <2>2
<1> HIDE DEF at
<1>4. Up(with)
  <2> HIDE DEF Above1
  <2>1. \E f : Ascends(f, n, value, Above1)
    BY <1>1, UpExists
  <2>2. \E f : Up(f)
    BY <2>1 DEF Ascends
  <2> HIDE DEF Up
  <2> QED
    BY <2>2
<1> HIDE DEF with
<1>5. at[1] = v /\ \A i \in 1..(n - 1) : at[i + 1] = Below1(at[i], i)
  <2> HIDE DEF Below1
  <2>1. \A i \in 1..n : at[i] = IF i = 1 THEN v ELSE Below1(at[i - 1], i - 1)
    BY <1>3
  <2> HIDE DEF Down
  <2>2. 1 \in 1..n /\ \A i \in 1..(n - 1) : i + 1 \in 1..n /\ i + 1 # 1 /\ (i + 1) - 1 = i
    BY <1>1
  <2> QED
    BY <2>1, <2>2
<1>6. with[n + 1] = value /\ \A i \in 1..n : with[i] = Above1(with[i + 1], i)
  <2> HIDE DEF Above1
  <2>1. \A i \in 1..(n + 1) : with[i] = IF i = n + 1 THEN value ELSE Above1(with[i + 1], i)
    BY <1>4
  <2> HIDE DEF Up
  <2>2. n + 1 \in 1..(n + 1) /\ \A i \in 1..n : i \in 1..(n + 1) /\ i # n + 1
    BY <1>1
  <2> QED
    BY <2>1, <2>2
<1>7. GoesDown(v, segments, at) /\ ComesUp(segments, value, at, with)
  BY <1>5, <1>6 DEF GoesDown, ComesUp, n
<1> QED
  BY <1>2, <1>7

\* The parts of a path and of the tree along it: the root, the field, and what
\* stands in the field's place.
Remaining(key, i) == SubSeq(key, i + 1, Len(key))
Second(v, key) == Child(v, key[1], Remaining(key, 1))
Third(v, key) == Child(Second(v, key), key[2], Remaining(key, 2))
\* That, with the value at the end of a path of three segments or four.
Extended(third, key, value) ==
    IF Len(key) = 3 THEN Holding(third, key[3], Remaining(key, 3), value)
    ELSE Holding(third, key[3], Remaining(key, 3),
            Holding(Child(third, key[3], Remaining(key, 3)), key[4], Remaining(key, 4), value))
Builds(v, key, value, y) ==
    /\ InsertPath(v, key, value) =
            Holding(v, key[1], Remaining(key, 1), Holding(Second(v, key), key[2], Remaining(key, 2), y))
    /\ Len(key) = 2 => y = value
    /\ Len(key) \in 3..4 => y = Extended(Third(v, key), key, value)

\* What an entry makes of the tree, down to the field: the value that stands
\* there is y.
LEMMA FirstSteps ==
    ASSUME NEW v, NEW S, NEW key \in Seq(S), key # <<>>, NEW value
    PROVE  /\ Len(key) = 1 => InsertPath(v, key, value) = Holding(v, key[1], Remaining(key, 1), value)
           /\ Len(key) > 1 => \E y : Builds(v, key, value, y)
<1> DEFINE n == Len(key)
           below(i) == SubSeq(key, i + 1, n)
           second == Child(v, key[1], below(1))
           third == Child(second, key[2], below(2))
           new == InsertPath(v, key, value)
<1>1. n \in Nat /\ n >= 1
  OBVIOUS
<1>2. PICK at, with : /\ GoesDown(v, key, at) /\ ComesUp(key, value, at, with) /\ new = with[1]
  BY PathIs
<1>3. /\ at[1] = v
      /\ \A i \in 1..(n - 1) : at[i + 1] = Child(at[i], key[i], below(i))
      /\ with[n + 1] = value
      /\ \A i \in 1..n : with[i] = Holding(at[i], key[i], below(i), with[i + 1])
  BY <1>2 DEF GoesDown, ComesUp
<1> HIDE DEF n, below, new
<1>4. with[1] = Holding(at[1], key[1], below(1), with[2])
  <2>1. 1 \in 1..n /\ 1 + 1 = 2
    BY <1>1
  <2> QED
    BY <1>3, <2>1
<1>5. ASSUME n > 1
      PROVE  at[2] = second /\ with[2] = Holding(at[2], key[2], below(2), with[3])
  <2>1. 1 \in 1..(n - 1) /\ 2 \in 1..n /\ 1 + 1 = 2 /\ 2 + 1 = 3
    BY <1>1, <1>5
  <2>2. at[2] = Child(at[1], key[1], below(1))
    BY <1>3, <2>1
  <2>3. with[2] = Holding(at[2], key[2], below(2), with[3])
    BY <1>3, <2>1
  <2> QED
    BY <1>3, <2>2, <2>3
<1>6. ASSUME n > 2
      PROVE  at[3] = third /\ with[3] = Holding(at[3], key[3], below(3), with[4])
  <2>1. 2 \in 1..(n - 1) /\ 3 \in 1..n /\ 2 + 1 = 3 /\ 3 + 1 = 4 /\ n > 1
    BY <1>1, <1>6
  <2>2. at[3] = Child(at[2], key[2], below(2))
    BY <1>3, <2>1
  <2>3. with[3] = Holding(at[3], key[3], below(3), with[4])
    BY <1>3, <2>1
  <2> QED
    BY <1>5, <2>1, <2>2, <2>3
<1>7. ASSUME n > 3
      PROVE  with[4] = Holding(Child(third, key[3], below(3)), key[4], below(4), with[5])
  <2>1. 3 \in 1..(n - 1) /\ 4 \in 1..n /\ 3 + 1 = 4 /\ 4 + 1 = 5 /\ n > 2
    BY <1>1, <1>7
  <2>2. at[4] = Child(at[3], key[3], below(3))
    BY <1>3, <2>1
  <2>3. with[4] = Holding(at[4], key[4], below(4), with[5])
    BY <1>3, <2>1
  <2> QED
    BY <1>6, <2>1, <2>2, <2>3
<1> HIDE DEF second, third
<1>8. n = 1 => with[2] = value
  BY <1>3
<1>9. n = 2 => with[3] = value
  BY <1>3
<1>10. n = 3 => with[4] = value
  BY <1>3
<1>11. n = 4 => with[5] = value
  BY <1>3
<1>12. n = 1 => new = Holding(v, key[1], below(1), value)
  BY <1>2, <1>3, <1>4, <1>8
<1>13. ASSUME n > 1
       PROVE  /\ new = Holding(v, key[1], below(1), Holding(second, key[2], below(2), with[3]))
              /\ n = 2 => with[3] = value
              /\ n = 3 => with[3] = Holding(third, key[3], below(3), value)
              /\ n = 4 => with[3] = Holding(third, key[3], below(3),
                                Holding(Child(third, key[3], below(3)), key[4], below(4), value))
  <2>1. new = Holding(v, key[1], below(1), Holding(second, key[2], below(2), with[3]))
    BY <1>2, <1>3, <1>4, <1>5, <1>13
  <2>2. n = 3 => with[3] = Holding(third, key[3], below(3), value)
    BY <1>6, <1>10
  <2>3. n = 4 => with[3] = Holding(third, key[3], below(3),
                    Holding(Child(third, key[3], below(3)), key[4], below(4), value))
    BY <1>6, <1>7, <1>11
  <2> QED
    BY <1>9, <2>1, <2>2, <2>3
<1> DEFINE y == with[3]
           middle == Holding(third, key[3], below(3), value)
           last == Holding(third, key[3], below(3),
                        Holding(Child(third, key[3], below(3)), key[4], below(4), value))
<1> HIDE DEF y, middle, last
<1>14. n = 1 => InsertPath(v, key, value) = Holding(v, key[1], Remaining(key, 1), value)
  BY <1>12 DEF n, below, new, Remaining
<1>15. second = Second(v, key) /\ third = Third(v, key)
  BY DEF second, third, below, n, Second, Third, Remaining
<1>16. Extended(Third(v, key), key, value) = IF n = 3 THEN middle ELSE last
  BY <1>15 DEF Extended, middle, last, below, n, Remaining
<1>17. ASSUME n > 1 PROVE Builds(v, key, value, y)
  <2>1. InsertPath(v, key, value) =
            Holding(v, key[1], Remaining(key, 1), Holding(Second(v, key), key[2], Remaining(key, 2), y))
    BY <1>13, <1>15, <1>17 DEF y, new, below, n, Remaining
  <2>2. (n = 2 => y = value) /\ (n = 3 => y = middle) /\ (n = 4 => y = last)
    BY <1>13, <1>17 DEF y, middle, last
  <2>3. n \in 3..4 => y = Extended(Third(v, key), key, value)
    BY <1>16, <2>2
  <2> QED
    BY <2>1, <2>2, <2>3 DEF Builds, n
<1> QED
  BY <1>14, <1>17 DEF n

\* An element that a name or a [] can be put into.
LEMMA Opens1 ==
    ASSUME NEW items, NEW s
    PROVE  /\ ~OpenElement(items, <<>>)
           /\ OpenElement(items, <<s>>) <=>
                /\ items # <<>>
                /\ IF s = <<>> THEN Last(items).kind = "List"
                   ELSE Last(items).kind = "Map" /\ s \notin DOMAIN Last(items).entries
<1>1. ASSUME NEW v, NEW path, path = <<>> PROVE ~CanInsertPath(v, path)
  BY <1>1 DEF CanInsertPath
<1>2. ASSUME NEW v
      PROVE  CanInsertPath(v, <<s>>) <=>
                IF s = <<>> THEN v.kind = "List" ELSE v.kind = "Map" /\ s \notin DOMAIN v.entries
  <2> DEFINE path == <<s>>
             At(f) == f = [i \in DOMAIN path |->
                        IF i = 1 THEN v ELSE AsMap(f[i - 1])[path[i - 1]]]
             at == CHOOSE f : At(f)
  <2>1. DOMAIN path = {1} /\ path[1] = s
    OBVIOUS
  <2>2. CanInsertPath(v, path) <=>
            \E i \in DOMAIN path :
                /\ \A j \in 1..(i - 1) : path[j] # <<>> /\ path[j] \in DOMAIN AsMap(at[j])
                /\ IF path[i] = <<>> THEN at[i].kind = "List"
                   ELSE at[i].kind = "Map" /\ path[i] \notin DOMAIN at[i].entries
    BY DEF CanInsertPath
  <2> HIDE DEF path
  <2>3. At([i \in {1} |-> v])
    BY <2>1
  <2>4. At(at)
    <3> HIDE DEF At
    <3> QED
      BY <2>3
  <2> HIDE DEF at
  <2>5. at[1] = v
    BY <2>1, <2>4
  <2> HIDE DEF At
  <2> QED
    BY <2>1, <2>2, <2>5 DEF path
<1> QED
  BY <1>1, <1>2 DEF OpenElement

\* Keys that reach no deeper than a list of lists or of maps.
InReach(key) ==
    Len(key) > 1 /\ key[1] = Root /\ key[2] = Field =>
        Len(key) \in 2..3 \/ (Len(key) = 4 /\ key[3] = NoName)

\* The last elements of a sequence.
LEMMA Ends ==
    ASSUME NEW S, NEW s \in Seq(S), NEW n \in Nat, n = Len(s)
    PROVE  /\ SubSeq(s, n + 1, n) = <<>>
           /\ n > 0 => SubSeq(s, n, n) = <<s[n]>>
           /\ n > 1 => SubSeq(s, n - 1, n) = <<s[n - 1], s[n]>>
<1>1. SubSeq(s, n + 1, n) = <<>>
  OBVIOUS
<1>2. ASSUME n > 0 PROVE SubSeq(s, n, n) = <<s[n]>>
  <2> DEFINE t == SubSeq(s, n, n)
  <2>1. t \in Seq(S) /\ Len(t) = 1 /\ t[1] = s[n]
    BY <1>2
  <2>2. <<s[n]>> \in Seq(S) /\ Len(<<s[n]>>) = 1 /\ <<s[n]>>[1] = s[n]
    BY <1>2
  <2> HIDE DEF t
  <2>3. t = <<s[n]>>
    BY <2>1, <2>2, SeqEqual
  <2> QED
    BY <2>3 DEF t
<1>3. ASSUME n > 1 PROVE SubSeq(s, n - 1, n) = <<s[n - 1], s[n]>>
  <2> DEFINE t == SubSeq(s, n - 1, n)
             p == <<s[n - 1], s[n]>>
  <2>1. t \in Seq(S) /\ Len(t) = 2 /\ t[1] = s[n - 1] /\ t[2] = s[n]
    BY <1>3
  <2>2. p \in Seq(S) /\ Len(p) = 2 /\ p[1] = s[n - 1] /\ p[2] = s[n]
    BY <1>3
  <2> HIDE DEF t, p
  <2>3. \A i \in 1..2 : t[i] = p[i]
    <3>1. \A i \in 1..2 : i = 1 \/ i = 2
      OBVIOUS
    <3> QED
      BY <2>1, <2>2, <3>1
  <2>4. t = p
    BY <2>1, <2>2, <2>3, SeqEqual
  <2> QED
    BY <2>4 DEF t, p
<1> QED
  BY <1>1, <1>2, <1>3

\* What had been taken, and containers that hold the same.
Was(taken) == IF taken = <<>> THEN Null ELSE taken[1]
HoldsTheSame(a, b) == AsList(a) = AsList(b) /\ AsMap(a) = AsMap(b)

\* The value that stands in the field's place does as what is there already.
LEMMA AddsToField ==
    ASSUME NEW third, NEW taken, NEW S, NEW key \in Seq(S), NEW value, Len(key) \in 3..4,
           Len(key) = 4 => key[3] = NoName, HoldsTheSame(third, Was(taken))
    PROVE  Update(taken, SubSeq(key, 3, Len(key)), value) = Extended(third, key, value)
<1> DEFINE old == Was(taken)
           items == AsList(old)
           open == IF items = <<>> THEN Null ELSE Last(items)
           rest == SubSeq(key, 3, Len(key))
<1>0. AsList(third) = items /\ AsMap(third) = AsMap(old)
  BY DEF HoldsTheSame
<1>1. ASSUME Len(key) = 3
      PROVE  Update(taken, rest, value) = Holding(third, key[3], SubSeq(key, 4, 3), value)
  <2>1. rest = <<key[3]>> /\ SubSeq(key, 4, 3) = <<>>
    <3>1. 3 \in Nat /\ 3 > 0 /\ 3 + 1 = 4
      OBVIOUS
    <3>2. SubSeq(key, 3 + 1, 3) = <<>> /\ SubSeq(key, 3, 3) = <<key[3]>>
      BY <1>1, <3>1, Ends
    <3> QED
      BY <1>1, <3>1, <3>2
  <2> HIDE DEF rest
  <2>2. rest # <<>> /\ Len(rest) = 1 /\ rest[1] = key[3]
    BY <2>1
  <2>3. rest # <<NoName, NoName>>
    BY <2>1
  <2>4. CASE key[3] = NoName
    <3>1. rest = <<NoName>>
      BY <2>1, <2>4
    <3>2. Update(taken, rest, value) = List(Append(items, value))
      BY <2>2, <2>3, <2>4, <3>1 DEF Update, Was
    <3>3. Holding(third, key[3], <<>>, value) = List(Append(AsList(third), value))
      BY <2>4, Opens1 DEF Holding, NoName
    <3> QED
      BY <1>0, <2>1, <3>2, <3>3
  <2>5. CASE key[3] # NoName
    <3>1. rest # <<NoName>>
      BY <2>1, <2>5
    <3>2. Update(taken, rest, value) = Map(With(AsMap(old), key[3], value))
      BY <2>2, <2>3, <2>5, <3>1 DEF Update, Was
    <3>3. Holding(third, key[3], <<>>, value) = Map(With(AsMap(third), key[3], value))
      BY <2>5 DEF Holding, NoName
    <3> QED
      BY <1>0, <2>1, <3>2, <3>3
  <2> QED
    BY <2>4, <2>5
<1>2. ASSUME Len(key) = 4
      PROVE  Update(taken, rest, value) =
                Holding(third, key[3], SubSeq(key, 4, 4),
                    Holding(Child(third, key[3], SubSeq(key, 4, 4)), key[4], SubSeq(key, 5, 4), value))
  <2> DEFINE s == key[4]
             child == Child(third, NoName, <<s>>)
  <2>1. key[3] = NoName
    BY <1>2
  <2>2. rest = <<NoName, s>> /\ SubSeq(key, 4, 4) = <<s>> /\ SubSeq(key, 5, 4) = <<>>
    <3>1. 4 \in Nat /\ 4 > 1 /\ 4 > 0 /\ 4 + 1 = 5 /\ 4 - 1 = 3
      OBVIOUS
    <3>2. /\ SubSeq(key, 4 + 1, 4) = <<>> /\ SubSeq(key, 4, 4) = <<key[4]>>
          /\ SubSeq(key, 4 - 1, 4) = <<key[4 - 1], key[4]>>
      BY <1>2, <3>1, Ends
    <3> QED
      BY <1>2, <2>1, <3>1, <3>2
  <2> SUFFICES Update(taken, <<NoName, s>>, value) =
                    Holding(third, NoName, <<s>>, Holding(child, s, <<>>, value))
    BY <2>1, <2>2
  <2> HIDE DEF s, rest
  <2>3. AsList(third) = items
    BY <1>0
  <2>4. OpenElement(items, <<s>>) <=>
            IF s = NoName THEN open.kind = "List"
            ELSE open.kind = "Map" /\ s \notin DOMAIN open.entries
    BY Opens1 DEF NoName, Null
  <2>5. OpenElement(items, <<s>>) => open = Last(items)
    BY Opens1
  <2> DEFINE pair == <<NoName, s>>
  <2>6. pair # <<>> /\ pair # <<NoName>> /\ Len(pair) = 2 /\ pair[1] = NoName /\ pair[2] = s
    OBVIOUS
  <2> HIDE DEF old, items, open
  <2>7. CASE s = NoName
    <3>1. Update(taken, pair, value) =
            IF open.kind = "List" THEN List(Append(Front(items), List(Append(open.items, value))))
            ELSE List(Append(items, List(<<value>>)))
      BY <2>6, <2>7 DEF Update, Was, old, items, open
    <3>2. CASE open.kind = "List"
      <4>1. OpenElement(items, <<s>>) /\ open = Last(items)
        BY <2>4, <2>5, <2>7, <3>2
      <4>2. child = open
        BY <2>3, <4>1 DEF Child, NoName
      <4>3. Holding(open, s, <<>>, value) = List(Append(open.items, value))
        BY <2>7, <3>2, Opens1 DEF Holding, AsList, NoName
      <4>4. Holding(third, NoName, <<s>>, List(Append(open.items, value)))
                = List(Append(Front(items), List(Append(open.items, value))))
        BY <2>3, <4>1 DEF Holding, NoName
      <4> QED
        BY <3>1, <3>2, <4>2, <4>3, <4>4
    <3>3. CASE open.kind # "List"
      <4>1. ~OpenElement(items, <<s>>)
        BY <2>4, <2>7, <3>3
      <4>2. child = List(<<>>)
        BY <2>3, <2>7, <4>1 DEF Child, ContainerFor, NoName
      <4>3. Holding(List(<<>>), s, <<>>, value) = List(<<value>>)
        <5>1. AsList(List(<<>>)) = <<>> /\ Append(<<>>, value) = <<value>>
          BY DEF AsList, List
        <5>2. ~OpenElement(<<>>, <<>>)
          BY Opens1
        <5> QED
          BY <2>7, <5>1, <5>2 DEF Holding, NoName
      <4>4. Holding(third, NoName, <<s>>, List(<<value>>)) = List(Append(items, List(<<value>>)))
        BY <2>3, <4>1 DEF Holding, NoName
      <4> QED
        BY <3>1, <3>3, <4>2, <4>3, <4>4
    <3> QED
      BY <3>2, <3>3
  <2>8. CASE s # NoName
    <3>1. pair # <<NoName, NoName>>
      BY <2>6, <2>8
    <3>2. Update(taken, pair, value) =
            IF open.kind = "Map" /\ s \notin DOMAIN open.entries
            THEN List(Append(Front(items), Map(With(open.entries, s, value))))
            ELSE List(Append(items, Map(With(NoEntries, s, value))))
      BY <2>6, <2>8, <3>1 DEF Update, Was, old, items, open
    <3>3. CASE open.kind = "Map" /\ s \notin DOMAIN open.entries
      <4>1. OpenElement(items, <<s>>) /\ open = Last(items)
        BY <2>4, <2>5, <2>8, <3>3
      <4>2. child = open
        BY <2>3, <4>1 DEF Child, NoName
      <4>3. Holding(open, s, <<>>, value) = Map(With(open.entries, s, value))
        BY <2>8, <3>3 DEF Holding, AsMap, NoName
      <4>4. Holding(third, NoName, <<s>>, Map(With(open.entries, s, value)))
                = List(Append(Front(items), Map(With(open.entries, s, value))))
        BY <2>3, <4>1 DEF Holding, NoName
      <4> QED
        BY <3>2, <3>3, <4>2, <4>3, <4>4
    <3>4. CASE ~(open.kind = "Map" /\ s \notin DOMAIN open.entries)
      <4>1. ~OpenElement(items, <<s>>)
        BY <2>4, <2>8, <3>4
      <4>2. child = Map(NoEntries)
        BY <2>3, <2>8, <4>1 DEF Child, ContainerFor, NoName
      <4>3. Holding(Map(NoEntries), s, <<>>, value) = Map(With(NoEntries, s, value))
        BY <2>8 DEF Holding, AsMap, Map, NoName
      <4>4. Holding(third, NoName, <<s>>, Map(With(NoEntries, s, value)))
                = List(Append(items, Map(With(NoEntries, s, value))))
        BY <2>3, <4>1 DEF Holding, NoName
      <4> QED
        BY <3>2, <3>4, <4>2, <4>3, <4>4
    <3> QED
      BY <3>3, <3>4
  <2> QED
    BY <2>7, <2>8
<1>3. 3 + 1 = 4 /\ 4 + 1 = 5
  OBVIOUS
<1> HIDE DEF old, items, open, rest
<1>4. CASE Len(key) = 3
  BY <1>1, <1>3, <1>4 DEF rest, Extended, Remaining
<1>5. CASE Len(key) = 4
  BY <1>2, <1>3, <1>5 DEF rest, Extended, Remaining
<1> QED
  BY <1>4, <1>5

LEMMA HoldingIs ==
    ASSUME NEW v, NEW segment, NEW rest, NEW child
    PROVE  /\ segment # NoName => AsMap(Holding(v, segment, rest, child)) = With(AsMap(v), segment, child)
           /\ segment = NoName => AsMap(Holding(v, segment, rest, child)) = NoEntries
  BY DEF Holding, AsMap, Map, List, NoName

LEMMA NamesDiffer == Root # NoName /\ Field # NoName
  BY DEF Root, Field, NoName

\* A key of one segment sets what it names, at the root.
LEMMA RootTaken ==
    ASSUME NEW v, NEW segment, NEW rest, NEW value
    PROVE  TakePath(Holding(v, segment, rest, value), Root, Field) =
                IF segment = NoName THEN <<>>
                ELSE IF segment = Root THEN TakePath(Map(With(NoEntries, Root, value)), Root, Field)
                ELSE TakePath(v, Root, Field)
<1> DEFINE new == Holding(v, segment, rest, value)
           m == AsMap(new)
           Of(entries) == IF Root \in DOMAIN entries /\ Field \in DOMAIN AsMap(entries[Root])
                          THEN <<AsMap(entries[Root])[Field]>> ELSE <<>>
<1>1. \A w : TakePath(w, Root, Field) = Of(AsMap(w))
  BY DEF TakePath
<1>2. DOMAIN NoEntries = {}
  BY DEF NoEntries
<1>3. CASE segment = NoName
  <2>1. m = NoEntries
    BY <1>3, HoldingIs
  <2> HIDE DEF new, m
  <2> QED
    BY <1>1, <1>2, <1>3, <2>1 DEF m, new
<1>4. CASE segment # NoName
  <2>1. m = With(AsMap(v), segment, value)
    BY <1>4, HoldingIs
  <2> HIDE DEF new, m
  <2>2. CASE segment = Root
    <3> DEFINE w == Map(With(NoEntries, Root, value))
    <3>1. AsMap(w) = With(NoEntries, Root, value)
      BY DEF AsMap, Map
    <3>2. Of(AsMap(w)) = Of(m)
      <4>1. Root \in DOMAIN m /\ m[Root] = value
        BY <2>1, <2>2 DEF With
      <4>2. Root \in DOMAIN AsMap(w) /\ AsMap(w)[Root] = value
        BY <3>1 DEF With
      <4> HIDE DEF m, w
      <4> QED
        BY <4>1, <4>2
    <3> HIDE DEF w, Of, m
    <3> QED
      BY <1>1, <1>4, <2>2, <3>2 DEF w, m, new
  <2>3. CASE segment # Root
    <3>1. /\ Root \in DOMAIN m <=> Root \in DOMAIN AsMap(v)
          /\ Root \in DOMAIN AsMap(v) => m[Root] = AsMap(v)[Root]
      BY <2>1, <2>3 DEF With
    <3> HIDE DEF m
    <3>2. Of(m) = Of(AsMap(v))
      BY <3>1
    <3> HIDE DEF Of
    <3> QED
      BY <1>1, <1>4, <2>3, <3>2 DEF m, new
  <2> QED
    BY <2>2, <2>3
<1> QED
  BY <1>3, <1>4

\* What is taken of the field when y has been put at a name below the root.
PutAt(name, y, taken) ==
    IF name = NoName THEN <<>> ELSE IF name = Field THEN <<y>> ELSE taken

\* A key of more sets what it names below the root.
LEMMA BelowRootTaken ==
    ASSUME NEW v, NEW name, NEW below, NEW rest, NEW y, below[1] = name
    PROVE  /\ TakePath(Holding(v, Root, below, Holding(Child(v, Root, below), name, rest, y)), Root, Field)
                = PutAt(name, y, TakePath(v, Root, Field))
           /\ name = Field =>
                HoldsTheSame(Child(Child(v, Root, below), Field, rest), Was(TakePath(v, Root, Field)))
<1> DEFINE second == Child(v, Root, below)
           third == Child(second, Field, rest)
           taken == TakePath(v, Root, Field)
           old == Was(taken)
           inner == Holding(second, name, rest, y)
           m == AsMap(inner)
<1>1. TakePath(Holding(v, Root, below, inner), Root, Field) =
            IF Field \in DOMAIN m THEN <<m[Field]>> ELSE <<>>
  <2> DEFINE w == Holding(v, Root, below, inner)
  <2>1. AsMap(w) = With(AsMap(v), Root, inner)
    BY NamesDiffer, HoldingIs
  <2> HIDE DEF w, inner
  <2>2. Root \in DOMAIN AsMap(w) /\ AsMap(w)[Root] = inner
    BY <2>1 DEF With
  <2>3. TakePath(w, Root, Field) =
            IF Root \in DOMAIN AsMap(w) /\ Field \in DOMAIN AsMap(AsMap(w)[Root])
            THEN <<AsMap(AsMap(w)[Root])[Field]>> ELSE <<>>
    BY DEF TakePath
  <2> HIDE DEF w, inner
  <2> QED
    BY <2>2, <2>3 DEF w
<1>2. name # NoName =>
        taken = IF Field \in DOMAIN AsMap(second) THEN <<AsMap(second)[Field]>> ELSE <<>>
  <2> SUFFICES ASSUME name # NoName
               PROVE  taken = IF Field \in DOMAIN AsMap(second) THEN <<AsMap(second)[Field]>> ELSE <<>>
    OBVIOUS
  <2>1. CASE Root \in DOMAIN AsMap(v)
    <3>1. second = AsMap(v)[Root]
      BY <2>1, NamesDiffer DEF Child, NoName
    <3> QED
      BY <2>1, <3>1 DEF TakePath
  <2>2. CASE Root \notin DOMAIN AsMap(v)
    <3>1. second = Map(NoEntries)
      BY <2>2, NamesDiffer DEF Child, ContainerFor, NoName
    <3>2. AsMap(second) = NoEntries /\ DOMAIN NoEntries = {}
      BY <3>1 DEF AsMap, Map, NoEntries
    <3> QED
      BY <2>2, <3>2 DEF TakePath
  <2> QED
    BY <2>1, <2>2
<1> HIDE DEF second, taken
<1>3. CASE name = NoName
  <2>1. m = NoEntries
    BY <1>3, HoldingIs
  <2>2. Field \notin DOMAIN m
    BY <2>1 DEF NoEntries
  <2> HIDE DEF m, inner
  <2> QED
    BY <1>1, <1>3, <2>2, NamesDiffer DEF second, taken, inner, PutAt
<1>4. CASE name # NoName
  <2>1. m = With(AsMap(second), name, y)
    BY <1>4, HoldingIs
  <2> HIDE DEF m, inner
  <2>2. CASE name = Field
    <3>1. Field \in DOMAIN m /\ m[Field] = y
      BY <2>1, <2>2 DEF With
    <3>2. AsList(third) = AsList(old) /\ AsMap(third) = AsMap(old)
      <4>1. CASE Field \in DOMAIN AsMap(second)
        <5>1. third = AsMap(second)[Field]
          BY <4>1, NamesDiffer DEF Child, NoName
        <5>2. taken = <<third>>
          BY <1>2, <1>4, <4>1, <5>1
        <5>3. old = third
          BY <5>2 DEF Was
        <5> QED
          BY <5>3
      <4>2. CASE Field \notin DOMAIN AsMap(second)
        <5>1. third \in {List(<<>>), Map(NoEntries)}
          BY <4>2, NamesDiffer DEF Child, ContainerFor, NoName
        <5>2. old = Null
          BY <1>2, <1>4, <4>2 DEF Was
        <5>3. AsList(third) = <<>> /\ AsMap(third) = NoEntries
          BY <5>1 DEF AsList, AsMap, List, Map
        <5>4. AsList(Null) = <<>> /\ AsMap(Null) = NoEntries
          BY DEF AsList, AsMap, Null
        <5> HIDE DEF old, third
        <5> QED
          BY <5>2, <5>3, <5>4
      <4> QED
        BY <4>1, <4>2
    <3> HIDE DEF m, inner, old, third
    <3>3. TakePath(Holding(v, Root, below, inner), Root, Field) = <<y>>
      BY <1>1, <3>1
    <3> QED
      BY <1>4, <2>2, <3>2, <3>3 DEF second, taken, inner, old, third, HoldsTheSame, PutAt
  <2>3. CASE name # Field
    <3>1. /\ Field \in DOMAIN m <=> Field \in DOMAIN AsMap(second)
          /\ Field \in DOMAIN AsMap(second) => m[Field] = AsMap(second)[Field]
      BY <2>1, <2>3 DEF With
    <3> HIDE DEF m, inner
    <3>2. TakePath(Holding(v, Root, below, inner), Root, Field) = taken
      BY <1>1, <1>2, <1>4, <3>1
    <3> QED
      BY <1>4, <2>3, <3>2 DEF second, taken, inner, PutAt
  <2> QED
    BY <2>2, <2>3
<1> QED
  BY <1>3, <1>4

\* The tree holds of the field what one more entry makes of what it held.
LEMMA EntryTaken ==
    ASSUME NEW v, NEW entry \in Entries, InReach(ParamKeySegments(entry.key))
    PROVE  TakePath(InsertPath(v, ParamKeySegments(entry.key), entry.value), Root, Field)
                = SaidNext(Field, TakePath(v, Root, Field), entry)
<1> DEFINE key == ParamKeySegments(entry.key)
           n == Len(key)
           taken == TakePath(v, Root, Field)
           value == entry.value
           new == InsertPath(v, key, value)
           said == SaidNext(Field, taken, entry)
<1>1. PICK S : key \in Seq(S) /\ key # <<>>
  BY EntriesAssumption, SegmentsOfKey
<1>2. said = CASE key = <<Root>> -> TakePath(Map(With(NoEntries, Root, value)), Root, Field)
               [] key[1] = NoName \/ (n > 1 /\ key[1] = Root /\ key[2] = NoName) -> <<>>
               [] n > 1 /\ key[1] = Root /\ key[2] = Field -> <<Update(taken, SubSeq(key, 3, n), value)>>
               [] OTHER -> taken
  BY DEF SaidNext
<1>3. InReach(key)
  OBVIOUS
<1> HIDE DEF key
<1>4. /\ n = 1 => new = Holding(v, key[1], Remaining(key, 1), value)
      /\ n > 1 => \E y : Builds(v, key, value, y)
  BY <1>1, FirstSteps
<1>5. n > 1 => Remaining(key, 1)[1] = key[2]
  BY <1>1 DEF Remaining
<1>6. n \in Nat /\ n >= 1 /\ (key = <<Root>> <=> n = 1 /\ key[1] = Root)
  <2>1. n = 1 => key = <<key[1]>>
    BY <1>1
  <2>2. Len(<<Root>>) = 1 /\ <<Root>>[1] = Root
    OBVIOUS
  <2> QED
    BY <1>1, <2>1, <2>2
<1>7. ASSUME n \in 2..4, key[1] = Root, key[2] = Field, NEW y, Builds(v, key, value, y),
             HoldsTheSame(Third(v, key), Was(taken))
      PROVE  y = Update(taken, SubSeq(key, 3, n), value)
  <2>1. CASE n = 2
    <3>1. SubSeq(key, 3, n) = <<>>
      BY <1>1, <2>1
    <3>2. Update(taken, <<>>, value) = value
      BY DEF Update
    <3> QED
      BY <1>7, <2>1, <3>1, <3>2 DEF Builds
  <2>2. CASE n \in 3..4
    <3>1. n = 4 => key[3] = NoName
      BY <1>3, <1>7 DEF InReach
    <3>2. Update(taken, SubSeq(key, 3, n), value) = Extended(Third(v, key), key, value)
      <4> HIDE DEF taken, value
      <4> QED
        BY <1>1, <1>7, <2>2, <3>1, AddsToField
    <3> QED
      BY <1>7, <2>2, <3>2 DEF Builds
  <2> QED
    BY <1>7, <2>1, <2>2
<1>8. n > 1 /\ key[1] = Root /\ key[2] = Field => n \in 2..4
  BY <1>3, <1>6 DEF InReach
<1> HIDE DEF n, taken, value, new, said
<1>9. CASE n = 1
  <2>1. TakePath(new, Root, Field) =
            IF key[1] = NoName THEN <<>>
            ELSE IF key[1] = Root THEN TakePath(Map(With(NoEntries, Root, value)), Root, Field)
            ELSE taken
    BY <1>4, <1>9, RootTaken DEF taken
  <2> QED
    BY <1>2, <1>6, <1>9, <2>1, NamesDiffer DEF key, taken, value, new, said
<1>10. CASE n > 1
  <2>1. PICK y : Builds(v, key, value, y)
    BY <1>4, <1>10
  <2> DEFINE second == Second(v, key)
             third == Third(v, key)
  <2>4. new = Holding(v, key[1], Remaining(key, 1), Holding(second, key[2], Remaining(key, 2), y))
    BY <2>1 DEF Builds, new
  <2>5. second = Child(v, key[1], Remaining(key, 1)) /\ third = Child(second, key[2], Remaining(key, 2))
    BY DEF Second, Third
  <2> HIDE DEF second, third
  <2>2. CASE key[1] # Root
    <3>1. TakePath(new, Root, Field) = IF key[1] = NoName THEN <<>> ELSE taken
      BY <2>4, <2>2, RootTaken DEF taken
    <3> QED
      BY <1>2, <1>6, <2>2, <3>1 DEF key, taken, value, new, said
  <2>3. CASE key[1] = Root
    <3>1. /\ TakePath(new, Root, Field) = PutAt(key[2], y, taken)
          /\ key[2] = Field => HoldsTheSame(third, Was(taken))
      <4> DEFINE name == key[2]
                 below == Remaining(key, 1)
                 rest == Remaining(key, 2)
      <4>1. below[1] = name
        BY <1>5, <1>10
      <4>2. second = Child(v, Root, below) /\ (name = Field => third = Child(second, Field, rest))
        BY <2>3, <2>5
      <4>3. new = Holding(v, Root, below, Holding(second, name, rest, y))
        BY <2>3, <2>4
      <4> HIDE DEF name, below, rest
      <4>4. TakePath(new, Root, Field) = PutAt(name, y, taken)
        <5>1. second = Child(v, Root, below)
          BY <4>2
        <5>2. TakePath(Holding(v, Root, below, Holding(second, name, rest, y)), Root, Field)
                = PutAt(name, y, TakePath(v, Root, Field))
          BY <4>1, <5>1, BelowRootTaken
        <5> QED
          BY <4>3, <5>2 DEF taken
      <4>5. name = Field => HoldsTheSame(Child(second, Field, rest), Was(taken))
        BY <4>1, <4>2, BelowRootTaken DEF taken
      <4> QED
        BY <4>2, <4>4, <4>5 DEF name
    <3>2. key[2] = Field => y = Update(taken, SubSeq(key, 3, n), value)
      BY <1>7, <1>8, <1>10, <2>1, <2>3, <3>1 DEF third
    <3>3. said = PutAt(key[2], y, taken)
      BY <1>2, <1>6, <1>10, <2>3, <3>2, NamesDiffer DEF PutAt
    <3> QED
      BY <3>1, <3>3 DEF key, taken, value, new, said
  <2> QED
    BY <2>2, <2>3
<1> QED
  BY <1>6, <1>9, <1>10

\* What is said by a form and one more entry.
LEMMA SaidStarts == form = <<>> => Said(Field) = <<>>
<1> DEFINE Op(taken, entry) == SaidNext(Field, taken, entry)
           f == CHOOSE h : Folds(h, <<>>, Op, form)
<1> SUFFICES ASSUME form = <<>> PROVE Said(Field) = <<>>
  OBVIOUS
<1>1. Said(Field) = f[Len(form)]
  BY DEF Said, Folds
<1>2. form \in Seq({}) /\ Len(form) = 0
  OBVIOUS
<1> HIDE DEF Op
<1>3. Folds(f, <<>>, Op, form)
  BY <1>2, FoldExists
<1> HIDE DEF f
<1>4. FoldStarts(f, <<>>, Op, form)
  BY <1>2, <1>3, FoldSteps
<1> QED
  BY <1>1, <1>2, <1>4 DEF FoldStarts

LEMMA SaidGoesOn ==
    ASSUME form \in Seq(Entries), NEW entry \in Entries, form' = Append(form, entry)
    PROVE  Said(Field)' = SaidNext(Field, Said(Field), entry)
<1> DEFINE Op(taken, e) == SaidNext(Field, taken, e)
           t == Append(form, entry)
           f == CHOOSE h : Folds(h, <<>>, Op, form)
           g == CHOOSE h : Folds(h, <<>>, Op, t)
<1>1. Said(Field) = f[Len(form)]
  BY DEF Said, Folds
<1>2. t \in Seq(Entries) /\ Len(t) = Len(form) + 1
  OBVIOUS
<1>3. Said(Field)' = g[Len(t)]
  <2>1. form' = t
    OBVIOUS
  <2> QED
    BY <2>1 DEF Said, Folds
<1> HIDE DEF t, Op
<1>4. Folds(f, <<>>, Op, form)
  BY FoldExists
<1>5. Folds(g, <<>>, Op, t)
  BY <1>2, FoldExists
<1> HIDE DEF f, g
<1>6. FoldGoesOn(f, g, Op, Len(form), entry)
  BY <1>4, <1>5, FoldAppend DEF t
<1> QED
  BY <1>1, <1>2, <1>3, <1>6 DEF FoldGoesOn, Op

FormInv == form \in Seq(Entries) /\ ReadsWhatWasSent

LEMMA FormInvStep ==
    ASSUME \A entry \in Entries : InReach(ParamKeySegments(entry.key)), FormInv, [Next]_vars
    PROVE  FormInv'
<1>1. CASE InsertEntry
  <2>1. PICK entry \in Entries :
            /\ form' = Append(form, entry)
            /\ values' = InsertPath(values, ParamKeySegments(entry.key), entry.value)
    BY <1>1 DEF InsertEntry
  <2>2. form' \in Seq(Entries)
    BY <2>1 DEF FormInv
  <2>3. TakePath(values, Root, Field) = Said(Field)
    BY <1>1 DEF InsertEntry, FormInv, ReadsWhatWasSent
  <2>4. TakePath(values', Root, Field) = SaidNext(Field, TakePath(values, Root, Field), entry)
    BY <2>1, EntryTaken
  <2>5. Said(Field)' = SaidNext(Field, Said(Field), entry)
    BY <2>1, SaidGoesOn DEF FormInv
  <2>6. TakePath(values, Root, Field)' = TakePath(values', Root, Field)
    BY DEF TakePath
  <2> QED
    BY <2>2, <2>3, <2>4, <2>5, <2>6 DEF FormInv, ReadsWhatWasSent
<1>2. CASE Deserialize
  <2>1. phase' # "receiving"
    BY <1>2 DEF Deserialize
  <2>2. form' = <<>>
    BY <1>2 DEF Deserialize, Received
  <2> QED
    BY <2>1, <2>2 DEF FormInv, ReadsWhatWasSent
<1>3. CASE Create
  <2>1. phase' # "receiving" /\ form' = form
    BY <1>3 DEF Create
  <2> QED
    BY <2>1 DEF FormInv, ReadsWhatWasSent
<1>4. CASE UNCHANGED vars
  BY <1>4 DEF vars, FormInv, ReadsWhatWasSent, Said
<1> QED
  BY <1>1, <1>2, <1>3, <1>4 DEF Next

\* Whatever entries of a form come in whatever order, however deep the keys of
\* other fields are, the tree holds for a field what the entries say of it one by
\* one, if its own keys reach no deeper than a list of lists or of maps, as far
\* as the reference says what they mean.
THEOREM FormsAreRead ==
    ASSUME \A entry \in Entries : InReach(ParamKeySegments(entry.key))
    PROVE  Spec => []ReadsWhatWasSent
<1>1. Init => FormInv
  <2> SUFFICES ASSUME Init PROVE FormInv
    OBVIOUS
  <2>1. form \in Seq(Entries) /\ Said(Field) = <<>>
    BY SaidStarts DEF Init
  <2>2. TakePath(values, Root, Field) = <<>>
    <3>1. AsMap(values) = NoEntries /\ DOMAIN NoEntries = {}
      BY DEF Init, AsMap, Map, NoEntries
    <3> QED
      BY <3>1 DEF TakePath
  <2> QED
    BY <2>1, <2>2 DEF FormInv, ReadsWhatWasSent
<1>2. FormInv /\ [Next]_vars => FormInv'
  BY FormInvStep
<1>3. FormInv => ReadsWhatWasSent
  BY DEF FormInv
<1> QED
  BY <1>1, <1>2, <1>3, PTL DEF Spec
=============================================================================
