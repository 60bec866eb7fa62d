---------------------------- MODULE PagingProofs ----------------------------
(***************************************************************************)
(* Proofs about Paging: an iterator of any limit, offset and chunk size    *)
(* over any rows that come and go returns the window of its query, in full *)
(* pages, and ends with what all returns; the eager forms agree.           *)
(***************************************************************************)
EXTENDS Paging, FiniteLemmas

-----------------------------------------------------------------------------
(***************************************************************************)
(* What LIMIT and OFFSET select, and a page.                               *)
(***************************************************************************)
Size == IF plan.chunk_size = 0 THEN 1 ELSE plan.chunk_size

\* The place after the last row of a selection.
Bound(limit, offset) == IF limit = NoLimit THEN Len(rows) ELSE Least(offset + limit, Len(rows))

LEMMA SelectIs ==
    ASSUME rows \in Seq(Row), NEW offset \in Nat, NEW limit \in Nat \cup {NoLimit}
    PROVE  /\ Bound(limit, offset) \in Nat /\ Bound(limit, offset) <= Len(rows)
           /\ Select(limit, offset) = SubSeq(rows, offset + 1, Bound(limit, offset))
           /\ Select(limit, offset) \in Seq(Row)
           /\ Len(Select(limit, offset)) =
                IF offset < Bound(limit, offset) THEN Bound(limit, offset) - offset ELSE 0
           /\ \A i \in 1..Len(Select(limit, offset)) : Select(limit, offset)[i] = rows[offset + i]
<1> DEFINE n == Bound(limit, offset)
<1>1. n \in Nat /\ n <= Len(rows) /\ Len(rows) \in Nat
  BY PagingAssumption DEF Bound, Least
<1>2. Select(limit, offset) = SubSeq(rows, offset + 1, n)
  BY DEF Select, Bound
<1> HIDE DEF n
<1>3. \A i \in (offset + 1)..n : rows[i] \in Row
  BY <1>1
<1>4. /\ SubSeq(rows, offset + 1, n) \in Seq(Row)
      /\ Len(SubSeq(rows, offset + 1, n)) = IF offset + 1 <= n THEN n - (offset + 1) + 1 ELSE 0
      /\ \A i \in 1..(n - (offset + 1) + 1) : SubSeq(rows, offset + 1, n)[i] = rows[offset + 1 + i - 1]
  BY <1>1, <1>3, SubSeqProperties
<1>5. Len(SubSeq(rows, offset + 1, n)) = IF offset < n THEN n - offset ELSE 0
  BY <1>1, <1>4
<1>6. \A i \in 1..Len(SubSeq(rows, offset + 1, n)) : SubSeq(rows, offset + 1, n)[i] = rows[offset + i]
  BY <1>1, <1>4, <1>5
<1> QED
  BY <1>1, <1>2, <1>4, <1>5, <1>6 DEF n

\* A page begins where the rows returned so far end; it is short only if the rows
\* are, and no longer than what is left of the limit.
LEMMA PageIs ==
    ASSUME rows \in Seq(Row), plan \in Plan, consumed \in Nat,
           plan.limit # NoLimit => consumed <= plan.limit
    PROVE  LET from == plan.offset + consumed IN
           /\ PagedQuery \in Seq(Row) /\ from \in Nat /\ Size \in Nat \ {0}
           /\ ChunkLimit \in Nat /\ ChunkLimit <= Size
           /\ RemainingLimit # 0 => ChunkLimit > 0
           /\ plan.limit # NoLimit => RemainingLimit = plan.limit - consumed /\ ChunkLimit <= RemainingLimit
           /\ RemainingLimit = NoLimit <=> plan.limit = NoLimit
           /\ ChunkLimit = Size \/ ChunkLimit = RemainingLimit
           /\ Len(PagedQuery) <= ChunkLimit
           /\ PagedQuery # <<>> =>
                /\ Len(PagedQuery) > 0
                /\ from + Len(PagedQuery) <= Len(rows)
                /\ PagedQuery = SubSeq(rows, from + 1, from + Len(PagedQuery))
           /\ Len(PagedQuery) < ChunkLimit => from + Len(PagedQuery) >= Len(rows)
<1> DEFINE from == plan.offset + consumed
           n == Bound(ChunkLimit, from)
<1>1. /\ plan.limit \in Nat \cup {NoLimit} /\ plan.offset \in Nat /\ plan.chunk_size \in Nat
      /\ plan.limit # NoLimit => plan.limit \in Nat
  BY PagingAssumption DEF Plan
<1>2. from \in Nat /\ Size \in Nat \ {0}
  BY <1>1 DEF Size
<1>3. /\ plan.limit = NoLimit => RemainingLimit = NoLimit
      /\ plan.limit # NoLimit => RemainingLimit \in Nat /\ RemainingLimit = plan.limit - consumed
  BY <1>1 DEF RemainingLimit
<1>4. RemainingLimit = NoLimit <=> plan.limit = NoLimit
  BY <1>3, PagingAssumption
<1>5. ChunkLimit = IF RemainingLimit = NoLimit THEN Size ELSE Least(RemainingLimit, Size)
  BY DEF ChunkLimit, Size
<1>6. /\ ChunkLimit \in Nat /\ ChunkLimit <= Size
      /\ RemainingLimit # 0 => ChunkLimit > 0
      /\ plan.limit # NoLimit => ChunkLimit <= RemainingLimit
      /\ ChunkLimit = Size \/ ChunkLimit = RemainingLimit
  BY <1>2, <1>3, <1>4, <1>5 DEF Least
<1>7. PagedQuery = Select(ChunkLimit, from)
  BY DEF PagedQuery
<1>8. n = Least(from + ChunkLimit, Len(rows)) /\ n \in Nat /\ n <= Len(rows) /\ n <= from + ChunkLimit
      /\ (n < from + ChunkLimit => n = Len(rows)) /\ Len(rows) \in Nat
  BY <1>2, <1>6, PagingAssumption DEF Bound, Least
<1> HIDE DEF from, n
<1>9. /\ PagedQuery \in Seq(Row) /\ PagedQuery = SubSeq(rows, from + 1, n)
      /\ Len(PagedQuery) = IF from < n THEN n - from ELSE 0
  BY <1>2, <1>6, <1>7, SelectIs DEF n
<1>10. Len(PagedQuery) <= ChunkLimit
  BY <1>2, <1>6, <1>8, <1>9
<1>11. ASSUME PagedQuery # <<>>
       PROVE  /\ Len(PagedQuery) > 0
              /\ from + Len(PagedQuery) <= Len(rows)
              /\ PagedQuery = SubSeq(rows, from + 1, from + Len(PagedQuery))
  <2>1. Len(PagedQuery) > 0
    BY <1>9, <1>11, EmptySeq
  <2>2. from + Len(PagedQuery) = n
    BY <1>2, <1>8, <1>9, <2>1
  <2> QED
    BY <1>8, <1>9, <2>1, <2>2
<1>12. Len(PagedQuery) < ChunkLimit => from + Len(PagedQuery) >= Len(rows)
  BY <1>2, <1>6, <1>8, <1>9
<1> QED
  BY <1>2, <1>3, <1>4, <1>6, <1>9, <1>10, <1>11, <1>12 DEF from

-----------------------------------------------------------------------------
(***************************************************************************)
(* The invariant.  That only the last page may be short says nothing about  *)
(* an iterator that goes on: FullInv adds that such a one has only full     *)
(* pages so far.                                                            *)
(***************************************************************************)
FullInv ==
    \A k \in DOMAIN pages :
        /\ Len(pages[k]) \in 1..Size
        /\ (k < Len(pages) \/ ~done) => Len(pages[k]) = Size

PagingInv == TypeOK /\ PagesAreTheWindow /\ FullInv

LEMMA SameWindow ==
    ASSUME NEW S, NEW s \in Seq(S), NEW t \in Seq(S), NEW m \in Nat \ {0}, NEW n \in Nat,
           n <= Len(s), n <= Len(t), \A i \in m..n : s[i] = t[i]
    PROVE  SubSeq(s, m, n) = SubSeq(t, m, n)
<1>1. /\ SubSeq(s, m, n) \in Seq(S) /\ SubSeq(t, m, n) \in Seq(S)
      /\ Len(SubSeq(s, m, n)) = IF m <= n THEN n - m + 1 ELSE 0
      /\ Len(SubSeq(t, m, n)) = IF m <= n THEN n - m + 1 ELSE 0
      /\ \A i \in 1..(n - m + 1) : SubSeq(s, m, n)[i] = s[m + i - 1]
      /\ \A i \in 1..(n - m + 1) : SubSeq(t, m, n)[i] = t[m + i - 1]
  <2>1. \A i \in m..n : s[i] \in S /\ t[i] \in S
    OBVIOUS
  <2> QED
    BY <2>1, SubSeqProperties
<1>2. \A i \in 1..Len(SubSeq(s, m, n)) : SubSeq(s, m, n)[i] = SubSeq(t, m, n)[i]
  <2> SUFFICES ASSUME NEW i \in 1..Len(SubSeq(s, m, n)) PROVE SubSeq(s, m, n)[i] = SubSeq(t, m, n)[i]
    OBVIOUS
  <2>1. i \in 1..(n - m + 1) /\ m + i - 1 \in m..n
    BY <1>1
  <2> QED
    BY <1>1, <2>1
<1> QED
  BY <1>1, <1>2, SeqEqual

\* Rows before the place of an insertion or deletion stay where they are.
LEMMA InsertAtIs ==
    ASSUME NEW S, NEW s \in Seq(S), NEW i \in 1..(Len(s) + 1), NEW e \in S
    PROVE  /\ InsertAt(s, i, e) \in Seq(S) /\ Len(InsertAt(s, i, e)) = Len(s) + 1
           /\ \A j \in 1..(i - 1) : InsertAt(s, i, e)[j] = s[j]
<1> DEFINE a == SubSeq(s, 1, i - 1)
           b == SubSeq(s, i, Len(s))
<1>1. /\ a \in Seq(S) /\ Len(a) = i - 1 /\ \A j \in 1..(i - 1) : a[j] = s[j]
      /\ b \in Seq(S) /\ Len(b) = Len(s) - i + 1
  BY SubSeqProperties
<1>2. InsertAt(s, i, e) = (a \o <<e>>) \o b
  BY DEF InsertAt
<1> HIDE DEF a, b
<1>3. /\ a \o <<e>> \in Seq(S) /\ Len(a \o <<e>>) = i
      /\ \A j \in 1..(i - 1) : (a \o <<e>>)[j] = s[j]
  BY <1>1, ConcatProperties
<1>4. /\ (a \o <<e>>) \o b \in Seq(S) /\ Len((a \o <<e>>) \o b) = Len(s) + 1
      /\ \A j \in 1..(i - 1) : ((a \o <<e>>) \o b)[j] = s[j]
  BY <1>1, <1>3, ConcatProperties
<1> QED
  BY <1>2, <1>4

LEMMA RemoveAtIs ==
    ASSUME NEW S, NEW s \in Seq(S), NEW i \in 1..Len(s)
    PROVE  /\ RemoveAt(s, i) \in Seq(S) /\ Len(RemoveAt(s, i)) = Len(s) - 1
           /\ \A j \in 1..(i - 1) : RemoveAt(s, i)[j] = s[j]
<1> DEFINE a == SubSeq(s, 1, i - 1)
           b == SubSeq(s, i + 1, Len(s))
<1>1. /\ a \in Seq(S) /\ Len(a) = i - 1 /\ \A j \in 1..(i - 1) : a[j] = s[j]
      /\ b \in Seq(S) /\ Len(b) = Len(s) - i
  BY SubSeqProperties
<1>2. RemoveAt(s, i) = a \o b
  BY DEF RemoveAt
<1> HIDE DEF a, b
<1>3. /\ a \o b \in Seq(S) /\ Len(a \o b) = Len(s) - 1
      /\ \A j \in 1..(i - 1) : (a \o b)[j] = s[j]
  <2>1. /\ a \o b \in Seq(S) /\ Len(a \o b) = Len(a) + Len(b)
        /\ \A j \in 1..(Len(a) + Len(b)) : (a \o b)[j] = IF j <= Len(a) THEN a[j] ELSE b[j - Len(a)]
    BY <1>1, ConcatProperties
  <2>2. Len(s) \in Nat /\ i \in Nat /\ i <= Len(s)
    OBVIOUS
  <2> QED
    BY <1>1, <2>1, <2>2
<1> QED
  BY <1>2, <1>3

LEMMA PagingInit == Init => PagingInv
<1> SUFFICES ASSUME Init PROVE PagingInv
  OBVIOUS
<1>1. PICK n \in 0..MaxRows : rows \in [1..n -> Row]
  BY DEF Init
<1>2. rows \in Seq(Row) /\ Len(rows) <= MaxRows
  BY <1>1, PagingAssumption
<1>3. Returned = <<>> /\ Len(Returned) = 0
  BY DEF Init, Returned, FlattenSeq
<1>4. plan.limit # NoLimit => plan.limit \in Nat
  BY PagingAssumption DEF Init, Plan
<1>5. TypeOK
  <2>1. done \in BOOLEAN /\ failed \in BOOLEAN /\ shifted \in BOOLEAN
    BY DEF Init
  <2>2. consumed = 0 /\ plan \in Plan /\ pages \in Seq(Seq(Row)) /\ (plan.limit # NoLimit => consumed <= plan.limit)
    BY <1>4 DEF Init
  <2> QED
    BY <1>2, <1>3, <2>1, <2>2 DEF TypeOK
<1>6. PagesAreTheWindow
  BY DEF Init, PagesAreTheWindow
<1>7. FullInv
  BY DEF Init, FullInv
<1> QED
  BY <1>5, <1>6, <1>7 DEF PagingInv

LEMMA Adjacent ==
    ASSUME NEW S, NEW s \in Seq(S), NEW o \in Nat, NEW c \in Nat, NEW l \in Nat, o + c + l <= Len(s)
    PROVE  SubSeq(s, o + 1, o + c) \o SubSeq(s, o + c + 1, o + c + l) = SubSeq(s, o + 1, o + c + l)
<1> DEFINE m == o + 1
           k == o + c
           n == o + c + l
<1>1. m \in 1..(Len(s) + 1) /\ k \in (m - 1)..Len(s) /\ n \in k..Len(s)
  OBVIOUS
<1> HIDE DEF m, k, n
<1>2. SubSeq(s, m, k) \o SubSeq(s, k + 1, n) = SubSeq(s, m, n)
  BY <1>1, ConcatAdjacentSubSeq
<1> QED
  BY <1>2 DEF m, k, n

\* A page that is returned: it continues the window, and is full or the last.
LEMMA YieldReturns ==
    ASSUME PagingInv, Yield
    PROVE  /\ pages' \in Seq(Seq(Row)) /\ Len(pages') = Len(pages) + 1
           /\ pages'[Len(pages) + 1] = PagedQuery
           /\ \A k \in 1..Len(pages) : pages'[k] = pages[k]
           /\ Returned' = Returned \o PagedQuery
           /\ Returned' \in Seq(Row)
           /\ Len(Returned') = consumed + Len(PagedQuery)
           /\ ~shifted => Returned' = SubSeq(rows, plan.offset + 1, plan.offset + consumed + Len(PagedQuery))
<1>1. /\ rows \in Seq(Row) /\ plan \in Plan /\ consumed \in Nat /\ pages \in Seq(Seq(Row))
      /\ consumed = Len(Returned) /\ (plan.limit # NoLimit => consumed <= plan.limit)
  BY DEF PagingInv, TypeOK
<1> DEFINE p == PagedQuery
           from == plan.offset + consumed
<1>2. /\ p \in Seq(Row) /\ from \in Nat /\ Len(p) > 0 /\ from + Len(p) <= Len(rows)
      /\ p = SubSeq(rows, from + 1, from + Len(p)) /\ plan.offset \in Nat
  BY <1>1, PageIs DEF Yield, Plan
<1>3. pages' = Append(pages, p) /\ rows' = rows /\ plan' = plan
  BY DEF Yield
<1> HIDE DEF p
<1>9. Len(rows) \in Nat /\ Len(p) \in Nat
  BY <1>1, <1>2, LenProperties
<1>4. Returned' = FlattenSeq(Append(pages, p)) /\ Returned = FlattenSeq(pages)
  BY <1>3 DEF Returned
<1>5. Returned \in Seq(Row) /\ Returned' = Returned \o p
  BY <1>1, <1>2, <1>4, FlattenAppend, FlattenType
<1>6. Returned' \in Seq(Row) /\ Len(Returned') = consumed + Len(p)
  BY <1>1, <1>2, <1>5, ConcatProperties
<1>7. ASSUME ~shifted PROVE Returned' = SubSeq(rows, plan.offset + 1, plan.offset + consumed + Len(p))
  <2>1. CASE consumed = 0
    <3>1. Returned = <<>>
      BY <1>1, <1>5, <2>1, EmptySeq
    <3>2. Returned' = p
      BY <1>2, <1>5, <3>1, ConcatEmptySeq
    <3>3. from = plan.offset /\ plan.offset + consumed + Len(p) = from + Len(p)
      BY <1>2, <2>1
    <3> QED
      BY <1>2, <3>2, <3>3
  <2>2. CASE consumed > 0
    <3>1. Returned = SubSeq(rows, plan.offset + 1, from) /\ from <= Len(rows)
      BY <1>7, <2>2 DEF PagingInv, PagesAreTheWindow
    <3>2. plan.offset \in Nat /\ consumed \in Nat /\ from + Len(p) <= Len(rows)
      BY <1>1, <1>2
    <3>3. SubSeq(rows, plan.offset + 1, from) \o SubSeq(rows, from + 1, from + Len(p))
            = SubSeq(rows, plan.offset + 1, from + Len(p))
      <4>1. plan.offset + consumed + Len(p) <= Len(rows)
        BY <3>2
      <4>2. SubSeq(rows, plan.offset + 1, plan.offset + consumed)
              \o SubSeq(rows, plan.offset + consumed + 1, plan.offset + consumed + Len(p))
              = SubSeq(rows, plan.offset + 1, plan.offset + consumed + Len(p))
        <5>1. rows \in Seq(Row)
          BY <1>1
        <5> HIDE DEF from
        <5>2. \A o, c, l \in Nat : o + c + l <= Len(rows) =>
                SubSeq(rows, o + 1, o + c) \o SubSeq(rows, o + c + 1, o + c + l) = SubSeq(rows, o + 1, o + c + l)
          BY <5>1, Adjacent
        <5> QED
          BY <1>9, <3>2, <4>1, <5>2, Zenon
      <4> QED
        BY <4>2
    <3> QED
      BY <1>2, <1>5, <3>1, <3>3
  <2> QED
    BY <1>1, <2>1, <2>2
<1>8. /\ pages' \in Seq(Seq(Row)) /\ Len(pages') = Len(pages) + 1 /\ pages'[Len(pages) + 1] = p
      /\ \A k \in 1..Len(pages) : pages'[k] = pages[k]
  BY <1>1, <1>2, <1>3, AppendProperties
<1> QED
  BY <1>5, <1>6, <1>7, <1>8 DEF p

\* What the invariant says of a page that is returned.
LEMMA PageFits ==
    ASSUME PagingInv
    PROVE  /\ plan.offset \in Nat /\ consumed \in Nat /\ Size \in Nat \ {0}
           /\ (plan.limit # NoLimit) => (plan.limit \in Nat /\ consumed <= plan.limit
                    /\ RemainingLimit = plan.limit - consumed)
           /\ (RemainingLimit = NoLimit) <=> (plan.limit = NoLimit)
           /\ PagedQuery \in Seq(Row)
           /\ Len(PagedQuery) \in Nat /\ Len(PagedQuery) <= ChunkLimit /\ ChunkLimit <= Size
           /\ plan.limit # NoLimit => consumed + Len(PagedQuery) <= plan.limit
           /\ ChunkLimit = Size \/ ChunkLimit = RemainingLimit
           /\ RemainingLimit # 0 => ChunkLimit > 0
           /\ ChunkLimit \in Nat
           /\ (PagedQuery # <<>>) => (Len(PagedQuery) > 0 /\ plan.offset + consumed + Len(PagedQuery) <= Len(rows))
           /\ Len(PagedQuery) < ChunkLimit => plan.offset + consumed + Len(PagedQuery) >= Len(rows)
<1>1. /\ rows \in Seq(Row) /\ plan \in Plan /\ consumed \in Nat
      /\ (plan.limit # NoLimit => consumed <= plan.limit)
  BY DEF PagingInv, TypeOK
<1>2. plan.offset \in Nat /\ (plan.limit # NoLimit => plan.limit \in Nat)
  BY <1>1, PagingAssumption DEF Plan
<1>3. PagedQuery \in Seq(Row) /\ Len(PagedQuery) \in Nat
  BY <1>1, PageIs
<1> QED
  BY <1>1, <1>2, <1>3, PageIs

\* Of a page that comes before the end: it is full, or the iteration is over.
LEMMA FullStep ==
    ASSUME PagingInv, Yield,
           done' \/ Len(PagedQuery) = Size
    PROVE  FullInv'
<1>1. Size' = Size /\ ~done
  BY DEF Yield, Size
<1>2. Len(PagedQuery) \in 1..Size /\ Len(pages) \in Nat /\ pages \in Seq(Seq(Row))
  <2>1. PagedQuery # <<>> /\ pages \in Seq(Seq(Row))
    BY DEF Yield, PagingInv, TypeOK
  <2>2. Len(pages) \in Nat
    BY <2>1
  <2>3. Len(PagedQuery) \in Nat /\ Len(PagedQuery) > 0 /\ Len(PagedQuery) <= Size /\ Size \in Nat
    BY <2>1, PageFits
  <2> QED
    BY <2>1, <2>2, <2>3
<1>3. \A k \in 1..Len(pages) : Len(pages[k]) = Size
  BY <1>1, <1>2 DEF PagingInv, FullInv
<1>4. /\ DOMAIN pages' = 1..(Len(pages) + 1) /\ Len(pages') = Len(pages) + 1
      /\ pages'[Len(pages) + 1] = PagedQuery
      /\ \A k \in 1..Len(pages) : pages'[k] = pages[k]
  <2>1. pages' \in Seq(Seq(Row)) /\ Len(pages') = Len(pages) + 1
    BY YieldReturns
  <2> QED
    BY <2>1, YieldReturns
<1>5. \A k \in 1..(Len(pages) + 1) : k \in 1..Len(pages) \/ k = Len(pages) + 1
  BY <1>2
<1>6. ASSUME NEW k \in 1..(Len(pages) + 1)
      PROVE  /\ Len(pages'[k]) \in 1..Size
             /\ (k < Len(pages) + 1 \/ ~done') => Len(pages'[k]) = Size
  <2>1. CASE k \in 1..Len(pages)
    <3>1. Len(pages'[k]) = Size
      BY <1>3, <1>4, <2>1
    <3>2. Size \in Nat \ {0}
      BY PageFits
    <3>3. Size \in 1..Size
      BY <3>2
    <3> QED
      BY <3>1, <3>3
  <2>2. CASE k = Len(pages) + 1
    <3>1. Len(pages'[k]) \in 1..Size
      BY <1>2, <1>4, <2>2
    <3>2. ~done' => Len(pages'[k]) = Size
      BY <1>4, <2>2
    <3>3. ~(k < Len(pages) + 1)
      BY <1>2, <2>2
    <3> QED
      BY <3>1, <3>2, <3>3
  <2> QED
    BY <1>5, <2>1, <2>2
<1> QED
  BY <1>1, <1>4, <1>6 DEF FullInv

\* The rest of the invariant, whatever the iterator counts.
LEMMA YieldKeeps ==
    ASSUME PagingInv, Yield, consumed' = consumed + Len(PagedQuery), done' \in BOOLEAN
    PROVE  TypeOK' /\ PagesAreTheWindow'
<1>1. /\ rows \in Seq(Row) /\ Len(rows) <= MaxRows /\ plan \in Plan
      /\ failed \in BOOLEAN /\ shifted \in BOOLEAN
      /\ UNCHANGED <<rows, plan, failed, shifted>>
  BY DEF PagingInv, TypeOK, Yield
<1>2. /\ consumed' \in Nat /\ pages' \in Seq(Seq(Row)) /\ consumed' = Len(Returned')
      /\ plan.limit # NoLimit => consumed' <= plan.limit
  BY PageFits, YieldReturns
<1>3. TypeOK'
  BY <1>1, <1>2 DEF TypeOK
<1>4. ~shifted => plan.offset + consumed' <= Len(rows)
                  /\ Returned' = SubSeq(rows, plan.offset + 1, plan.offset + consumed')
  <2>1. plan.offset + consumed' = plan.offset + consumed + Len(PagedQuery)
    BY PageFits
  <2>2. plan.offset + consumed + Len(PagedQuery) <= Len(rows)
    BY PageFits DEF Yield
  <2> QED
    BY <2>1, <2>2, YieldReturns
<1>5. PagesAreTheWindow'
  BY <1>1, <1>4 DEF PagesAreTheWindow
<1> QED
  BY <1>3, <1>5

LEMMA LazyStep ==
    ASSUME PagingInv, LazyNext
    PROVE  PagingInv'
<1>1. Yield /\ consumed' = consumed + 1 /\ done' = done /\ plan.chunk_size = 0 /\ done \in BOOLEAN
  BY DEF LazyNext, PagingInv, TypeOK
<1>2. Size = 1 /\ Len(PagedQuery) = 1
  <2>1. Size = 1
    BY <1>1 DEF Size
  <2>2. Len(PagedQuery) > 0
    BY <1>1, PageFits DEF Yield
  <2>3. Len(PagedQuery) \in Nat /\ Len(PagedQuery) <= ChunkLimit /\ ChunkLimit <= Size /\ ChunkLimit \in Nat
    BY PageFits
  <2> QED
    BY <2>1, <2>2, <2>3
<1>3. TypeOK' /\ PagesAreTheWindow'
  BY <1>1, <1>2, YieldKeeps
<1>4. FullInv'
  BY <1>1, <1>2, FullStep
<1> QED
  BY <1>3, <1>4 DEF PagingInv

LEMMA ChunkedStep ==
    ASSUME PagingInv, ChunkedNext
    PROVE  PagingInv'
<1>1. Yield /\ consumed' = consumed + Len(PagedQuery)
  BY DEF ChunkedNext
<1>2. done' \in BOOLEAN
  BY DEF ChunkedNext
<1>3. done' <=> (Len(PagedQuery) < ChunkLimit \/ RemainingLimit = Len(PagedQuery))
  BY DEF ChunkedNext
<1>4. done' \/ Len(PagedQuery) = Size
  BY <1>3, PageFits
<1> QED
  BY <1>1, <1>2, <1>4, YieldKeeps, FullStep DEF PagingInv

LEMMA EndStep ==
    ASSUME PagingInv, Exhausted \/ FetchFails
    PROVE  PagingInv'
<1>1. /\ UNCHANGED <<rows, plan, consumed, pages, shifted>>
      /\ Returned' = Returned /\ Size' = Size
  BY DEF Exhausted, FetchFails, Returned, Size
<1>2. done' \in BOOLEAN /\ failed' \in BOOLEAN /\ done'
  BY DEF Exhausted, FetchFails, PagingInv, TypeOK
<1>3. TypeOK'
  BY <1>1, <1>2 DEF PagingInv, TypeOK
<1> QED
  BY <1>1, <1>2, <1>3 DEF PagingInv, PagesAreTheWindow, FullInv

\* A write behind the iterator's place leaves what it has gone over.
LEMMA WriteStep ==
    ASSUME PagingInv, UNCHANGED <<plan, consumed, done, pages, failed>>,
           rows' \in Seq(Row), Len(rows') <= MaxRows, Len(rows') >= Len(rows) - 1,
           NEW place \in 1..(Len(rows) + 1),
           place \in DOMAIN rows \/ Len(rows') >= Len(rows),
           \A i \in 1..(place - 1) : rows'[i] = rows[i],
           shifted' = (shifted \/ Passed(place))
    PROVE  PagingInv'
<1>1. Returned' = Returned /\ Size' = Size /\ rows \in Seq(Row) /\ consumed \in Nat
  BY DEF Returned, Size, PagingInv, TypeOK
<1>2. shifted' \in BOOLEAN
  BY DEF PagingInv, TypeOK, Passed
<1>3. TypeOK'
  BY <1>1, <1>2 DEF PagingInv, TypeOK
<1>4. ASSUME ~shifted', consumed > 0
      PROVE  /\ plan.offset + consumed <= Len(rows')
             /\ Returned = SubSeq(rows', plan.offset + 1, plan.offset + consumed)
  <2>1. ~shifted /\ ~Passed(place)
    BY <1>4
  <2>2. place > plan.offset + consumed /\ plan.offset \in Nat
    BY <1>1, <1>4, <2>1, PageFits DEF Passed
  <2>3. /\ plan.offset + consumed <= Len(rows)
        /\ Returned = SubSeq(rows, plan.offset + 1, plan.offset + consumed)
    BY <1>4, <2>1 DEF PagingInv, PagesAreTheWindow
  <2>4. plan.offset + consumed <= Len(rows')
    BY <1>1, <2>2, <2>3
  <2>5. \A i \in (plan.offset + 1)..(plan.offset + consumed) : rows[i] = rows'[i]
    BY <1>1, <2>2
  <2>6. SubSeq(rows, plan.offset + 1, plan.offset + consumed) = SubSeq(rows', plan.offset + 1, plan.offset + consumed)
    <3>1. plan.offset + 1 \in Nat \ {0} /\ plan.offset + consumed \in Nat
      BY <1>1, <2>2
    <3>2. rows \in Seq(Row) /\ rows' \in Seq(Row)
      BY <1>1
    <3> QED
      BY <2>3, <2>4, <2>5, <3>1, <3>2, SameWindow
  <2> QED
    BY <2>3, <2>4, <2>6
<1>5. PagesAreTheWindow'
  BY <1>1, <1>4 DEF PagesAreTheWindow
<1>6. FullInv'
  BY <1>1 DEF PagingInv, FullInv
<1> QED
  BY <1>3, <1>5, <1>6 DEF PagingInv

LEMMA PagingStep ==
    ASSUME PagingInv, [Next]_vars
    PROVE  PagingInv'
<1>1. CASE Exhausted \/ FetchFails
  BY <1>1, EndStep
<1>2. CASE LazyNext
  BY <1>2, LazyStep
<1>3. CASE ChunkedNext
  BY <1>3, ChunkedStep
<1>0. rows \in Seq(Row) /\ Len(rows) <= MaxRows /\ Len(rows) \in Nat
  BY DEF PagingInv, TypeOK
<1>4. CASE Insert
  <2>1. PICK row \in Row, place \in 1..(Len(rows) + 1) :
            /\ rows' = InsertAt(rows, place, row)
            /\ shifted' = (shifted \/ Passed(place))
    BY <1>4 DEF Insert
  <2>2. /\ rows' \in Seq(Row) /\ Len(rows') = Len(rows) + 1
        /\ \A i \in 1..(place - 1) : rows'[i] = rows[i]
    BY <1>0, <2>1, InsertAtIs
  <2>3. Len(rows') <= MaxRows
    BY <1>0, <1>4, <2>2, PagingAssumption DEF Insert
  <2> QED
    BY <1>0, <1>4, <2>1, <2>2, <2>3, WriteStep DEF Insert
<1>5. CASE Delete
  <2>1. PICK place \in DOMAIN rows :
            /\ rows' = RemoveAt(rows, place)
            /\ shifted' = (shifted \/ Passed(place))
    BY <1>5 DEF Delete
  <2>2. place \in 1..Len(rows) /\ place \in 1..(Len(rows) + 1)
    BY <1>0, <2>1
  <2>3. /\ rows' \in Seq(Row) /\ Len(rows') = Len(rows) - 1
        /\ \A i \in 1..(place - 1) : rows'[i] = rows[i]
    BY <1>0, <2>1, <2>2, RemoveAtIs
  <2>4. Len(rows') <= MaxRows
    BY <1>0, <2>3, PagingAssumption
  <2> QED
    <3>1. UNCHANGED <<plan, consumed, done, pages, failed>> /\ Len(rows') >= Len(rows) - 1
      BY <1>0, <1>5, <2>3 DEF Delete
    <3> QED
      BY <2>1, <2>2, <2>3, <2>4, <3>1, WriteStep
<1>6. CASE UNCHANGED vars
  BY <1>6 DEF vars, PagingInv, TypeOK, PagesAreTheWindow, FullInv, Returned, Size
<1> QED
  BY <1>1, <1>2, <1>3, <1>4, <1>5, <1>6 DEF Next, Fetch

LEMMA PagingAlways == Spec => []PagingInv
<1>1. PagingInv /\ [Next]_vars => PagingInv'
  BY PagingStep
<1> QED
  BY <1>1, PagingInit, PTL DEF Spec

\* The iterator never returns more than its limit, however the rows move, and
\* consumed (src/src/model/query/lazy.rs:113) counts what it returned.
THEOREM PagingTypeOK == Spec => []TypeOK
BY PagingAlways, PTL DEF PagingInv

\* As long as no row before its place came or went, an iterator has returned the
\* rows from its offset on, none twice and none left out: every page asks for the
\* offset and what was consumed (paged_query, src/src/model/query.rs:217).
THEOREM WindowIsKept == Spec => []PagesAreTheWindow
BY PagingAlways, PTL DEF PagingInv

LEMMA FullPages == FullInv => PagesAreFull
  BY DEF FullInv, PagesAreFull, Size

\* "Fetches matching rows in chunks" (src/src/model/query/chunked.rs:11): no chunk
\* is empty and only the last may be short.
THEOREM ChunksAreFull == Spec => []PagesAreFull
BY FullPages, PagingAlways, PTL DEF PagingInv

LEMMA LeastOne == \A n \in Nat : n >= 1 => Least(1, n) = 1
BY DEF Least

LEMMA AllIs ==
    ASSUME PagingInv
    PROVE  LET B == Bound(plan.limit, plan.offset) IN
           /\ rows \in Seq(Row) /\ Len(rows) \in Nat /\ plan.offset \in Nat
           /\ plan.limit # NoLimit => plan.limit \in Nat
           /\ B \in Nat /\ B <= Len(rows)
           /\ plan.limit = NoLimit => B = Len(rows)
           /\ plan.limit # NoLimit => B = Least(plan.offset + plan.limit, Len(rows))
           /\ All \in Seq(Row) /\ All = SubSeq(rows, plan.offset + 1, B)
           /\ Len(All) = IF plan.offset < B THEN B - plan.offset ELSE 0
           /\ \A i \in 1..Len(All) : All[i] = rows[plan.offset + i]
<1>1. rows \in Seq(Row) /\ plan.offset \in Nat /\ plan.limit \in Nat \cup {NoLimit}
  BY PagingAssumption DEF PagingInv, TypeOK, Plan
<1>2. Len(rows) \in Nat
  BY <1>1
<1> QED
  BY <1>1, <1>2, SelectIs DEF All, Bound

LEMMA FormsAgree ==
    ASSUME PagingInv
    PROVE  EagerFormsAgree
<1> DEFINE B == Bound(plan.limit, plan.offset)
           C == Bound(LimitOne, plan.offset)
           O == Select(LimitOne, plan.offset)
<1>1. /\ rows \in Seq(Row) /\ Len(rows) \in Nat /\ plan.offset \in Nat
      /\ plan.limit # NoLimit => plan.limit \in Nat
      /\ B \in Nat /\ B <= Len(rows)
      /\ plan.limit = NoLimit => B = Len(rows)
      /\ plan.limit # NoLimit => B = Least(plan.offset + plan.limit, Len(rows))
      /\ All \in Seq(Row)
      /\ Len(All) = IF plan.offset < B THEN B - plan.offset ELSE 0
      /\ \A i \in 1..Len(All) : All[i] = rows[plan.offset + i]
  BY AllIs
<1>2. /\ LimitOne \in Nat /\ LimitOne <= 1
      /\ LimitOne = 0 <=> plan.limit = 0
  BY <1>1, PagingAssumption DEF LimitOne, Least
<1>3. /\ O \in Seq(Row) /\ Len(O) = IF plan.offset < C THEN C - plan.offset ELSE 0
      /\ C = Least(plan.offset + LimitOne, Len(rows))
      /\ \A i \in 1..Len(O) : O[i] = rows[plan.offset + i]
  <2>1. LimitOne # NoLimit
    BY <1>2, PagingAssumption
  <2>2. C = Least(plan.offset + LimitOne, Len(rows))
    BY <2>1 DEF Bound
  <2>3. C \in Nat /\ C <= Len(rows)
    BY <1>1, <1>2, <2>2 DEF Least
  <2>4. LimitOne \in Nat \cup {NoLimit}
    BY <1>2
  <2>5. /\ O = SubSeq(rows, plan.offset + 1, C) /\ O \in Seq(Row)
        /\ Len(O) = IF plan.offset < C THEN C - plan.offset ELSE 0
        /\ \A i \in 1..Len(O) : O[i] = rows[plan.offset + i]
    BY <1>1, <2>4, SelectIs
  <2> QED
    BY <2>2, <2>5
<1> HIDE DEF B, C, O
<1>4. Count = Len(All)
  BY <1>1 DEF Count, All
<1>5. Len(O) = Least(1, Len(All))
  <2>1. Len(All) \in Nat
    BY <1>1
  <2>2. CASE plan.limit = 0
    <3>1. LimitOne = 0 /\ B <= plan.offset /\ C <= plan.offset
      BY <1>1, <1>2, <1>3, <2>2, PagingAssumption DEF Least
    <3>2. Len(O) = 0 /\ Len(All) = 0
      BY <1>1, <1>3, <3>1, <2>2, PagingAssumption DEF Least
    <3> QED
      BY <3>2 DEF Least
  <2>3. CASE plan.limit # 0
    <3>1. LimitOne = 1
      BY <1>2, <2>3
    <3>2. CASE plan.offset < Len(rows)
      <4>1. C = plan.offset + 1
        BY <1>1, <1>3, <3>1, <3>2 DEF Least
      <4>2. Len(O) = 1
        BY <1>1, <1>3, <4>1
      <4>3. B > plan.offset
        <5>1. CASE plan.limit = NoLimit
          BY <1>1, <3>2, <5>1
        <5>2. CASE plan.limit # NoLimit
          <6>1. plan.limit \in Nat /\ plan.limit > 0
            BY <1>1, <2>3, <5>2
          <6>2. B = Least(plan.offset + plan.limit, Len(rows))
            BY <1>1, <5>2
          <6> QED
            BY <1>1, <3>2, <6>1, <6>2 DEF Least
        <5> QED
          BY <5>1, <5>2
      <4>4. Len(All) >= 1
        BY <1>1, <4>3
      <4> QED
        BY <2>1, <4>2, <4>4, LeastOne
    <3>3. CASE plan.offset >= Len(rows)
      <4>1. C = Len(rows)
        BY <1>1, <1>3, <3>1, <3>3 DEF Least
      <4>2. Len(O) = 0 /\ Len(All) = 0
        BY <1>1, <1>3, <3>3, <4>1
      <4> QED
        BY <4>2 DEF Least
    <3> QED
      BY <1>1, <3>2, <3>3
  <2> QED
    BY <2>2, <2>3
<1>6. First = SubSeq(All, 1, Least(1, Len(All)))
  <2> DEFINE n == Least(1, Len(All))
  <2>1. n \in Nat /\ n <= Len(All) /\ Len(All) \in Nat
    BY <1>1 DEF Least
  <2> HIDE DEF n
  <2>2. /\ SubSeq(All, 1, n) \in Seq(Row) /\ Len(SubSeq(All, 1, n)) = n
        /\ \A i \in 1..n : SubSeq(All, 1, n)[i] = All[i]
    <3>1. \A i \in 1..n : All[i] \in Row
      BY <1>1, <2>1
    <3>2. /\ SubSeq(All, 1, n) \in Seq(Row) /\ Len(SubSeq(All, 1, n)) = IF 1 <= n THEN n - 1 + 1 ELSE 0
          /\ \A i \in 1..(n - 1 + 1) : SubSeq(All, 1, n)[i] = All[1 + i - 1]
      BY <2>1, <3>1, SubSeqProperties
    <3> QED
      BY <2>1, <3>2
  <2>3. Len(O) = n
    BY <1>5 DEF n
  <2>4. \A i \in 1..Len(O) : O[i] = SubSeq(All, 1, n)[i]
    BY <1>1, <1>3, <2>1, <2>2, <2>3
  <2>5. O = SubSeq(All, 1, n)
    BY <1>3, <2>2, <2>3, <2>4, SeqEqual
  <2> QED
    BY <2>5 DEF First, O, n
<1>7. Exists <=> All # <<>>
  <2>1. (O = <<>> <=> Len(O) = 0) /\ (All = <<>> <=> Len(All) = 0)
    BY <1>1, <1>3, EmptySeq
  <2>2. Len(O) = 0 <=> Len(All) = 0
    BY <1>1, <1>5 DEF Least
  <2> QED
    BY <2>1, <2>2 DEF Exists, O
<1> QED
  BY <1>4, <1>6, <1>7 DEF EagerFormsAgree

\* all, first, count and exists answer for the same rows: count goes through a
\* subquery when there is a limit or an offset, first and exists take one of what
\* the limit leaves (src/src/model/query.rs:180).
THEOREM EagerFormsAlwaysAgree == Spec => []EagerFormsAgree
<1>1. PagingInv => EagerFormsAgree
  BY FormsAgree
<1> QED
  BY <1>1, PagingAlways, PTL

\* An iterator that has used its limit up, or has gone over the last row, has
\* returned what all would.
LEMMA EndsThere ==
    ASSUME PagingInv, PagingInv', UNCHANGED <<rows, plan, shifted>>,
           \/ plan.limit # NoLimit /\ consumed' = plan.limit
           \/ plan.offset + consumed' >= Len(rows)
    PROVE  /\ consumed' >= Len(All)
           /\ ~shifted => FlattenSeq(pages') = All
<1> DEFINE B == Bound(plan.limit, plan.offset)
           c == consumed'
<1>1. /\ rows \in Seq(Row) /\ Len(rows) \in Nat /\ plan.offset \in Nat
      /\ plan.limit # NoLimit => plan.limit \in Nat
      /\ B \in Nat /\ B <= Len(rows)
      /\ plan.limit = NoLimit => B = Len(rows)
      /\ plan.limit # NoLimit => B = Least(plan.offset + plan.limit, Len(rows))
      /\ All \in Seq(Row) /\ All = SubSeq(rows, plan.offset + 1, B)
      /\ Len(All) = IF plan.offset < B THEN B - plan.offset ELSE 0
  BY AllIs
<1>2. /\ c \in Nat /\ c = Len(FlattenSeq(pages')) /\ pages' \in Seq(Seq(Row))
      /\ plan.limit # NoLimit => c <= plan.limit
      /\ (~shifted /\ c > 0) => /\ plan.offset + c <= Len(rows)
                                /\ FlattenSeq(pages') = SubSeq(rows, plan.offset + 1, plan.offset + c)
  BY DEF PagingInv, TypeOK, PagesAreTheWindow, Returned
<1>3. (plan.limit # NoLimit /\ c = plan.limit) \/ plan.offset + c >= Len(rows)
  OBVIOUS
<1> HIDE DEF B, c
<1>n. plan.offset \in Nat /\ Len(rows) \in Nat /\ B \in Nat /\ c \in Nat /\ B <= Len(rows)
  BY <1>1, <1>2
<1>b. B <= plan.offset + c
  <2>1. CASE plan.offset + c >= Len(rows)
    BY <1>n, <2>1
  <2>2. CASE plan.limit # NoLimit /\ c = plan.limit
    <3>1. B = Least(plan.offset + c, Len(rows))
      BY <1>1, <2>2
    <3> QED
      BY <1>n, <3>1 DEF Least
  <2> QED
    BY <1>3, <2>1, <2>2
<1>4. c >= Len(All)
  <2>1. Len(All) = IF plan.offset < B THEN B - plan.offset ELSE 0
    BY <1>1
  <2> QED
    BY <1>n, <1>b, <2>1
<1>5. ASSUME ~shifted PROVE FlattenSeq(pages') = All
  <2>1. CASE c = 0
    <3>1. Len(All) = 0 /\ Len(FlattenSeq(pages')) = 0 /\ FlattenSeq(pages') \in Seq(Row)
      BY <1>1, <1>2, <1>4, <2>1, FlattenType
    <3> QED
      BY <1>1, <3>1, EmptySeq
  <2>2. CASE c > 0
    <3>1. B = plan.offset + c
      <4>1. plan.offset + c <= Len(rows)
        BY <1>2, <1>5, <2>2
      <4>2. B >= plan.offset + c
        <5>1. CASE plan.limit = NoLimit
          <6>1. B = Len(rows)
            BY <1>1, <5>1
          <6> QED
            BY <4>1, <6>1
        <5>2. CASE plan.limit # NoLimit
          <6>1. B = Least(plan.offset + plan.limit, Len(rows)) /\ c <= plan.limit /\ plan.limit \in Nat
            BY <1>1, <1>2, <5>2
          <6> QED
            BY <1>n, <4>1, <6>1 DEF Least
        <5> QED
          BY <5>1, <5>2
      <4> QED
        BY <1>n, <1>b, <4>2
    <3> QED
      BY <1>1, <1>2, <1>5, <2>2, <3>1
  <2> QED
    BY <1>2, <2>1, <2>2
<1> QED
  BY <1>4, <1>5 DEF c

LEMMA EndsStep ==
    ASSUME PagingInv, Next, done', ~done, ~failed'
    PROVE  /\ consumed' >= Len(All)
           /\ ~shifted => FlattenSeq(pages') = All
<1>1. PagingInv'
  BY PagingStep
<1>2. Exhausted \/ ChunkedNext
  BY DEF Next, Fetch, LazyNext, FetchFails, Insert, Delete
<1>3. UNCHANGED <<rows, plan, shifted>>
  BY <1>2 DEF Exhausted, ChunkedNext, Yield
<1>4. /\ plan.offset \in Nat /\ consumed \in Nat
      /\ (plan.limit # NoLimit) => (plan.limit \in Nat /\ RemainingLimit = plan.limit - consumed)
      /\ (RemainingLimit = NoLimit) <=> (plan.limit = NoLimit)
      /\ Len(PagedQuery) \in Nat
      /\ RemainingLimit # 0 => ChunkLimit > 0
      /\ Len(PagedQuery) < ChunkLimit => plan.offset + consumed + Len(PagedQuery) >= Len(rows)
      /\ Len(rows) \in Nat
  BY PageFits, AllIs
<1>5. \/ plan.limit # NoLimit /\ consumed' = plan.limit
      \/ plan.offset + consumed' >= Len(rows)
  <2>1. CASE Exhausted
    <3>1. consumed' = consumed /\ (RemainingLimit = 0 \/ PagedQuery = <<>>)
      BY <2>1 DEF Exhausted
    <3>2. CASE RemainingLimit = 0
      BY <1>4, <3>1, <3>2, PagingAssumption
    <3>3. CASE RemainingLimit # 0
      <4>1. Len(PagedQuery) = 0
        BY <3>1, <3>3
      <4> QED
        BY <1>4, <3>1, <3>3, <4>1
    <3> QED
      BY <3>2, <3>3
  <2>2. CASE ChunkedNext
    <3>1. /\ consumed' = consumed + Len(PagedQuery)
          /\ Len(PagedQuery) < ChunkLimit \/ RemainingLimit = Len(PagedQuery)
      BY <2>2 DEF ChunkedNext
    <3>2. CASE Len(PagedQuery) < ChunkLimit
      BY <1>4, <3>1, <3>2
    <3>3. CASE RemainingLimit = Len(PagedQuery)
      BY <1>4, <3>1, <3>3, PagingAssumption
    <3> QED
      BY <3>1, <3>2, <3>3
  <2> QED
    BY <1>2, <2>1, <2>2
<1> QED
  BY <1>1, <1>3, <1>5, EndsThere

\* An iteration that ends without an error has returned at least as many rows as
\* all would have then, and if none before its place moved the same ones: a short
\* chunk, an empty page and a limit used up end it, and nothing else
\* (src/src/model/query/chunked.rs:150).
THEOREM IterationsEndWithAll == Spec => EndsWithAll
<1> DEFINE A == (done' /\ ~done /\ ~failed') =>
                    /\ consumed' >= Len(All)
                    /\ ~shifted => FlattenSeq(pages') = All
<1>1. PagingInv /\ [Next]_vars => [A]_vars
  BY EndsStep
<1> QED
  BY <1>1, PagingAlways, PTL DEF Spec, EndsWithAll
=============================================================================
