------------------------------- MODULE Paging -------------------------------
(***************************************************************************)
(* Lazy and chunked queries, src/src/model/query/lazy.rs and chunked.rs,   *)
(* over the QueryPlan of src/src/model/query.rs: an iterator that asks the *)
(* database for its next row or chunk by LIMIT and OFFSET, every time in a *)
(* read of its own, while the rows it goes over are inserted and deleted.  *)
(*                                                                         *)
(* rows are the rows the query's clause selects, in the order its ORDER BY *)
(* gives them; two queries over the same rows see the same order.          *)
(***************************************************************************)
EXTENDS Integers, Sequences, FiniteSets, SequencesExt

CONSTANTS
    Row,
    NoLimit,        \* QueryPlan::limit is None
    MaxRows,        \* bound: rows at a time
    MaxOffset,      \* bound: QueryPlan::offset
    MaxLimit,       \* bound: QueryPlan::limit
    MaxChunk        \* bound: chunk size

ASSUME PagingAssumption ==
    /\ NoLimit \notin Nat
    /\ MaxRows \in Nat /\ MaxOffset \in Nat /\ MaxLimit \in Nat
    /\ MaxChunk \in Nat \ {0}

VARIABLES
    rows,       \* what the query selects by now
    plan,       \* the iterator's QueryPlan and page size, 0 for a lazy one
    consumed,   \* LazyTryIter::consumed, ChunkedTryIter::consumed
    done,       \* LazyTryIter::done, ChunkedTryIter::done
    pages,      \* the rows and chunks it has returned
    failed,     \* it has returned an error
    shifted     \* a row before its place was inserted or deleted meanwhile

vars == <<rows, plan, consumed, done, pages, failed, shifted>>

Plan == [limit : {NoLimit} \cup 0..MaxLimit, offset : 0..MaxOffset, chunk_size : 0..MaxChunk]
Least(a, b) == IF a < b THEN a ELSE b

\* LIMIT and OFFSET, as append_limit_offset writes them.
Select(limit, offset) ==
    SubSeq(rows, offset + 1,
           IF limit = NoLimit THEN Len(rows) ELSE Least(offset + limit, Len(rows)))

(***************************************************************************)
(* The eager forms.                                                        *)
(***************************************************************************)
All == Select(plan.limit, plan.offset)
LimitOne == IF plan.limit = NoLimit THEN 1 ELSE Least(plan.limit, 1)
First == Select(LimitOne, plan.offset)
\* Mutant: LIMIT and OFFSET do not make it a subquery.
Count_All == Len(rows)
Count == IF plan.limit = NoLimit /\ plan.offset = 0 THEN Len(rows)
         ELSE Len(Select(plan.limit, plan.offset))
Exists == Select(LimitOne, plan.offset) # <<>>

(***************************************************************************)
(* The iterators.                                                          *)
(***************************************************************************)
RemainingLimit == IF plan.limit = NoLimit THEN NoLimit
                  ELSE IF consumed < plan.limit THEN plan.limit - consumed ELSE 0

\* Mutant: the last chunk is as large as the others.
ChunkLimit_Full == IF plan.chunk_size = 0 THEN 1 ELSE plan.chunk_size
ChunkLimit ==
    LET size == IF plan.chunk_size = 0 THEN 1 ELSE plan.chunk_size
    IN  IF RemainingLimit = NoLimit THEN size ELSE Least(RemainingLimit, size)

\* Mutant: the offset of the query is forgotten.
PagedQuery_NoOffset == Select(ChunkLimit, consumed)
PagedQuery == Select(ChunkLimit, plan.offset + consumed)

Init ==
    /\ rows \in {s \in UNION {[1..n -> Row] : n \in 0..MaxRows} : IsInjective(s)}
    /\ plan \in Plan
    /\ consumed = 0 /\ done = FALSE /\ pages = <<>> /\ failed = FALSE
    /\ shifted = FALSE

\* Mutant: the iterator does not remember that it is over.
Exhausted_NotDone ==
    /\ ~done /\ (RemainingLimit = 0 \/ PagedQuery = <<>>)
    /\ UNCHANGED vars

\* The limit is used up, or nothing is left: next returns None.
Exhausted ==
    /\ ~done /\ (RemainingLimit = 0 \/ PagedQuery = <<>>)
    /\ done' = TRUE
    /\ UNCHANGED <<rows, plan, consumed, pages, failed, shifted>>

Yield ==
    /\ ~done /\ RemainingLimit # 0 /\ PagedQuery # <<>>
    /\ pages' = Append(pages, PagedQuery)
    /\ UNCHANGED <<rows, plan, failed, shifted>>

LazyNext ==
    /\ plan.chunk_size = 0 /\ Yield
    /\ consumed' = consumed + 1
    /\ UNCHANGED done

\* Mutant: a short chunk does not end the iteration.
ChunkedNext_GoesOn ==
    /\ plan.chunk_size > 0 /\ Yield
    /\ consumed' = consumed + Len(PagedQuery)
    /\ done' = (RemainingLimit = Len(PagedQuery))

\* Mutant: so does a full one.
ChunkedNext_EndsEarly ==
    /\ plan.chunk_size > 0 /\ Yield
    /\ consumed' = consumed + Len(PagedQuery)
    /\ done' = (Len(PagedQuery) <= ChunkLimit)

ChunkedNext ==
    /\ plan.chunk_size > 0 /\ Yield
    /\ consumed' = consumed + Len(PagedQuery)
    /\ done' = (Len(PagedQuery) < ChunkLimit \/ RemainingLimit = Len(PagedQuery))

FetchFails ==
    /\ ~done /\ RemainingLimit # 0
    /\ done' = TRUE /\ failed' = TRUE
    /\ UNCHANGED <<rows, plan, consumed, pages, shifted>>

Fetch == Exhausted \/ LazyNext \/ ChunkedNext \/ FetchFails

(***************************************************************************)
(* Other threads and the loop's own body write.                            *)
(***************************************************************************)
Passed(place) == consumed > 0 /\ place <= plan.offset + consumed

Insert ==
    /\ Len(rows) < MaxRows
    /\ \E row \in Row \ ToSet(rows), place \in 1..(Len(rows) + 1) :
        /\ rows' = InsertAt(rows, place, row)
        /\ shifted' = (shifted \/ Passed(place))
    /\ UNCHANGED <<plan, consumed, done, pages, failed>>

Delete ==
    /\ \E place \in DOMAIN rows :
        /\ rows' = RemoveAt(rows, place)
        /\ shifted' = (shifted \/ Passed(place))
    /\ UNCHANGED <<plan, consumed, done, pages, failed>>

Next == ~done /\ (Fetch \/ Insert \/ Delete)

\* The loop asks for the next page until there is none.
Spec == Init /\ [][Next]_vars /\ WF_vars(Fetch)

-----------------------------------------------------------------------------
(***************************************************************************)
(* Properties.                                                             *)
(***************************************************************************)
Returned == FlattenSeq(pages)

\* The iterator never returns more than its limit, however the rows move, and
\* consumed counts what it returned.
TypeOK ==
    /\ rows \in Seq(Row) /\ Len(rows) <= MaxRows /\ plan \in Plan
    /\ consumed \in Nat /\ done \in BOOLEAN /\ failed \in BOOLEAN /\ shifted \in BOOLEAN
    /\ pages \in Seq(Seq(Row))
    /\ consumed = Len(Returned)
    /\ plan.limit # NoLimit => consumed <= plan.limit

\* As long as no row before its place came or went, what the iterator has
\* returned are the rows from the query's offset on, none twice and none left
\* out, whatever happened behind its place.
PagesAreTheWindow ==
    (~shifted /\ consumed > 0) =>
        /\ plan.offset + consumed <= Len(rows)
        /\ Returned = SubSeq(rows, plan.offset + 1, plan.offset + consumed)

\* "Fetches matching rows in chunks" (src/src/model/query/chunked.rs:11), and one
\* at a time when lazy: no page is empty, and only the last may be short.
PagesAreFull ==
    LET size == IF plan.chunk_size = 0 THEN 1 ELSE plan.chunk_size IN
    \A k \in DOMAIN pages :
        /\ Len(pages[k]) \in 1..size
        /\ k < Len(pages) => Len(pages[k]) = size

\* An iteration that ends without an error has returned at least as many rows
\* as all() would have then; and if none before its place moved, the same ones.
EndsWithAll ==
    [][(done' /\ ~done /\ ~failed') =>
        /\ consumed' >= Len(All)
        /\ ~shifted => FlattenSeq(pages') = All]_vars

\* count, first and exists answer for the rows that all() returns.
EagerFormsAgree ==
    /\ Count = Len(All)
    /\ First = SubSeq(All, 1, Least(1, Len(All)))
    /\ Exists <=> All # <<>>

\* A loop over a query with a limit ends, however many rows others add.
LimitedIterationEnds == (plan.limit # NoLimit) ~> done
=============================================================================
