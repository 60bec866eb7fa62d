------------------------- MODULE AssociationProofs -------------------------
(***************************************************************************)
(* Proofs about the two association caches, HasManyCache and BelongsToCache *)
(* over one database: their types, that a cleared parent is read again, and, *)
(* when every thread has a HasMany field of its own, that a loaded cache     *)
(* holds what was appended through it, that a load returns no row of another *)
(* thread's transaction, and that cached children keep their places.         *)
(***************************************************************************)
EXTENDS BelongsToCache, FiniteSetTheorems, TLAPS

(***************************************************************************)
(* The inductive invariant.  DataInv: the rows, the transaction and who     *)
(* inserted what.                                                           *)
(***************************************************************************)
Inserted == 1..Len(by)

DataInv ==
    /\ by \in Seq(Thread) /\ Len(by) <= MaxChildren
    /\ db \subseteq ever /\ ever \subseteq Inserted /\ work \subseteq Inserted
    /\ owner \in Thread \cup {NoThread}
    /\ owner = NoThread => work = db
    /\ \A c \in work \ db : by[c] = owner

\* A thread works with one association at a time.
UsesInv ==
    /\ uses \in [Thread -> {"children", "parent"}]
    /\ \A t \in Thread :
        /\ uses[t] = "parent" => stage[t] = "idle"
        /\ uses[t] = "children" => asking[t] = "idle"

\* A list of different children, committed at some time or written by t.
Listing(t, s) ==
    /\ s \in Seq(Inserted) /\ IsInjective(s)
    /\ \A i \in DOMAIN s : s[i] \in ever \/ by[s[i]] = t

Holds(s, children) == \A c \in children : \E i \in DOMAIN s : s[i] = c

\* The field of t, which no other thread refers to: only its user's appends are
\* recorded for it, a load in flight finds the cache still empty, the child of an
\* append in flight is not in the cache, and what was appended and can be seen is in
\* the cache, or in the rows a load is about to store.
FieldInv(t) == LET f == FieldOf[t] IN
    /\ cache[f] # NotLoaded => Listing(t, cache[f])
    /\ Listing(t, fetched[t])
    /\ appended[f] \subseteq {c \in Inserted : by[c] = t}
    /\ stage[t] \in {"query", "store"} => cache[f] = NotLoaded
    /\ stage[t] = "push" =>
        /\ Len(fetched[t]) = 1
        /\ by[fetched[t][1]] = t
        /\ cache[f] # NotLoaded => \A i \in DOMAIN cache[f] : cache[f][i] # fetched[t][1]
    /\ (cache[f] # NotLoaded /\ f \notin outlived) => Holds(cache[f], appended[f] \cap View(t))
    /\ stage[t] = "store" => Holds(fetched[t], appended[f] \cap View(t))

\* What the parent's cache holds, or a load has found, was there after the last
\* clear; and so is what the next query can find, whenever one may come.
ParentInv ==
    /\ kept # NotLoaded => kept \in current
    /\ \A t \in Thread : asking[t] = "keep" => found[t] \in current
    /\ (kept = NotLoaded \/ \E t \in Thread : asking[t] # "idle") =>
            {parent, edited} \subseteq current \cup {Gone}

TypeInv ==
    /\ AssociationsTypeOK /\ DataInv /\ UsesInv
    /\ DOMAIN found = Thread /\ DOMAIN held = Thread

-----------------------------------------------------------------------------
(***************************************************************************)
(* The database.                                                           *)
(***************************************************************************)
\* The history of the table only grows.
Grows ==
    /\ Len(by) <= Len(by')
    /\ \A c \in Inserted : by'[c] = by[c]
    /\ ever \subseteq ever'

\* Of the children t had inserted, it sees none it did not see.
SeesNoMoreOfItsOwn(t) ==
    \A c \in Inserted : (by[c] = t /\ c \in View(t)') => c \in View(t)

LEMMA DatabaseStays ==
    ASSUME DataInv, UNCHANGED database
    PROVE  /\ DataInv' /\ Grows
           /\ \A t \in Thread : SeesNoMoreOfItsOwn(t)
BY DEF DataInv, database, Grows, SeesNoMoreOfItsOwn, View, Inserted

LEMMA BeginData ==
    ASSUME DataInv, NEW u \in Thread, Begin(u)
    PROVE  /\ DataInv' /\ Grows
           /\ \A t \in Thread : SeesNoMoreOfItsOwn(t)
BY HasManyAssumption DEF DataInv, Begin, Grows, SeesNoMoreOfItsOwn, View, Inserted

LEMMA CommitData ==
    ASSUME DataInv, NEW u \in Thread, Commit(u)
    PROVE  /\ DataInv' /\ Grows
           /\ \A t \in Thread : SeesNoMoreOfItsOwn(t)
BY HasManyAssumption DEF DataInv, Commit, Grows, SeesNoMoreOfItsOwn, View, Inserted

\* A rollback may bring back children that its thread had deleted.
LEMMA RollbackData ==
    ASSUME DataInv, NEW u \in Thread, Rollback(u)
    PROVE  /\ DataInv' /\ Grows
           /\ \A t \in Thread \ {u} : SeesNoMoreOfItsOwn(t)
BY HasManyAssumption DEF DataInv, Rollback, Grows, SeesNoMoreOfItsOwn, View, Inserted

LEMMA DeleteData ==
    ASSUME DataInv, NEW u \in Thread, DeleteChild(u)
    PROVE  /\ DataInv' /\ Grows
           /\ \A t \in Thread : SeesNoMoreOfItsOwn(t)
<1>1. PICK c \in View(u) : Store(u, View(u) \ {c})
  BY DEF DeleteChild
<1>2. owner \in {NoThread, u} /\ by' = by /\ owner' = owner
  BY <1>1 DEF DeleteChild, CanWrite, Store
<1>3. CASE owner = u
  <2>1. work' = work \ {c} /\ db' = db /\ ever' = ever /\ u # NoThread
    BY <1>1, <1>3, HasManyAssumption DEF Store, View
  <2> QED
    BY <1>2, <1>3, <2>1 DEF DataInv, Grows, SeesNoMoreOfItsOwn, View, Inserted
<1>4. CASE owner = NoThread
  <2>1. work' = db' /\ db' = db \ {c} /\ ever' = ever \cup db' /\ u # NoThread
    BY <1>1, <1>4, HasManyAssumption DEF Store, View
  <2>2. db' \subseteq db /\ ever' = ever
    BY <2>1 DEF DataInv
  <2>3. DataInv'
    BY <1>2, <1>4, <2>1, <2>2 DEF DataInv, Inserted
  <2> QED
    BY <1>2, <1>4, <2>1, <2>2, <2>3, HasManyAssumption
    DEF DataInv, Grows, SeesNoMoreOfItsOwn, View, Inserted
<1> QED
  BY <1>2, <1>3, <1>4

LEMMA InsertData ==
    ASSUME DataInv, NEW u \in Thread, Insert(u)
    PROVE  /\ DataInv' /\ Grows
           /\ \A t \in Thread : SeesNoMoreOfItsOwn(t)
           /\ Len(by') = Len(by) + 1 /\ by'[Len(by')] = u
<1> DEFINE n == Len(by) + 1
<1>1. /\ by \in Seq(Thread) /\ Len(by) \in Nat /\ n <= MaxChildren /\ MaxChildren \in Nat
      /\ by' = Append(by, u)
  BY HasManyAssumption DEF DataInv, Insert
<1>2. /\ by' \in Seq(Thread) /\ Len(by') = n /\ by'[n] = u
      /\ \A c \in 1..Len(by) : by'[c] = by[c]
  BY <1>1
<1> HIDE DEF n
<1>3. 1..Len(by) \subseteq 1..n /\ n \in 1..n /\ n \notin 1..Len(by)
  BY <1>1 DEF n
<1>4. /\ CanWrite(u) /\ owner' = owner
      /\ IF owner = u THEN work' = work \cup {n} /\ db' = db /\ ever' = ever
         ELSE db' = db \cup {n} /\ work' = db \cup {n} /\ ever' = ever \cup (db \cup {n})
  BY <1>2 DEF Insert, Store, View
<1>5. Grows
  BY <1>1, <1>2, <1>3, <1>4 DEF Grows, Inserted, n
<1>6. DataInv'
  <2>1. by' \in Seq(Thread) /\ Len(by') <= MaxChildren
    BY <1>1, <1>2
  <2>2. db' \subseteq ever' /\ ever' \subseteq 1..n /\ work' \subseteq 1..n
    BY <1>3, <1>4 DEF DataInv, Inserted
  <2>3. owner' \in Thread \cup {NoThread} /\ (owner' = NoThread => work' = db')
    BY <1>4, HasManyAssumption DEF DataInv
  <2>4. ASSUME NEW c \in work' \ db' PROVE by'[c] = owner'
    BY <1>2, <1>3, <1>4 DEF DataInv, Inserted
  <2> QED
    BY <1>2, <2>1, <2>2, <2>3, <2>4 DEF DataInv, Inserted
<1>7. ASSUME NEW t \in Thread PROVE SeesNoMoreOfItsOwn(t)
  BY <1>3, <1>4 DEF SeesNoMoreOfItsOwn, View, Inserted, CanWrite, DataInv
<1> QED
  BY <1>2, <1>5, <1>6, <1>7 DEF n

\* Every step of a thread that works with its children.
LEMMA DataStep ==
    ASSUME DataInv, NEW u \in Thread, Transact(u) \/ Call(u)
    PROVE  /\ DataInv' /\ Grows
           /\ \A t \in Thread : (t # u \/ ~Rollback(u)) => SeesNoMoreOfItsOwn(t)
<1>1. CASE Begin(u)
  BY <1>1, BeginData
<1>2. CASE Commit(u)
  BY <1>2, CommitData
<1>3. CASE Rollback(u)
  BY <1>3, RollbackData
<1>4. CASE DeleteChild(u)
  BY <1>4, DeleteData
<1>5. CASE AppendInsert(u) \/ AppendRejected(u)
  BY <1>5, InsertData DEF AppendInsert, AppendRejected
<1>6. CASE \/ LoadHit(u) \/ LoadMiss(u) \/ LoadQuery(u) \/ LoadQueryFails(u)
           \/ LoadStore(u) \/ AppendPush(u) \/ ClearCache(u)
  BY <1>6, DatabaseStays
  DEF LoadHit, LoadMiss, LoadQuery, LoadQueryFails, LoadStore, AppendPush, ClearCache
<1> QED
  BY <1>1, <1>2, <1>3, <1>4, <1>5, <1>6 DEF Transact, Call

\* What a query lists: every child that is seen, once.
LEMMA QueryLists ==
    ASSUME DataInv, NEW t \in Thread,
           NEW s \in Bijection(1..Cardinality(View(t)), View(t))
    PROVE  /\ s \in Seq(Inserted) /\ IsInjective(s)
           /\ \A i \in DOMAIN s : s[i] \in View(t)
           /\ \A c \in View(t) : \E i \in DOMAIN s : s[i] = c
<1>1. View(t) \subseteq Inserted /\ Len(by) \in Nat
  BY DEF DataInv, View
<1>2. IsFiniteSet(Inserted)
  BY <1>1, FS_Interval DEF Inserted
<1>3. Cardinality(View(t)) \in Nat
  BY <1>1, <1>2, FS_Subset, FS_CardinalityType
<1>4. /\ s \in [1..Cardinality(View(t)) -> View(t)] /\ IsInjective(s)
      /\ \A c \in View(t) : \E i \in 1..Cardinality(View(t)) : s[i] = c
  BY DEF Bijection, Injection, Surjection
<1>5. s \in [1..Cardinality(View(t)) -> Inserted]
  BY <1>1, <1>4
<1>6. s \in Seq(Inserted)
  BY <1>3, <1>5
<1> QED
  BY <1>4, <1>6

\* The types of the rows follow from DataInv.
LEMMA RowTypes ==
    ASSUME DataInv
    PROVE  /\ Inserted \subseteq Child
           /\ db \subseteq Child /\ work \subseteq Child /\ ever \subseteq Child
           /\ owner \in Thread \cup {NoThread}
           /\ by \in Seq(Thread) /\ Len(by) <= MaxChildren
           /\ owner = NoThread => work = db
<1>1. Inserted \subseteq Child
  BY HasManyAssumption DEF DataInv, Inserted, Child
<1> QED
  BY <1>1 DEF DataInv

LEMMA RowTypesNext ==
    ASSUME DataInv'
    PROVE  /\ Inserted' \subseteq Child
           /\ db' \subseteq Child /\ work' \subseteq Child /\ ever' \subseteq Child
           /\ owner' \in Thread \cup {NoThread}
           /\ by' \in Seq(Thread) /\ Len(by') <= MaxChildren
           /\ owner' = NoThread => work' = db'
<1>1. Inserted' \subseteq Child
  BY HasManyAssumption DEF DataInv, Inserted, Child
<1> QED
  BY <1>1 DEF DataInv

LEMMA TypesStep ==
    ASSUME TypeOK, DataInv, DataInv', NEW u \in Thread, Transact(u) \/ Call(u)
    PROVE  TypeOK'
<1> DEFINE CacheTypes ==
             /\ DOMAIN cache = Field
             /\ \A f \in Field : cache[f] = NotLoaded \/ cache[f] \in Seq(Child)
           ThreadTypes ==
             /\ stage \in [Thread -> {"idle", "query", "store", "push"}]
             /\ fetched \in [Thread -> Seq(Child)]
             /\ \A t \in Thread : stage[t] = "push" => Len(fetched[t]) = 1
           HistoryTypes ==
             /\ loaded \in [Thread -> Seq(Child)]
             /\ appended \in [Field -> SUBSET Child]
             /\ outlived \subseteq Field
<1> SUFFICES CacheTypes' /\ ThreadTypes' /\ HistoryTypes'
  BY RowTypesNext DEF TypeOK
<1>0. CacheTypes /\ ThreadTypes /\ HistoryTypes /\ FieldOf[u] \in Field
  BY HasManyAssumption DEF TypeOK
<1>1. CASE \/ Begin(u) \/ Commit(u) \/ DeleteChild(u) \/ AppendRejected(u) \/ UNCHANGED <<cache, stage, fetched, history>>
  BY <1>0, <1>1 DEF Begin, Commit, DeleteChild, AppendRejected, history
<1>2. CASE Rollback(u)
  BY <1>0, <1>2 DEF Rollback
<1>3. CASE LoadHit(u)
  BY <1>0, <1>3 DEF LoadHit
<1>4. CASE LoadMiss(u) \/ LoadQueryFails(u)
  BY <1>0, <1>4 DEF LoadMiss, LoadQueryFails, history
<1>5. CASE LoadQuery(u)
  <2>1. PICK rows \in Bijection(1..Cardinality(View(u)), View(u)) :
            fetched' = [fetched EXCEPT ![u] = rows]
    BY <1>5 DEF LoadQuery
  <2>2. rows \in Seq(Child)
    BY QueryLists, RowTypes
  <2> QED
    BY <1>0, <1>5, <2>1, <2>2 DEF LoadQuery, history
<1>6. CASE LoadStore(u)
  BY <1>0, <1>6 DEF LoadStore
<1>7. CASE AppendInsert(u)
  <2>1. Len(by') \in Child
    BY <1>7, InsertData, RowTypesNext DEF AppendInsert, Inserted, DataInv
  <2> QED
    BY <1>0, <1>7, <2>1 DEF AppendInsert, history
<1>8. CASE AppendPush(u)
  <2>1. /\ fetched[u] \in Seq(Child) /\ ToSet(fetched[u]) \subseteq Child
        /\ cache[FieldOf[u]] # NotLoaded => cache[FieldOf[u]] \o fetched[u] \in Seq(Child)
    BY <1>0 DEF ToSet
  <2> QED
    BY <1>0, <1>8, <2>1 DEF AppendPush
<1>9. CASE ClearCache(u)
  BY <1>0, <1>9 DEF ClearCache
<1> QED
  BY <1>1, <1>2, <1>3, <1>4, <1>5, <1>6, <1>7, <1>8, <1>9 DEF Transact, Call

-----------------------------------------------------------------------------
(***************************************************************************)
(* The HasMany fields.                                                     *)
(***************************************************************************)
\* A list stays one while the history of the table grows.
LEMMA ListingStays ==
    ASSUME DataInv, Grows, DataInv', NEW t \in Thread, NEW s, Listing(t, s)
    PROVE  /\ s \in Seq(Inserted') /\ IsInjective(s)
           /\ \A i \in DOMAIN s : s[i] \in ever' \/ by'[s[i]] = t
<1>1. Inserted \subseteq Inserted'
  BY DEF DataInv, Grows, Inserted
<1>2. s \in Seq(Inserted) /\ \A i \in DOMAIN s : s[i] \in Inserted
  BY DEF Listing
<1> QED
  BY <1>1, <1>2 DEF Listing, Grows

\* What a step leaves alone: a field whose cache, whose thread and whose appended
\* children stay, when its thread sees no more of its own children than before.
LEMMA FieldStays ==
    ASSUME DataInv, Grows, DataInv', NEW t \in Thread, FieldInv(t),
           cache'[FieldOf[t]] = cache[FieldOf[t]],
           appended'[FieldOf[t]] = appended[FieldOf[t]],
           stage'[t] = stage[t], fetched'[t] = fetched[t],
           FieldOf[t] \in outlived => FieldOf[t] \in outlived',
           SeesNoMoreOfItsOwn(t)
    PROVE  FieldInv(t)'
<1> DEFINE f == FieldOf[t]
<1>1. Inserted \subseteq Inserted'
  BY DEF DataInv, Grows, Inserted
<1>2. cache[f] # NotLoaded => Listing(t, cache[f])'
  BY ListingStays DEF FieldInv, Listing
<1>3. Listing(t, fetched[t])'
  BY ListingStays DEF FieldInv, Listing
<1>4. appended[f] \subseteq {c \in Inserted' : by'[c] = t}
  BY <1>1 DEF FieldInv, Grows
<1>5. appended[f] \cap View(t)' \subseteq appended[f] \cap View(t)
  BY DEF FieldInv, SeesNoMoreOfItsOwn
<1>6. stage[t] = "push" => by'[fetched[t][1]] = t
  <2> SUFFICES ASSUME stage[t] = "push" PROVE by'[fetched[t][1]] = t
    OBVIOUS
  <2>1. fetched[t] \in Seq(Inserted) /\ Len(fetched[t]) = 1
    BY DEF FieldInv, Listing
  <2>2. fetched[t][1] \in Inserted
    BY <2>1
  <2> QED
    BY <2>2 DEF FieldInv, Grows
<1>7. /\ (cache[f] # NotLoaded /\ f \notin outlived') => Holds(cache[f], appended[f] \cap View(t)')
      /\ stage[t] = "store" => Holds(fetched[t], appended[f] \cap View(t)')
  BY <1>5 DEF FieldInv, Holds
<1>8. /\ stage[t] \in {"query", "store"} => cache[f] = NotLoaded
      /\ stage[t] = "push" =>
           /\ Len(fetched[t]) = 1
           /\ cache[f] # NotLoaded => \A i \in DOMAIN cache[f] : cache[f][i] # fetched[t][1]
  BY DEF FieldInv
<1> QED
  BY <1>2, <1>3, <1>4, <1>6, <1>7, <1>8 DEF FieldInv, Holds, Listing

\* A step of another thread, which has another field.
LEMMA OthersFieldStays ==
    ASSUME TypeOK, DataInv, IsInjective(FieldOf), NEW u \in Thread,
           Transact(u) \/ Call(u), NEW t \in Thread \ {u}, FieldInv(t)
    PROVE  FieldInv(t)'
<1>1. DataInv' /\ Grows /\ SeesNoMoreOfItsOwn(t)
  BY DataStep
<1>2. FieldOf[t] # FieldOf[u] /\ FieldOf[t] \in Field /\ FieldOf[u] \in Field
  BY HasManyAssumption DEF IsInjective
<1>3. /\ cache'[FieldOf[t]] = cache[FieldOf[t]]
      /\ appended'[FieldOf[t]] = appended[FieldOf[t]]
      /\ stage'[t] = stage[t] /\ fetched'[t] = fetched[t]
      /\ FieldOf[t] \in outlived => FieldOf[t] \in outlived'
  <2> USE <1>2 DEF history, TypeOK
  <2>1. CASE Begin(u) \/ Commit(u) \/ Rollback(u) \/ DeleteChild(u)
    BY <2>1 DEF Begin, Commit, Rollback, DeleteChild
  <2>2. CASE LoadHit(u) \/ LoadMiss(u) \/ LoadQueryFails(u) \/ AppendRejected(u)
    BY <2>2 DEF LoadHit, LoadMiss, LoadQueryFails, AppendRejected
  <2>3. CASE LoadQuery(u) \/ AppendInsert(u)
    BY <2>3 DEF LoadQuery, AppendInsert
  <2>4. CASE LoadStore(u) \/ ClearCache(u)
    BY <2>4 DEF LoadStore, ClearCache
  <2>5. CASE AppendPush(u)
    BY <2>5 DEF AppendPush
  <2> QED
    BY <2>1, <2>2, <2>3, <2>4, <2>5 DEF Transact, Call
<1> QED
  BY <1>1, <1>3, FieldStays

\* A step that works with the database, or returns what is cached.
LEMMA OwnFieldStays ==
    ASSUME TypeOK, DataInv, NEW t \in Thread, FieldInv(t),
           \/ Begin(t) \/ Commit(t) \/ DeleteChild(t) \/ LoadHit(t) \/ AppendRejected(t)
    PROVE  FieldInv(t)'
<1>1. DataInv' /\ Grows /\ SeesNoMoreOfItsOwn(t)
  <2>1. ~Rollback(t) \/ SeesNoMoreOfItsOwn(t)
    BY BeginData, CommitData, DeleteData, InsertData, DatabaseStays DEF LoadHit, AppendRejected
  <2> QED
    BY <2>1, DataStep DEF Transact, Call
<1> QED
  BY <1>1, FieldStays DEF Begin, Commit, DeleteChild, LoadHit, AppendRejected, history

LEMMA RollbackField ==
    ASSUME TypeOK, DataInv, NEW t \in Thread, FieldInv(t), Rollback(t)
    PROVE  FieldInv(t)'
<1>1. DataInv' /\ Grows
  BY DataStep DEF Transact
<1>2. Listing(t, fetched[t])' /\ (cache[FieldOf[t]] # NotLoaded => Listing(t, cache[FieldOf[t]])')
  BY <1>1, ListingStays DEF FieldInv, Listing, Rollback
<1> QED
  BY <1>1, <1>2 DEF FieldInv, Rollback, Inserted, Listing, Holds

LEMMA ClearField ==
    ASSUME TypeOK, DataInv, NEW t \in Thread, FieldInv(t), ClearCache(t)
    PROVE  FieldInv(t)'
<1>1. DataInv' /\ Grows
  BY DataStep DEF Call
<1>2. /\ cache'[FieldOf[t]] = NotLoaded /\ stage[t] = "idle" /\ stage' = stage
      /\ fetched' = fetched /\ appended' = appended
  BY HasManyAssumption DEF TypeOK, ClearCache
<1>3. Listing(t, fetched[t])'
  BY <1>1, <1>2, ListingStays DEF FieldInv, Listing
<1> QED
  BY <1>1, <1>2, <1>3 DEF FieldInv, Inserted, Listing, ClearCache, database

LEMMA LoadField ==
    ASSUME TypeOK, DataInv, NEW t \in Thread, FieldInv(t),
           LoadMiss(t) \/ LoadQuery(t) \/ LoadQueryFails(t)
    PROVE  FieldInv(t)'
<1>1. DataInv' /\ Grows /\ UNCHANGED <<by, ever, db, work, owner, cache, appended, outlived>>
  BY DataStep DEF Call, LoadMiss, LoadQuery, LoadQueryFails, database, history
<1>2. cache[FieldOf[t]] = NotLoaded /\ appended[FieldOf[t]] \subseteq {c \in Inserted : by[c] = t}
  BY DEF FieldInv, LoadMiss, LoadQuery, LoadQueryFails
<1>3. CASE LoadMiss(t) \/ LoadQueryFails(t)
  <2>1. stage'[t] \in {"idle", "query"} /\ fetched' = fetched
    BY <1>3 DEF TypeOK, LoadMiss, LoadQueryFails
  <2>2. Listing(t, fetched[t])'
    BY <1>1, <2>1, ListingStays DEF FieldInv, Listing
  <2> QED
    BY <1>1, <1>2, <2>1, <2>2 DEF FieldInv, Listing, Inserted
<1>4. CASE LoadQuery(t)
  <2>1. PICK rows \in Bijection(1..Cardinality(View(t)), View(t)) :
            fetched' = [fetched EXCEPT ![t] = rows]
    BY <1>4 DEF LoadQuery
  <2>2. stage'[t] = "store" /\ fetched'[t] = rows
    BY <1>4, <2>1 DEF LoadQuery, TypeOK
  <2>3. /\ rows \in Seq(Inserted) /\ IsInjective(rows)
        /\ \A i \in DOMAIN rows : rows[i] \in View(t)
        /\ \A c \in View(t) : \E i \in DOMAIN rows : rows[i] = c
    BY QueryLists
  <2>4. \A c \in View(t) : c \in ever \/ by[c] = t
    BY DEF DataInv, View
  <2>5. Listing(t, fetched[t])'
    BY <1>1, <2>2, <2>3, <2>4 DEF Listing, Inserted
  <2>6. Holds(fetched[t], appended[FieldOf[t]] \cap View(t))'
    BY <1>1, <2>2, <2>3 DEF Holds, View
  <2> QED
    BY <1>1, <1>2, <2>2, <2>5, <2>6 DEF FieldInv, Inserted
<1> QED
  BY <1>3, <1>4

LEMMA StoreField ==
    ASSUME TypeOK, DataInv, NEW t \in Thread, FieldInv(t), LoadStore(t)
    PROVE  FieldInv(t)'
<1>1. DataInv' /\ Grows /\ UNCHANGED <<by, ever, db, work, owner, appended>>
  BY DataStep DEF Call, LoadStore, database
<1>2. /\ cache'[FieldOf[t]] = fetched[t] /\ fetched'[t] = <<>>
      /\ stage[t] = "store" /\ stage'[t] = "idle"
  BY HasManyAssumption DEF TypeOK, LoadStore
<1>3. Listing(t, cache[FieldOf[t]])'
  BY <1>1, <1>2, ListingStays DEF FieldInv, Listing
<1>4. Listing(t, fetched[t])'
  BY <1>2 DEF Listing, IsInjective
<1>5. Holds(cache[FieldOf[t]], appended[FieldOf[t]] \cap View(t))'
  BY <1>1, <1>2 DEF FieldInv, Holds, View
<1>6. appended[FieldOf[t]] \subseteq {c \in Inserted : by[c] = t}
  BY DEF FieldInv
<1> QED
  BY <1>1, <1>2, <1>3, <1>4, <1>5, <1>6 DEF FieldInv, Inserted

LEMMA InsertField ==
    ASSUME TypeOK, DataInv, NEW t \in Thread, FieldInv(t), AppendInsert(t)
    PROVE  FieldInv(t)'
<1> DEFINE f == FieldOf[t]
           n == Len(by')
<1>1. /\ DataInv' /\ Grows /\ SeesNoMoreOfItsOwn(t)
      /\ n = Len(by) + 1 /\ by'[n] = t
  BY InsertData DEF AppendInsert
<1>2. /\ cache' = cache /\ appended' = appended /\ outlived' = outlived
      /\ fetched'[t] = <<n>> /\ stage'[t] = "push"
  BY DEF TypeOK, AppendInsert, history
<1>3. Len(by) \in Nat /\ Inserted \subseteq Inserted' /\ n \in Inserted' /\ n \notin Inserted
  BY <1>1 DEF DataInv, Inserted
<1> HIDE DEF n
<1>4. cache[f] # NotLoaded => Listing(t, cache[f])'
  BY <1>1, <1>2, ListingStays DEF FieldInv, Listing
<1>5. Listing(t, fetched[t])'
  BY <1>1, <1>2, <1>3 DEF Listing, IsInjective
<1>6. cache[f] # NotLoaded => \A i \in DOMAIN cache[f] : cache[f][i] # n
  BY <1>3 DEF FieldInv, Listing
<1>7. appended[f] \subseteq {c \in Inserted' : by'[c] = t}
  BY <1>1, <1>3 DEF FieldInv, Grows
<1>8. (cache[f] # NotLoaded /\ f \notin outlived) => Holds(cache[f], appended[f] \cap View(t)')
  BY <1>1 DEF FieldInv, Holds, SeesNoMoreOfItsOwn
<1> QED
  BY <1>1, <1>2, <1>4, <1>5, <1>6, <1>7, <1>8 DEF FieldInv, Holds

LEMMA PushField ==
    ASSUME TypeOK, DataInv, NEW t \in Thread, FieldInv(t), AppendPush(t)
    PROVE  FieldInv(t)'
<1> DEFINE f == FieldOf[t]
           old == cache[f]
           new == cache'[f]
           c == fetched[t][1]
<1>1. DataInv' /\ Grows /\ UNCHANGED <<by, ever, db, work, owner, outlived>>
  BY DataStep DEF Call, AppendPush, database
<1>2. /\ stage[t] = "push" /\ Len(fetched[t]) = 1 /\ fetched[t] \in Seq(Inserted)
      /\ by[c] = t /\ (old # NotLoaded => \A i \in DOMAIN old : old[i] # c)
      /\ Listing(t, fetched[t])
  BY DEF FieldInv, AppendPush, Listing
<1>3. c \in Inserted /\ fetched[t] = <<c>> /\ ToSet(fetched[t]) = {c}
  BY <1>2 DEF ToSet
<1>4. /\ new = IF old = NotLoaded THEN NotLoaded ELSE old \o fetched[t]
      /\ appended'[f] = appended[f] \cup ToSet(fetched[t])
      /\ stage'[t] = "idle" /\ fetched'[t] = <<>>
  BY HasManyAssumption DEF TypeOK, AppendPush
<1>5. ASSUME old # NotLoaded
      PROVE  /\ Listing(t, cache[f])'
             /\ \A i \in DOMAIN old : i \in DOMAIN new /\ new[i] = old[i]
             /\ \E i \in DOMAIN new : new[i] = c
  <2>1. old \in Seq(Inserted) /\ IsInjective(old) /\ \A i \in DOMAIN old : old[i] \in ever \/ by[old[i]] = t
    BY <1>5 DEF FieldInv, Listing
  <2> HIDE DEF old, new, c
  <2>2. new = old \o <<c>>
    BY <1>3, <1>4, <1>5
  <2>3. /\ new \in Seq(Inserted) /\ Len(new) = Len(old) + 1 /\ new[Len(old) + 1] = c
        /\ \A i \in 1..Len(old) : new[i] = old[i]
    BY <1>3, <2>1, <2>2
  <2>4. DOMAIN old = 1..Len(old) /\ DOMAIN new = 1..(Len(old) + 1) /\ Len(old) \in Nat
    BY <2>1, <2>3
  <2>5. \A i \in DOMAIN new : i \in DOMAIN old \/ i = Len(old) + 1
    BY <2>4
  <2>6. IsInjective(new)
    BY <1>2, <1>5, <2>1, <2>3, <2>4, <2>5 DEF IsInjective
  <2>7. \A i \in DOMAIN new : new[i] \in ever \/ by[new[i]] = t
    BY <1>2, <2>1, <2>3, <2>4, <2>5
  <2>8. Listing(t, new)
    BY <2>3, <2>6, <2>7 DEF Listing
  <2>9. new \in Seq(Inserted')
    BY <1>1, <2>3 DEF Inserted
  <2>10. \A i \in DOMAIN new : new[i] \in ever' \/ by'[new[i]] = t
    BY <1>1, <2>7
  <2>11. Listing(t, cache[f])'
    BY <2>6, <2>9, <2>10 DEF Listing, new
  <2> QED
    BY <2>3, <2>4, <2>11
<1>6. new # NotLoaded => old # NotLoaded
  BY <1>4
<1>7. Listing(t, fetched[t])'
  BY <1>4 DEF Listing, IsInjective
<1>8. appended'[f] \subseteq {x \in Inserted' : by'[x] = t}
  BY <1>1, <1>2, <1>3, <1>4 DEF FieldInv, Inserted
<1>9. ASSUME old # NotLoaded, f \notin outlived
      PROVE  Holds(new, appended'[f] \cap View(t)')
  <2>1. View(t)' = View(t) /\ Holds(old, appended[f] \cap View(t))
    BY <1>1, <1>9 DEF FieldInv, View
  <2>2. /\ appended'[f] = appended[f] \cup {c}
        /\ \A i \in DOMAIN old : i \in DOMAIN new /\ new[i] = old[i]
        /\ \E i \in DOMAIN new : new[i] = c
    BY <1>3, <1>4, <1>5, <1>9
  <2> HIDE DEF old, new, c
  <2> QED
    BY <2>1, <2>2 DEF Holds
<1> QED
  BY <1>1, <1>4, <1>5, <1>6, <1>7, <1>8, <1>9 DEF FieldInv, Holds

LEMMA OwnField ==
    ASSUME TypeOK, DataInv, NEW t \in Thread, FieldInv(t), Transact(t) \/ Call(t)
    PROVE  FieldInv(t)'
BY OwnFieldStays, RollbackField, ClearField, LoadField, StoreField, InsertField, PushField
   DEF Transact, Call

FieldsInv == \A t \in Thread : FieldInv(t)

LEMMA FieldsStep ==
    ASSUME TypeOK, DataInv, IsInjective(FieldOf), FieldsInv,
           NEW u \in Thread, Transact(u) \/ Call(u)
    PROVE  FieldsInv'
<1> SUFFICES ASSUME NEW t \in Thread PROVE FieldInv(t)'
  BY DEF FieldsInv
<1>1. CASE t = u
  BY <1>1, OwnField DEF FieldsInv
<1>2. CASE t # u
  BY <1>2, OthersFieldStays DEF FieldsInv
<1> QED
  BY <1>1, <1>2

LEMMA FieldsStay ==
    ASSUME FieldsInv, UNCHANGED vars
    PROVE  FieldsInv'
<1>1. UNCHANGED <<db, work, owner, by, ever, cache, stage, fetched, appended, outlived>>
  BY DEF vars, database, history
<1> SUFFICES ASSUME NEW t \in Thread PROVE FieldInv(t)'
  BY DEF FieldsInv
<1>2. FieldInv(t)
  BY DEF FieldsInv
<1> QED
  BY <1>1, <1>2 DEF FieldInv, Listing, Inserted, Holds, View

LEMMA FieldsInit == Init => FieldsInv
BY HasManyAssumption DEF Init, FieldsInv, FieldInv, Listing, Inserted, IsInjective

-----------------------------------------------------------------------------
(***************************************************************************)
(* Both associations: the types and the parent.                            *)
(***************************************************************************)
\* A step of the whole is one of the children's, with the transaction's effect on
\* the parent, or one of the parent's.
LEMMA Steps ==
    ASSUME NEW u \in Thread
    PROVE  /\ TransactBoth(u) => Transact(u)
           /\ ParentCall(u) => UNCHANGED vars
<1>1. ParentCall(u) => UNCHANGED vars
  BY DEF ParentCall, SaveParent, DeleteParent, StoreParent, ParentHit, ParentMiss, FindParent,
         FindParentFails, KeepParent, ClearParent, AssignParent, AssignKey
<1> QED
  BY <1>1 DEF TransactBoth, Transact

\* The parent's part of the types.
ParentTypes ==
    /\ parent \in Version \cup {Gone} /\ edited \in Version \cup {Gone}
    /\ newest \in Version
    /\ kept = NotLoaded \/ kept \in Version
    /\ asking \in [Thread -> {"idle", "find", "keep"}]
    /\ \A t \in Thread :
        /\ held[t] = NotLoaded \/ held[t] \in Version
        /\ IF asking[t] = "keep" THEN found[t] \in Version ELSE found[t] = NotLoaded
        /\ asking[t] # "idle" => stage[t] = "idle"
    /\ owner = NoThread => edited = parent

LEMMA TypesSplit == AssociationsTypeOK <=> (TypeOK /\ uses \in [Thread -> {"children", "parent"}] /\ ParentTypes)
BY DEF AssociationsTypeOK, ParentTypes

\* The parent's variables, with what the types say of them.
ParentStepInv == ParentTypes /\ UsesInv /\ DOMAIN found = Thread /\ DOMAIN held = Thread

LEMMA ChildrenStepParent ==
    ASSUME ParentStepInv, TypeOK, NEW u \in Thread, uses[u] = "children", Call(u),
           UNCHANGED parentVars, UNCHANGED uses
    PROVE  ParentStepInv'
<1>1. owner' = owner /\ stage' \in [Thread -> {"idle", "query", "store", "push"}] /\ \A t \in Thread \ {u} : stage'[t] = stage[t]
  <2> USE DEF TypeOK, history, database
  <2>1. CASE DeleteChild(u)
    BY <2>1 DEF DeleteChild, Store
  <2>2. CASE LoadHit(u) \/ LoadMiss(u) \/ LoadQueryFails(u)
    BY <2>2 DEF LoadHit, LoadMiss, LoadQueryFails
  <2>3. CASE LoadQuery(u) \/ LoadStore(u)
    BY <2>3 DEF LoadQuery, LoadStore
  <2>4. CASE AppendInsert(u) \/ AppendRejected(u)
    BY <2>4 DEF AppendInsert, AppendRejected, Insert, Store
  <2>5. CASE AppendPush(u) \/ ClearCache(u)
    BY <2>5 DEF AppendPush, ClearCache
  <2> QED
    BY <2>1, <2>2, <2>3, <2>4, <2>5 DEF Call
<1>2. asking[u] = "idle"
  BY DEF ParentStepInv, UsesInv
<1> QED
  BY <1>1, <1>2 DEF ParentStepInv, ParentTypes, UsesInv, parentVars, parentRow

LEMMA TransactStepParent ==
    ASSUME ParentStepInv, NEW u \in Thread, TransactBoth(u), UNCHANGED uses
    PROVE  ParentStepInv'
<1>1. stage' = stage
  BY DEF TransactBoth, Begin, Commit, Rollback
<1>2. CASE Begin(u) /\ UNCHANGED parentRow
  BY <1>1, <1>2, HasManyAssumption
  DEF ParentStepInv, ParentTypes, UsesInv, TransactBoth, Begin, parentRow
<1>3. CASE Commit(u) /\ parent' = edited /\ UNCHANGED <<edited, newest>>
  BY <1>1, <1>3 DEF ParentStepInv, ParentTypes, UsesInv, TransactBoth
<1>4. CASE Rollback(u) /\ edited' = parent /\ UNCHANGED <<parent, newest>>
  BY <1>1, <1>4 DEF ParentStepInv, ParentTypes, UsesInv, TransactBoth
<1> QED
  BY <1>2, <1>3, <1>4 DEF TransactBoth

LEMMA ParentStepParent ==
    ASSUME ParentStepInv, NEW u \in Thread, uses[u] = "parent", ParentCall(u), UNCHANGED uses
    PROVE  ParentStepInv'
<1>1. UNCHANGED <<owner, stage>> /\ stage[u] = "idle"
  BY Steps DEF vars, database, ParentStepInv, UsesInv
<1>2. CASE SaveParent(u) \/ DeleteParent(u)
  <2>1. /\ UNCHANGED <<kept, asking, found, held>> /\ newest' \in Version
        /\ edited' \in Version \cup {Gone}
        /\ parent' = IF owner = u THEN parent ELSE edited'
    BY <1>2, BelongsToAssumption
    DEF SaveParent, DeleteParent, StoreParent, Version, Gone, ParentStepInv, ParentTypes
  <2> QED
    BY <1>1, <2>1, HasManyAssumption DEF ParentStepInv, ParentTypes, UsesInv
<1>3. CASE ParentHit(u)
  BY <1>1, <1>3 DEF ParentHit, parentRow, ParentStepInv, ParentTypes, UsesInv
<1>7. CASE ParentMiss(u)
  BY <1>1, <1>7 DEF ParentMiss, Quiet, parentRow, ParentStepInv, ParentTypes, UsesInv
<1>8. CASE FindParentFails(u)
  BY <1>1, <1>8 DEF FindParentFails, parentRow, ParentStepInv, ParentTypes, UsesInv
<1>4. CASE FindParent(u)
  <2>1. ParentView(u) \in Version
    BY <1>4 DEF FindParent, ParentView, ParentStepInv, ParentTypes
  <2> QED
    BY <1>1, <1>4, <2>1 DEF FindParent, parentRow, ParentStepInv, ParentTypes, UsesInv
<1>5. CASE KeepParent(u)
  BY <1>1, <1>5 DEF KeepParent, parentRow, ParentStepInv, ParentTypes, UsesInv
<1>6. CASE ClearParent(u) \/ AssignParent(u) \/ AssignKey(u)
  BY <1>1, <1>6 DEF ClearParent, AssignParent, AssignKey, parentRow, ParentStepInv, ParentTypes, UsesInv
<1> QED
  BY <1>2, <1>3, <1>4, <1>5, <1>6, <1>7, <1>8 DEF ParentCall

\* The types hold at the start, after every step and when nothing moves.
LEMMA TypesStart == AssociationsInit => TypeInv
<1> SUFFICES ASSUME AssociationsInit PROVE TypeInv
  OBVIOUS
<1>1. TypeOK /\ DataInv
  BY HasManyAssumption DEF AssociationsInit, Init, TypeOK, DataInv, Inserted, Child
<1>2. ParentTypes /\ UsesInv /\ DOMAIN found = Thread /\ DOMAIN held = Thread
  BY BelongsToAssumption
  DEF AssociationsInit, Init, ParentInit, ParentTypes, UsesInv, Version, Gone
<1> QED
  BY <1>1, <1>2, TypesSplit DEF TypeInv, AssociationsInit

LEMMA TypesNext ==
    ASSUME TypeInv, AssociationsNext
    PROVE  TypeInv'
<1>1. PICK u \in Thread :
          \/ TransactBoth(u)
          \/ uses[u] = "children" /\ Call(u) /\ UNCHANGED parentVars
          \/ uses[u] = "parent" /\ ParentCall(u)
  BY DEF AssociationsNext
<1>2. TypeOK /\ DataInv /\ ParentStepInv /\ UNCHANGED uses
  BY TypesSplit DEF TypeInv, ParentStepInv, AssociationsNext
<1>3. DataInv'
  BY <1>1, <1>2, DataStep, DatabaseStays, Steps DEF vars
<1>4. TypeOK'
  <2>1. CASE Transact(u) \/ Call(u)
    BY <1>2, <1>3, <2>1, TypesStep
  <2>2. CASE UNCHANGED vars
    BY <1>2, <2>2 DEF vars, database, history, TypeOK
  <2> QED
    BY <1>1, <2>1, <2>2, Steps
<1>5. ParentStepInv'
  BY <1>1, <1>2, ChildrenStepParent, TransactStepParent, ParentStepParent
<1>6. uses' \in [Thread -> {"children", "parent"}]
  BY <1>2 DEF ParentStepInv, UsesInv
<1>7. AssociationsTypeOK'
  BY <1>4, <1>5, <1>6 DEF AssociationsTypeOK, ParentStepInv, ParentTypes
<1> QED
  BY <1>3, <1>5, <1>7 DEF TypeInv, ParentStepInv

LEMMA TypesStay ==
    ASSUME TypeInv, UNCHANGED allVars
    PROVE  TypeInv'
<1>1. UNCHANGED <<vars, database, history, parentVars, parentRow, uses>>
  BY DEF allVars, vars, parentVars
<1>2. DataInv'
  BY <1>1, DatabaseStays DEF TypeInv
<1>3. TypeOK'
  BY <1>1 DEF TypeInv, AssociationsTypeOK, TypeOK, vars, database, history
<1>4. ParentStepInv'
  BY <1>1, TypesSplit
  DEF TypeInv, ParentStepInv, ParentTypes, UsesInv, vars, database, parentVars, parentRow
<1>5. AssociationsTypeOK'
  BY <1>1, <1>3, <1>4 DEF TypeInv, AssociationsTypeOK, ParentStepInv, ParentTypes
<1> QED
  BY <1>2, <1>4, <1>5 DEF TypeInv, ParentStepInv

LEMMA Types == AssociationsSpec => []TypeInv
<1>1. TypeInv /\ [AssociationsNext]_allVars => TypeInv'
  BY TypesNext, TypesStay
<1> QED
  BY <1>1, TypesStart, PTL DEF AssociationsSpec

\* Every variable keeps its type; a transaction that is closed leaves nothing of
\* its own behind; a thread is in one call at a time; what a load of the parent has
\* found, or left in the cache, is a row and never the absence of one
\* (src/src/model/association/belongs_to.rs:90).
THEOREM AssociationsAreTyped == AssociationsSpec => []AssociationsTypeOK
BY Types, PTL DEF TypeInv

-----------------------------------------------------------------------------
(***************************************************************************)
(* A cleared parent is read again.                                         *)
(***************************************************************************)
LEMMA ParentStart == AssociationsInit => ParentInv
BY DEF AssociationsInit, ParentInit, ParentInv, Gone

LEMMA ParentTransact ==
    ASSUME ParentInv, NEW u \in Thread, TransactBoth(u)
    PROVE  ParentInv'
BY DEF ParentInv, TransactBoth, parentRow

LEMMA ParentWrites ==
    ASSUME ParentInv, NEW u \in Thread, SaveParent(u) \/ DeleteParent(u)
    PROVE  ParentInv'
<1>1. /\ UNCHANGED <<kept, asking, found>> /\ current' = current \cup {edited'}
      /\ parent' \in {parent, edited'}
  BY DEF SaveParent, DeleteParent, StoreParent
<1> QED
  BY <1>1 DEF ParentInv

LEMMA ParentLoads ==
    ASSUME ParentInv, ParentTypes, DOMAIN found = Thread, NEW u \in Thread,
           ParentHit(u) \/ ParentMiss(u) \/ FindParent(u) \/ FindParentFails(u) \/ KeepParent(u)
    PROVE  ParentInv'
<1>1. CASE ParentHit(u)
  BY <1>1 DEF ParentHit, ParentInv, parentRow
<1>2. CASE ParentMiss(u)
  BY <1>2 DEF ParentMiss, ParentInv, ParentTypes, parentRow
<1>3. CASE FindParent(u)
  <2>1. ParentView(u) \in current
    BY <1>3 DEF FindParent, ParentView, ParentInv
  <2> QED
    BY <1>3, <2>1 DEF FindParent, ParentInv, ParentTypes, parentRow
<1>4. CASE FindParentFails(u)
  BY <1>4 DEF FindParentFails, ParentInv, ParentTypes, parentRow
<1>5. CASE KeepParent(u)
  BY <1>5 DEF KeepParent, ParentInv, ParentTypes, parentRow
<1> QED
  BY <1>1, <1>2, <1>3, <1>4, <1>5

LEMMA ParentChanges ==
    ASSUME ParentInv, ParentTypes, NEW u \in Thread,
           ClearParent(u) \/ AssignParent(u) \/ AssignKey(u)
    PROVE  ParentInv'
<1>1. CASE ClearParent(u)
  <2>1. \A t \in Thread : asking[t] = "keep" => found[t] \in current'
    BY <1>1 DEF ClearParent, InFlight, ParentTypes, Version, Gone
  <2>2. {parent, edited} \subseteq current' \cup {Gone}
    BY <1>1 DEF ClearParent
  <2> QED
    BY <1>1, <2>1, <2>2 DEF ClearParent, ParentInv, parentRow
<1>2. CASE AssignParent(u) \/ AssignKey(u)
  BY <1>2 DEF AssignParent, AssignKey, Alone, Quiet, ParentInv, parentRow
<1> QED
  BY <1>1, <1>2

LEMMA ParentNext ==
    ASSUME TypeInv, ParentInv, [AssociationsNext]_allVars
    PROVE  ParentInv'
<1>1. ParentTypes /\ DOMAIN found = Thread
  BY TypesSplit DEF TypeInv
<1>2. CASE UNCHANGED parentVars
  BY <1>2 DEF parentVars, parentRow, ParentInv
<1>3. ASSUME NEW u \in Thread, TransactBoth(u) \/ ParentCall(u)
      PROVE  ParentInv'
  BY <1>1, <1>3, ParentTransact, ParentWrites, ParentLoads, ParentChanges DEF ParentCall
<1> QED
  BY <1>2, <1>3 DEF AssociationsNext, allVars

\* After clear_cache (src/src/model/association/belongs_to.rs:73) the field never
\* again shows a parent the database had stopped showing by then, but for a load
\* that had found its parent before the clear and stored it afterwards.
THEOREM ClearsAreLasting == AssociationsSpec => []ClearedParentIsReread
<1>1. TypeInv /\ ParentInv /\ [AssociationsNext]_allVars => ParentInv'
  BY ParentNext
<1>2. ParentInv => ClearedParentIsReread
  BY DEF ParentInv, ClearedParentIsReread
<1> QED
  BY <1>1, <1>2, ParentStart, Types, PTL DEF AssociationsSpec

-----------------------------------------------------------------------------
(***************************************************************************)
(* The children, when every thread has a HasMany field of its own, as the   *)
(* clones of a record have (src/src/model/association/has_many.rs:278).     *)
(***************************************************************************)
CachesInv == TypeInv /\ FieldsInv

LEMMA CachesNext ==
    ASSUME IsInjective(FieldOf), CachesInv, [AssociationsNext]_allVars
    PROVE  CachesInv'
<1>1. TypeInv /\ FieldsInv /\ TypeOK /\ DataInv
  BY DEF CachesInv, TypeInv, AssociationsTypeOK
<1>2. TypeInv'
  BY <1>1, TypesNext, TypesStay
<1>3. ASSUME UNCHANGED vars PROVE FieldsInv'
  BY <1>1, <1>3, FieldsStay
<1>4. ASSUME NEW u \in Thread, Transact(u) \/ Call(u)
      PROVE  FieldsInv'
  BY <1>1, <1>4, FieldsStep
<1>5. FieldsInv'
  BY <1>3, <1>4, Steps DEF AssociationsNext, allVars
<1> QED
  BY <1>2, <1>5 DEF CachesInv

LEMMA Caches ==
    ASSUME IsInjective(FieldOf)
    PROVE  AssociationsSpec => []CachesInv
<1>1. AssociationsInit => CachesInv
  BY TypesStart, FieldsInit DEF AssociationsInit, CachesInv
<1>2. CachesInv /\ [AssociationsNext]_allVars => CachesInv'
  BY CachesNext
<1> QED
  BY <1>1, <1>2, PTL DEF AssociationsSpec

LEMMA Once ==
    ASSUME NEW s, IsInjective(s), NEW c, \E i \in DOMAIN s : s[i] = c
    PROVE  Cardinality(Occurrences(s, c)) = 1
<1>1. PICK i \in DOMAIN s : s[i] = c
  OBVIOUS
<1>2. Occurrences(s, c) = {i}
  BY <1>1 DEF Occurrences, IsInjective
<1> QED
  BY <1>2, FS_Singleton

\* A loaded cache is coherent after append (src/tests/has_many.rs:191): between
\* calls it holds, exactly once, every child appended through it that its thread
\* can see, as long as no rollback of the thread came after the load.
THEOREM LoadedCachesAreCoherent ==
    ASSUME IsInjective(FieldOf)
    PROVE  AssociationsSpec => []LoadedCacheIsCoherent
<1>1. ASSUME CachesInv PROVE LoadedCacheIsCoherent
  <2> SUFFICES ASSUME NEW t \in Thread, cache[FieldOf[t]] # NotLoaded, FieldOf[t] \notin outlived
               PROVE  /\ \A c \in appended[FieldOf[t]] \cap View(t) :
                            Cardinality(Occurrences(cache[FieldOf[t]], c)) = 1
                      /\ IsInjective(cache[FieldOf[t]])
    BY DEF LoadedCacheIsCoherent
  <2>1. FieldInv(t)
    BY <1>1 DEF CachesInv, FieldsInv
  <2>2. IsInjective(cache[FieldOf[t]])
    BY <2>1 DEF FieldInv, Listing
  <2>3. \A c \in appended[FieldOf[t]] \cap View(t) :
            \E i \in DOMAIN cache[FieldOf[t]] : cache[FieldOf[t]][i] = c
    BY <2>1 DEF FieldInv, Holds
  <2> QED
    BY <2>2, <2>3, Once
<1> QED
  BY <1>1, Caches, PTL

\* What load returns was committed, or written by the same thread: never a row of a
\* transaction that another thread has open or has rolled back
\* (Connection::transaction, src/src/connection.rs:108).
THEOREM LoadsShowNoOthersTransaction ==
    ASSUME IsInjective(FieldOf)
    PROVE  AssociationsSpec => LoadsAreCommittedOrOwn
<1> DEFINE Shown(t) == \A c \in ToSet(loaded'[t]) : c \in ever' \/ by'[c] = t
<1>1. ASSUME CachesInv, NEW u \in Thread, Transact(u) \/ Call(u), NEW t \in Thread, loaded'[t] # loaded[t]
      PROVE  Shown(t)
  <2>1. TypeOK /\ DataInv /\ FieldInv(t)
    BY <1>1 DEF CachesInv, FieldsInv, TypeInv, AssociationsTypeOK
  <2>2. LoadHit(u) \/ LoadStore(u)
    BY <1>1 DEF Transact, Call, Begin, Commit, Rollback, DeleteChild, LoadMiss, LoadQuery,
                LoadQueryFails, AppendInsert, AppendRejected, AppendPush, ClearCache, history
  <2>3. u = t /\ UNCHANGED <<by, ever>>
    BY <1>1, <2>1, <2>2 DEF LoadHit, LoadStore, TypeOK, database
  <2>4. CASE LoadHit(u)
    <3>1. loaded'[t] = cache[FieldOf[t]] /\ cache[FieldOf[t]] # NotLoaded
      BY <2>1, <2>3, <2>4 DEF LoadHit, TypeOK
    <3> QED
      BY <2>1, <2>3, <3>1 DEF FieldInv, Listing, ToSet
  <2>5. CASE LoadStore(u)
    <3>1. loaded'[t] = fetched[t]
      BY <2>1, <2>3, <2>5 DEF LoadStore, TypeOK
    <3> QED
      BY <2>1, <2>3, <3>1 DEF FieldInv, Listing, ToSet
  <2> QED
    BY <2>2, <2>4, <2>5
<1> HIDE DEF Shown
<1>2. CachesInv /\ [AssociationsNext]_allVars =>
        [\A t \in Thread : loaded'[t] # loaded[t] => Shown(t)]_vars
  BY <1>1, Steps DEF AssociationsNext, allVars
<1>3. CachesInv /\ [AssociationsNext]_allVars =>
        [\A t \in Thread : loaded'[t] # loaded[t] =>
            \A c \in ToSet(loaded'[t]) : c \in ever' \/ by'[c] = t]_vars
  BY <1>2 DEF Shown
<1> QED
  BY <1>3, Caches, PTL DEF AssociationsSpec, LoadsAreCommittedOrOwn

LEMMA ConcatExtends ==
    ASSUME NEW S, NEW s \in Seq(S), NEW e \in Seq(S)
    PROVE  IsPrefix(s, s \o e)
<1>1. s \o e \in Seq(S) /\ Len(s \o e) = Len(s) + Len(e) /\ Len(s) \in Nat /\ Len(e) \in Nat
  OBVIOUS
<1>2. \A i \in 1..Len(s) : (s \o e)[i] = s[i]
  OBVIOUS
<1>3. SubSeq(s, 1, Len(s)) = [i \in 1..Len(s) |-> s[i]]
  OBVIOUS
<1>4. SubSeq(s \o e, 1, Len(s)) = [i \in 1..Len(s) |-> (s \o e)[i]]
  <2> DEFINE w == s \o e
  <2>1. w \in Seq(S) /\ Len(s) <= Len(w) /\ Len(s) \in Nat
    BY <1>1
  <2> HIDE DEF w
  <2>2. SubSeq(w, 1, Len(s)) = [i \in 1..Len(s) |-> w[i]]
    BY <2>1
  <2> QED
    BY <2>2 DEF w
<1> QED
  BY <1>1, <1>2, <1>3, <1>4 DEF IsPrefix

\* "Caching them on first access" (src/src/model/association/has_many.rs:245): once
\* children are cached they keep their places until the cache is cleared, and only
\* append adds to them.
THEOREM CachedChildrenKeepTheirPlaces ==
    ASSUME IsInjective(FieldOf)
    PROVE  AssociationsSpec => CachedChildrenStay
<1>1. ASSUME CachesInv, NEW u \in Thread, Transact(u) \/ Call(u), NEW f \in Field,
             cache[f] # NotLoaded, cache'[f] # NotLoaded
      PROVE  IsPrefix(cache[f], cache'[f])
  <2>1. TypeOK /\ FieldInv(u) /\ FieldOf[u] \in Field
    BY <1>1, HasManyAssumption DEF CachesInv, FieldsInv, TypeInv, AssociationsTypeOK
  <2>2. cache[f] \in Seq(Child)
    BY <1>1, <2>1 DEF TypeOK
  <2>3. cache'[f] = cache[f] => IsPrefix(cache[f], cache'[f])
    BY <2>2 DEF IsPrefix
  <2>4. CASE \/ Transact(u) \/ DeleteChild(u) \/ LoadHit(u) \/ LoadMiss(u) \/ LoadQuery(u)
             \/ LoadQueryFails(u) \/ AppendInsert(u) \/ AppendRejected(u)
    BY <2>3, <2>4 DEF Transact, Begin, Commit, Rollback, DeleteChild, LoadHit, LoadMiss, LoadQuery,
                      LoadQueryFails, AppendInsert, AppendRejected
  <2>5. CASE LoadStore(u) \/ ClearCache(u)
    BY <1>1, <2>1, <2>3, <2>5 DEF LoadStore, ClearCache, FieldInv, TypeOK
  <2>6. CASE AppendPush(u)
    <3>1. CASE f # FieldOf[u]
      BY <2>1, <2>3, <2>6, <3>1 DEF AppendPush, TypeOK
    <3>2. CASE f = FieldOf[u]
      <4>1. cache'[f] = cache[f] \o fetched[u] /\ fetched[u] \in Seq(Child)
        BY <1>1, <2>1, <2>6, <3>2 DEF AppendPush, TypeOK
      <4> QED
        BY <2>2, <4>1, ConcatExtends
    <3> QED
      BY <3>1, <3>2
  <2> QED
    BY <1>1, <2>4, <2>5, <2>6 DEF Call
<1>2. ASSUME CachesInv, [AssociationsNext]_allVars
      PROVE  [\A f \in Field : (cache[f] # NotLoaded /\ cache'[f] # NotLoaded) =>
                IsPrefix(cache[f], cache'[f])]_vars
  BY <1>1, <1>2, Steps DEF AssociationsNext, allVars
<1> QED
  BY <1>2, Caches, PTL DEF AssociationsSpec, CachedChildrenStay
=============================================================================
