---------------------------- MODULE HasManyCache ----------------------------
(***************************************************************************)
(* The child cache of a HasMany field, src/src/model/association/          *)
(* has_many.rs: load reads the cache under its mutex, queries without it   *)
(* and stores under it again; append inserts first and pushes afterwards.  *)
(* Threads may share one field through a reference, or each have their     *)
(* own (Clone starts unloaded).                                            *)
(*                                                                         *)
(* The children of one parent are numbered in the order they are inserted. *)
(* Transactions are those of Connection.tla, as its serial store promises  *)
(* them: one open at a time, a read elsewhere sees the committed rows (with *)
(* a database in memory it waits, so it has fewer behaviours).             *)
(***************************************************************************)
EXTENDS Integers, Sequences, FiniteSets, SequencesExt

CONSTANTS
    Thread, Field,
    FieldOf,        \* FieldOf[t]: the HasMany value thread t refers to
    NoThread,
    NotLoaded,      \* the cache is None
    MaxChildren     \* bound: children ever inserted

ASSUME HasManyAssumption ==
    /\ FieldOf \in [Thread -> Field]
    /\ NoThread \notin Thread
    /\ MaxChildren \in Nat

VARIABLES
    db,         \* the committed children of the parent
    work,       \* the children the open transaction sees
    owner,      \* the thread with an open transaction
    by,         \* by[c]: the thread that inserted child c
    ever,       \* the children that were committed at some time
    cache,      \* cache[f]: HasMany::cached
    stage,      \* stage[t]: where t is in load or append
    fetched,    \* fetched[t]: the rows it has queried, or the child it inserted
    loaded,     \* loaded[t]: what its last load returned
    appended,   \* appended[f]: the children whose append through f returned Ok
    outlived    \* the fields whose cache was loaded before a rollback of its user

database == <<db, work, owner, by, ever>>
history == <<loaded, appended, outlived>>
vars == <<database, cache, stage, fetched, history>>

Child == 1..MaxChildren

TypeOK ==
    /\ db \subseteq Child /\ work \subseteq Child /\ ever \subseteq Child
    /\ owner \in Thread \cup {NoThread}
    /\ by \in Seq(Thread) /\ Len(by) <= MaxChildren
    /\ DOMAIN cache = Field
    /\ \A f \in Field : cache[f] = NotLoaded \/ cache[f] \in Seq(Child)
    /\ stage \in [Thread -> {"idle", "query", "store", "push"}]
    /\ fetched \in [Thread -> Seq(Child)]
    /\ loaded \in [Thread -> Seq(Child)]
    /\ appended \in [Field -> SUBSET Child]
    /\ outlived \subseteq Field
    /\ owner = NoThread => work = db
    /\ \A t \in Thread : stage[t] = "push" => Len(fetched[t]) = 1

Init ==
    /\ db = {} /\ work = {} /\ owner = NoThread /\ by = <<>> /\ ever = {}
    /\ cache = [f \in Field |-> NotLoaded]
    /\ stage = [t \in Thread |-> "idle"]
    /\ fetched = [t \in Thread |-> <<>>]
    /\ loaded = [t \in Thread |-> <<>>]
    /\ appended = [f \in Field |-> {}]
    /\ outlived = {}

(***************************************************************************)
(* The database.                                                           *)
(***************************************************************************)
CanWrite(t) == owner \in {NoThread, t}
\* Mutant: every read runs on the connection of the open transaction.
View_Dirty(t) == work
View(t) == IF owner = t THEN work ELSE db

\* A statement of t turns the children it sees into rows.
Store(t, rows) ==
    /\ IF owner = t THEN work' = rows /\ UNCHANGED <<db, ever>>
       ELSE db' = rows /\ work' = rows /\ ever' = ever \cup rows
    /\ UNCHANGED owner

Begin(t) ==
    /\ stage[t] = "idle" /\ owner = NoThread
    /\ owner' = t
    /\ UNCHANGED <<db, work, by, ever, cache, stage, fetched, history>>

Commit(t) ==
    /\ stage[t] = "idle" /\ owner = t
    /\ owner' = NoThread /\ db' = work /\ ever' = ever \cup work
    /\ UNCHANGED <<work, by, cache, stage, fetched, history>>

Rollback(t) ==
    /\ stage[t] = "idle" /\ owner = t
    /\ owner' = NoThread /\ work' = db
    /\ outlived' = IF cache[FieldOf[t]] = NotLoaded THEN outlived
                   ELSE outlived \cup {FieldOf[t]}
    /\ UNCHANGED <<db, by, ever, cache, stage, fetched, loaded, appended>>

\* PersistedModel::delete of a child, wherever it was found.
DeleteChild(t) ==
    /\ stage[t] = "idle" /\ CanWrite(t)
    /\ \E c \in View(t) : Store(t, View(t) \ {c})
    /\ UNCHANGED <<by, cache, stage, fetched, history>>

(***************************************************************************)
(* HasMany::load                                                           *)
(***************************************************************************)
LoadHit(t) ==
    /\ stage[t] = "idle" /\ cache[FieldOf[t]] # NotLoaded
    /\ loaded' = [loaded EXCEPT ![t] = cache[FieldOf[t]]]
    /\ UNCHANGED <<database, cache, stage, fetched, appended, outlived>>

\* Mutant: the cached children are not returned, a load always queries.
LoadMiss_Always(t) ==
    /\ stage[t] = "idle"
    /\ stage' = [stage EXCEPT ![t] = "query"]
    /\ UNCHANGED <<database, cache, fetched, history>>

LoadMiss(t) ==
    /\ stage[t] = "idle" /\ cache[FieldOf[t]] = NotLoaded
    /\ stage' = [stage EXCEPT ![t] = "query"]
    /\ UNCHANGED <<database, cache, fetched, history>>

\* The query has no ORDER BY: the rows come in some order.
LoadQuery(t) ==
    /\ stage[t] = "query"
    /\ \E rows \in Bijection(1..Cardinality(View(t)), View(t)) :
        fetched' = [fetched EXCEPT ![t] = rows]
    /\ stage' = [stage EXCEPT ![t] = "store"]
    /\ UNCHANGED <<database, cache, history>>

LoadQueryFails(t) ==
    /\ stage[t] = "query"
    /\ stage' = [stage EXCEPT ![t] = "idle"]
    /\ UNCHANGED <<database, cache, fetched, history>>

LoadStore(t) ==
    /\ stage[t] = "store"
    /\ cache' = [cache EXCEPT ![FieldOf[t]] = fetched[t]]
    /\ loaded' = [loaded EXCEPT ![t] = fetched[t]]
    /\ stage' = [stage EXCEPT ![t] = "idle"]
    /\ fetched' = [fetched EXCEPT ![t] = <<>>]
    /\ UNCHANGED <<database, appended, outlived>>

(***************************************************************************)
(* HasMany::append                                                         *)
(***************************************************************************)
Insert(t) ==
    /\ stage[t] = "idle" /\ CanWrite(t) /\ Len(by) < MaxChildren
    /\ by' = Append(by, t)
    /\ Store(t, View(t) \cup {Len(by')})

AppendInsert(t) ==
    /\ Insert(t)
    /\ fetched' = [fetched EXCEPT ![t] = <<Len(by')>>]
    /\ stage' = [stage EXCEPT ![t] = "push"]
    /\ UNCHANGED <<cache, history>>

\* NewModel::save inserts the row and then rejects its primary key: append
\* returns the error and the row stays.
AppendRejected(t) ==
    /\ Insert(t)
    /\ UNCHANGED <<cache, stage, fetched, history>>

\* Mutant: an unloaded cache becomes the one new child.
AppendPush_Seeds(t) ==
    LET f == FieldOf[t]
    IN  /\ stage[t] = "push"
        /\ cache' = [cache EXCEPT ![f] =
                        IF @ = NotLoaded THEN fetched[t] ELSE @ \o fetched[t]]
        /\ appended' = [appended EXCEPT ![f] = @ \cup ToSet(fetched[t])]
        /\ stage' = [stage EXCEPT ![t] = "idle"]
        /\ fetched' = [fetched EXCEPT ![t] = <<>>]
        /\ UNCHANGED <<database, loaded, outlived>>

AppendPush(t) ==
    LET f == FieldOf[t]
    IN  /\ stage[t] = "push"
        /\ cache' = [cache EXCEPT ![f] =
                        IF @ = NotLoaded THEN @ ELSE @ \o fetched[t]]
        /\ appended' = [appended EXCEPT ![f] = @ \cup ToSet(fetched[t])]
        /\ stage' = [stage EXCEPT ![t] = "idle"]
        /\ fetched' = [fetched EXCEPT ![t] = <<>>]
        /\ UNCHANGED <<database, loaded, outlived>>

ClearCache(t) ==
    /\ stage[t] = "idle"
    /\ cache' = [cache EXCEPT ![FieldOf[t]] = NotLoaded]
    /\ outlived' = outlived \ {FieldOf[t]}
    /\ UNCHANGED <<database, stage, fetched, loaded, appended>>

Transact(t) == Begin(t) \/ Commit(t) \/ Rollback(t)

Call(t) ==
    \/ DeleteChild(t)
    \/ LoadHit(t) \/ LoadMiss(t) \/ LoadQuery(t) \/ LoadQueryFails(t) \/ LoadStore(t)
    \/ AppendInsert(t) \/ AppendRejected(t) \/ AppendPush(t)
    \/ ClearCache(t)

Next == \E t \in Thread : Transact(t) \/ Call(t)
Spec == Init /\ [][Next]_vars

-----------------------------------------------------------------------------
(***************************************************************************)
(* Properties.  They hold when every thread has a field of its own; the    *)
(* run with a shared field shows what sharing one breaks.                   *)
(***************************************************************************)
Quiescent(f) == \A t \in Thread : FieldOf[t] = f => stage[t] = "idle"
Occurrences(s, c) == {i \in DOMAIN s : s[i] = c}

\* A loaded cache is coherent after append (src/tests/has_many.rs:191): between
\* calls it holds, exactly once, every child appended through the field that its
\* user can still find in the database, however its loads, clears, transactions
\* and other threads' rows fell in between.  A cache that outlives a rollback of
\* its user is exempt: nothing tells it that its rows are gone or back.
LoadedCacheIsCoherent ==
    \A t \in Thread : LET f == FieldOf[t] IN
        (Quiescent(f) /\ cache[f] # NotLoaded /\ f \notin outlived) =>
            /\ \A c \in appended[f] \cap View(t) : Cardinality(Occurrences(cache[f], c)) = 1
            /\ IsInjective(cache[f])

\* What load returns was committed, or written by the same thread: never a row
\* of a transaction another thread has open or has rolled back
\* (Connection::transaction, src/src/connection.rs:108).
LoadsAreCommittedOrOwn ==
    [][\A t \in Thread : loaded'[t] # loaded[t] =>
        \A c \in ToSet(loaded'[t]) : c \in ever' \/ by'[c] = t]_vars

\* "Caching them on first access" (src/src/model/association/has_many.rs:245): once children are cached
\* they keep their places until the cache is cleared; only append adds to them.
CachedChildrenStay ==
    [][\A f \in Field : (cache[f] # NotLoaded /\ cache'[f] # NotLoaded) =>
        IsPrefix(cache[f], cache'[f])]_vars
=============================================================================
