----------------------------- MODULE Connection -----------------------------
(***************************************************************************)
(* The process-wide connection manager of src/src/connection.rs: a gate    *)
(* (RwLock), one writer connection behind a mutex, a pool of reader        *)
(* connections behind a mutex and a condition variable, and the            *)
(* thread-local transaction state that pins the writer connection while a  *)
(* transaction closure runs.                                               *)
(*                                                                         *)
(* The contents of the database are abstracted to the set of effects of    *)
(* the statements applied to it: every write statement contributes one     *)
(* effect of its own, <<t, n>>, the n-th write of thread t.                *)
(*                                                                         *)
(* The panics of a call outside a transaction closure unwind through the   *)
(* same guards as an error, and the locks recover from poisoning, so they  *)
(* are the "error" result of the call.                                     *)
(***************************************************************************)
EXTENDS Integers, Sequences, FiniteSets

CONSTANTS
    Thread,             \* the threads of the process
    Reader,             \* the reader connections, {} for Connection::memory
    NoThread,           \* "no thread holds this lock"
    NoConn,             \* "no reader connection checked out"
    MaxCalls,           \* bound: outermost calls per thread
    MaxWrites,          \* bound: write statements per thread
    MaxSavepoints,      \* bound: nested transactions per outer transaction
    WriterPreference,   \* does a waiting exclusive locker hold back shared ones
    AutoRollback        \* may a failing statement roll back the transaction

ASSUME ConnectionAssumption ==
    /\ IsFiniteSet(Thread) /\ IsFiniteSet(Reader)
    /\ NoThread \notin Thread
    /\ NoConn \notin Reader
    /\ MaxCalls \in Nat /\ MaxWrites \in Nat /\ MaxSavepoints \in Nat
    /\ WriterPreference \in BOOLEAN /\ AutoRollback \in BOOLEAN

VARIABLES
    gateShared,     \* threads holding the gate's read lock
    gateOwner,      \* the thread holding the gate's write lock
    writer,         \* the thread holding the writer mutex
    pool,           \* the reader connections in ReaderPool::conns
    conn,           \* conn[t]: the reader connection t has checked out
    call,           \* call[t]: the outermost call t is executing
    stage,          \* stage[t]: where t is in it
    tx,             \* tx[t]: TX_STATE of t; depth = 0 stands for None
    names,          \* names[t]: savepoints of the nested closures t is inside
    saves,          \* SQLite, writer connection: the open savepoints, BEGIN first
    work,           \* SQLite, writer connection: the database it sees
    db,             \* SQLite: the last committed database
    saw,            \* saw[t]: what the last read of t returned
    written,        \* written[t]: write statements t has issued
    mark,           \* mark[t]: the value of written[t] when its last call began
    result,         \* result[t]: how the last call of t ended, nested closures included
    calls           \* calls[t]: outermost calls t has begun

locks == <<gateShared, gateOwner, writer, pool, conn>>
sqlite == <<saves, work, db>>
closure == <<tx, names>>
history == <<saw, written, mark, result, calls>>
vars == <<locks, call, stage, closure, sqlite, history>>

Effect == Thread \X (1..MaxWrites)
Call == {"none", "read", "write", "transaction", "exclusive"}
Stage == {"idle", "checkout", "parked", "gate", "writer", "begin", "run",
          "unlock", "return"}
Result == {"none", "ok", "error", "panic", "failed"}
TxState == [depth : Nat, next_savepoint : Nat]
NoTx == [depth |-> 0, next_savepoint |-> 0]
Savepoint == [name : Nat, image : SUBSET Effect]

FileMode == Reader # {}

Init ==
    /\ gateShared = {} /\ gateOwner = NoThread /\ writer = NoThread
    /\ pool = Reader
    /\ conn = [t \in Thread |-> NoConn]
    /\ call = [t \in Thread |-> "none"]
    /\ stage = [t \in Thread |-> "idle"]
    /\ tx = [t \in Thread |-> NoTx]
    /\ names = [t \in Thread |-> <<>>]
    /\ saves = <<>> /\ work = {} /\ db = {}
    /\ saw = [t \in Thread |-> {}]
    /\ written = [t \in Thread |-> 0]
    /\ mark = [t \in Thread |-> 0]
    /\ result = [t \in Thread |-> "none"]
    /\ calls = [t \in Thread |-> 0]

(***************************************************************************)
(* SQLite, as the code uses it.  Each operator describes the effect of one *)
(* statement on the writer connection.                                     *)
(***************************************************************************)
Top(s) == s[Len(s)]

\* The most recent savepoint of that name; Position is 0 if there is none.
IsLatest(p, name) ==
    /\ saves[p].name = name
    /\ \A q \in (p + 1)..Len(saves) : saves[q].name # name
Position(name) ==
    IF \E p \in 1..Len(saves) : IsLatest(p, name)
    THEN CHOOSE p \in 1..Len(saves) : IsLatest(p, name)
    ELSE 0

\* A write statement: committed at once outside a transaction.
SqlWrite(effect) ==
    /\ work' = work \cup {effect}
    /\ db' = IF saves = <<>> THEN work \cup {effect} ELSE db
    /\ saves' = saves

\* BEGIN IMMEDIATE and SAVEPOINT: remember the database to come back to.
SqlSave(name) ==
    /\ saves' = Append(saves, [name |-> name, image |-> work])
    /\ UNCHANGED <<work, db>>

\* RELEASE SAVEPOINT of a name SQLite knows; releasing the outermost savepoint
\* of the connection commits.
SqlRelease(name) ==
    LET p == Position(name)
    IN  /\ p > 0
        /\ saves' = SubSeq(saves, 1, p - 1)
        /\ db' = IF p = 1 THEN work ELSE db
        /\ work' = work

\* ROLLBACK TO SAVEPOINT followed by RELEASE SAVEPOINT, both errors ignored.
SqlRollbackTo(name) ==
    LET p == Position(name)
    IN  /\ saves' = IF p = 0 THEN saves ELSE SubSeq(saves, 1, p - 1)
        /\ work' = IF p = 0 THEN work ELSE saves[p].image
        /\ db' = IF p = 1 THEN saves[p].image ELSE db

\* COMMIT: fails when no transaction is open.
SqlCommit ==
    /\ saves # <<>>
    /\ saves' = <<>> /\ db' = work /\ work' = work

\* ROLLBACK: an error, without effect, when no transaction is open.
SqlRollback ==
    /\ saves' = <<>>
    /\ work' = IF saves = <<>> THEN work ELSE saves[1].image
    /\ db' = db

(***************************************************************************)
(* Starting an outermost call.  A call of a thread whose TX_STATE is set   *)
(* never gets here: it goes straight to the pinned connection, see below.  *)
(***************************************************************************)
Start(t, c, first) ==
    /\ stage[t] = "idle" /\ tx[t].depth = 0
    /\ calls[t] < MaxCalls
    /\ calls' = [calls EXCEPT ![t] = @ + 1]
    /\ call' = [call EXCEPT ![t] = c]
    /\ stage' = [stage EXCEPT ![t] = first]
    /\ mark' = [mark EXCEPT ![t] = written[t]]
    /\ result' = [result EXCEPT ![t] = "none"]
    /\ UNCHANGED <<locks, closure, sqlite, saw, written>>

WithRead(t) == Start(t, "read", IF FileMode THEN "checkout" ELSE "gate")
WithWrite(t) == Start(t, "write", "gate")
OuterTransaction(t) == Start(t, "transaction", "gate")
WithExclusiveWrite(t) == Start(t, "exclusive", "gate")

(***************************************************************************)
(* The reader pool.  checkout holds the pool's mutex from the test of the  *)
(* vector to the pop or the wait, so each is one step.                     *)
(***************************************************************************)
Goto(t, s) == stage' = [stage EXCEPT ![t] = s]

\* Mutant: the connection stays in the pool while it is checked out.
Checkout_KeepsInPool(t) ==
    /\ stage[t] = "checkout"
    /\ \E c \in pool : conn' = [conn EXCEPT ![t] = c]
    /\ Goto(t, "gate")
    /\ UNCHANGED <<gateShared, gateOwner, writer, pool, call, closure, sqlite, history>>

Checkout(t) ==
    /\ stage[t] = "checkout"
    /\ \E c \in pool :
        /\ pool' = pool \ {c}
        /\ conn' = [conn EXCEPT ![t] = c]
    /\ Goto(t, "gate")
    /\ UNCHANGED <<gateShared, gateOwner, writer, call, closure, sqlite, history>>

CheckoutWait(t) ==
    /\ stage[t] = "checkout" /\ pool = {}
    /\ Goto(t, "parked")
    /\ UNCHANGED <<locks, call, closure, sqlite, history>>

SpuriousWakeup(t) ==
    /\ stage[t] = "parked"
    /\ Goto(t, "checkout")
    /\ UNCHANGED <<locks, call, closure, sqlite, history>>

\* Mutant: Drop without notify_one.
Return_NoNotify(t) ==
    /\ stage[t] = "return"
    /\ pool' = pool \cup {conn[t]}
    /\ conn' = [conn EXCEPT ![t] = NoConn]
    /\ Goto(t, "idle")
    /\ call' = [call EXCEPT ![t] = "none"]
    /\ UNCHANGED <<gateShared, gateOwner, writer, closure, sqlite, history>>

\* Drop for ReaderCheckout: push the connection, notify one waiter if any.
Return(t) ==
    /\ stage[t] = "return"
    /\ pool' = pool \cup {conn[t]}
    /\ conn' = [conn EXCEPT ![t] = NoConn]
    /\ LET parked == {u \in Thread : stage[u] = "parked"}
       IN  \/ /\ parked = {}
              /\ stage' = [stage EXCEPT ![t] = "idle"]
           \/ \E u \in parked :
                stage' = [stage EXCEPT ![t] = "idle", ![u] = "checkout"]
    /\ call' = [call EXCEPT ![t] = "none"]
    /\ UNCHANGED <<gateShared, gateOwner, writer, closure, sqlite, history>>

(***************************************************************************)
(* The gate, then the writer mutex.                                        *)
(***************************************************************************)
ExclusiveWaiting == \E u \in Thread : stage[u] = "gate" /\ call[u] = "exclusive"

\* Mutant: a read of an in-memory database does not take the writer mutex.
LockGateShared_ReadSkipsWriter(t) ==
    /\ stage[t] = "gate" /\ call[t] # "exclusive"
    /\ gateOwner = NoThread
    /\ gateShared' = gateShared \cup {t}
    /\ Goto(t, IF call[t] = "read" THEN "run" ELSE "writer")
    /\ UNCHANGED <<gateOwner, writer, pool, conn, call, closure, sqlite, history>>

LockGateShared(t) ==
    /\ stage[t] = "gate" /\ call[t] # "exclusive"
    /\ gateOwner = NoThread
    /\ ~(WriterPreference /\ ExclusiveWaiting)
    /\ gateShared' = gateShared \cup {t}
    /\ Goto(t, IF conn[t] # NoConn THEN "run" ELSE "writer")
    /\ UNCHANGED <<gateOwner, writer, pool, conn, call, closure, sqlite, history>>

\* Mutant: with_exclusive_write takes the gate for reading.
LockGateExclusive_Shared(t) ==
    /\ stage[t] = "gate" /\ call[t] = "exclusive"
    /\ gateOwner = NoThread
    /\ gateShared' = gateShared \cup {t}
    /\ Goto(t, "writer")
    /\ UNCHANGED <<gateOwner, writer, pool, conn, call, closure, sqlite, history>>

LockGateExclusive(t) ==
    /\ stage[t] = "gate" /\ call[t] = "exclusive"
    /\ gateOwner = NoThread /\ gateShared = {}
    /\ gateOwner' = t
    /\ Goto(t, "writer")
    /\ UNCHANGED <<gateShared, writer, pool, conn, call, closure, sqlite, history>>

LockWriter(t) ==
    /\ stage[t] = "writer"
    /\ writer = NoThread
    /\ writer' = t
    /\ Goto(t, IF call[t] \in {"transaction", "exclusive"} THEN "begin" ELSE "run")
    /\ UNCHANGED <<gateShared, gateOwner, pool, conn, call, closure, sqlite, history>>

\* Mutant: Drop pushes without testing for a checked out connection.
Unlock_AlwaysReturns(t) ==
    /\ stage[t] = "unlock"
    /\ writer' = IF writer = t THEN NoThread ELSE writer
    /\ gateOwner' = IF gateOwner = t THEN NoThread ELSE gateOwner
    /\ gateShared' = gateShared \ {t}
    /\ Goto(t, "return")
    /\ UNCHANGED <<pool, conn, call, closure, sqlite, history>>

\* The guards are dropped: writer before gate, gate before reader checkout.
Unlock(t) ==
    /\ stage[t] = "unlock"
    /\ writer' = IF writer = t THEN NoThread ELSE writer
    /\ gateOwner' = IF gateOwner = t THEN NoThread ELSE gateOwner
    /\ gateShared' = gateShared \ {t}
    /\ Goto(t, IF conn[t] # NoConn THEN "return" ELSE "idle")
    /\ call' = [call EXCEPT ![t] = IF conn[t] # NoConn THEN @ ELSE "none"]
    /\ UNCHANGED <<pool, conn, closure, sqlite, history>>

(***************************************************************************)
(* The closures of with_read and with_write: one statement each.           *)
(***************************************************************************)
\* A reader connection sees the committed database, the writer its own.
View(t) == IF conn[t] # NoConn THEN db ELSE work

Finish(t, r) ==
    /\ result' = [result EXCEPT ![t] = r]
    /\ Goto(t, "unlock")

\* A model query, or one of the public query functions, on the writer.
RunRead(t) ==
    /\ stage[t] = "run" /\ call[t] \in {"read", "write"}
    /\ saw' = [saw EXCEPT ![t] = View(t)]
    /\ Finish(t, "ok")
    /\ UNCHANGED <<locks, call, closure, sqlite, written, mark, calls>>

RunWrite(t) ==
    /\ stage[t] = "run" /\ call[t] = "write" /\ written[t] < MaxWrites
    /\ SqlWrite(<<t, written[t] + 1>>)
    /\ written' = [written EXCEPT ![t] = @ + 1]
    /\ Finish(t, "ok")
    /\ UNCHANGED <<locks, call, closure, saw, mark, calls>>

RunFails(t) ==
    /\ stage[t] = "run" /\ call[t] \in {"read", "write"}
    /\ Finish(t, "error")
    /\ UNCHANGED <<locks, call, closure, sqlite, saw, written, mark, calls>>

(***************************************************************************)
(* Transactions.  outer_transaction sets TX_STATE, immediate_transaction   *)
(* of src/src/schema/apply.rs (an exclusive call) does not: its closure is *)
(* given the connection.                                                   *)
(***************************************************************************)
\* Mutant: no BEGIN IMMEDIATE, every write of the closure commits by itself.
Begin_Autocommits(t) ==
    /\ stage[t] = "begin" /\ saves = <<>>
    /\ tx' = [tx EXCEPT ![t].depth = IF call[t] = "transaction" THEN 1 ELSE 0]
    /\ Goto(t, "run")
    /\ UNCHANGED <<locks, call, names, sqlite, history>>

Begin(t) ==
    /\ stage[t] = "begin" /\ saves = <<>>
    /\ SqlSave(0)
    /\ tx' = IF call[t] = "transaction"
             THEN [tx EXCEPT ![t] = [depth |-> 1, next_savepoint |-> 0]]
             ELSE tx
    /\ Goto(t, "run")
    /\ UNCHANGED <<locks, call, names, history>>

\* BEGIN IMMEDIATE fails (another process holds the file, or a transaction is
\* already open); an exclusive call may also return before its transaction.
BeginFails(t) ==
    /\ stage[t] = "begin"
    /\ Finish(t, "failed")
    /\ UNCHANGED <<locks, call, closure, sqlite, saw, written, mark, calls>>

InClosure(t) == stage[t] = "run" /\ call[t] \in {"transaction", "exclusive"}

\* with_read and with_write of a thread inside its transaction closure.
TxRead(t) ==
    /\ InClosure(t)
    /\ saw' = [saw EXCEPT ![t] = View(t)]
    /\ UNCHANGED <<locks, call, stage, closure, sqlite, written, mark, result, calls>>

\* Mutant: with_write forgets transaction_active() and locks again.
TxWrite_LocksAgain(t) ==
    /\ InClosure(t) /\ written[t] < MaxWrites
    /\ Goto(t, "gate")
    /\ UNCHANGED <<locks, call, closure, sqlite, history>>

TxWrite(t) ==
    /\ InClosure(t) /\ written[t] < MaxWrites
    /\ SqlWrite(<<t, written[t] + 1>>)
    /\ written' = [written EXCEPT ![t] = @ + 1]
    /\ UNCHANGED <<locks, call, stage, closure, saw, mark, result, calls>>

\* A statement fails and takes the whole transaction with it (INSERT OR
\* ROLLBACK, disk full, I/O error); a transaction closure may go on.  The closure
\* of an exclusive call propagates every error: there this is ClosureErr.
StatementRollsBack(t) ==
    /\ AutoRollback
    /\ InClosure(t) /\ tx[t].depth > 0 /\ saves # <<>>
    /\ SqlRollback
    /\ UNCHANGED <<locks, call, stage, closure, history>>

\* begin_savepoint: a fresh name from the transaction state, then SAVEPOINT.
BeginSavepoint(t) ==
    /\ InClosure(t) /\ tx[t].depth > 0
    /\ tx[t].next_savepoint < MaxSavepoints
    /\ tx' = [tx EXCEPT ![t] = [depth |-> @.depth + 1,
                              next_savepoint |-> @.next_savepoint + 1]]
    /\ names' = [names EXCEPT ![t] = Append(@, tx[t].next_savepoint + 1)]
    /\ SqlSave(tx[t].next_savepoint + 1)
    /\ UNCHANGED <<locks, call, stage, history>>

\* Mutant: SAVEPOINT fails and finish_savepoint is not called.
BeginSavepointFails_KeepsDepth(t) ==
    /\ InClosure(t) /\ tx[t].depth > 0
    /\ tx[t].next_savepoint < MaxSavepoints
    /\ tx' = [tx EXCEPT ![t] = [depth |-> @.depth + 1,
                              next_savepoint |-> @.next_savepoint + 1]]
    /\ UNCHANGED <<locks, call, stage, names, sqlite, history>>

\* SAVEPOINT fails: finish_savepoint takes the depth back, not the name.
BeginSavepointFails(t) ==
    /\ InClosure(t) /\ tx[t].depth > 0
    /\ tx[t].next_savepoint < MaxSavepoints
    /\ tx' = [tx EXCEPT ![t].next_savepoint = @ + 1]
    /\ UNCHANGED <<locks, call, stage, names, sqlite, history>>

EndSavepoint(t, r) ==
    /\ InClosure(t) /\ names[t] # <<>>
    /\ tx' = [tx EXCEPT ![t].depth = @ - 1]
    /\ names' = [names EXCEPT ![t] = SubSeq(@, 1, Len(@) - 1)]
    /\ result' = [result EXCEPT ![t] = r]
    /\ UNCHANGED <<locks, call, stage, saw, written, mark, calls>>

\* The nested closure returns Ok: RELEASE, finish_savepoint.
NestedOk(t) == EndSavepoint(t, "ok") /\ SqlRelease(Top(names[t]))

\* RELEASE fails, its name unknown or the commit it stands for refused, once the
\* whole transaction was rolled back: finish_savepoint still takes the depth
\* back, the closure's writes stay, and the nested call returns the error.
NestedReleaseFails(t) ==
    /\ EndSavepoint(t, "error")
    /\ Position(Top(names[t])) <= 1
    /\ UNCHANGED sqlite

\* Mutant: the savepoint is released without being rolled back to.
NestedErr_OnlyReleases(t) == EndSavepoint(t, "error") /\ SqlRelease(Top(names[t]))

\* The nested closure returns Err or panics: ROLLBACK TO, RELEASE,
\* finish_savepoint; the enclosing closure sees the error or catches the panic.
NestedErr(t) == EndSavepoint(t, "error") /\ SqlRollbackTo(Top(names[t]))

\* Mutant: TX_STATE is not cleared after the closure.
EndClosure_KeepsState(t, r) ==
    /\ InClosure(t) /\ names[t] = <<>>
    /\ Finish(t, r)
    /\ UNCHANGED <<locks, call, closure, saw, written, mark, calls>>

\* The outermost closure is over and TX_STATE is cleared.
EndClosure(t, r) ==
    /\ InClosure(t) /\ names[t] = <<>>
    /\ tx' = [tx EXCEPT ![t] = NoTx]
    /\ Finish(t, r)
    /\ UNCHANGED <<locks, call, names, saw, written, mark, calls>>

ClosureOk(t) == EndClosure(t, "ok") /\ SqlCommit

\* Mutant: COMMIT fails and no ROLLBACK follows.
CommitFails_NoRollback(t) == EndClosure(t, "failed") /\ UNCHANGED sqlite

\* COMMIT fails: the result of the ROLLBACK that follows is ignored.
CommitFails(t) == EndClosure(t, "failed") /\ SqlRollback

\* The closure returns Err: ROLLBACK, whose own error replaces the closure's.
ClosureErr(t) == EndClosure(t, "error") /\ SqlRollback

\* The closure panics: ROLLBACK, then resume_unwind.
ClosurePanic(t) == EndClosure(t, "panic") /\ SqlRollback

-----------------------------------------------------------------------------
LibraryStep(t) ==
    \/ Checkout(t) \/ CheckoutWait(t) \/ Return(t)
    \/ LockGateShared(t) \/ LockGateExclusive(t) \/ LockWriter(t) \/ Unlock(t)
    \/ RunRead(t) \/ RunWrite(t) \/ RunFails(t)
    \/ Begin(t) \/ BeginFails(t)
    \/ ClosureOk(t) \/ CommitFails(t) \/ ClosureErr(t) \/ ClosurePanic(t)

ClosureStep(t) ==
    \/ TxRead(t) \/ TxWrite(t) \/ StatementRollsBack(t)
    \/ BeginSavepoint(t) \/ BeginSavepointFails(t)
    \/ NestedOk(t) \/ NestedReleaseFails(t) \/ NestedErr(t)

StartCall(t) ==
    WithRead(t) \/ WithWrite(t) \/ OuterTransaction(t) \/ WithExclusiveWrite(t)

\* Every thread has made its calls: the program is over, not deadlocked.
AllDone == \A t \in Thread : stage[t] = "idle" /\ calls[t] = MaxCalls
Terminating == AllDone /\ UNCHANGED vars

Next ==
    \/ \E t \in Thread :
        StartCall(t) \/ LibraryStep(t) \/ ClosureStep(t) \/ SpuriousWakeup(t)
    \/ Terminating

Spec == Init /\ [][Next]_vars

\* A runnable thread is eventually scheduled, and a closure does not run
\* forever.  Nothing is assumed of who wins a lock or a wakeup.
FairSpec == Spec /\ \A t \in Thread : WF_vars(LibraryStep(t) \/ ClosureStep(t))

-----------------------------------------------------------------------------
(***************************************************************************)
(* Properties.                                                             *)
(***************************************************************************)
\* Every variable has its type.
TypeOK ==
    /\ gateShared \subseteq Thread
    /\ gateOwner \in Thread \cup {NoThread}
    /\ writer \in Thread \cup {NoThread}
    /\ pool \subseteq Reader
    /\ conn \in [Thread -> Reader \cup {NoConn}]
    /\ call \in [Thread -> Call]
    /\ stage \in [Thread -> Stage]
    /\ tx \in [Thread -> TxState]
    /\ names \in [Thread -> Seq(Nat)]
    /\ saves \in Seq(Savepoint)
    /\ work \in SUBSET Effect /\ db \in SUBSET Effect
    /\ saw \in [Thread -> SUBSET Effect]
    /\ written \in [Thread -> 0..MaxWrites]
    /\ mark \in [Thread -> 0..MaxWrites]
    /\ result \in [Thread -> Result]
    /\ calls \in [Thread -> 0..MaxCalls]

\* t is between taking the last lock of its call and releasing them.
Inside(t) == stage[t] \in {"begin", "run", "unlock"}

\* Who holds which lock at which stage: the inductive invariant under the
\* exclusion properties below.
HoldsGate(t) == stage[t] \in {"writer", "begin", "run", "unlock"}
ThreadLockInv(t) ==
    /\ t \in gateShared <=> HoldsGate(t) /\ call[t] # "exclusive"
    /\ t = gateOwner <=> HoldsGate(t) /\ call[t] = "exclusive"
    /\ t = writer <=> Inside(t) /\ conn[t] = NoConn
    /\ conn[t] # NoConn =>
        stage[t] \in {"gate", "run", "unlock", "return"} /\ call[t] = "read"
    /\ stage[t] \in {"checkout", "parked", "return"} => call[t] = "read"
    /\ stage[t] = "begin" => call[t] \in {"transaction", "exclusive"}
    /\ stage[t] = "return" => conn[t] # NoConn
    /\ tx[t].depth > 0 => InClosure(t) /\ call[t] = "transaction"
LockInv ==
    /\ \A t \in Thread : ThreadLockInv(t)
    /\ gateOwner # NoThread => gateShared = {}

\* The depth in TX_STATE counts the transaction closures on the thread's stack.
ClosureInv ==
    \A t \in Thread :
        /\ tx[t].depth = 0 => names[t] = <<>>
        /\ tx[t].depth > 0 => tx[t].depth = Len(names[t]) + 1

\* The writer connection has an open transaction only while a closure runs, and
\* what that transaction would go back to is the committed database.
SqlInv ==
    /\ (\A t \in Thread : ~InClosure(t)) => saves = <<>>
    /\ saves = <<>> => work = db
    /\ saves # <<>> => saves[1].image = db

\* While a schema operation holds the gate for writing, no other thread is
\* inside any operation: neither a write nor a read on a pooled connection
\* that was already checked out (with_exclusive_write against with_read).
ExclusiveRunsAlone ==
    \A t, u \in Thread :
        (t # u /\ call[t] = "exclusive" /\ Inside(t)) => ~Inside(u)

\* The writer connection is used by one thread at a time, also through the raw
\* pointer that TX_STATE keeps: a thread with a pinned connection holds the
\* writer mutex for as long as the pointer is set.
WriterConnectionIsOwned ==
    /\ \A t, u \in Thread :
        (t # u /\ Inside(t) /\ Inside(u)) => (conn[t] # NoConn \/ conn[u] # NoConn)
    /\ \A t \in Thread : tx[t].depth > 0 => writer = t /\ stage[t] = "run"

\* No reader connection is lost or handed to two threads (checkout and Drop).
PoolConserved ==
    \A c \in Reader :
        LET users == {t \in Thread : conn[t] = c}
        IN  /\ c \in pool <=> users = {}
            /\ \A t, u \in users : t = u

\* The inductive invariant.
IInv == TypeOK /\ LockInv /\ ClosureInv /\ SqlInv /\ PoolConserved

\* A thread waits on the condition variable only while every connection in
\* the pool is spoken for by a thread already awake: no wakeup is lost.
NoLostWakeup ==
    (\E t \in Thread : stage[t] = "parked") =>
        Cardinality(pool) <= Cardinality({t \in Thread : stage[t] = "checkout"})

\* The next holder of the writer mutex finds no transaction left open and
\* nothing uncommitted, whatever happened to the previous one: an error, a
\* panic, a failed COMMIT, a rolled back statement (outer_transaction).
NoTransactionLeaks ==
    (writer = NoThread \/ stage[writer] # "run") => (saves = <<>> /\ work = db)

\* TX_STATE, the nested closures on the stack and SQLite's savepoints agree,
\* so RELEASE and ROLLBACK TO always name the innermost open savepoint.
SavepointsMatchClosures ==
    \A t \in Thread : tx[t].depth > 0 =>
        /\ tx[t].depth = Len(names[t]) + 1
        /\ [i \in 1..Len(saves) |-> saves[i].name] = <<0>> \o names[t]

Issued(t) == {<<t, n>> : n \in (mark[t] + 1)..written[t]}

\* "Returning an error rolls the current transaction back" (src/README.md:35):
\* when a transaction closure returned an error or panicked, nothing it wrote
\* is in the database, nested transactions that returned Ok included.
ErrorRollsBack ==
    \A t \in Thread : result[t] \in {"error", "panic"} => Issued(t) \cap db = {}

\* A transaction() that reports any failure, a failed COMMIT included, has
\* left nothing behind.
FailureLeavesNothing ==
    \A t \in Thread : result[t] \notin {"none", "ok"} => Issued(t) \cap db = {}

\* A read outside a transaction returns the last committed database: never the
\* writes of another thread's open transaction, not even on the connection it
\* shares with that thread when the database is in memory.
ReadsAreCommitted ==
    [][\A t \in Thread :
        (saw'[t] # saw[t] /\ ~InClosure(t)) => saw'[t] = db]_vars

\* The committed database changes only by one write outside a transaction, or
\* by a whole transaction that reports success, and a nested closure that reports
\* an error has taken back its own writes and no others: the manager implements
\* the serial store.  The frames are the differences between consecutive images.
Image(i) == IF i <= Len(saves) THEN saves[i].image ELSE work
OpenFrames == [i \in 1..Len(saves) |-> Image(i + 1) \ Image(i)]
Store == INSTANCE TransactionalStore WITH
            store <- db,
            outcome <- result,
            Outcome <- Result,
            frames <- [t \in Thread |-> IF writer = t THEN OpenFrames ELSE <<>>]
ImplementsStore == Store!StoreSpec

\* Every call returns: no deadlock between the gate, the writer mutex, the
\* reader pool and the condition variable, no lost wakeup and no transaction
\* that never ends.
EveryCallReturns ==
    \A t \in Thread : stage[t] # "idle" ~> stage[t] = "idle"
=============================================================================
