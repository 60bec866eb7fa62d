-------------------------- MODULE ConnectionProofs --------------------------
(***************************************************************************)
(* Proofs about Connection, for every set of threads, every pool and every *)
(* bound.                                                                  *)
(***************************************************************************)
EXTENDS Connection, FiniteSetTheorems, TLAPS

-----------------------------------------------------------------------------
(***************************************************************************)
(* Type correctness.  The SQL operators are typed once.                    *)
(***************************************************************************)
SqlTypeOK ==
    /\ saves \in Seq(Savepoint)
    /\ work \in SUBSET Effect
    /\ db \in SUBSET Effect

\* The position of a savepoint is 0 or an index into the open savepoints.
LEMMA PositionRange ==
    ASSUME SqlTypeOK, NEW name
    PROVE  Position(name) \in 0..Len(saves)
  <1>1. CASE \E p \in 1..Len(saves) : IsLatest(p, name)
    BY <1>1 DEF Position, SqlTypeOK
  <1>2. CASE ~\E p \in 1..Len(saves) : IsLatest(p, name)
    BY <1>2 DEF Position, SqlTypeOK
  <1> QED BY <1>1, <1>2

\* Every statement on the writer connection leaves it well typed.
LEMMA SqlWriteType ==
    ASSUME SqlTypeOK, NEW e \in Effect, SqlWrite(e)
    PROVE  SqlTypeOK'
  BY DEF SqlTypeOK, SqlWrite

LEMMA SqlSaveType ==
    ASSUME SqlTypeOK, NEW name \in Nat, SqlSave(name)
    PROVE  SqlTypeOK'
  BY DEF SqlTypeOK, SqlSave, Savepoint

LEMMA SqlReleaseType ==
    ASSUME SqlTypeOK, NEW name \in Nat, SqlRelease(name)
    PROVE  SqlTypeOK'
  BY PositionRange DEF SqlTypeOK, SqlRelease

LEMMA SqlRollbackToType ==
    ASSUME SqlTypeOK, NEW name \in Nat, SqlRollbackTo(name)
    PROVE  SqlTypeOK'
  <1> DEFINE p == Position(name)
  <1>1. p \in 0..Len(saves) /\ Len(saves) \in Nat
    BY PositionRange DEF SqlTypeOK
  <1>2. p # 0 => saves[p] \in Savepoint
    BY <1>1 DEF SqlTypeOK
  <1>3. p # 0 => saves[p].image \in SUBSET Effect
    BY <1>2 DEF Savepoint
  <1>4. saves' \in Seq(Savepoint)
    BY <1>1 DEF SqlTypeOK, SqlRollbackTo
  <1>5. work' \in SUBSET Effect /\ db' \in SUBSET Effect
    BY <1>1, <1>3 DEF SqlTypeOK, SqlRollbackTo
  <1> QED BY <1>4, <1>5 DEF SqlTypeOK

LEMMA SqlCommitType ==
    ASSUME SqlTypeOK, SqlCommit
    PROVE  SqlTypeOK'
  BY DEF SqlTypeOK, SqlCommit

LEMMA SqlRollbackType ==
    ASSUME SqlTypeOK, SqlRollback
    PROVE  SqlTypeOK'
  <1>1. saves # <<>> => saves[1] \in Savepoint
    BY DEF SqlTypeOK
  <1>2. saves # <<>> => saves[1].image \in SUBSET Effect
    BY <1>1 DEF Savepoint
  <1> QED BY <1>2 DEF SqlTypeOK, SqlRollback

\* The part of TypeOK that is not about the writer connection.
ControlTypeOK ==
    /\ gateShared \subseteq Thread
    /\ gateOwner \in Thread \cup {NoThread}
    /\ writer \in Thread \cup {NoThread}
    /\ pool \subseteq Reader
    /\ conn \in [Thread -> Reader \cup {NoConn}]
    /\ call \in [Thread -> Call]
    /\ stage \in [Thread -> Stage]
    /\ tx \in [Thread -> TxState]
    /\ names \in [Thread -> Seq(Nat)]
    /\ saw \in [Thread -> SUBSET Effect]
    /\ written \in [Thread -> 0..MaxWrites]
    /\ mark \in [Thread -> 0..MaxWrites]
    /\ result \in [Thread -> Result]
    /\ calls \in [Thread -> 0..MaxCalls]

LEMMA TypeSplit == TypeOK <=> ControlTypeOK /\ SqlTypeOK
  BY DEF TypeOK, ControlTypeOK, SqlTypeOK

LEMMA InitTypeOK == Init => TypeOK
  BY ConnectionAssumption DEF Init, TypeOK, NoTx, TxState, Call, Stage, Result

\* The fields of the transaction state are natural numbers.
LEMMA TxFields ==
    ASSUME ControlTypeOK, NEW t \in Thread
    PROVE  tx[t] \in TxState /\ tx[t].depth \in Nat /\ tx[t].next_savepoint \in Nat
  <1>1. tx[t] \in TxState
    BY DEF ControlTypeOK
  <1> QED BY <1>1 DEF TxState

LEMMA EndSavepointType ==
    ASSUME ControlTypeOK, ClosureInv, NEW t \in Thread, NEW r \in Result,
           EndSavepoint(t, r)
    PROVE  ControlTypeOK'
  <1>1. /\ names[t] \in Seq(Nat) /\ names[t] # <<>>
        /\ tx[t] \in TxState
        /\ tx[t].depth = Len(names[t]) + 1
    <2>1. names[t] \in Seq(Nat)
      BY DEF ControlTypeOK
    <2>2. names[t] # <<>> /\ tx[t].depth \in Nat
      BY TxFields DEF EndSavepoint
    <2>3. tx[t].depth = Len(names[t]) + 1
      BY <2>2 DEF ClosureInv
    <2> QED BY <2>1, <2>2, <2>3, TxFields
  <1>2. SubSeq(names[t], 1, Len(names[t]) - 1) \in Seq(Nat)
    BY <1>1
  <1>3. [tx[t] EXCEPT !.depth = @ - 1] \in TxState
    BY <1>1 DEF TxState
  <1>4. tx' \in [Thread -> TxState]
    BY <1>3 DEF ControlTypeOK, EndSavepoint
  <1>5. names' \in [Thread -> Seq(Nat)]
    BY <1>2 DEF ControlTypeOK, EndSavepoint
  <1> QED BY <1>4, <1>5 DEF ControlTypeOK, EndSavepoint, locks

LEMMA EndClosureType ==
    ASSUME ControlTypeOK, NEW t \in Thread, NEW r \in Result, EndClosure(t, r)
    PROVE  ControlTypeOK'
  <1>1. NoTx \in TxState
    BY DEF NoTx, TxState
  <1> QED BY <1>1 DEF ControlTypeOK, EndClosure, Finish, Goto, locks, Stage

\* Every step keeps the types; that a returned checkout is a connection comes
\* from LockInv, that the depth is positive when a closure ends from ClosureInv.
LEMMA StepControlType ==
    ASSUME ControlTypeOK, SqlTypeOK, LockInv, ClosureInv, NEW t \in Thread
    PROVE  /\ StartCall(t) => ControlTypeOK'
           /\ LibraryStep(t) => ControlTypeOK'
           /\ ClosureStep(t) => ControlTypeOK'
           /\ SpuriousWakeup(t) => ControlTypeOK'
  <1> USE ConnectionAssumption DEF ControlTypeOK
  <1>0. ASSUME NEW c \in Call, NEW f \in Stage, Start(t, c, f) PROVE ControlTypeOK'
    <2>1. calls[t] + 1 \in 0..MaxCalls
      BY SMTT(30), <1>0 DEF Start
    <2> QED BY <1>0, <2>1 DEF Start, locks, closure, Result
  <1>1. ASSUME Checkout(t) PROVE ControlTypeOK'
    BY SMTT(30), <1>1 DEF Checkout, Goto, closure, history, Stage, Call, Result
  <1>2. ASSUME CheckoutWait(t) PROVE ControlTypeOK'
    BY <1>2 DEF CheckoutWait, Goto, locks, closure, history, Stage, Call, Result
  <1>3. ASSUME SpuriousWakeup(t) PROVE ControlTypeOK'
    BY <1>3 DEF SpuriousWakeup, Goto, locks, closure, history, Stage, Call, Result
  <1>4. ASSUME Return(t) PROVE ControlTypeOK'
    <2>1. conn[t] \in Reader /\ pool' \subseteq Reader
      BY <1>4 DEF Return, LockInv, ThreadLockInv
    <2> QED BY <1>4, <2>1 DEF Return, closure, history, Stage, Call, Result
  <1>5. ASSUME LockGateShared(t) PROVE ControlTypeOK'
    BY <1>5 DEF LockGateShared, Goto, closure, history, Stage, Call, Result
  <1>6. ASSUME LockGateExclusive(t) PROVE ControlTypeOK'
    BY <1>6 DEF LockGateExclusive, Goto, closure, history, Stage, Call, Result
  <1>7. ASSUME LockWriter(t) PROVE ControlTypeOK'
    BY <1>7 DEF LockWriter, Goto, closure, history, Stage, Call, Result
  <1>8. ASSUME Unlock(t) PROVE ControlTypeOK'
    BY <1>8 DEF Unlock, Goto, closure, history, Stage, Call, Result
  <1>9. ASSUME RunRead(t) PROVE ControlTypeOK'
    <2>1. View(t) \in SUBSET Effect
      BY <1>9 DEF View, SqlTypeOK
    <2> QED BY <1>9, <2>1 DEF RunRead, Finish, Goto, locks, closure, View, Stage, Call, Result
  <1>10. ASSUME RunWrite(t) PROVE ControlTypeOK'
    <2>1. written[t] + 1 \in 0..MaxWrites
      BY <1>10 DEF RunWrite
    <2> QED BY <1>10, <2>1 DEF RunWrite, Finish, Goto, locks, closure, Stage, Call, Result
  <1>11. ASSUME RunFails(t) PROVE ControlTypeOK'
    BY <1>11 DEF RunFails, Finish, Goto, locks, closure, Stage, Call, Result
  <1>12. ASSUME Begin(t) PROVE ControlTypeOK'
    <2>1. tx' \in [Thread -> TxState]
      BY <1>12 DEF Begin, TxState
    <2> QED BY <1>12, <2>1 DEF Begin, Goto, locks, history, Stage, Call, Result
  <1>13. ASSUME BeginFails(t) PROVE ControlTypeOK'
    BY <1>13 DEF BeginFails, Finish, Goto, locks, closure, Stage, Call, Result
  <1>14. ASSUME TxRead(t) PROVE ControlTypeOK'
    <2>1. View(t) \in SUBSET Effect
      BY <1>14 DEF View, SqlTypeOK
    <2> QED BY <1>14, <2>1 DEF TxRead, locks, closure, View, Stage, Call, Result
  <1>15. ASSUME TxWrite(t) PROVE ControlTypeOK'
    <2>1. written[t] + 1 \in 0..MaxWrites
      BY <1>15 DEF TxWrite
    <2> QED BY <1>15, <2>1 DEF TxWrite, locks, closure, Stage, Call, Result
  <1>16. ASSUME StatementRollsBack(t) PROVE ControlTypeOK'
    BY <1>16 DEF StatementRollsBack, locks, closure, history, Stage, Call, Result
  <1>17. ASSUME BeginSavepoint(t) PROVE ControlTypeOK'
    <2>0. tx[t].next_savepoint + 1 \in Nat /\ tx[t].depth + 1 \in Nat
      BY SMTT(30), TxFields
    <2>1. /\ tx' \in [Thread -> TxState]
          /\ names' \in [Thread -> Seq(Nat)]
      <3>1. tx' \in [Thread -> TxState]
        BY <1>17, <2>0 DEF BeginSavepoint, TxState
      <3>2. names' \in [Thread -> Seq(Nat)]
        BY <1>17, <2>0 DEF BeginSavepoint
      <3> QED BY <3>1, <3>2
    <2> QED BY <1>17, <2>1 DEF BeginSavepoint, locks, history, Stage, Call, Result
  <1>18. ASSUME BeginSavepointFails(t) PROVE ControlTypeOK'
    <2>1. tx' \in [Thread -> TxState]
      BY SMTT(30), <1>18 DEF BeginSavepointFails, TxState
    <2> QED BY <1>18, <2>1 DEF BeginSavepointFails, locks, history, Stage, Call, Result
  <1>19. ASSUME NestedOk(t) PROVE ControlTypeOK'
    BY <1>19, EndSavepointType DEF NestedOk, Result
  <1>20. ASSUME NestedErr(t) PROVE ControlTypeOK'
    BY <1>20, EndSavepointType DEF NestedErr, Result
  <1>25. ASSUME NestedReleaseFails(t) PROVE ControlTypeOK'
    BY <1>25, EndSavepointType DEF NestedReleaseFails, Result
  <1>21. ASSUME ClosureOk(t) PROVE ControlTypeOK'
    BY <1>21, EndClosureType DEF ClosureOk, Result
  <1>22. ASSUME CommitFails(t) PROVE ControlTypeOK'
    BY <1>22, EndClosureType DEF CommitFails, Result
  <1>23. ASSUME ClosureErr(t) PROVE ControlTypeOK'
    BY <1>23, EndClosureType DEF ClosureErr, Result
  <1>24. ASSUME ClosurePanic(t) PROVE ControlTypeOK'
    BY <1>24, EndClosureType DEF ClosurePanic, Result
  <1> QED
    BY <1>0, <1>1, <1>2, <1>3, <1>4, <1>5, <1>6, <1>7, <1>8, <1>9, <1>10, <1>11, <1>12, <1>13, <1>14, <1>15, <1>16, <1>17, <1>18, <1>19, <1>20, <1>21, <1>22, <1>23, <1>24, <1>25
    DEF StartCall, WithRead, WithWrite, OuterTransaction, WithExclusiveWrite,
        LibraryStep, ClosureStep, Call, Stage

\* Every step keeps the writer connection well typed.
LEMMA StepSqlType ==
    ASSUME ControlTypeOK, SqlTypeOK, NEW t \in Thread
    PROVE  /\ StartCall(t) => SqlTypeOK'
           /\ LibraryStep(t) => SqlTypeOK'
           /\ ClosureStep(t) => SqlTypeOK'
           /\ SpuriousWakeup(t) => SqlTypeOK'
  <1>1. ASSUME UNCHANGED sqlite PROVE SqlTypeOK'
    BY <1>1 DEF sqlite, SqlTypeOK
  <1>2. ASSUME RunWrite(t) \/ TxWrite(t) PROVE SqlTypeOK'
    <2>1. written[t] \in 0..MaxWrites /\ written[t] < MaxWrites
      BY <1>2 DEF RunWrite, TxWrite, ControlTypeOK
    <2>2. written[t] + 1 \in 1..MaxWrites
      BY <2>1, ConnectionAssumption DEF ConnectionAssumption
    <2>3. <<t, written[t] + 1>> \in Effect
      BY <2>2 DEF Effect
    <2> QED BY <1>2, <2>3, SqlWriteType DEF RunWrite, TxWrite
  <1>3. ASSUME Begin(t) \/ BeginSavepoint(t) PROVE SqlTypeOK'
    BY <1>3, SqlSaveType, TxFields DEF Begin, BeginSavepoint
  <1>4. ASSUME NestedOk(t) \/ NestedErr(t) PROVE SqlTypeOK'
    <2>1. names[t] \in Seq(Nat) /\ names[t] # <<>>
      BY <1>4 DEF NestedOk, NestedErr, EndSavepoint, ControlTypeOK
    <2>2. Top(names[t]) \in Nat
      BY <2>1 DEF Top
    <2> QED BY <1>4, <2>2, SqlReleaseType, SqlRollbackToType DEF NestedOk, NestedErr
  <1>5. ASSUME ClosureOk(t) \/ CommitFails(t) \/ ClosureErr(t) \/ ClosurePanic(t)
               \/ StatementRollsBack(t)
        PROVE  SqlTypeOK'
    BY <1>5, SqlCommitType, SqlRollbackType
    DEF ClosureOk, CommitFails, ClosureErr, ClosurePanic, StatementRollsBack
  <1> QED
    BY <1>1, <1>2, <1>3, <1>4, <1>5
    DEF StartCall, WithRead, WithWrite, OuterTransaction, WithExclusiveWrite, Start,
        LibraryStep, Checkout, CheckoutWait, Return, LockGateShared,
        LockGateExclusive, LockWriter, Unlock, RunRead, RunFails, BeginFails,
        ClosureStep, TxRead, BeginSavepointFails, NestedReleaseFails, SpuriousWakeup

-----------------------------------------------------------------------------
(***************************************************************************)
(* Locks.                                                                  *)
(***************************************************************************)
LEMMA InitLockInv == Init => LockInv
  BY ConnectionAssumption
     DEF Init, LockInv, ThreadLockInv, HoldsGate, Inside, InClosure, NoTx

LEMMA EndSavepointLockInv ==
    ASSUME ControlTypeOK, LockInv, NEW t \in Thread, NEW r, EndSavepoint(t, r)
    PROVE  LockInv'
  <1>1. \A u \in Thread : tx'[u].depth > 0 => tx[u].depth > 0
    <2> TAKE u \in Thread
    <2>1. tx[u] \in TxState /\ tx[u].depth \in Nat
      BY DEF ControlTypeOK, TxState
    <2>2. tx'[u].depth = IF u = t THEN tx[u].depth - 1 ELSE tx[u].depth
      BY <2>1 DEF EndSavepoint, ControlTypeOK, TxState
    <2> QED BY <2>1, <2>2
  <1> QED
    BY <1>1 DEF EndSavepoint, LockInv, ThreadLockInv, HoldsGate, Inside, InClosure, locks

LEMMA EndClosureLockInv ==
    ASSUME ControlTypeOK, LockInv, NEW t \in Thread, NEW r, EndClosure(t, r)
    PROVE  LockInv'
  <1>1. tx' = [tx EXCEPT ![t] = NoTx] /\ NoTx.depth = 0
    BY DEF EndClosure, NoTx
  <1> QED
    BY <1>1 DEF EndClosure, Finish, Goto, ControlTypeOK, LockInv, ThreadLockInv, HoldsGate, Inside,
                InClosure, locks

LEMMA StepLockInv ==
    ASSUME ControlTypeOK, LockInv, NEW t \in Thread
    PROVE  /\ StartCall(t) => LockInv'
           /\ LibraryStep(t) => LockInv'
           /\ ClosureStep(t) => LockInv'
           /\ SpuriousWakeup(t) => LockInv'
  <1> USE ConnectionAssumption DEF ControlTypeOK, LockInv, ThreadLockInv, HoldsGate, Inside, InClosure
  <1>0. ASSUME NEW c \in Call \ {"none"}, NEW f \in {"checkout", "gate"},
               f = "checkout" => c = "read", Start(t, c, f)
        PROVE LockInv'
    <2>1. /\ stage[t] = "idle" /\ stage'[t] = f /\ call'[t] = c
          /\ UNCHANGED <<gateShared, gateOwner, writer, conn, tx>>
      BY <1>0 DEF Start, locks, closure
    <2>2. \A u \in Thread \ {t} : stage'[u] = stage[u] /\ call'[u] = call[u]
      BY <1>0 DEF Start
    <2>3. ASSUME NEW u \in Thread \ {t} PROVE ThreadLockInv(u)'
      BY <2>1, <2>2
    <2>4. ThreadLockInv(t)'
      BY <1>0, <2>1
    <2> QED BY <2>1, <2>3, <2>4
  <1>1. ASSUME Checkout(t) PROVE LockInv'
    BY <1>1 DEF Checkout, Goto, closure, history
  <1>2. ASSUME CheckoutWait(t) PROVE LockInv'
    BY SMTT(30), <1>2 DEF CheckoutWait, Goto, locks, closure, history
  <1>3. ASSUME SpuriousWakeup(t) PROVE LockInv'
    BY SMTT(30), <1>3 DEF SpuriousWakeup, Goto, locks, closure, history
  <1>4. ASSUME Return(t) PROVE LockInv'
    <2>1. /\ \A u \in Thread \ {t} : conn'[u] = conn[u] /\ call'[u] = call[u]
          /\ conn'[t] = NoConn /\ call'[t] = "none" /\ stage'[t] = "idle"
      BY <1>4 DEF Return
    <2>2. \A u \in Thread \ {t} :
            stage'[u] = stage[u] \/ (stage[u] = "parked" /\ stage'[u] = "checkout")
      BY <1>4 DEF Return
    <2>3. /\ stage[t] = "return" /\ conn[t] # NoConn
          /\ UNCHANGED <<gateShared, gateOwner, writer, tx>>
      BY <1>4 DEF Return, closure
    <2>4. \A u \in Thread \ {t} : HoldsGate(u)' = HoldsGate(u) /\ Inside(u)' = Inside(u)
                                 /\ InClosure(u)' = InClosure(u)
      BY <2>1, <2>2
    <2>5. ASSUME NEW u \in Thread \ {t} PROVE ThreadLockInv(u)'
      BY SMTT(30), <2>1, <2>2, <2>3, <2>4, <2>5
    <2>6. ThreadLockInv(t)'
      BY <2>1, <2>3
    <2> QED BY <2>3, <2>5, <2>6
  <1>5. ASSUME LockGateShared(t) PROVE LockInv'
    BY <1>5 DEF LockGateShared, Goto, closure, history
  <1>6. ASSUME LockGateExclusive(t) PROVE LockInv'
    BY SMTT(30), <1>6 DEF LockGateExclusive, Goto, closure, history
  <1>7. ASSUME LockWriter(t) PROVE LockInv'
    BY <1>7 DEF LockWriter, Goto, closure, history
  <1>8. ASSUME Unlock(t) PROVE LockInv'
    BY <1>8 DEF Unlock, Goto, closure, history
  <1>9. ASSUME RunRead(t) PROVE LockInv'
    BY <1>9 DEF RunRead, Finish, Goto, locks, closure, View
  <1>10. ASSUME RunWrite(t) PROVE LockInv'
    BY SMTT(30), <1>10 DEF RunWrite, Finish, Goto, locks, closure
  <1>11. ASSUME RunFails(t) PROVE LockInv'
    BY <1>11 DEF RunFails, Finish, Goto, locks, closure
  <1>12. ASSUME Begin(t) PROVE LockInv'
    BY <1>12 DEF Begin, Goto, locks, history
  <1>13. ASSUME BeginFails(t) PROVE LockInv'
    BY <1>13 DEF BeginFails, Finish, Goto, locks, closure
  <1>14. ASSUME TxRead(t) PROVE LockInv'
    BY <1>14 DEF TxRead, locks, closure, View
  <1>15. ASSUME TxWrite(t) PROVE LockInv'
    BY <1>15 DEF TxWrite, locks, closure
  <1>16. ASSUME StatementRollsBack(t) PROVE LockInv'
    BY <1>16 DEF StatementRollsBack, locks, closure, history
  <1>17. ASSUME BeginSavepoint(t) PROVE LockInv'
    BY <1>17 DEF BeginSavepoint, locks, history
  <1>18. ASSUME BeginSavepointFails(t) PROVE LockInv'
    BY <1>18 DEF BeginSavepointFails, locks, history
  <1>19. ASSUME NestedOk(t) PROVE LockInv'
    BY <1>19, EndSavepointLockInv DEF NestedOk
  <1>20. ASSUME NestedErr(t) PROVE LockInv'
    BY <1>20, EndSavepointLockInv DEF NestedErr
  <1>25. ASSUME NestedReleaseFails(t) PROVE LockInv'
    BY <1>25, EndSavepointLockInv DEF NestedReleaseFails
  <1>21. ASSUME ClosureOk(t) PROVE LockInv'
    BY <1>21, EndClosureLockInv DEF ClosureOk
  <1>22. ASSUME CommitFails(t) PROVE LockInv'
    BY <1>22, EndClosureLockInv DEF CommitFails
  <1>23. ASSUME ClosureErr(t) PROVE LockInv'
    BY <1>23, EndClosureLockInv DEF ClosureErr
  <1>24. ASSUME ClosurePanic(t) PROVE LockInv'
    BY <1>24, EndClosureLockInv DEF ClosurePanic
  <1> QED
    BY <1>0, <1>1, <1>2, <1>3, <1>4, <1>5, <1>6, <1>7, <1>8, <1>9, <1>10, <1>11, <1>12, <1>13, <1>14, <1>15, <1>16, <1>17, <1>18, <1>19, <1>20, <1>21, <1>22, <1>23, <1>24, <1>25
    DEF StartCall, WithRead, WithWrite, OuterTransaction, WithExclusiveWrite,
        LibraryStep, ClosureStep, Call
-----------------------------------------------------------------------------
(***************************************************************************)
(* Transaction state.                                                      *)
(***************************************************************************)
LEMMA StepClosureInv ==
    ASSUME ControlTypeOK, LockInv, ClosureInv, NEW t \in Thread
    PROVE  /\ StartCall(t) => ClosureInv'
           /\ LibraryStep(t) => ClosureInv'
           /\ ClosureStep(t) => ClosureInv'
           /\ SpuriousWakeup(t) => ClosureInv'
  <1>1. ASSUME UNCHANGED closure PROVE ClosureInv'
    BY <1>1 DEF closure, ClosureInv
  <1>2. ASSUME Begin(t) PROVE ClosureInv'
    <2>1. tx[t].depth = 0 /\ names[t] = <<>>
      BY <1>2, TxFields
      DEF Begin, LockInv, ThreadLockInv, InClosure, ClosureInv
    <2>2. \A u \in Thread \ {t} : tx'[u] = tx[u]
      BY <1>2 DEF Begin, ControlTypeOK
    <2>3. names' = names /\ (tx'[t] = tx[t] \/ tx'[t].depth = 1)
      BY <1>2 DEF Begin, ControlTypeOK
    <2>4. Len(names[t]) = 0
      BY <2>1
    <2> QED BY <2>1, <2>2, <2>3, <2>4 DEF ClosureInv
  <1>3. ASSUME BeginSavepoint(t) PROVE ClosureInv'
    <2>1. /\ tx'[t].depth = tx[t].depth + 1 /\ tx[t].depth \in Nat
          /\ names'[t] = Append(names[t], tx[t].next_savepoint + 1)
          /\ names[t] \in Seq(Nat) /\ tx[t].next_savepoint + 1 \in Nat
      BY <1>3, TxFields DEF BeginSavepoint, ControlTypeOK
    <2>2. Len(names'[t]) = Len(names[t]) + 1
      BY <2>1
    <2>3. tx[t].depth = Len(names[t]) + 1
      BY <1>3, <2>1 DEF BeginSavepoint, ClosureInv
    <2>5. tx'[t].depth = Len(names'[t]) + 1 /\ tx'[t].depth # 0
      BY <2>1, <2>2, <2>3
    <2>4. \A u \in Thread \ {t} : tx'[u] = tx[u] /\ names'[u] = names[u]
      BY <1>3 DEF BeginSavepoint, ControlTypeOK
    <2> QED BY <2>4, <2>5 DEF ClosureInv
  <1>4. ASSUME BeginSavepointFails(t) PROVE ClosureInv'
    BY <1>4 DEF BeginSavepointFails, ClosureInv, ControlTypeOK, TxState
  <1>5. ASSUME NEW r, EndSavepoint(t, r) PROVE ClosureInv'
    <2>1. /\ tx'[t].depth = tx[t].depth - 1 /\ tx[t].depth \in Nat
          /\ names'[t] = SubSeq(names[t], 1, Len(names[t]) - 1)
          /\ names[t] \in Seq(Nat) /\ names[t] # <<>>
      BY <1>5, TxFields DEF EndSavepoint, ControlTypeOK, TxState
    <2>2. Len(names'[t]) = Len(names[t]) - 1 /\ Len(names[t]) > 0
      BY <2>1
    <2>3. tx[t].depth = Len(names[t]) + 1
      BY <2>1 DEF ClosureInv
    <2>5. tx'[t].depth = Len(names'[t]) + 1 /\ tx'[t].depth # 0
      BY <2>1, <2>2, <2>3
    <2>4. \A u \in Thread \ {t} : tx'[u] = tx[u] /\ names'[u] = names[u]
      BY <1>5 DEF EndSavepoint, ControlTypeOK
    <2> QED BY <2>4, <2>5 DEF ClosureInv
  <1>6. ASSUME NEW r, EndClosure(t, r) PROVE ClosureInv'
    BY <1>6 DEF EndClosure, ClosureInv, ControlTypeOK, NoTx
  <1> QED
    BY <1>1, <1>2, <1>3, <1>4, <1>5, <1>6
    DEF StartCall, WithRead, WithWrite, OuterTransaction, WithExclusiveWrite, Start,
        LibraryStep, Checkout, CheckoutWait, Return, LockGateShared,
        LockGateExclusive, LockWriter, Unlock, RunRead, RunWrite, RunFails,
        BeginFails, ClosureOk, CommitFails, ClosureErr, ClosurePanic,
        ClosureStep, TxRead, TxWrite, StatementRollsBack, NestedOk, NestedReleaseFails,
        NestedErr, SpuriousWakeup
-----------------------------------------------------------------------------
(***************************************************************************)
(* The writer connection.  SqlQuiet is what every statement preserves; that *)
(* a transaction is open only while a closure runs depends on the locks.   *)
(***************************************************************************)
SqlQuiet ==
    /\ saves = <<>> => work = db
    /\ saves # <<>> => saves[1].image = db

\* Every statement on the writer connection preserves SqlQuiet.
LEMMA SqlWriteQuiet ==
    ASSUME SqlTypeOK, SqlQuiet, NEW e, SqlWrite(e)
    PROVE  SqlQuiet'
  BY DEF SqlQuiet, SqlWrite

LEMMA SqlSaveQuiet ==
    ASSUME SqlTypeOK, SqlQuiet, NEW name \in Nat, SqlSave(name)
    PROVE  SqlQuiet' /\ saves' # <<>>
  <1> DEFINE s == [name |-> name, image |-> work]
  <1>1. s \in Savepoint /\ s.image = work
    BY DEF SqlTypeOK, Savepoint
  <1>2. saves' = Append(saves, s) /\ saves \in Seq(Savepoint)
    BY DEF SqlSave, SqlTypeOK
  <1> HIDE DEF s
  <1>3. saves' # <<>> /\ saves'[1] = IF saves = <<>> THEN s ELSE saves[1]
    BY <1>1, <1>2
  <1>4. db' = db /\ work' = work
    BY DEF SqlSave
  <1> QED BY <1>1, <1>3, <1>4 DEF SqlQuiet

\* Cutting the open savepoints at a position keeps the outermost one.
LEMMA Cut ==
    ASSUME SqlTypeOK, NEW p \in 1..Len(saves)
    PROVE  /\ p = 1 => SubSeq(saves, 1, p - 1) = <<>>
           /\ p > 1 => /\ SubSeq(saves, 1, p - 1) # <<>>
                       /\ SubSeq(saves, 1, p - 1)[1] = saves[1]
           /\ saves # <<>>
  BY DEF SqlTypeOK

LEMMA SqlReleaseQuiet ==
    ASSUME SqlTypeOK, SqlQuiet, NEW name \in Nat, SqlRelease(name)
    PROVE  SqlQuiet'
  <1> DEFINE p == Position(name)
  <1>1. p \in 0..Len(saves) /\ Len(saves) \in Nat
    BY PositionRange DEF SqlTypeOK
  <1>2. /\ p > 0
        /\ saves' = SubSeq(saves, 1, p - 1)
        /\ db' = IF p = 1 THEN work ELSE db
        /\ work' = work
    BY DEF SqlRelease
  <1> HIDE DEF p
  <1>3. p \in 1..Len(saves)
    BY <1>1, <1>2
  <1> QED BY <1>2, <1>3, Cut DEF SqlQuiet

LEMMA SqlRollbackToQuiet ==
    ASSUME SqlTypeOK, SqlQuiet, NEW name \in Nat, SqlRollbackTo(name)
    PROVE  SqlQuiet'
  <1> DEFINE p == Position(name)
  <1>1. p \in 0..Len(saves) /\ Len(saves) \in Nat
    BY PositionRange DEF SqlTypeOK
  <1>2. /\ saves' = IF p = 0 THEN saves ELSE SubSeq(saves, 1, p - 1)
        /\ work' = IF p = 0 THEN work ELSE saves[p].image
        /\ db' = IF p = 1 THEN saves[p].image ELSE db
    BY DEF SqlRollbackTo
  <1> HIDE DEF p
  <1>3. CASE p = 0
    BY <1>2, <1>3 DEF SqlQuiet
  <1>4. CASE p \in 1..Len(saves)
    BY <1>2, <1>4, Cut DEF SqlQuiet
  <1> QED BY <1>1, <1>3, <1>4

LEMMA SqlCommitQuiet ==
    ASSUME SqlCommit
    PROVE  SqlQuiet' /\ saves' = <<>>
  BY DEF SqlQuiet, SqlCommit

LEMMA SqlRollbackQuiet ==
    ASSUME SqlQuiet, SqlRollback
    PROVE  SqlQuiet' /\ saves' = <<>>
  BY DEF SqlQuiet, SqlRollback

\* Only one thread at a time is inside a call on the writer connection.
LEMMA OneWriter ==
    ASSUME LockInv, NEW t \in Thread, NEW u \in Thread,
           Inside(t), conn[t] = NoConn, Inside(u), conn[u] = NoConn
    PROVE  t = u
  BY DEF LockInv, ThreadLockInv

LEMMA StepSqlInv ==
    ASSUME ControlTypeOK, SqlTypeOK, LockInv, SqlInv, NEW t \in Thread
    PROVE  /\ StartCall(t) => SqlInv'
           /\ LibraryStep(t) => SqlInv'
           /\ ClosureStep(t) => SqlInv'
           /\ SpuriousWakeup(t) => SqlInv'
  <1>0. SqlQuiet
    BY DEF SqlInv, SqlQuiet
  <1>1. ASSUME SqlQuiet', saves' = <<>> \/ InClosure(t)'
        PROVE  SqlInv'
    BY <1>1 DEF SqlInv, SqlQuiet
  \* The steps that leave the database alone end no closure.
  <1>2. ASSUME UNCHANGED sqlite,
               \A u \in Thread : InClosure(u) => InClosure(u)'
        PROVE  SqlInv'
    BY <1>2 DEF SqlInv, sqlite
  <1>3. ASSUME StartCall(t) PROVE SqlInv'
    <2>1. ASSUME NEW c, NEW f, Start(t, c, f) PROVE SqlInv'
      BY <1>2, <2>1 DEF Start, InClosure, ControlTypeOK
    <2> QED BY <1>3, <2>1
        DEF StartCall, WithRead, WithWrite, OuterTransaction, WithExclusiveWrite
  <1>4. ASSUME Checkout(t) \/ CheckoutWait(t) \/ SpuriousWakeup(t) \/ Return(t)
        PROVE  SqlInv'
    <2>1. stage[t] \in {"checkout", "parked", "return"} /\ UNCHANGED sqlite
      BY <1>4 DEF Checkout, CheckoutWait, SpuriousWakeup, Return
    <2>2. \A u \in Thread : InClosure(u) => stage'[u] = stage[u] /\ call'[u] = call[u]
      BY <1>4 DEF Checkout, CheckoutWait, SpuriousWakeup, Return, Goto, InClosure,
                  ControlTypeOK
    <2> QED BY <1>2, <2>1, <2>2 DEF InClosure
  <1>5. ASSUME LockGateShared(t) \/ LockGateExclusive(t) \/ LockWriter(t) \/ Unlock(t)
        PROVE  SqlInv'
    <2>1. stage[t] # "run" /\ UNCHANGED sqlite
      BY <1>5 DEF LockGateShared, LockGateExclusive, LockWriter, Unlock
    <2>2. \A u \in Thread \ {t} : stage'[u] = stage[u] /\ call'[u] = call[u]
      BY <1>5 DEF LockGateShared, LockGateExclusive, LockWriter, Unlock, Goto,
                  ControlTypeOK
    <2> QED BY <1>2, <2>1, <2>2 DEF InClosure
  <1>6. ASSUME RunRead(t) \/ RunFails(t) \/ BeginFails(t) PROVE SqlInv'
    BY <1>2, <1>6 DEF RunRead, RunFails, BeginFails, Finish, Goto, InClosure,
                      ControlTypeOK
  <1>7. ASSUME RunWrite(t) PROVE SqlInv'
    <2>1. Inside(t) /\ conn[t] = NoConn /\ ~InClosure(t)
      BY <1>7 DEF RunWrite, Inside, InClosure, LockInv, ThreadLockInv
    <2>2. \A u \in Thread : ~InClosure(u)
      BY <2>1, OneWriter DEF InClosure, Inside, LockInv, ThreadLockInv
    <2>3. saves' = <<>>
      BY <1>7, <2>2 DEF SqlInv, RunWrite, SqlWrite
    <2> QED BY <1>0, <1>1, <1>7, <2>3, SqlWriteQuiet DEF RunWrite
  <1>8. ASSUME Begin(t) PROVE SqlInv'
    <2>1. InClosure(t)'
      BY <1>8 DEF Begin, Goto, InClosure, LockInv, ThreadLockInv, ControlTypeOK
    <2> QED BY <1>0, <1>1, <1>8, <2>1, SqlSaveQuiet DEF Begin
  <1>9. ASSUME ClosureStep(t) PROVE SqlInv'
    <2>1. InClosure(t)'
      BY <1>9 DEF ClosureStep, TxRead, TxWrite, StatementRollsBack, BeginSavepoint,
                  BeginSavepointFails, NestedOk, NestedReleaseFails, NestedErr, EndSavepoint, InClosure
    <2>2. CASE UNCHANGED sqlite
      BY <1>0, <1>1, <2>1, <2>2 DEF sqlite, SqlQuiet
    <2>3. CASE TxWrite(t)
      BY <1>0, <1>1, <2>1, <2>3, SqlWriteQuiet DEF TxWrite
    <2>4. CASE StatementRollsBack(t)
      BY <1>0, <1>1, <2>1, <2>4, SqlRollbackQuiet DEF StatementRollsBack
    <2>5. CASE BeginSavepoint(t)
      BY <1>0, <1>1, <2>1, <2>5, SqlSaveQuiet, TxFields DEF BeginSavepoint
    <2>6. CASE NestedOk(t) \/ NestedErr(t)
      <3>1. Top(names[t]) \in Nat
        BY SMTT(30), <2>6 DEF NestedOk, NestedErr, EndSavepoint, ControlTypeOK, Top
      <3> QED BY <1>0, <1>1, <2>1, <2>6, <3>1, SqlReleaseQuiet, SqlRollbackToQuiet
          DEF NestedOk, NestedErr
    <2> QED BY <1>9, <2>2, <2>3, <2>4, <2>5, <2>6
        DEF ClosureStep, TxRead, BeginSavepointFails, NestedReleaseFails
  <1>10. ASSUME ClosureOk(t) \/ CommitFails(t) \/ ClosureErr(t) \/ ClosurePanic(t)
         PROVE  SqlInv'
    BY <1>0, <1>1, <1>10, SqlCommitQuiet, SqlRollbackQuiet
    DEF ClosureOk, CommitFails, ClosureErr, ClosurePanic
  <1> QED
    BY <1>3, <1>4, <1>5, <1>6, <1>7, <1>8, <1>9, <1>10 DEF LibraryStep
-----------------------------------------------------------------------------
(***************************************************************************)
(* The reader pool.                                                        *)
(***************************************************************************)
LEMMA StepPool ==
    ASSUME ControlTypeOK, LockInv, PoolConserved, NEW t \in Thread
    PROVE  /\ StartCall(t) => PoolConserved'
           /\ LibraryStep(t) => PoolConserved'
           /\ ClosureStep(t) => PoolConserved'
           /\ SpuriousWakeup(t) => PoolConserved'
  <1>1. ASSUME UNCHANGED <<pool, conn>> PROVE PoolConserved'
    BY <1>1 DEF PoolConserved
  <1>2. ASSUME Checkout(t) PROVE PoolConserved'
    <2>1. conn[t] = NoConn
      BY <1>2 DEF Checkout, LockInv, ThreadLockInv
    <2>2. PICK c \in pool : pool' = pool \ {c} /\ conn' = [conn EXCEPT ![t] = c]
      BY <1>2 DEF Checkout
    <2>3. \A u \in Thread : conn'[u] = IF u = t THEN c ELSE conn[u]
      BY <2>2 DEF ControlTypeOK
    <2>4. c \in Reader /\ \A u \in Thread : conn[u] # c
      BY <2>2 DEF ControlTypeOK, PoolConserved
    <2> QED BY <2>1, <2>2, <2>3, <2>4, ConnectionAssumption DEF PoolConserved
  <1>3. ASSUME Return(t) PROVE PoolConserved'
    <2>1. conn[t] \in Reader
      BY <1>3 DEF Return, LockInv, ThreadLockInv, ControlTypeOK
    <2>2. pool' = pool \cup {conn[t]}
      BY <1>3 DEF Return
    <2>3. \A u \in Thread : conn'[u] = IF u = t THEN NoConn ELSE conn[u]
      BY <1>3 DEF Return, ControlTypeOK
    <2> QED BY <2>1, <2>2, <2>3, ConnectionAssumption DEF PoolConserved
  <1> QED
    BY <1>1, <1>2, <1>3
    DEF StartCall, WithRead, WithWrite, OuterTransaction, WithExclusiveWrite, Start,
        LibraryStep, CheckoutWait, LockGateShared, LockGateExclusive, LockWriter,
        Unlock, RunRead, RunWrite, RunFails, Begin, BeginFails, ClosureOk,
        CommitFails, ClosureErr, ClosurePanic, EndClosure,
        ClosureStep, TxRead, TxWrite, StatementRollsBack, BeginSavepoint,
        BeginSavepointFails, NestedOk, NestedReleaseFails, NestedErr, EndSavepoint, SpuriousWakeup, locks

-----------------------------------------------------------------------------
(***************************************************************************)
(* Waiting for a reader connection.                                        *)
(***************************************************************************)
Parked == {t \in Thread : stage[t] = "parked"}
Awake == {t \in Thread : stage[t] = "checkout"}

LEMMA FiniteParts ==
    ASSUME NEW R \in SUBSET Reader, NEW T \in SUBSET Thread
    PROVE  /\ IsFiniteSet(R) /\ Cardinality(R) \in Nat
           /\ IsFiniteSet(T) /\ Cardinality(T) \in Nat
  <1>1. IsFiniteSet(R) /\ IsFiniteSet(T)
    BY ConnectionAssumption, FS_Subset DEF ConnectionAssumption
  <1> QED BY <1>1, FS_CardinalityType

LEMMA WaitersFinite ==
    ASSUME ControlTypeOK, ControlTypeOK'
    PROVE  /\ IsFiniteSet(pool) /\ Cardinality(pool) \in Nat
           /\ IsFiniteSet(pool') /\ Cardinality(pool') \in Nat
           /\ IsFiniteSet(Awake) /\ Cardinality(Awake) \in Nat
           /\ IsFiniteSet(Awake') /\ Cardinality(Awake') \in Nat
  <1>1. pool \in SUBSET Reader /\ pool' \in SUBSET Reader
    BY DEF ControlTypeOK
  <1>2. Awake \in SUBSET Thread /\ Awake' \in SUBSET Thread
    BY DEF Awake
  <1>3. /\ IsFiniteSet(pool) /\ Cardinality(pool) \in Nat
        /\ IsFiniteSet(Awake) /\ Cardinality(Awake) \in Nat
    BY <1>1, <1>2, FiniteParts
  <1>4. /\ IsFiniteSet(pool') /\ Cardinality(pool') \in Nat
        /\ IsFiniteSet(Awake') /\ Cardinality(Awake') \in Nat
    BY <1>1, <1>2, FiniteParts
  <1> QED BY <1>3, <1>4

\* A step that parks nobody, stops no thread on its way to the pool and leaves
\* the pool alone loses no wakeup.
LEMMA WakeupsKept ==
    ASSUME ControlTypeOK, ControlTypeOK', NoLostWakeup,
           pool' = pool, Parked' \subseteq Parked, Awake \subseteq Awake'
    PROVE  NoLostWakeup'
  <1>1. Cardinality(Awake) <= Cardinality(Awake')
    BY WaitersFinite, FS_Subset
  <1>2. Parked # {} => Cardinality(pool) <= Cardinality(Awake)
    BY DEF NoLostWakeup, Parked, Awake
  <1>3. Cardinality(pool) \in Nat /\ Cardinality(Awake) \in Nat /\ Cardinality(Awake') \in Nat
    BY WaitersFinite
  <1>4. Parked' # {} => Cardinality(pool') <= Cardinality(Awake')
    BY <1>1, <1>2, <1>3
  <1> QED BY <1>4 DEF NoLostWakeup, Parked, Awake

LEMMA StepWakeup ==
    ASSUME ControlTypeOK, ControlTypeOK', NoLostWakeup, NEW t \in Thread,
           StartCall(t) \/ LibraryStep(t) \/ ClosureStep(t) \/ SpuriousWakeup(t)
    PROVE  NoLostWakeup'
  <1>n. /\ Cardinality(pool) \in Nat /\ Cardinality(Awake) \in Nat
        /\ Cardinality(pool') \in Nat /\ Cardinality(Awake') \in Nat
    BY WaitersFinite
  <1>i. Parked # {} => Cardinality(pool) <= Cardinality(Awake)
    BY DEF NoLostWakeup, Parked, Awake
  <1>g. ASSUME Parked' # {} => Cardinality(pool') <= Cardinality(Awake') PROVE NoLostWakeup'
    BY <1>g DEF NoLostWakeup, Parked, Awake
  <1>1. ASSUME Checkout(t) PROVE NoLostWakeup'
    <2>1. PICK c \in pool : pool' = pool \ {c}
      BY <1>1 DEF Checkout
    <2>2. Cardinality(pool') = Cardinality(pool) - 1
      BY <2>1, WaitersFinite, FS_RemoveElement
    <2>3. t \in Awake /\ Awake' = Awake \ {t} /\ Parked' = Parked
      BY <1>1 DEF Checkout, Goto, ControlTypeOK, Awake, Parked
    <2>4. Cardinality(Awake') = Cardinality(Awake) - 1
      BY <2>3, WaitersFinite, FS_RemoveElement
    <2> QED BY <1>n, <1>i, <1>g, <2>2, <2>3, <2>4
  <1>2. ASSUME CheckoutWait(t) PROVE NoLostWakeup'
    <2>1. pool' = {}
      BY <1>2 DEF CheckoutWait, locks
    <2>2. Cardinality(pool') = 0
      BY <2>1, FS_EmptySet
    <2> QED BY <1>n, <1>g, <2>2
  <1>3. ASSUME Return(t) PROVE NoLostWakeup'
    <2>1. Cardinality(pool') <= Cardinality(pool) + 1
      <3>1. pool' = pool \cup {conn[t]}
        BY <1>3 DEF Return
      <3>2. Cardinality(pool') =
              IF conn[t] \in pool THEN Cardinality(pool) ELSE Cardinality(pool) + 1
        BY <3>1, WaitersFinite, FS_AddElement, Zenon
      <3> QED BY <1>n, <3>2
    <2>2. CASE Parked = {}
      <3>1. stage' = [stage EXCEPT ![t] = "idle"]
        BY <1>3, <2>2 DEF Return, Parked
      <3>2. Parked' = {}
        BY <2>2, <3>1 DEF Parked, ControlTypeOK
      <3> QED BY <1>g, <3>2
    <2>3. CASE Parked # {}
      <3>1. PICK u \in Parked : stage' = [stage EXCEPT ![t] = "idle", ![u] = "checkout"]
        BY <1>3, <2>3 DEF Return, Parked
      <3>2. u \in Thread /\ stage[u] = "parked" /\ stage[t] = "return"
        BY <1>3, <3>1 DEF Return, Parked
      <3>3. u \notin Awake /\ Awake' = Awake \cup {u}
        BY <3>1, <3>2 DEF Awake, ControlTypeOK
      <3>4. Cardinality(Awake') = Cardinality(Awake) + 1
        BY <3>3, WaitersFinite, FS_AddElement
      <3> QED BY <1>n, <1>i, <1>g, <2>1, <2>3, <3>4
    <2> QED BY <2>2, <2>3
  \* Every other step of t leaves the pool alone.
  <1>4. ASSUME pool' = pool,
               \A u \in Thread \ {t} : stage'[u] = stage[u],
               stage'[t] # "parked",
               stage[t] # "checkout" \/ stage'[t] = "checkout"
        PROVE  NoLostWakeup'
    <2>1. Parked' \subseteq Parked /\ Awake \subseteq Awake'
      BY <1>4 DEF Parked, Awake
    <2> QED BY <1>4, <2>1, WakeupsKept
  <1>5. ASSUME NEW c, NEW f \in {"checkout", "gate"}, Start(t, c, f) PROVE NoLostWakeup'
    BY <1>4, <1>5 DEF Start, locks, ControlTypeOK
  <1>6. ASSUME SpuriousWakeup(t) PROVE NoLostWakeup'
    BY <1>4, <1>6 DEF SpuriousWakeup, Goto, locks, ControlTypeOK
  <1>7. ASSUME LockGateShared(t) \/ LockGateExclusive(t) \/ LockWriter(t) \/ Unlock(t)
        PROVE  NoLostWakeup'
    BY <1>4, <1>7
    DEF LockGateShared, LockGateExclusive, LockWriter, Unlock, Goto, ControlTypeOK
  <1>8. ASSUME RunRead(t) \/ RunWrite(t) \/ RunFails(t) \/ Begin(t) \/ BeginFails(t)
        PROVE  NoLostWakeup'
    BY <1>4, <1>8
    DEF RunRead, RunWrite, RunFails, Begin, BeginFails, Finish, Goto, locks, ControlTypeOK
  <1>9. ASSUME NEW r, EndClosure(t, r) PROVE NoLostWakeup'
    BY <1>4, <1>9 DEF EndClosure, InClosure, Finish, Goto, locks, ControlTypeOK
  <1>10. ASSUME ClosureStep(t) PROVE NoLostWakeup'
    <2>1. stage' = stage /\ pool' = pool /\ stage[t] = "run"
      BY <1>10 DEF ClosureStep, TxRead, TxWrite, StatementRollsBack, BeginSavepoint,
                   BeginSavepointFails, NestedOk, NestedReleaseFails, NestedErr, EndSavepoint, InClosure, locks
    <2> QED BY <1>4, <2>1
  <1> QED
    BY <1>1, <1>2, <1>3, <1>5, <1>6, <1>7, <1>8, <1>9, <1>10
    DEF StartCall, WithRead, WithWrite, OuterTransaction, WithExclusiveWrite,
        LibraryStep, ClosureOk, CommitFails, ClosureErr, ClosurePanic

-----------------------------------------------------------------------------
(***************************************************************************)
(* The inductive invariant and what follows from it.                       *)
(***************************************************************************)
LEMMA InitIInv == Init => IInv
  <1> SUFFICES ASSUME Init PROVE IInv
    OBVIOUS
  <1>1. TypeOK /\ LockInv
    BY InitTypeOK, InitLockInv
  <1>2. ClosureInv /\ SqlInv /\ PoolConserved
    BY ConnectionAssumption DEF Init, ClosureInv, SqlInv, PoolConserved, NoTx
  <1> QED BY <1>1, <1>2 DEF IInv

LEMMA StepIInv == IInv /\ [Next]_vars => IInv'
  <1> SUFFICES ASSUME IInv, [Next]_vars PROVE IInv'
    OBVIOUS
  <1>0. ControlTypeOK /\ SqlTypeOK /\ LockInv /\ ClosureInv /\ SqlInv /\ PoolConserved
    BY TypeSplit DEF IInv
  <1>s. ControlTypeOK' /\ SqlTypeOK' => TypeOK'
    BY DEF TypeOK, ControlTypeOK, SqlTypeOK
  <1>1. CASE UNCHANGED vars
    BY <1>0, <1>1, <1>s
    DEF vars, locks, closure, sqlite, history, IInv, ControlTypeOK, SqlTypeOK, LockInv,
        ThreadLockInv, HoldsGate, Inside, InClosure, ClosureInv, SqlInv, PoolConserved
  <1>2. ASSUME NEW t \in Thread,
               StartCall(t) \/ LibraryStep(t) \/ ClosureStep(t) \/ SpuriousWakeup(t)
        PROVE  IInv'
    <2>1. ControlTypeOK'
      BY <1>0, <1>2, StepControlType
    <2>2. SqlTypeOK'
      BY <1>0, <1>2, StepSqlType
    <2>3. LockInv' /\ ClosureInv' /\ SqlInv' /\ PoolConserved'
      BY <1>0, <1>2, StepLockInv, StepClosureInv, StepSqlInv, StepPool
    <2> QED BY <1>s, <2>1, <2>2, <2>3 DEF IInv
  <1> QED BY <1>1, <1>2 DEF Next, Terminating

LEMMA SpecIInv == Spec => []IInv
  BY InitIInv, StepIInv, PTL DEF Spec

\* In every reachable state every variable has its type.
THEOREM TypeCorrectness == Spec => []TypeOK
  <1>1. IInv => TypeOK
    BY DEF IInv
  <1> QED BY <1>1, SpecIInv, PTL

\* While a schema operation runs (with_exclusive_write), no other thread is
\* inside a read, a write or a transaction.
THEOREM ExclusiveExclusion == Spec => []ExclusiveRunsAlone
  <1>1. IInv => ExclusiveRunsAlone
    BY ConnectionAssumption
    DEF IInv, LockInv, ThreadLockInv, HoldsGate, Inside, ExclusiveRunsAlone
  <1> QED BY <1>1, SpecIInv, PTL

\* The writer connection, also through TX_STATE's raw pointer, is used only by
\* the thread that holds the writer mutex.
THEOREM WriterOwnership == Spec => []WriterConnectionIsOwned
  <1>1. IInv => WriterConnectionIsOwned
    <2> SUFFICES ASSUME IInv PROVE WriterConnectionIsOwned
      OBVIOUS
    <2>1. \A t \in Thread : tx[t].depth > 0 => writer = t /\ stage[t] = "run"
      BY DEF IInv, LockInv, ThreadLockInv, Inside, InClosure
    <2>2. \A t, u \in Thread :
            (t # u /\ Inside(t) /\ Inside(u)) => (conn[t] # NoConn \/ conn[u] # NoConn)
      BY OneWriter DEF IInv
    <2> QED BY <2>1, <2>2 DEF WriterConnectionIsOwned
  <1> QED BY <1>1, SpecIInv, PTL

\* checkout and Drop never lose or duplicate a reader connection.
THEOREM PoolConservation == Spec => []PoolConserved
  <1>1. IInv => PoolConserved
    BY DEF IInv
  <1> QED BY <1>1, SpecIInv, PTL

\* Whoever takes the writer mutex next finds SQLite outside a transaction with
\* nothing uncommitted, even when statements roll transactions back by themselves.
THEOREM NoLeak == Spec => []NoTransactionLeaks
  <1>1. IInv => NoTransactionLeaks
    <2> SUFFICES ASSUME IInv, writer = NoThread \/ stage[writer] # "run"
                 PROVE  saves = <<>> /\ work = db
      BY DEF NoTransactionLeaks
    <2>1. \A t \in Thread : ~InClosure(t)
      BY ConnectionAssumption DEF IInv, LockInv, ThreadLockInv, Inside, InClosure
    <2> QED BY <2>1 DEF IInv, SqlInv
  <1> QED BY <1>1, SpecIInv, PTL

\* A thread parked on the pool's condition variable never waits for a connection
\* that is free and on nobody's way: no notify_one is missing or wasted.
THEOREM WakeupSafety == Spec => []NoLostWakeup
  <1>1. Init => NoLostWakeup
    BY DEF Init, NoLostWakeup
  <1>2. IInv /\ IInv' /\ NoLostWakeup /\ [Next]_vars => NoLostWakeup'
    <2> SUFFICES ASSUME IInv, IInv', NoLostWakeup, [Next]_vars PROVE NoLostWakeup'
      OBVIOUS
    <2>1. ControlTypeOK /\ ControlTypeOK'
      BY DEF IInv, TypeOK, ControlTypeOK
    <2>2. CASE UNCHANGED vars
      BY <2>2 DEF vars, locks, NoLostWakeup
    <2>3. ASSUME NEW t \in Thread,
                 StartCall(t) \/ LibraryStep(t) \/ ClosureStep(t) \/ SpuriousWakeup(t)
          PROVE  NoLostWakeup'
      BY <2>1, <2>3, StepWakeup
    <2> QED BY <2>2, <2>3 DEF Next, Terminating
  <1> QED BY <1>1, <1>2, SpecIInv, PTL DEF Spec

\* A read outside a transaction returns the committed database, on a reader
\* connection and on the writer connection alike.
THEOREM CommittedReads == Spec => ReadsAreCommitted
  <1> DEFINE Committed(t) == (saw'[t] # saw[t] /\ ~InClosure(t)) => saw'[t] = db
  <1>1. IInv /\ [Next]_vars => [\A t \in Thread : Committed(t)]_vars
    <2> SUFFICES ASSUME IInv, Next, NEW u \in Thread, saw'[u] # saw[u], ~InClosure(u)
                 PROVE  saw'[u] = db
      OBVIOUS
    <2>0. ControlTypeOK /\ SqlTypeOK /\ LockInv /\ SqlInv
      BY TypeSplit DEF IInv
    <2>1. PICK t \in Thread : RunRead(t) \/ TxRead(t)
      <3>1. saw' # saw
        OBVIOUS
      <3>2. PICK t \in Thread :
                StartCall(t) \/ LibraryStep(t) \/ ClosureStep(t) \/ SpuriousWakeup(t)
        BY <3>1 DEF Next, Terminating, vars, history
      <3>3. ~StartCall(t)
        BY <3>1 DEF StartCall, WithRead, WithWrite, OuterTransaction, WithExclusiveWrite, Start
      <3>4. ~SpuriousWakeup(t)
        BY <3>1 DEF SpuriousWakeup, history
      <3>5. ClosureStep(t) => TxRead(t)
        BY <3>1 DEF ClosureStep, TxWrite, StatementRollsBack, BeginSavepoint,
                    BeginSavepointFails, NestedOk, NestedReleaseFails, NestedErr, EndSavepoint, history
      <3>6. /\ ~Checkout(t) /\ ~CheckoutWait(t) /\ ~Return(t)
            /\ ~LockGateShared(t) /\ ~LockGateExclusive(t) /\ ~LockWriter(t) /\ ~Unlock(t)
        BY <3>1 DEF Checkout, CheckoutWait, Return, LockGateShared, LockGateExclusive,
                    LockWriter, Unlock, history
      <3>7. /\ ~RunWrite(t) /\ ~RunFails(t) /\ ~Begin(t) /\ ~BeginFails(t)
            /\ ~ClosureOk(t) /\ ~CommitFails(t) /\ ~ClosureErr(t) /\ ~ClosurePanic(t)
        BY <3>1 DEF RunWrite, RunFails, Begin, BeginFails, ClosureOk, CommitFails, ClosureErr,
                    ClosurePanic, EndClosure, history
      <3> QED BY <3>2, <3>3, <3>4, <3>5, <3>6, <3>7 DEF LibraryStep
    <2>2. saw' = [saw EXCEPT ![t] = View(t)]
      BY <2>1 DEF RunRead, TxRead
    <2>3. u = t /\ saw'[u] = View(t)
      <3>1. DOMAIN saw = Thread
        BY <2>0 DEF ControlTypeOK
      <3> QED BY <2>2, <3>1
    <2>4. RunRead(t)
      BY <2>1, <2>3 DEF TxRead
    <2>5. CASE conn[t] # NoConn
      BY <2>3, <2>5 DEF View
    <2>6. CASE conn[t] = NoConn
      <3>1. Inside(t)
        BY <2>4 DEF RunRead, Inside
      <3>2. \A v \in Thread : ~InClosure(v)
        <4> SUFFICES ASSUME NEW v \in Thread, InClosure(v) PROVE FALSE
          OBVIOUS
        <4>1. Inside(v) /\ conn[v] = NoConn
          BY <2>0 DEF InClosure, Inside, LockInv, ThreadLockInv
        <4>2. v = t
          BY <2>0, <2>6, <3>1, <4>1, OneWriter
        <4> QED BY <2>3, <4>2
      <3>3. work = db
        BY <2>0, <3>2 DEF SqlInv
      <3> QED BY <2>3, <2>6, <3>3 DEF View
    <2> QED BY <2>5, <2>6
  <1> QED BY <1>1, SpecIInv, PTL DEF Spec, ReadsAreCommitted

-----------------------------------------------------------------------------
(***************************************************************************)
(* The transactions, as long as no failing statement rolls back a         *)
(* transaction by itself (AutoRollback = FALSE; what becomes of them       *)
(* otherwise is shown by conn_error_after_rollback): SQLite's savepoints   *)
(* match the closures on the stack, a transaction that fails leaves        *)
(* nothing behind, and the manager implements the serial store.            *)
(***************************************************************************)
Step(t) == StartCall(t) \/ LibraryStep(t) \/ ClosureStep(t) \/ SpuriousWakeup(t)

\* The last call of t is over and reported success.
Reported(t) == result[t] = "ok" /\ stage[t] \in {"idle", "unlock", "return"}

(***************************************************************************)
(* The inductive invariant.                                                *)
(***************************************************************************)
\* The savepoint names of a thread are those begin_savepoint gave out, in order.
NamesInv(t) ==
    /\ \A i \in 1..Len(names[t]) : names[t][i] \in 1..tx[t].next_savepoint
    /\ \A i, j \in 1..Len(names[t]) : i < j => names[t][i] < names[t][j]

\* SQLite has one savepoint open for every closure, and BEGIN below them.
OpenInv(t) ==
    InClosure(t) =>
        /\ Len(saves) = Len(names[t]) + 1
        /\ saves[1].name = 0
        /\ \A i \in 1..Len(names[t]) : saves[i + 1].name = names[t][i]

StackInv == \A t \in Thread : NamesInv(t) /\ OpenInv(t)

\* Every savepoint remembers a part of what came after it.
ImageInv == \A i \in 1..Len(saves) : Image(i) \subseteq Image(i + 1)

\* What is in the database was written, what is not committed was written by
\* the thread in the closure, and what a call that has not reported success
\* wrote is not committed.
EffectInv ==
    /\ \A e \in db \cup work : e[2] <= written[e[1]]
    /\ \A t \in Thread : InClosure(t) => \A e \in work \ db : e[1] = t
    /\ \A t \in Thread : ~Reported(t) => \A e \in db : e[1] = t => e[2] <= mark[t]

TxInv == IInv /\ StackInv /\ ImageInv /\ EffectInv

-----------------------------------------------------------------------------
(***************************************************************************)
(* What the steps of a thread do to the transactions.                      *)
(***************************************************************************)
\* A step that only moves a thread from one stage to the next.
Moves ==
    /\ UNCHANGED <<closure, sqlite, written, mark, result>>
    /\ \A u \in Thread : InClosure(u)' <=> InClosure(u)
    /\ \A u \in Thread : Reported(u) => Reported(u)'

\* One thread at a time is inside a transaction closure.
LEMMA OneClosure ==
    ASSUME LockInv, NEW t \in Thread, NEW u \in Thread, InClosure(t), InClosure(u)
    PROVE  t = u
  <1>1. Inside(t) /\ conn[t] = NoConn /\ Inside(u) /\ conn[u] = NoConn
    BY DEF InClosure, Inside, LockInv, ThreadLockInv
  <1> QED BY <1>1, OneWriter

-----------------------------------------------------------------------------
(***************************************************************************)
(* The savepoints on SQLite's stack are those of the closures.             *)
(***************************************************************************)
\* While t runs a nested closure, its name is that of the last savepoint alone.
LEMMA InnermostPosition ==
    ASSUME ControlTypeOK, SqlTypeOK, NEW t \in Thread, NamesInv(t), OpenInv(t),
           InClosure(t), names[t] # <<>>
    PROVE  /\ Len(saves) \in Nat /\ Len(saves) > 1
           /\ Len(names[t]) \in Nat /\ Len(names[t]) = Len(saves) - 1
           /\ Position(Top(names[t])) = Len(saves)
  <1> DEFINE n == Len(saves)
             name == Top(names[t])
  <1>1. names[t] \in Seq(Nat) /\ saves \in Seq(Savepoint)
    BY DEF ControlTypeOK, SqlTypeOK
  <1>2. Len(names[t]) \in Nat /\ Len(names[t]) > 0 /\ n \in Nat /\ n = Len(names[t]) + 1
    BY <1>1 DEF OpenInv
  <1>3. name = names[t][n - 1] /\ saves[n].name = name
    BY <1>2 DEF Top, OpenInv
  <1>4. \A q \in 1..(n - 1) : saves[q].name # name
    <2> SUFFICES ASSUME NEW q \in 1..(n - 1) PROVE saves[q].name # name
      OBVIOUS
    <2>1. CASE q = 1
      <3>1. name \in 1..tx[t].next_savepoint /\ tx[t].next_savepoint \in Nat
        BY <1>2, <1>3, TxFields DEF NamesInv
      <3>2. name # 0
        BY <3>1
      <3> QED BY <2>1, <3>2 DEF OpenInv
    <2>2. CASE q > 1
      <3>1. q - 1 \in 1..Len(names[t]) /\ n - 1 \in 1..Len(names[t]) /\ q - 1 < n - 1
        BY <1>2, <2>2
      <3>a. names[t] \in [1..Len(names[t]) -> Nat]
        BY <1>1
      <3>2. saves[(q - 1) + 1].name = names[t][q - 1]
        BY <3>1 DEF OpenInv
      <3>3. names[t][q - 1] < names[t][n - 1]
        BY <3>1 DEF NamesInv
      <3>4. names[t][q - 1] \in Nat /\ names[t][n - 1] \in Nat
        BY <3>1, <3>a
      <3>5. (q - 1) + 1 = q
        OBVIOUS
      <3> QED BY <1>3, <3>2, <3>3, <3>4, <3>5
    <2> QED BY <2>1, <2>2
  <1>5. IsLatest(n, name)
    BY <1>2, <1>3 DEF IsLatest
  <1>6. \A p \in 1..n : IsLatest(p, name) => p = n
    BY <1>2, <1>4 DEF IsLatest
  <1> HIDE DEF name
  <1>7. Position(name) = n
    BY <1>2, <1>5, <1>6 DEF Position
  <1> QED BY <1>2, <1>7 DEF name

\* The actions of a thread, those that only move it together.
LEMMA Cases ==
    ASSUME IInv, StackInv, ~AutoRollback, NEW t \in Thread, Step(t)
    PROVE  \/ Moves
           \/ StartCall(t)
           \/ RunRead(t) \/ RunWrite(t) \/ RunFails(t)
           \/ Begin(t) \/ BeginFails(t)
           \/ TxWrite(t) \/ BeginSavepoint(t) \/ BeginSavepointFails(t)
           \/ NestedOk(t) \/ NestedErr(t)
           \/ ClosureOk(t) \/ CommitFails(t) \/ ClosureErr(t) \/ ClosurePanic(t)
  <1>0. ControlTypeOK /\ LockInv
    BY DEF IInv, TypeOK, ControlTypeOK
  <1>1. ASSUME Checkout(t) \/ CheckoutWait(t) \/ SpuriousWakeup(t)
        PROVE  Moves
    BY <1>0, <1>1 DEF Moves, Checkout, CheckoutWait, SpuriousWakeup, Goto, history, ControlTypeOK,
                      InClosure, Reported
  <1>2. ASSUME Return(t) PROVE Moves
    <2>1. /\ UNCHANGED <<closure, sqlite, written, mark, result>>
          /\ stage[t] = "return" /\ stage'[t] = "idle" /\ call'[t] = "none"
      BY <1>0, <1>2 DEF Return, history, ControlTypeOK
    <2>2. \A u \in Thread \ {t} :
            /\ call'[u] = call[u]
            /\ stage'[u] = stage[u] \/ (stage[u] = "parked" /\ stage'[u] = "checkout")
      BY <1>0, <1>2 DEF Return, ControlTypeOK
    <2> QED BY <2>1, <2>2 DEF Moves, InClosure, Reported
  <1>3. ASSUME LockGateShared(t) \/ LockGateExclusive(t) \/ LockWriter(t)
        PROVE  Moves
    <2>1. /\ UNCHANGED <<closure, sqlite, written, mark, result, call>>
          /\ stage[t] \in {"gate", "writer"}
          /\ \A u \in Thread \ {t} : stage'[u] = stage[u]
      BY <1>0, <1>3 DEF LockGateShared, LockGateExclusive, LockWriter, Goto, history, ControlTypeOK
    <2>2. stage'[t] = "run" => call[t] \notin {"transaction", "exclusive"}
      BY <1>0, <1>3 DEF LockGateShared, LockGateExclusive, LockWriter, Goto, ControlTypeOK, LockInv,
                        ThreadLockInv
    <2> QED BY <2>1, <2>2 DEF Moves, InClosure, Reported
  <1>4. ASSUME Unlock(t) PROVE Moves
    BY <1>0, <1>4 DEF Moves, Unlock, Goto, history, ControlTypeOK, InClosure, Reported
  <1>5. ASSUME TxRead(t) PROVE Moves
    BY <1>0, <1>5 DEF Moves, TxRead, InClosure, Reported
  <1>6. ~NestedReleaseFails(t)
    <2> SUFFICES ASSUME NestedReleaseFails(t) PROVE FALSE
      OBVIOUS
    <2>1. SqlTypeOK /\ NamesInv(t) /\ OpenInv(t) /\ InClosure(t) /\ names[t] # <<>>
      BY TypeSplit DEF IInv, StackInv, NestedReleaseFails, EndSavepoint
    <2>2. Position(Top(names[t])) > 1
      BY <1>0, <2>1, InnermostPosition
    <2>3. Position(Top(names[t])) \in Nat
      BY <1>0, <2>1, InnermostPosition
    <2> QED BY <2>2, <2>3 DEF NestedReleaseFails
  <1> QED
    BY <1>1, <1>2, <1>3, <1>4, <1>5, <1>6 DEF Step, LibraryStep, ClosureStep, StatementRollsBack

\* A nested closure that ends takes the last savepoint with it, and no other.
LEMMA NestedEnds ==
    ASSUME ControlTypeOK, SqlTypeOK, StackInv, NEW t \in Thread, InClosure(t), names[t] # <<>>
    PROVE  LET n == Len(saves) IN
           /\ SqlRelease(Top(names[t])) =>
                saves' = SubSeq(saves, 1, n - 1) /\ work' = work /\ db' = db
           /\ SqlRollbackTo(Top(names[t])) =>
                saves' = SubSeq(saves, 1, n - 1) /\ work' = saves[n].image /\ db' = db
  <1>1. /\ Len(saves) \in Nat /\ Len(saves) > 1
        /\ Position(Top(names[t])) = Len(saves)
    BY InnermostPosition DEF StackInv
  <1> QED BY <1>1 DEF SqlRelease, SqlRollbackTo

LEMMA AppendsOne ==
    \A s \in Seq(Nat), k \in Nat :
        /\ Len(Append(s, k)) = Len(s) + 1 /\ Len(s) \in Nat
        /\ Append(s, k)[Len(s) + 1] = k
        /\ \A i \in 1..Len(s) : Append(s, k)[i] = s[i] /\ s[i] \in Nat
  OBVIOUS

\* A thread that no closure of its own ends or begins keeps its part.
LEMMA StackFrame ==
    ASSUME StackInv, NEW u \in Thread,
           names'[u] = names[u],
           \/ tx'[u] = tx[u]
           \/ names[u] = <<>>,
           InClosure(u)' => InClosure(u) /\ saves' = saves
    PROVE  NamesInv(u)' /\ OpenInv(u)'
  BY DEF StackInv, NamesInv, OpenInv

LEMMA StepStack ==
    ASSUME IInv, StackInv, ~AutoRollback, NEW t \in Thread, Step(t)
    PROVE  StackInv'
  <1>0. ControlTypeOK /\ SqlTypeOK /\ LockInv /\ ClosureInv /\ SqlInv
    BY TypeSplit DEF IInv
  <1>1. ASSUME Moves PROVE StackInv'
    BY <1>1, StackFrame DEF Moves, closure, sqlite, StackInv
  <1>2. ASSUME NEW c, NEW f \in {"checkout", "gate"}, Start(t, c, f) PROVE StackInv'
    <2>1. \A u \in Thread : InClosure(u)' => InClosure(u)
      BY <1>0, <1>2 DEF Start, InClosure, ControlTypeOK
    <2> QED BY <1>2, <2>1, StackFrame DEF Start, closure, sqlite, StackInv
  <1>3. ASSUME RunRead(t) \/ RunWrite(t) \/ RunFails(t) \/ BeginFails(t) PROVE StackInv'
    <2>1. /\ \A u \in Thread : InClosure(u)' => InClosure(u)
          /\ saves' = saves /\ names' = names /\ tx' = tx
      BY <1>0, <1>3 DEF RunRead, RunWrite, RunFails, BeginFails, SqlWrite, sqlite, closure, Finish,
                        Goto, InClosure, ControlTypeOK
    <2> QED BY <2>1, StackFrame DEF StackInv
  <1>4. ASSUME TxWrite(t) \/ BeginSavepointFails(t) PROVE StackInv'
    <2>1. /\ \A u \in Thread : InClosure(u)' => InClosure(u)
          /\ saves' = saves /\ names' = names
      BY <1>4 DEF TxWrite, BeginSavepointFails, SqlWrite, sqlite, closure, InClosure
    <2>2. \A u \in Thread : tx'[u].next_savepoint \in Nat /\ tx[u].next_savepoint \in Nat
                            /\ tx'[u].next_savepoint >= tx[u].next_savepoint
      <3> SUFFICES ASSUME NEW u \in Thread
                   PROVE  /\ tx'[u].next_savepoint \in Nat /\ tx[u].next_savepoint \in Nat
                          /\ tx'[u].next_savepoint >= tx[u].next_savepoint
        OBVIOUS
      <3>1. tx[u] \in TxState /\ tx[u].next_savepoint \in Nat
        BY <1>0, TxFields
      <3>2. CASE tx' = tx
        BY <3>1, <3>2
      <3>3. CASE tx' = [tx EXCEPT ![t].next_savepoint = @ + 1]
        <4>1. CASE u = t
          <5>1. tx'[u] = [tx[u] EXCEPT !.next_savepoint = @ + 1]
            BY <1>0, <3>3, <4>1 DEF ControlTypeOK
          <5>2. tx'[u].next_savepoint = tx[u].next_savepoint + 1
            BY <3>1, <5>1 DEF TxState
          <5> QED BY <3>1, <5>2
        <4>2. CASE u # t
          <5>1. tx \in [Thread -> TxState]
            BY <1>0 DEF ControlTypeOK
          <5>2. tx'[u] = tx[u]
            BY <3>3, <4>2, <5>1
          <5> QED BY <3>1, <5>2
        <4> QED BY <4>1, <4>2
      <3> QED BY <1>4, <3>2, <3>3 DEF TxWrite, BeginSavepointFails, closure
    <2>3. \A u \in Thread : NamesInv(u)'
      BY <2>1, <2>2 DEF StackInv, NamesInv
    <2>4. \A u \in Thread : OpenInv(u)'
      BY <2>1 DEF StackInv, OpenInv
    <2> QED BY <2>3, <2>4 DEF StackInv
  <1>5. ASSUME Begin(t) PROVE StackInv'
    <2>1. /\ \A u \in Thread \ {t} : ~InClosure(u)'
          /\ \A u \in Thread \ {t} : tx'[u] = tx[u]
          /\ names' = names /\ names[t] = <<>>
      <3>1. tx[t].depth = 0
        BY <1>0, <1>5, TxFields DEF Begin, LockInv, ThreadLockInv, InClosure
      <3>2. \A u \in Thread \ {t} : InClosure(u)' => InClosure(u)
        BY <1>0, <1>5 DEF Begin, Goto, history, InClosure, ControlTypeOK
      <3>3. \A u \in Thread \ {t} : ~InClosure(u)
        <4> SUFFICES ASSUME NEW u \in Thread \ {t}, InClosure(u) PROVE FALSE
          OBVIOUS
        <4>1. Inside(t) /\ conn[t] = NoConn /\ Inside(u) /\ conn[u] = NoConn
          BY <1>0, <1>5 DEF Begin, InClosure, Inside, LockInv, ThreadLockInv
        <4> QED BY <1>0, <4>1, OneWriter
      <3> QED BY <1>0, <1>5, <3>1, <3>2, <3>3 DEF Begin, ClosureInv, ControlTypeOK
    <2>2. \A u \in Thread \ {t} : NamesInv(u)' /\ OpenInv(u)'
      BY <2>1, StackFrame
    <2>3. saves' = <<[name |-> 0, image |-> work]>>
      BY <1>5 DEF Begin, SqlSave
    <2>4. NamesInv(t)' /\ OpenInv(t)'
      BY <2>1, <2>3 DEF NamesInv, OpenInv
    <2> QED BY <2>2, <2>4 DEF StackInv
  <1>6. ASSUME BeginSavepoint(t) PROVE StackInv'
    <2> DEFINE k == tx[t].next_savepoint + 1
    <2>1. /\ k \in Nat /\ k > 0 /\ names[t] \in Seq(Nat) /\ saves \in Seq(Savepoint)
          /\ work \in SUBSET Effect
      <3>1. tx[t].next_savepoint \in Nat
        BY <1>0, TxFields
      <3>2. names[t] \in Seq(Nat)
        BY <1>0 DEF ControlTypeOK
      <3>3. saves \in Seq(Savepoint) /\ work \in SUBSET Effect
        BY <1>0 DEF SqlTypeOK
      <3> QED BY <3>1, <3>2, <3>3
    <2>2. /\ InClosure(t) /\ InClosure(t)'
          /\ names'[t] = Append(names[t], k) /\ tx'[t].next_savepoint = k
          /\ saves' = Append(saves, [name |-> k, image |-> work])
      BY <1>0, <1>6 DEF BeginSavepoint, SqlSave, InClosure, ControlTypeOK
    <2>3. \A u \in Thread \ {t} : names'[u] = names[u] /\ tx'[u] = tx[u] /\ ~InClosure(u)'
      BY <1>0, <1>6, OneClosure DEF BeginSavepoint, InClosure, ControlTypeOK
    <2>4. \A u \in Thread \ {t} : NamesInv(u)' /\ OpenInv(u)'
      BY <2>3, StackFrame
    <2>5. NamesInv(t) /\ OpenInv(t) /\ k = tx[t].next_savepoint + 1
      BY DEF StackInv
    <2> HIDE DEF k
    <2>6. /\ Len(names'[t]) = Len(names[t]) + 1 /\ Len(names[t]) \in Nat
          /\ names'[t][Len(names[t]) + 1] = k
          /\ \A i \in 1..Len(names[t]) : names'[t][i] = names[t][i] /\ names[t][i] \in Nat
      <3>1. names[t] \in Seq(Nat) /\ k \in Nat /\ names'[t] = Append(names[t], k)
        BY <2>1, <2>2
      <3> QED BY <3>1, AppendsOne
    <2>7. NamesInv(t)'
      <3>1. \A i \in 1..Len(names[t]) : names[t][i] \in 1..(k - 1)
        <4>1. k - 1 = tx[t].next_savepoint
          BY <1>0, <2>5, TxFields
        <4> QED BY <2>5, <4>1 DEF NamesInv
      <3>2. ASSUME NEW i \in 1..(Len(names[t]) + 1) PROVE names'[t][i] \in 1..k
        <4>1. CASE i = Len(names[t]) + 1
          BY <2>1, <2>6, <4>1
        <4>2. CASE i \in 1..Len(names[t])
          <5>1. names'[t][i] = names[t][i] /\ names[t][i] \in 1..(k - 1)
            BY <2>6, <3>1, <4>2
          <5>2. k \in Nat /\ \A x \in 1..(k - 1) : x \in 1..k
            BY <2>1
          <5> QED BY <5>1, <5>2
        <4> QED BY <2>6, <4>1, <4>2
      <3>3. ASSUME NEW i \in 1..(Len(names[t]) + 1), NEW j \in 1..(Len(names[t]) + 1), i < j
            PROVE  names'[t][i] < names'[t][j]
        <4>1. i \in 1..Len(names[t]) /\ names'[t][i] = names[t][i]
          BY <2>6, <3>3
        <4>2. CASE j = Len(names[t]) + 1
          <5>1. names'[t][j] = k
            BY <2>6, <4>2
          <5>2. names[t][i] \in 1..(k - 1)
            BY <3>1, <4>1
          <5> QED BY <2>1, <4>1, <5>1, <5>2
        <4>3. CASE j \in 1..Len(names[t])
          BY <2>5, <2>6, <3>3, <4>1, <4>3 DEF NamesInv
        <4> QED BY <2>6, <4>2, <4>3
      <3> QED BY <2>2, <2>6, <3>2, <3>3 DEF NamesInv
    <2>8. /\ Len(saves') = Len(saves) + 1 /\ Len(saves) \in Nat
          /\ saves'[Len(saves) + 1].name = k
          /\ \A i \in 1..Len(saves) : saves'[i] = saves[i]
      <3>1. [name |-> k, image |-> work] \in Savepoint
        BY <2>1 DEF Savepoint
      <3> QED BY <2>1, <2>2, <3>1
    <2>9. OpenInv(t)'
      <3>1. /\ Len(saves) = Len(names[t]) + 1 /\ saves[1].name = 0
            /\ \A i \in 1..Len(names[t]) : saves[i + 1].name = names[t][i]
        BY <2>2, <2>5 DEF OpenInv
      <3>2. saves'[1].name = 0 /\ Len(saves') = Len(names'[t]) + 1
        BY <2>6, <2>8, <3>1
      <3>3. ASSUME NEW i \in 1..Len(names'[t]) PROVE saves'[i + 1].name = names'[t][i]
        <4>1. CASE i = Len(names[t]) + 1
          BY <2>6, <2>8, <3>1, <4>1
        <4>2. CASE i \in 1..Len(names[t])
          <5>1. i + 1 \in 1..Len(saves)
            BY <2>6, <3>1, <4>2
          <5> QED BY <2>6, <2>8, <3>1, <4>2, <5>1
        <4> QED BY <2>6, <4>1, <4>2
      <3> QED BY <3>2, <3>3 DEF OpenInv
    <2> QED BY <2>4, <2>7, <2>9 DEF StackInv
  <1>7. ASSUME NestedOk(t) \/ NestedErr(t) PROVE StackInv'
    <2> DEFINE n == Len(saves)
    <2>1. /\ InClosure(t) /\ names[t] # <<>> /\ names[t] \in Seq(Nat) /\ saves \in Seq(Savepoint)
          /\ NamesInv(t) /\ OpenInv(t)
      BY <1>0, <1>7 DEF NestedOk, NestedErr, EndSavepoint, ControlTypeOK, SqlTypeOK, StackInv
    <2>2. n \in Nat /\ n > 1 /\ Len(names[t]) = n - 1
      BY <1>0, <2>1, InnermostPosition
    <2>3. saves' = SubSeq(saves, 1, n - 1)
      BY <1>0, <1>7, <2>1, NestedEnds DEF NestedOk, NestedErr
    <2>4. names' = [names EXCEPT ![t] = SubSeq(@, 1, Len(@) - 1)]
      BY <1>7 DEF NestedOk, NestedErr, EndSavepoint
    <2>5. /\ \A u \in Thread \ {t} : tx'[u] = tx[u]
          /\ tx'[t].next_savepoint = tx[t].next_savepoint
      BY <1>0, <1>7 DEF NestedOk, NestedErr, EndSavepoint, ControlTypeOK, TxState
    <2>6. \A u \in Thread \ {t} : NamesInv(u)' /\ OpenInv(u)'
      <3>1. \A u \in Thread \ {t} : names'[u] = names[u] /\ ~InClosure(u)'
        BY <1>0, <1>7, <2>1, <2>4, OneClosure DEF NestedOk, NestedErr, EndSavepoint, InClosure, ControlTypeOK
      <3> QED BY <2>5, <3>1, StackFrame
    <2>7. names'[t] = SubSeq(names[t], 1, n - 2)
      BY <1>0, <2>2, <2>4 DEF ControlTypeOK
    <2> HIDE DEF n
    <2>8. /\ Len(names'[t]) = n - 2
          /\ \A i \in 1..(n - 2) : names'[t][i] = names[t][i]
      BY <2>1, <2>2, <2>7
    <2>9. /\ Len(saves') = n - 1
          /\ \A i \in 1..(n - 1) : saves'[i] = saves[i]
      BY <2>1, <2>2, <2>3 DEF n
    <2>10. NamesInv(t)'
      <3>1. \A i \in 1..(n - 2) : i \in 1..Len(names[t])
        BY <2>2
      <3> QED BY <2>1, <2>5, <2>8, <3>1 DEF NamesInv
    <2>11. OpenInv(t)'
      <3>1. \A i \in 1..(n - 2) : i \in 1..Len(names[t]) /\ i + 1 \in 1..(n - 1)
        BY <2>2
      <3>2. /\ saves[1].name = 0
            /\ \A i \in 1..Len(names[t]) : saves[i + 1].name = names[t][i]
        BY <2>1 DEF OpenInv
      <3>3. saves'[1].name = 0 /\ Len(saves') = Len(names'[t]) + 1
        BY <2>2, <2>8, <2>9, <3>2
      <3>4. \A i \in 1..(n - 2) : saves'[i + 1].name = names'[t][i]
        BY <2>8, <2>9, <3>1, <3>2
      <3> QED BY <2>8, <3>3, <3>4 DEF OpenInv
    <2> QED BY <2>6, <2>10, <2>11 DEF StackInv
  <1>8. ASSUME NEW r, EndClosure(t, r) PROVE StackInv'
    <2>1. /\ names' = names /\ names[t] = <<>> /\ \A u \in Thread \ {t} : tx'[u] = tx[u]
          /\ \A u \in Thread \ {t} : ~InClosure(u)
          /\ \A u \in Thread : InClosure(u)' => InClosure(u) /\ u # t
      BY <1>0, <1>8, OneClosure DEF EndClosure, Finish, Goto, InClosure, ControlTypeOK
    <2> QED BY <2>1, StackFrame DEF StackInv
  <1> QED
    BY <1>1, <1>2, <1>3, <1>4, <1>5, <1>6, <1>7, <1>8, Cases
    DEF StartCall, WithRead, WithWrite, OuterTransaction, WithExclusiveWrite,
        ClosureOk, CommitFails, ClosureErr, ClosurePanic

-----------------------------------------------------------------------------
(***************************************************************************)
(* The images the savepoints remember grow.                                *)
(***************************************************************************)
\* A statement on the writer connection preserves it.
LEMMA SqlImages ==
    ASSUME SqlTypeOK, ImageInv
    PROVE  /\ \A e : SqlWrite(e) => ImageInv'
           /\ \A name \in Nat : SqlSave(name) => ImageInv'
           /\ SqlCommit \/ SqlRollback => ImageInv'
  <1> DEFINE n == Len(saves)
  <1>0. n \in Nat /\ saves \in Seq(Savepoint)
    BY DEF SqlTypeOK
  <1>1. ASSUME NEW e, SqlWrite(e) PROVE ImageInv'
    BY <1>0, <1>1 DEF SqlWrite, ImageInv, Image
  <1>2. ASSUME NEW name \in Nat, SqlSave(name) PROVE ImageInv'
    <2> DEFINE s == [name |-> name, image |-> work]
    <2>1. s \in Savepoint /\ s.image = work /\ work' = work /\ saves' = Append(saves, s)
      BY <1>2 DEF SqlSave, SqlTypeOK, Savepoint
    <2> HIDE DEF s
    <2>2. Len(saves') = n + 1 /\ saves'[n + 1] = s /\ \A i \in 1..n : saves'[i] = saves[i]
      BY <1>0, <2>1
    <2>3. /\ \A i \in {n + 1, n + 2} : Image(i)' = work
          /\ Image(n + 1) = work
      BY <1>0, <2>1, <2>2 DEF Image
    <2>4. \A i \in 1..n : Image(i)' = Image(i)
      BY <1>0, <2>2 DEF Image
    <2>5. ASSUME NEW i \in 1..Len(saves') PROVE Image(i)' \subseteq Image(i + 1)'
      <3>1. CASE i = n + 1
        <4>1. i + 1 \in {n + 1, n + 2}
          BY <1>0, <3>1
        <4> QED BY <2>3, <3>1, <4>1
      <3>2. CASE i \in 1..n /\ i # n
        <4>1. i + 1 \in 1..n
          BY <1>0, <3>2
        <4> QED BY <2>4, <3>2, <4>1 DEF ImageInv
      <3>3. CASE i \in 1..n /\ i = n
        <4>1. Image(n) \subseteq Image(n + 1)
          BY <3>3 DEF ImageInv
        <4>2. i + 1 \in {n + 1, n + 2}
          BY <3>3
        <4>3. Image(i + 1)' = work
          BY <2>3, <4>2
        <4> QED BY <2>3, <2>4, <3>3, <4>1, <4>3
      <3> QED BY <1>0, <2>2, <3>1, <3>2, <3>3
    <2> QED BY <2>5 DEF ImageInv
  <1>3. ASSUME SqlCommit \/ SqlRollback PROVE ImageInv'
    BY <1>3 DEF SqlCommit, SqlRollback, ImageInv
  <1> QED BY <1>1, <1>2, <1>3

\* The savepoint of a nested closure goes, the ones below it keep their images.
LEMMA NestedImages ==
    ASSUME SqlTypeOK, ImageInv, NEW n \in Nat, n = Len(saves), n > 1,
           saves' = SubSeq(saves, 1, n - 1),
           work' = work \/ work' = saves[n].image
    PROVE  /\ Len(saves') = n - 1
           /\ \A i \in 1..(n - 1) : Image(i)' = Image(i)
           /\ Image(n)' = work' /\ Image(n) = saves[n].image /\ Image(n + 1) = work
           /\ Image(n) \subseteq Image(n)'
           /\ ImageInv'
  <1>1. Len(saves') = n - 1 /\ \A i \in 1..(n - 1) : saves'[i] = saves[i]
    BY DEF SqlTypeOK
  <1>2. \A i \in 1..(n - 1) : Image(i)' = Image(i)
    BY <1>1 DEF Image
  <1>3. Image(n)' = work' /\ Image(n) = saves[n].image /\ Image(n + 1) = work
    BY <1>1 DEF Image
  <1>4. Image(n) \subseteq Image(n)'
    <2>1. Image(n) \subseteq Image(n + 1)
      BY DEF ImageInv
    <2> QED BY <1>3, <2>1
  <1>5. ASSUME NEW i \in 1..(n - 1) PROVE Image(i)' \subseteq Image(i + 1)'
    <2>1. Image(i) \subseteq Image(i + 1)
      BY DEF ImageInv
    <2>2. CASE i = n - 1
      BY <1>2, <1>4, <2>1, <2>2
    <2>3. CASE i # n - 1
      <3>1. i + 1 \in 1..(n - 1)
        BY <2>3
      <3> QED BY <1>2, <2>1, <3>1
    <2> QED BY <2>2, <2>3
  <1> QED BY <1>1, <1>2, <1>3, <1>4, <1>5 DEF ImageInv

LEMMA StepImages ==
    ASSUME IInv, StackInv, ImageInv, ~AutoRollback, NEW t \in Thread, Step(t)
    PROVE  ImageInv'
  <1>0. ControlTypeOK /\ SqlTypeOK
    BY TypeSplit DEF IInv
  <1>1. ASSUME UNCHANGED sqlite PROVE ImageInv'
    BY <1>1 DEF sqlite, ImageInv, Image
  <1>2. ASSUME RunWrite(t) \/ TxWrite(t) PROVE ImageInv'
    BY <1>0, <1>2, SqlImages DEF RunWrite, TxWrite
  <1>3. ASSUME Begin(t) PROVE ImageInv'
    BY <1>0, <1>3, SqlImages DEF Begin
  <1>4. ASSUME BeginSavepoint(t) PROVE ImageInv'
    BY <1>0, <1>4, TxFields, SqlImages DEF BeginSavepoint
  <1>5. ASSUME NestedOk(t) \/ NestedErr(t) PROVE ImageInv'
    <2>1. InClosure(t) /\ names[t] # <<>>
      BY <1>5 DEF NestedOk, NestedErr, EndSavepoint
    <2>2. Len(saves) \in Nat /\ Len(saves) > 1
      BY <1>0, <2>1, InnermostPosition DEF StackInv
    <2> QED BY <1>0, <1>5, <2>1, <2>2, NestedEnds, NestedImages DEF NestedOk, NestedErr
  <1>6. ASSUME ClosureOk(t) \/ CommitFails(t) \/ ClosureErr(t) \/ ClosurePanic(t) PROVE ImageInv'
    BY <1>0, <1>6, SqlImages DEF ClosureOk, CommitFails, ClosureErr, ClosurePanic
  <1> QED
    BY <1>1, <1>2, <1>3, <1>4, <1>5, <1>6, Cases
    DEF Moves, StartCall, WithRead, WithWrite, OuterTransaction, WithExclusiveWrite, Start,
        RunRead, RunFails, BeginFails, BeginSavepointFails

-----------------------------------------------------------------------------
(***************************************************************************)
(* Whose effects the database holds.                                       *)
(***************************************************************************)
\* A step that writes nothing, commits nothing, and leaves no call that has not
\* reported success with less of a past than it had.
LEMMA EffectFrame ==
    ASSUME EffectInv,
           db' = db, work' \subseteq work \cup db,
           written' = written, mark' = mark,
           \A u \in Thread : InClosure(u)' => InClosure(u) \/ work' = db,
           \A u \in Thread : Reported(u) => Reported(u)'
    PROVE  EffectInv'
  BY DEF EffectInv

\* The next write of a thread is none of those it made before.
LEMMA NextEffect ==
    ASSUME ControlTypeOK, EffectInv, NEW t \in Thread,
           NEW e, e = <<t, written[t] + 1>>,
           written' = [written EXCEPT ![t] = @ + 1]
    PROVE  /\ e[1] = t /\ e[2] = written[t] + 1 /\ e \notin db \cup work
           /\ written'[t] = written[t] + 1
           /\ \A u \in Thread \ {t} : written'[u] = written[u]
           /\ \A u \in Thread : written[u] \in Nat /\ mark[u] \in Nat
  <1>1. written \in [Thread -> 0..MaxWrites] /\ mark \in [Thread -> 0..MaxWrites]
    BY DEF ControlTypeOK
  <1>2. \A u \in Thread : written[u] \in Nat /\ mark[u] \in Nat
    BY <1>1, ConnectionAssumption
  <1>3. e[1] = t /\ e[2] = written[t] + 1
    OBVIOUS
  <1>4. e \notin db \cup work
    BY <1>2, <1>3 DEF EffectInv
  <1>5. /\ written'[t] = written[t] + 1
        /\ \A u \in Thread \ {t} : written'[u] = written[u]
    BY <1>1
  <1> QED BY <1>2, <1>3, <1>4, <1>5

LEMMA StepEffects ==
    ASSUME IInv, StackInv, ImageInv, EffectInv, ~AutoRollback, NEW t \in Thread, Step(t)
    PROVE  EffectInv'
  <1>0. ControlTypeOK /\ SqlTypeOK /\ LockInv /\ SqlInv
    BY TypeSplit DEF IInv
  <1>1. ASSUME Moves PROVE EffectInv'
    BY <1>1, EffectFrame DEF Moves, sqlite
  <1>2. ASSUME NEW c, NEW f \in {"checkout", "gate"}, Start(t, c, f) PROVE EffectInv'
    <2>1. /\ db' = db /\ work' = work /\ written' = written
          /\ mark' = [mark EXCEPT ![t] = written[t]]
      BY <1>2 DEF Start, sqlite
    <2>2. \A u \in Thread \ {t} : (InClosure(u)' <=> InClosure(u)) /\ (Reported(u)' <=> Reported(u))
      BY <1>0, <1>2 DEF Start, InClosure, Reported, ControlTypeOK
    <2>3. ~InClosure(t)'
      BY <1>0, <1>2 DEF Start, InClosure, ControlTypeOK
    <2> QED BY <1>0, <2>1, <2>2, <2>3 DEF EffectInv, ControlTypeOK
  <1>3. ASSUME RunRead(t) \/ RunFails(t) \/ BeginFails(t) PROVE EffectInv'
    <2>1. /\ UNCHANGED <<db, work, written, mark>>
          /\ \A u \in Thread : InClosure(u)' => InClosure(u)
          /\ \A u \in Thread : Reported(u) => Reported(u)'
      BY <1>0, <1>3 DEF RunRead, RunFails, BeginFails, sqlite, Finish, Goto, InClosure, Reported,
                        ControlTypeOK
    <2> QED BY <2>1, EffectFrame
  <1>4. ASSUME RunWrite(t) PROVE EffectInv'
    <2> DEFINE e == <<t, written[t] + 1>>
    <2>1. \A u \in Thread : ~InClosure(u)
      <3>1. Inside(t) /\ conn[t] = NoConn /\ ~InClosure(t)
        BY <1>0, <1>4 DEF RunWrite, Inside, InClosure, LockInv, ThreadLockInv
      <3> QED BY <1>0, <3>1, OneWriter DEF InClosure, Inside, LockInv, ThreadLockInv
    <2>2. db' = db \cup {e} /\ work' = db'
      BY <1>0, <1>4, <2>1 DEF RunWrite, SqlWrite, SqlInv
    <2>3. /\ written' = [written EXCEPT ![t] = @ + 1] /\ mark' = mark
          /\ \A u \in Thread \ {t} : Reported(u)' <=> Reported(u)
          /\ Reported(t)'
      BY <1>0, <1>4 DEF RunWrite, Finish, Goto, Reported, ControlTypeOK
    <2>4. /\ e[1] = t /\ e[2] = written[t] + 1
          /\ written'[t] = written[t] + 1
          /\ \A u \in Thread \ {t} : written'[u] = written[u]
          /\ \A u \in Thread : written[u] \in Nat
      BY <1>0, <2>3, NextEffect
    <2> HIDE DEF e
    <2>5. \A d \in db' \cup work' : d[2] <= written'[d[1]]
      <3> SUFFICES ASSUME NEW d \in db' \cup work' PROVE d[2] <= written'[d[1]]
        OBVIOUS
      <3>1. CASE d = e
        BY <2>4, <3>1
      <3>2. CASE d \in db
        <4>1. d[1] \in Thread /\ d[2] \in Nat /\ d[2] <= written[d[1]]
          BY <1>0, <3>2, ConnectionAssumption DEF EffectInv, SqlTypeOK, Effect
        <4> QED BY <2>4, <4>1
      <3> QED BY <2>2, <3>1, <3>2
    <2>6. \A u \in Thread : ~Reported(u)' => \A d \in db' : d[1] = u => d[2] <= mark'[u]
      BY <2>2, <2>3, <2>4 DEF EffectInv
    <2>7. \A u \in Thread : InClosure(u)' => \A d \in work' \ db' : d[1] = u
      BY <2>2
    <2> QED BY <2>5, <2>6, <2>7 DEF EffectInv
  <1>5. ASSUME Begin(t) PROVE EffectInv'
    <2>1. UNCHANGED <<db, work, written, mark, result>> /\ work = db
      BY <1>0, <1>5 DEF Begin, SqlSave, history, SqlInv
    <2>2. \A u \in Thread : Reported(u) => Reported(u)'
      BY <1>0, <1>5, <2>1 DEF Begin, Goto, Reported, ControlTypeOK
    <2> QED BY <2>1, <2>2, EffectFrame
  <1>6. ASSUME TxWrite(t) PROVE EffectInv'
    <2> DEFINE e == <<t, written[t] + 1>>
    <2>1. InClosure(t) /\ saves # <<>>
      BY <1>0, <1>6 DEF TxWrite, StackInv, OpenInv, ControlTypeOK, SqlTypeOK
    <2>2. db' = db /\ work' = work \cup {e}
      BY <1>6, <2>1 DEF TxWrite, SqlWrite
    <2>3. /\ written' = [written EXCEPT ![t] = @ + 1] /\ mark' = mark
          /\ \A u \in Thread : Reported(u)' <=> Reported(u)
          /\ \A u \in Thread : InClosure(u)' <=> InClosure(u)
      BY <1>6 DEF TxWrite, Reported, InClosure
    <2>4. /\ e[1] = t /\ e[2] = written[t] + 1
          /\ written'[t] = written[t] + 1
          /\ \A u \in Thread \ {t} : written'[u] = written[u]
          /\ \A u \in Thread : written[u] \in Nat
      BY <1>0, <2>3, NextEffect
    <2> HIDE DEF e
    <2>5. \A d \in db' \cup work' : d[2] <= written'[d[1]]
      <3> SUFFICES ASSUME NEW d \in db' \cup work' PROVE d[2] <= written'[d[1]]
        OBVIOUS
      <3>1. CASE d = e
        BY <2>4, <3>1
      <3>2. CASE d \in db \cup work
        <4>1. d[1] \in Thread /\ d[2] \in Nat /\ d[2] <= written[d[1]]
          BY <1>0, <3>2, ConnectionAssumption DEF EffectInv, SqlTypeOK, Effect
        <4> QED BY <2>4, <4>1
      <3> QED BY <2>2, <3>1, <3>2
    <2>6. \A u \in Thread : InClosure(u)' => \A d \in work' \ db' : d[1] = u
      <3> SUFFICES ASSUME NEW u \in Thread, InClosure(u) PROVE \A d \in work' \ db' : d[1] = u
        BY <2>3
      <3>1. u = t
        BY <1>0, <2>1, OneClosure
      <3> QED BY <2>1, <2>2, <2>4, <3>1 DEF EffectInv
    <2> QED BY <2>2, <2>3, <2>5, <2>6 DEF EffectInv
  <1>7. ASSUME BeginSavepoint(t) \/ BeginSavepointFails(t) PROVE EffectInv'
    <2>1. /\ UNCHANGED <<db, work, written, mark>>
          /\ \A u \in Thread : InClosure(u)' => InClosure(u)
          /\ \A u \in Thread : Reported(u) => Reported(u)'
      BY <1>7 DEF BeginSavepoint, BeginSavepointFails, SqlSave, sqlite, history, InClosure, Reported
    <2> QED BY <2>1, EffectFrame
  <1>8. ASSUME NestedOk(t) \/ NestedErr(t) PROVE EffectInv'
    <2> DEFINE n == Len(saves)
    <2>1. InClosure(t) /\ names[t] # <<>>
      BY <1>8 DEF NestedOk, NestedErr, EndSavepoint
    <2>2. n \in Nat /\ n > 1
      BY <1>0, <2>1, InnermostPosition DEF StackInv
    <2>3. db' = db /\ (work' = work \/ work' = saves[n].image)
      BY <1>0, <1>8, <2>1, NestedEnds DEF NestedOk, NestedErr
    <2>4. saves[n].image \subseteq work
      <3>1. Image(n) \subseteq Image(n + 1)
        BY <2>2 DEF ImageInv
      <3> QED BY <2>2, <3>1 DEF Image
    <2>5. /\ written' = written /\ mark' = mark
          /\ \A u \in Thread : InClosure(u)' => InClosure(u)
          /\ \A u \in Thread : Reported(u) => Reported(u)'
      BY <1>0, <1>8 DEF NestedOk, NestedErr, EndSavepoint, InClosure, Reported, ControlTypeOK
    <2> QED BY <2>3, <2>4, <2>5, EffectFrame
  <1>9. ASSUME ClosureOk(t) PROVE EffectInv'
    <2>1. /\ db' = work /\ work' = work /\ written' = written /\ mark' = mark
          /\ InClosure(t)
      BY <1>9 DEF ClosureOk, EndClosure, SqlCommit
    <2>2. \A u \in Thread \ {t} : Reported(u)' <=> Reported(u)
      BY <1>0, <1>9 DEF ClosureOk, EndClosure, Finish, Goto, Reported, ControlTypeOK
    <2>3. Reported(t)'
      BY <1>0, <1>9 DEF ClosureOk, EndClosure, Finish, Goto, Reported, ControlTypeOK
    <2>4. \A e \in work : e \in db \/ e[1] = t
      BY <2>1 DEF EffectInv
    <2> QED BY <2>1, <2>2, <2>3, <2>4 DEF EffectInv
  <1>10. ASSUME NEW r \in Result \ {"none", "ok"}, EndClosure(t, r), SqlRollback \/ UNCHANGED sqlite
         PROVE  EffectInv'
    <2>1. /\ db' = db /\ written' = written /\ mark' = mark
          /\ work' \subseteq work \cup db
      BY <1>0, <1>10 DEF EndClosure, SqlRollback, sqlite, SqlInv
    <2>2. /\ \A u \in Thread : InClosure(u)' => InClosure(u)
          /\ \A u \in Thread : Reported(u) => Reported(u)'
      BY <1>0, <1>10 DEF EndClosure, Finish, Goto, InClosure, Reported, ControlTypeOK
    <2> QED BY <2>1, <2>2, EffectFrame
  <1> QED
    BY <1>1, <1>2, <1>3, <1>4, <1>5, <1>6, <1>7, <1>8, <1>9, <1>10, Cases
    DEF StartCall, WithRead, WithWrite, OuterTransaction, WithExclusiveWrite,
        CommitFails, ClosureErr, ClosurePanic, Result

-----------------------------------------------------------------------------
(***************************************************************************)
(* The invariant and what follows from it.                                 *)
(***************************************************************************)
LEMMA InitTxInv == Init => TxInv
  <1> SUFFICES ASSUME Init PROVE TxInv
    OBVIOUS
  <1>1. IInv
    BY InitIInv
  <1>2. StackInv
    BY DEF Init, StackInv, NamesInv, OpenInv, InClosure
  <1>3. ImageInv /\ EffectInv
    BY DEF Init, ImageInv, EffectInv
  <1> QED BY <1>1, <1>2, <1>3 DEF TxInv

LEMMA StepTxInv ==
    ASSUME TxInv, [Next]_vars, ~AutoRollback
    PROVE  TxInv'
  <1>0. IInv /\ StackInv /\ ImageInv /\ EffectInv
    BY DEF TxInv
  <1>1. IInv'
    BY <1>0, StepIInv
  <1>2. CASE UNCHANGED vars
    BY <1>0, <1>1, <1>2
    DEF vars, locks, closure, sqlite, history, TxInv, StackInv, NamesInv, OpenInv, InClosure, ImageInv,
        Image, EffectInv, Reported
  <1>3. ASSUME NEW t \in Thread, Step(t) PROVE TxInv'
    BY <1>0, <1>1, <1>3, StepStack, StepImages, StepEffects DEF TxInv
  <1> QED BY <1>2, <1>3 DEF Next, Step, Terminating

LEMMA SpecTxInv ==
    ASSUME ~AutoRollback
    PROVE  Spec => []TxInv
  <1>1. TxInv /\ [Next]_vars => TxInv'
    BY StepTxInv
  <1> QED BY <1>1, InitTxInv, PTL DEF Spec

\* RELEASE and ROLLBACK TO always name the innermost open savepoint: TX_STATE,
\* the closures on the stack and SQLite's savepoints agree (begin_savepoint and
\* finish_savepoint), unless a statement rolled the transaction back.
THEOREM SavepointsAgree ==
    ASSUME ~AutoRollback
    PROVE  Spec => []SavepointsMatchClosures
  <1>1. TxInv => SavepointsMatchClosures
    <2> SUFFICES ASSUME TxInv, NEW t \in Thread, tx[t].depth > 0
                 PROVE  /\ tx[t].depth = Len(names[t]) + 1
                        /\ [i \in 1..Len(saves) |-> saves[i].name] = <<0>> \o names[t]
      BY DEF SavepointsMatchClosures
    <2>1. ControlTypeOK /\ SqlTypeOK /\ LockInv /\ ClosureInv /\ StackInv
      BY TypeSplit DEF TxInv, IInv
    <2>2. InClosure(t) /\ OpenInv(t) /\ tx[t].depth = Len(names[t]) + 1
      BY <2>1 DEF LockInv, ThreadLockInv, ClosureInv, StackInv
    <2>3. names[t] \in Seq(Nat) /\ Len(names[t]) \in Nat
      BY <2>1 DEF ControlTypeOK
    <2> DEFINE opened == [i \in 1..Len(saves) |-> saves[i].name]
               s == <<0>> \o names[t]
    <2>4. Len(saves) = Len(names[t]) + 1 /\ saves[1].name = 0
      BY <2>2 DEF OpenInv
    <2>5. s \in Seq(Nat) /\ Len(s) = Len(names[t]) + 1
      BY <2>3
    <2>6. s = [i \in 1..(Len(names[t]) + 1) |-> s[i]]
      BY <2>5
    <2>7. ASSUME NEW i \in 1..(Len(names[t]) + 1) PROVE saves[i].name = s[i]
      <3>1. CASE i = 1
        BY <2>3, <2>4, <3>1
      <3>2. CASE i # 1
        <4>1. i - 1 \in 1..Len(names[t]) /\ (i - 1) + 1 = i
          BY <2>3, <3>2
        <4>2. s[i] = names[t][i - 1]
          BY <2>3, <3>2, <4>1
        <4>3. saves[(i - 1) + 1].name = names[t][i - 1]
          BY <2>2, <4>1 DEF OpenInv
        <4> QED BY <4>1, <4>2, <4>3
      <3> QED BY <3>1, <3>2
    <2> HIDE DEF s
    <2>8. opened = s
      BY <2>4, <2>6, <2>7
    <2> QED BY <2>2, <2>8 DEF s
  <1> QED BY <1>1, SpecTxInv, PTL

\* A transaction() that reports any failure, a failed COMMIT included, has left
\* nothing of what it wrote in the database.
THEOREM FailuresLeaveNothing ==
    ASSUME ~AutoRollback
    PROVE  Spec => []FailureLeavesNothing
  <1>1. TxInv => FailureLeavesNothing
    <2> SUFFICES ASSUME TxInv, NEW t \in Thread, result[t] \notin {"none", "ok"},
                        NEW n \in (mark[t] + 1)..written[t], <<t, n>> \in db
                 PROVE  FALSE
      BY DEF FailureLeavesNothing, Issued
    <2>1. n <= mark[t]
      BY DEF TxInv, EffectInv, Reported
    <2>2. mark[t] \in Nat /\ written[t] \in Nat
      BY ConnectionAssumption DEF TxInv, IInv, TypeOK
    <2> QED BY <2>1, <2>2
  <1> QED BY <1>1, SpecTxInv, PTL

\* "Returning an error rolls the current transaction back" (src/README.md:35):
\* true of every transaction no statement has rolled back by itself.
THEOREM ErrorsRollBack ==
    ASSUME ~AutoRollback
    PROVE  Spec => []ErrorRollsBack
  <1>1. FailureLeavesNothing => ErrorRollsBack
    BY DEF FailureLeavesNothing, ErrorRollsBack
  <1> QED BY <1>1, FailuresLeaveNothing, PTL

-----------------------------------------------------------------------------
(***************************************************************************)
(* The manager implements the serial store.                                *)
(***************************************************************************)
Frames == [t \in Thread |-> IF writer = t THEN OpenFrames ELSE <<>>]

\* Only the thread in a transaction closure has frames, one per savepoint.
FramesInv ==
    \A t \in Thread :
        /\ InClosure(t) => Frames[t] = OpenFrames
        /\ ~InClosure(t) => Frames[t] = <<>>

LEMMA FramesAre == TxInv => FramesInv
  <1> SUFFICES ASSUME TxInv, NEW t \in Thread
               PROVE  /\ InClosure(t) => Frames[t] = OpenFrames
                      /\ ~InClosure(t) => Frames[t] = <<>>
    BY DEF FramesInv
  <1>0. LockInv /\ SqlInv
    BY DEF TxInv, IInv
  <1>1. ASSUME InClosure(t) PROVE Frames[t] = OpenFrames
    <2>1. writer = t
      BY <1>0, <1>1 DEF LockInv, ThreadLockInv, InClosure, Inside
    <2> QED BY <2>1 DEF Frames
  <1>2. ASSUME ~InClosure(t) PROVE Frames[t] = <<>>
    <2>1. CASE writer # t
      BY <2>1 DEF Frames
    <2>2. CASE writer = t
      <3>1. \A u \in Thread : ~InClosure(u)
        <4> SUFFICES ASSUME NEW u \in Thread, InClosure(u) PROVE FALSE
          OBVIOUS
        <4>1. u = writer
          BY <1>0 DEF LockInv, ThreadLockInv, InClosure, Inside
        <4> QED BY <1>2, <2>2, <4>1
      <3>2. saves = <<>>
        BY <1>0, <3>1 DEF SqlInv
      <3>3. OpenFrames = <<>>
        BY <3>2 DEF OpenFrames
      <3> QED BY <2>2, <3>3 DEF Frames
    <2> QED BY <2>1, <2>2
  <1> QED BY <1>1, <1>2

LEMMA FramesAfter == TxInv' => FramesInv'
  BY FramesAre, PTL

LEMMA OpenFramesAre ==
    ASSUME SqlTypeOK
    PROVE  /\ Len(OpenFrames) = Len(saves) /\ Len(saves) \in Nat
           /\ OpenFrames = [i \in 1..Len(saves) |-> Image(i + 1) \ Image(i)]
           /\ OpenFrames \in Seq(SUBSET Effect)
  <1>1. Len(saves) \in Nat /\ saves \in [1..Len(saves) -> Savepoint]
    BY DEF SqlTypeOK
  <1>2. \A i \in Nat \ {0} : Image(i) \in SUBSET Effect
    <2> SUFFICES ASSUME NEW i \in Nat \ {0} PROVE Image(i) \in SUBSET Effect
      OBVIOUS
    <2>1. CASE i <= Len(saves)
      <3>1. saves[i] \in Savepoint
        BY <1>1, <2>1
      <3> QED BY <2>1, <3>1 DEF Image, Savepoint
    <2>2. CASE ~(i <= Len(saves))
      BY <2>2 DEF Image, SqlTypeOK
    <2> QED BY <2>1, <2>2
  <1>3. \A i \in 1..Len(saves) : Image(i + 1) \ Image(i) \in SUBSET Effect
    BY <1>1, <1>2
  <1>4. OpenFrames \in [1..Len(saves) -> SUBSET Effect]
    BY <1>3 DEF OpenFrames
  <1> QED BY <1>1, <1>4 DEF OpenFrames

\* A step that leaves everybody's frames alone.
LEMMA SameFrames ==
    ASSUME TxInv, TxInv', \A u \in Thread : InClosure(u)' <=> InClosure(u),
           saves' = saves, work' = work \/ saves = <<>>
    PROVE  Frames' = Frames
  <1>1. OpenFrames' = OpenFrames
    <2>1. CASE work' = work
      BY <2>1 DEF OpenFrames, Image
    <2>2. CASE saves = <<>>
      BY <2>2 DEF OpenFrames
    <2> QED BY <2>1, <2>2
  <1>2. \A u \in Thread : Frames'[u] = Frames[u]
    BY <1>1, FramesAre, FramesAfter DEF FramesInv
  <1>3. DOMAIN Frames' = Thread /\ DOMAIN Frames = Thread
    BY DEF Frames
  <1> QED BY <1>2 DEF Frames

\* The steps of the serial store, in terms of the manager's state.
LEMMA StoreAnswer ==
    ASSUME NEW t \in Thread, NEW r \in Result,
           Frames[t] = <<>>, Frames' = Frames, db' = db, result' = [result EXCEPT ![t] = r]
    PROVE  Store!Answer(t)
  BY DEF Store!Answer, Store!Report, Frames

LEMMA StoreOpen ==
    ASSUME NEW t \in Thread, \A u \in Thread : Frames[u] = <<>>,
           Frames' = [Frames EXCEPT ![t] = <<{}>>], UNCHANGED <<db, result>>
    PROVE  Store!Open(t)
  BY DEF Store!Open, Store!Quiet, Frames

LEMMA StoreNest ==
    ASSUME NEW t \in Thread, Frames[t] # <<>>,
           Frames' = [Frames EXCEPT ![t] = Append(@, {})], UNCHANGED <<db, result>>
    PROVE  Store!Nest(t)
  BY DEF Store!Nest, Frames


LEMMA StoreCommit ==
    ASSUME NEW t \in Thread, Len(Frames[t]) = 1,
           Frames' = [Frames EXCEPT ![t] = <<>>],
           db' = db \cup Frames[t][1], result' = [result EXCEPT ![t] = "ok"]
    PROVE  Store!Commit(t)
  BY DEF Store!Commit, Store!Report, Store!Innermost, Frames

LEMMA StoreAbort ==
    ASSUME NEW t \in Thread, NEW r \in Result \ {"none", "ok"}, Len(Frames[t]) = 1,
           Frames' = [Frames EXCEPT ![t] = <<>>],
           db' = db, result' = [result EXCEPT ![t] = r]
    PROVE  Store!Abort(t)
  BY DEF Store!Abort, Store!Report, Store!Failure, Store!Innermost, Frames

\* A thread that is alone on the writer connection is alone in having frames.
LEMMA AloneInside ==
    ASSUME LockInv, NEW t \in Thread, Inside(t), conn[t] = NoConn
    PROVE  \A u \in Thread \ {t} : ~InClosure(u)
  <1> SUFFICES ASSUME NEW u \in Thread \ {t}, InClosure(u) PROVE FALSE
    OBVIOUS
  <1>1. Inside(u) /\ conn[u] = NoConn
    BY DEF InClosure, Inside, LockInv, ThreadLockInv
  <1> QED BY <1>1, OneWriter

LEMMA OneFrames ==
    ASSUME TxInv, TxInv', NEW t \in Thread, \A u \in Thread \ {t} : ~InClosure(u) /\ ~InClosure(u)'
    PROVE  Frames' = [Frames EXCEPT ![t] = Frames'[t]]
  <1>1. \A u \in Thread \ {t} : Frames'[u] = Frames[u]
    BY FramesAre, FramesAfter DEF FramesInv
  <1>2. DOMAIN Frames' = Thread /\ DOMAIN Frames = Thread
    BY DEF Frames
  <1>3. Frames' = [u \in Thread |-> Frames'[u]] /\ Frames = [u \in Thread |-> Frames[u]]
    BY DEF Frames
  <1> HIDE DEF Frames
  <1> QED BY <1>1, <1>2, <1>3

\* BEGIN IMMEDIATE opens the first frame.
LEMMA BeginOpens ==
    ASSUME TxInv, TxInv', NEW t \in Thread, Begin(t)
    PROVE  Store!Open(t)
  <1>0. LockInv /\ ControlTypeOK /\ SqlTypeOK
    BY TypeSplit DEF TxInv, IInv
  <1>1. Inside(t) /\ conn[t] = NoConn /\ ~InClosure(t) /\ InClosure(t)'
    BY <1>0 DEF Begin, Goto, Inside, InClosure, LockInv, ThreadLockInv, ControlTypeOK
  <1>2. \A u \in Thread \ {t} : ~InClosure(u) /\ ~InClosure(u)'
    BY <1>0, <1>1, AloneInside DEF Begin, Goto, InClosure, ControlTypeOK
  <1>3. saves' = <<[name |-> 0, image |-> work]>> /\ UNCHANGED <<work, db, result>>
    BY DEF Begin, SqlSave, history
  <1>4. OpenFrames' = <<{}>>
    <2>1. Image(1)' = work /\ Image(2)' = work
      BY <1>3 DEF Image
    <2>2. OpenFrames' = [i \in 1..1 |-> {}]
      BY <1>3, <2>1 DEF OpenFrames, Image
    <2> QED BY <2>2
  <1>5. Frames'[t] = <<{}>>
    BY <1>1, <1>4, FramesAfter DEF FramesInv
  <1>6. \A u \in Thread : Frames[u] = <<>>
    BY <1>1, <1>2, FramesAre DEF FramesInv
  <1> QED BY <1>2, <1>3, <1>5, <1>6, OneFrames, StoreOpen

\* A write in a closure joins the innermost frame.
LEMMA WriteWrites ==
    ASSUME TxInv, TxInv', NEW t \in Thread, TxWrite(t),
           NEW e \in Effect, e = <<t, written[t] + 1>>
    PROVE  Store!Write(t, e)
  <1> DEFINE n == Len(saves)
  <1>0. LockInv /\ ControlTypeOK /\ SqlTypeOK /\ StackInv /\ ImageInv /\ EffectInv
    BY TypeSplit DEF TxInv, IInv
  <1>1. InClosure(t) /\ InClosure(t)' /\ n \in Nat /\ n > 0
    <2>1. InClosure(t) /\ InClosure(t)'
      BY DEF TxWrite, InClosure
    <2>2. names[t] \in Seq(Nat) /\ saves \in Seq(Savepoint)
      BY <1>0 DEF ControlTypeOK, SqlTypeOK
    <2>3. Len(names[t]) \in Nat /\ n \in Nat /\ n = Len(names[t]) + 1
      BY <1>0, <2>1, <2>2 DEF StackInv, OpenInv
    <2> QED BY <2>1, <2>3
  <1>2. \A u \in Thread \ {t} : ~InClosure(u) /\ ~InClosure(u)'
    BY <1>0, <1>1, OneClosure DEF TxWrite, InClosure
  <1>3. saves' = saves /\ work' = work \cup {e} /\ UNCHANGED <<db, result>>
    BY <1>1 DEF TxWrite, SqlWrite
  <1>4. e \notin work
    BY <1>0, NextEffect DEF TxWrite
  <1>5. /\ \A i \in 1..n : Image(i)' = Image(i)
        /\ \A i \in {n + 1} : Image(i)' = work \cup {e} /\ Image(i) = work
    BY <1>1, <1>3 DEF Image
  <1>6. Image(n) \subseteq work
    BY <1>0, <1>1, <1>5 DEF ImageInv
  <1>7. Len(OpenFrames) = n /\ OpenFrames = [i \in 1..n |-> Image(i + 1) \ Image(i)]
    BY <1>0, OpenFramesAre
  <1>8. OpenFrames' = [i \in 1..n |-> Image(i + 1)' \ Image(i)']
    BY <1>3 DEF OpenFrames
  <1>9. \A i \in 1..n : Image(i + 1)' \ Image(i)' =
            IF i = n THEN OpenFrames[n] \cup {e} ELSE OpenFrames[i]
    <2> SUFFICES ASSUME NEW i \in 1..n
                 PROVE  Image(i + 1)' \ Image(i)' =
                            IF i = n THEN OpenFrames[n] \cup {e} ELSE OpenFrames[i]
      OBVIOUS
    <2>1. OpenFrames[i] = Image(i + 1) \ Image(i) /\ Image(i)' = Image(i)
      BY <1>5, <1>7
    <2>2. CASE i = n
      <3>1. i + 1 \in {n + 1}
        BY <2>2
      <3> QED BY <1>4, <1>5, <1>6, <2>1, <2>2, <3>1
    <2>3. CASE i # n
      <3>1. i + 1 \in 1..n
        BY <1>1, <2>3
      <3> QED BY <1>5, <2>1, <2>3, <3>1
    <2> QED BY <2>2, <2>3
  <1>10. OpenFrames' = [OpenFrames EXCEPT ![n] = OpenFrames[n] \cup {e}]
    BY <1>1, <1>7, <1>8, <1>9
  <1>11. Frames[t] = OpenFrames /\ Frames'[t] = OpenFrames'
    BY <1>1, FramesAre, FramesAfter DEF FramesInv
  <1>12. Frames' = [Frames EXCEPT ![t] = Frames'[t]]
    BY <1>2, OneFrames
  <1>13. Frames[t] # <<>>
    BY <1>1, <1>7, <1>11
  <1>14. Frames' = [Frames EXCEPT ![t] =
                [@ EXCEPT ![Len(Frames[t])] = Frames[t][Len(Frames[t])] \cup {e}]]
    <2>1. DOMAIN Frames = Thread
      BY DEF Frames
    <2> HIDE DEF Frames, OpenFrames, n
    <2> QED BY <1>7, <1>10, <1>11, <1>12, <2>1
  <1> QED BY <1>3, <1>13, <1>14 DEF Store!Write, Store!Innermost, Frames

\* A write outside every closure commits by itself.
LEMMA WriteCommits ==
    ASSUME TxInv, TxInv', NEW t \in Thread, RunWrite(t),
           NEW e \in Effect, e = <<t, written[t] + 1>>
    PROVE  Store!AutoCommit(t, e)
  <1>0. LockInv /\ ControlTypeOK /\ SqlInv
    BY TypeSplit DEF TxInv, IInv
  <1>1. Inside(t) /\ conn[t] = NoConn /\ ~InClosure(t) /\ ~InClosure(t)'
    BY <1>0 DEF RunWrite, Finish, Goto, Inside, InClosure, LockInv, ThreadLockInv, ControlTypeOK
  <1>2. \A u \in Thread : ~InClosure(u) /\ ~InClosure(u)'
    BY <1>0, <1>1, AloneInside DEF RunWrite, Finish, Goto, InClosure, ControlTypeOK
  <1>3. saves = <<>> /\ work = db
    BY <1>0, <1>2 DEF SqlInv
  <1>4. saves' = saves /\ db' = db \cup {e} /\ result' = [result EXCEPT ![t] = "ok"]
    BY <1>3 DEF RunWrite, SqlWrite, Finish
  <1>5. Frames' = Frames
    BY <1>2, <1>3, <1>4, SameFrames
  <1>6. \A u \in Thread : Frames[u] = <<>>
    BY <1>2, FramesAre DEF FramesInv
  <1> QED BY <1>4, <1>5, <1>6 DEF Store!AutoCommit, Store!Report, Store!Quiet, Frames

\* SAVEPOINT opens an empty frame inside the others.
LEMMA SavepointNests ==
    ASSUME TxInv, TxInv', NEW t \in Thread, BeginSavepoint(t)
    PROVE  Store!Nest(t)
  <1> DEFINE n == Len(saves)
             k == tx[t].next_savepoint + 1
             s == [name |-> k, image |-> work]
  <1>0. LockInv /\ ControlTypeOK /\ SqlTypeOK /\ StackInv
    BY TypeSplit DEF TxInv, IInv
  <1>1. InClosure(t) /\ InClosure(t)' /\ n \in Nat /\ n > 0
    BY <1>0 DEF BeginSavepoint, InClosure, StackInv, OpenInv, ControlTypeOK, SqlTypeOK
  <1>2. \A u \in Thread \ {t} : ~InClosure(u) /\ ~InClosure(u)'
    BY <1>0, <1>1, OneClosure DEF BeginSavepoint, InClosure
  <1>3. /\ saves' = Append(saves, s) /\ UNCHANGED <<work, db, result>>
        /\ s \in Savepoint /\ s.image = work
    BY <1>0, TxFields DEF BeginSavepoint, SqlSave, history, SqlTypeOK, Savepoint
  <1> HIDE DEF s
  <1>4. Len(saves') = n + 1 /\ saves'[n + 1] = s /\ \A i \in 1..n : saves'[i] = saves[i]
    BY <1>0, <1>3 DEF SqlTypeOK
  <1>5. /\ \A i \in 1..n : Image(i)' = Image(i)
        /\ \A i \in {n + 1, n + 2} : Image(i)' = work
        /\ Image(n + 1) = work
    BY <1>1, <1>3, <1>4 DEF Image
  <1>6. Len(OpenFrames) = n /\ OpenFrames = [i \in 1..n |-> Image(i + 1) \ Image(i)]
        /\ OpenFrames \in Seq(SUBSET Effect)
    BY <1>0, OpenFramesAre
  <1>7. OpenFrames' = [i \in 1..(n + 1) |-> Image(i + 1)' \ Image(i)']
    BY <1>4 DEF OpenFrames
  <1>8. \A i \in 1..(n + 1) : Image(i + 1)' \ Image(i)' =
            IF i = n + 1 THEN {} ELSE OpenFrames[i]
    <2> SUFFICES ASSUME NEW i \in 1..(n + 1)
                 PROVE  Image(i + 1)' \ Image(i)' = IF i = n + 1 THEN {} ELSE OpenFrames[i]
      OBVIOUS
    <2>1. CASE i = n + 1
      <3>1. i \in {n + 1, n + 2} /\ i + 1 \in {n + 1, n + 2}
        BY <1>1, <2>1
      <3> QED BY <1>5, <2>1, <3>1
    <2>2. CASE i \in 1..n
      <3>1. OpenFrames[i] = Image(i + 1) \ Image(i) /\ Image(i)' = Image(i)
        BY <1>5, <1>6, <2>2
      <3>2. Image(i + 1)' = Image(i + 1)
        <4>1. CASE i = n
          <5>1. i + 1 \in {n + 1, n + 2}
            BY <4>1
          <5> QED BY <1>5, <4>1, <5>1
        <4>2. CASE i # n
          <5>1. i + 1 \in 1..n
            BY <1>1, <2>2, <4>2
          <5> QED BY <1>5, <5>1
        <4> QED BY <4>1, <4>2
      <3> QED BY <1>1, <2>2, <3>1, <3>2
    <2> QED BY <1>1, <2>1, <2>2
  <1>9. OpenFrames' = Append(OpenFrames, {})
    <2>1. Append(OpenFrames, {}) =
            [i \in 1..(n + 1) |-> IF i = n + 1 THEN {} ELSE OpenFrames[i]]
      <3> HIDE DEF OpenFrames, n
      <3> QED BY <1>1, <1>6
    <2> QED BY <1>7, <1>8, <2>1
  <1>10. Frames[t] = OpenFrames /\ Frames'[t] = OpenFrames'
    BY <1>1, FramesAre, FramesAfter DEF FramesInv
  <1>11. Frames' = [Frames EXCEPT ![t] = Frames'[t]]
    BY <1>2, OneFrames
  <1>12. Frames[t] # <<>>
    BY <1>1, <1>6, <1>10
  <1>13. Frames' = [Frames EXCEPT ![t] = Append(@, {})]
    <2>1. DOMAIN Frames = Thread
      BY DEF Frames
    <2> HIDE DEF Frames, OpenFrames, n
    <2> QED BY <1>9, <1>10, <1>11, <2>1
  <1> QED BY <1>3, <1>12, <1>13, StoreNest

\* What is left of the frames when the innermost closure ends.
LEMMA NestedFrames ==
    ASSUME TxInv, TxInv', NEW t \in Thread, NestedOk(t) \/ NestedErr(t)
    PROVE  LET n == Len(OpenFrames) IN
           /\ n \in Nat /\ n > 1 /\ Frames[t] = OpenFrames
           /\ Frames' = [Frames EXCEPT ![t] = OpenFrames']
           /\ NestedOk(t) => OpenFrames' =
                Append(SubSeq(OpenFrames, 1, n - 2), OpenFrames[n - 1] \cup OpenFrames[n])
           /\ NestedErr(t) => OpenFrames' = SubSeq(OpenFrames, 1, n - 1)
  <1> DEFINE n == Len(saves)
             f == OpenFrames
  <1>0. LockInv /\ ControlTypeOK /\ SqlTypeOK /\ StackInv /\ ImageInv
    BY TypeSplit DEF TxInv, IInv
  <1>1. InClosure(t) /\ InClosure(t)' /\ names[t] # <<>>
    BY DEF NestedOk, NestedErr, EndSavepoint, InClosure
  <1>2. \A u \in Thread \ {t} : ~InClosure(u) /\ ~InClosure(u)'
    BY <1>0, <1>1, OneClosure DEF NestedOk, NestedErr, EndSavepoint, InClosure
  <1>3. n \in Nat /\ n > 1
    BY <1>0, <1>1, InnermostPosition DEF StackInv
  <1>4. /\ saves' = SubSeq(saves, 1, n - 1)
        /\ NestedOk(t) => work' = work
        /\ NestedErr(t) => work' = saves[n].image
    BY <1>0, <1>1, NestedEnds DEF NestedOk, NestedErr
  <1>5. /\ Len(saves') = n - 1
        /\ \A i \in 1..(n - 1) : Image(i)' = Image(i)
        /\ \A i \in {n} : Image(i)' = work'
        /\ Image(n) = saves[n].image /\ Image(n + 1) = work
    BY <1>0, <1>3, <1>4, NestedImages
  <1>6. /\ Len(f) = n /\ f = [i \in 1..n |-> Image(i + 1) \ Image(i)]
        /\ f \in Seq(SUBSET Effect)
    BY <1>0, OpenFramesAre
  <1>7. OpenFrames' = [i \in 1..(n - 1) |-> Image(i + 1)' \ Image(i)']
    BY <1>5 DEF OpenFrames
  <1>8. Frames[t] = f /\ Frames'[t] = OpenFrames'
    BY <1>1, FramesAre, FramesAfter DEF FramesInv
  <1>9. Frames' = [Frames EXCEPT ![t] = OpenFrames']
    BY <1>2, <1>8, OneFrames
  <1>10. (n - 1) + 1 = n /\ n - 1 \in 1..n /\ n \in 1..n
    BY <1>3
  <1>11. \A i \in 1..(n - 1) : i # n - 1 => Image(i + 1)' \ Image(i)' = f[i]
    <2> SUFFICES ASSUME NEW i \in 1..(n - 1), i # n - 1
                 PROVE  Image(i + 1)' \ Image(i)' = f[i]
      OBVIOUS
    <2>1. i + 1 \in 1..(n - 1) /\ i \in 1..n
      BY <1>3
    <2> QED BY <1>5, <1>6, <2>1
  <1>12. \A i \in {n - 1} : Image(i + 1)' \ Image(i)' = work' \ Image(n - 1)
    <2> SUFFICES ASSUME NEW i \in {n - 1} PROVE Image(i + 1)' \ Image(i)' = work' \ Image(n - 1)
      OBVIOUS
    <2>1. i + 1 \in {n} /\ i \in 1..(n - 1)
      BY <1>3
    <2> QED BY <1>5, <2>1
  <1>13. f[n - 1] = Image(n) \ Image(n - 1) /\ f[n] = work \ Image(n)
    BY <1>5, <1>6, <1>10
  <1>14. Image(n - 1) \subseteq Image(n) /\ Image(n) \subseteq work
    <2>1. \A i \in 1..n : Image(i) \subseteq Image(i + 1)
      BY <1>0 DEF ImageInv
    <2> HIDE DEF n
    <2>2. Image(n - 1) \subseteq Image((n - 1) + 1)
      BY <1>10, <2>1
    <2> QED BY <1>5, <1>10, <2>1, <2>2
  <1>15. SubSeq(f, 1, n - 1) = [i \in 1..(n - 1) |-> f[i]]
    <2> HIDE DEF f, n
    <2> QED BY <1>3, <1>6
  <1>16. ASSUME NestedOk(t)
         PROVE  OpenFrames' = Append(SubSeq(f, 1, n - 2), f[n - 1] \cup f[n])
    <2>1. work' \ Image(n - 1) = f[n - 1] \cup f[n]
      BY <1>4, <1>13, <1>14, <1>16
    <2>2. OpenFrames' = [i \in 1..(n - 1) |-> IF i = n - 1 THEN f[n - 1] \cup f[n] ELSE f[i]]
      BY <1>7, <1>11, <1>12, <2>1
    <2> HIDE DEF f, n
    <2>3. SubSeq(f, 1, n - 2) = [i \in 1..(n - 2) |-> f[i]]
      BY <1>3, <1>6
    <2>4. SubSeq(f, 1, n - 2) \in Seq(SUBSET Effect) /\ Len(SubSeq(f, 1, n - 2)) = n - 2
      BY <1>3, <1>6
    <2> DEFINE g == f[n - 1] \cup f[n]
               h == SubSeq(f, 1, n - 2)
    <2> HIDE DEF g, h
    <2>5. Append(h, g) = [i \in 1..(n - 1) |-> IF i = n - 1 THEN g ELSE h[i]]
      BY <1>3, <2>4 DEF h
    <2>6. \A i \in 1..(n - 1) : i # n - 1 => h[i] = f[i]
      BY <1>3, <2>3 DEF h
    <2>7. OpenFrames' = Append(h, g)
      BY <2>2, <2>5, <2>6 DEF g
    <2> QED BY <2>7 DEF g, h
  <1>17. ASSUME NestedErr(t) PROVE OpenFrames' = SubSeq(f, 1, n - 1)
    <2>1. work' \ Image(n - 1) = f[n - 1]
      BY <1>4, <1>5, <1>13, <1>17
    <2>2. OpenFrames' = [i \in 1..(n - 1) |-> f[i]]
      BY <1>7, <1>11, <1>12, <2>1
    <2> QED BY <1>15, <2>2
  <1> QED BY <1>3, <1>6, <1>8, <1>9, <1>16, <1>17

\* RELEASE joins the innermost frame to the one around it.
LEMMA NestedKeeps ==
    ASSUME TxInv, TxInv', NEW t \in Thread, NestedOk(t)
    PROVE  Store!Keep(t)
  <1>1. db' = db
    <2>1. ControlTypeOK /\ SqlTypeOK /\ StackInv /\ InClosure(t) /\ names[t] # <<>>
      BY TypeSplit DEF TxInv, IInv, NestedOk, EndSavepoint
    <2> QED BY <2>1, NestedEnds DEF NestedOk
  <1>2. result' = [result EXCEPT ![t] = "ok"]
    BY DEF NestedOk, EndSavepoint
  <1> DEFINE f == OpenFrames
             n == Len(f)
  <1>3. /\ n \in Nat /\ n > 1 /\ Frames[t] = f
        /\ Frames' = [Frames EXCEPT ![t] = Append(SubSeq(f, 1, n - 2), f[n - 1] \cup f[n])]
    BY NestedFrames
  <1>4. DOMAIN Frames = Thread
    BY DEF Frames
  <1> HIDE DEF f
  <1>5. LET m == Len(Frames[t]) IN
        /\ m > 1
        /\ Frames' = [Frames EXCEPT ![t] = Append(SubSeq(@, 1, m - 2), @[m - 1] \cup @[m])]
    BY <1>3, <1>4
  <1> QED BY <1>1, <1>2, <1>5 DEF Store!Keep, Store!Report, Store!Innermost, Frames

\* ROLLBACK TO drops the innermost frame and no other.
LEMMA NestedDrops ==
    ASSUME TxInv, TxInv', NEW t \in Thread, NestedErr(t)
    PROVE  Store!Drop(t)
  <1>1. db' = db
    <2>1. ControlTypeOK /\ SqlTypeOK /\ StackInv /\ InClosure(t) /\ names[t] # <<>>
      BY TypeSplit DEF TxInv, IInv, NestedErr, EndSavepoint
    <2> QED BY <2>1, NestedEnds DEF NestedErr
  <1>2. result' = [result EXCEPT ![t] = "error"] /\ "error" \in Result \ {"none", "ok"}
    BY DEF NestedErr, EndSavepoint, Result
  <1> DEFINE f == OpenFrames
             n == Len(f)
  <1>3. /\ n \in Nat /\ n > 1 /\ Frames[t] = f
        /\ Frames' = [Frames EXCEPT ![t] = SubSeq(f, 1, n - 1)]
    BY NestedFrames
  <1>4. Frames' = [Frames EXCEPT ![t] = SubSeq(@, 1, Len(Frames[t]) - 1)] /\ Len(Frames[t]) > 1
    <2>1. DOMAIN Frames = Thread
      BY DEF Frames
    <2> HIDE DEF f
    <2> QED BY <1>3, <2>1
  <1> QED BY <1>1, <1>2, <1>4 DEF Store!Drop, Store!Report, Store!Failure, Store!Innermost, Frames

\* The outermost closure ends: its one frame is committed or dropped.
LEMMA ClosureEnds ==
    ASSUME TxInv, TxInv', NEW t \in Thread, NEW r \in Result, EndClosure(t, r),
           SqlCommit \/ SqlRollback
    PROVE  /\ Len(Frames[t]) = 1 /\ Frames' = [Frames EXCEPT ![t] = <<>>]
           /\ SqlCommit => db' = db \cup Frames[t][1]
           /\ SqlRollback => db' = db
           /\ result' = [result EXCEPT ![t] = r]
  <1> DEFINE s == saves
  <1>0. LockInv /\ ControlTypeOK /\ SqlTypeOK /\ StackInv /\ SqlInv /\ ImageInv
    BY TypeSplit DEF TxInv, IInv
  <1>1. InClosure(t) /\ ~InClosure(t)' /\ names[t] = <<>>
    BY <1>0 DEF EndClosure, Finish, Goto, InClosure, ControlTypeOK
  <1>2. \A u \in Thread \ {t} : ~InClosure(u) /\ ~InClosure(u)'
    BY <1>0, <1>1, OneClosure DEF EndClosure, Finish, Goto, InClosure, ControlTypeOK
  <1>3. Len(saves) = 1 /\ saves # <<>>
    <2>1. Len(names[t]) = 0 /\ OpenInv(t)
      BY <1>0, <1>1 DEF StackInv
    <2> QED BY <1>0, <1>1, <2>1 DEF OpenInv, SqlTypeOK
  <1>4. Image(1) = db /\ Image(2) = work /\ db \subseteq work
    <2>1. Image(1) = db /\ Image(2) = work
      BY <1>0, <1>3 DEF SqlInv, Image
    <2>2. Image(1) \subseteq Image(1 + 1)
      BY <1>3, <1>0 DEF ImageInv
    <2> QED BY <2>1, <2>2
  <1>5. Len(OpenFrames) = 1 /\ OpenFrames[1] = work \ db
    BY <1>0, <1>3, <1>4, OpenFramesAre
  <1>6. Frames[t] = OpenFrames /\ Frames'[t] = <<>>
    BY <1>1, FramesAre, FramesAfter DEF FramesInv
  <1>7. Frames' = [Frames EXCEPT ![t] = <<>>]
    BY <1>2, <1>6, OneFrames
  <1>8. SqlCommit => db' = db \cup Frames[t][1]
    BY <1>4, <1>5, <1>6 DEF SqlCommit
  <1> QED BY <1>5, <1>6, <1>7, <1>8 DEF SqlRollback, EndClosure, Finish

\* Every step is a step of the serial store, or none.
LEMMA StepStore ==
    ASSUME TxInv, TxInv', ~AutoRollback, NEW t \in Thread, Step(t)
    PROVE  Store!StoreNext \/ (UNCHANGED <<db, result>> /\ Frames' = Frames)
  <1>0. LockInv /\ ControlTypeOK /\ IInv /\ StackInv
    BY TypeSplit DEF TxInv, IInv
  <1>e. \A r \in {"none", "ok", "error", "failed", "panic"} : r \in Result
    BY DEF Result
  <1>1. ASSUME Moves PROVE UNCHANGED <<db, result>> /\ Frames' = Frames
    BY <1>1, SameFrames DEF Moves, sqlite
  <1>2. ASSUME BeginSavepointFails(t) PROVE UNCHANGED <<db, result>> /\ Frames' = Frames
    <2>1. /\ UNCHANGED <<saves, work, db, result>>
          /\ \A u \in Thread : InClosure(u)' <=> InClosure(u)
      BY <1>2 DEF BeginSavepointFails, sqlite, history, InClosure
    <2> QED BY <2>1, SameFrames
  <1>3. ASSUME StartCall(t) \/ RunRead(t) \/ RunFails(t) \/ BeginFails(t) PROVE Store!Answer(t)
    <2>1. /\ UNCHANGED <<saves, work, db>>
          /\ \E r \in {"none", "ok", "error", "failed"} : result' = [result EXCEPT ![t] = r]
      BY <1>3 DEF StartCall, WithRead, WithWrite, OuterTransaction, WithExclusiveWrite, Start,
                  RunRead, RunFails, BeginFails, Finish, sqlite
    <2>2. ~InClosure(t) /\ \A u \in Thread : InClosure(u)' <=> InClosure(u)
      BY <1>0, <1>3 DEF StartCall, WithRead, WithWrite, OuterTransaction, WithExclusiveWrite, Start,
                  RunRead, RunFails, BeginFails, Finish, Goto, InClosure, ControlTypeOK
    <2>3. Frames[t] = <<>> /\ Frames' = Frames
      BY <2>1, <2>2, SameFrames, FramesAre DEF FramesInv
    <2> QED BY <1>e, <2>1, <2>3, StoreAnswer
  <1>4. ASSUME ClosureOk(t) PROVE Store!Commit(t)
    BY <1>e, <1>4, ClosureEnds, StoreCommit DEF ClosureOk
  <1>5. ASSUME CommitFails(t) \/ ClosureErr(t) \/ ClosurePanic(t) PROVE Store!Abort(t)
    <2>1. PICK r \in Result \ {"none", "ok"} : EndClosure(t, r) /\ SqlRollback
      BY <1>e, <1>5 DEF CommitFails, ClosureErr, ClosurePanic
    <2> QED BY <2>1, ClosureEnds, StoreAbort
  <1>6. ASSUME Store!Answer(t) \/ Store!Open(t) \/ Store!Nest(t) \/ Store!Keep(t) \/ Store!Drop(t)
               \/ Store!Commit(t) \/ Store!Abort(t)
        PROVE  Store!StoreNext
    BY <1>6 DEF Store!StoreNext
  <1>7. ASSUME RunWrite(t) \/ TxWrite(t) PROVE Store!StoreNext
    <2>1. <<t, written[t] + 1>> \in Effect
      <3>1. written[t] \in 0..MaxWrites /\ MaxWrites \in Nat
        BY <1>0, ConnectionAssumption DEF ControlTypeOK
      <3>2. written[t] < MaxWrites
        BY <1>7 DEF RunWrite, TxWrite
      <3>3. written[t] + 1 \in 1..MaxWrites
        BY <3>1, <3>2
      <3> QED BY <3>3 DEF Effect
    <2>2. PICK e \in Effect : e = <<t, written[t] + 1>>
      BY <2>1
    <2>3. Store!AutoCommit(t, e) \/ Store!Write(t, e)
      BY <1>7, <2>2, WriteCommits, WriteWrites
    <2> QED BY <2>3 DEF Store!StoreNext
  <1> QED
    BY <1>0, <1>1, <1>2, <1>3, <1>4, <1>5, <1>6, <1>7, Cases, BeginOpens, SavepointNests, NestedKeeps,
       NestedDrops

\* The committed database changes only by one write outside a transaction or by
\* a whole transaction that reports success, a nested transaction that fails
\* takes back its own writes and no others, and a failing call changes nothing:
\* the connection manager implements the serial store.
THEOREM ImplementsSerialStore ==
    ASSUME ~AutoRollback
    PROVE  Spec => ImplementsStore
  <1>1. Init => Store!StoreInit
    BY DEF Init, Store!StoreInit, OpenFrames
  <1>2. TxInv /\ TxInv' /\ [Next]_vars => [Store!StoreNext]_(Store!storeVars)
    <2> SUFFICES ASSUME TxInv, TxInv', [Next]_vars
                 PROVE  [Store!StoreNext]_(Store!storeVars)
      OBVIOUS
    <2>1. CASE UNCHANGED vars
      BY <2>1 DEF vars, locks, sqlite, history, Store!storeVars, OpenFrames, Image
    <2>2. ASSUME NEW t \in Thread, Step(t) PROVE [Store!StoreNext]_(Store!storeVars)
      BY <2>2, StepStore DEF Frames, Store!storeVars
    <2> QED BY <2>1, <2>2 DEF Next, Step, Terminating
  <1> QED BY <1>1, <1>2, SpecTxInv, PTL DEF Spec, ImplementsStore, Store!StoreSpec
=============================================================================
