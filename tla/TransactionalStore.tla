------------------------- MODULE TransactionalStore -------------------------
(***************************************************************************)
(* What src/src/connection.rs promises of Connection::transaction and of   *)
(* the write calls outside it, without locks, connections or savepoints:   *)
(* one thread at a time has an open transaction, its writes become visible *)
(* together when it commits and disappear together when it does not, and a *)
(* nested transaction that fails takes back its own writes and no others.  *)
(* What a call reports, outcome, is tied to what became of its writes.     *)
(***************************************************************************)
EXTENDS Integers, Sequences

CONSTANTS
    Thread,
    Effect,
    Outcome     \* "none" while a call runs, "ok", and the ways to fail

VARIABLES
    store,      \* the committed effects
    frames,     \* frames[t]: the effects of each closure t is inside, innermost last
    outcome     \* outcome[t]: how the last call of t ended

storeVars == <<store, frames, outcome>>

StoreTypeOK ==
    /\ store \subseteq Effect
    /\ frames \in [Thread -> Seq(SUBSET Effect)]
    /\ outcome \in [Thread -> Outcome]

StoreInit ==
    /\ store = {}
    /\ frames = [t \in Thread |-> <<>>]
    /\ outcome = [t \in Thread |-> "none"]

Report(t, r) == outcome' = [outcome EXCEPT ![t] = r]
Failure == Outcome \ {"none", "ok"}

Innermost(t) == Len(frames[t])
Quiet == \A t \in Thread : frames[t] = <<>>

\* A call starts, or one without writes of its own ends: nothing changes.
Answer(t) ==
    /\ frames[t] = <<>>
    /\ \E r \in Outcome : Report(t, r)
    /\ UNCHANGED <<store, frames>>

\* A write outside a transaction waits until none is open.
AutoCommit(t, e) ==
    /\ Quiet
    /\ store' = store \cup {e}
    /\ Report(t, "ok")
    /\ UNCHANGED frames

Open(t) ==
    /\ Quiet
    /\ frames' = [frames EXCEPT ![t] = <<{}>>]
    /\ UNCHANGED <<store, outcome>>

Write(t, e) ==
    /\ frames[t] # <<>>
    /\ frames' = [frames EXCEPT ![t][Innermost(t)] = @ \cup {e}]
    /\ UNCHANGED <<store, outcome>>

Nest(t) ==
    /\ frames[t] # <<>>
    /\ frames' = [frames EXCEPT ![t] = Append(@, {})]
    /\ UNCHANGED <<store, outcome>>

\* A nested closure succeeds: its effects join those of the enclosing one.
Keep(t) ==
    LET n == Innermost(t)
    IN  /\ n > 1
        /\ frames' = [frames EXCEPT ![t] =
                Append(SubSeq(@, 1, n - 2), @[n - 1] \cup @[n])]
        /\ Report(t, "ok")
        /\ UNCHANGED store

\* A nested closure fails: exactly its effects are dropped.
Drop(t) ==
    /\ Innermost(t) > 1
    /\ \E r \in Failure : Report(t, r)
    /\ frames' = [frames EXCEPT ![t] = SubSeq(@, 1, Innermost(t) - 1)]
    /\ UNCHANGED store

Commit(t) ==
    /\ Innermost(t) = 1
    /\ store' = store \cup frames[t][1]
    /\ Report(t, "ok")
    /\ frames' = [frames EXCEPT ![t] = <<>>]

Abort(t) ==
    /\ Innermost(t) = 1
    /\ \E r \in Failure : Report(t, r)
    /\ frames' = [frames EXCEPT ![t] = <<>>]
    /\ UNCHANGED store

StoreNext ==
    \E t \in Thread :
        \/ Answer(t) \/ Open(t) \/ Nest(t) \/ Keep(t) \/ Drop(t) \/ Commit(t) \/ Abort(t)
        \/ \E e \in Effect : AutoCommit(t, e) \/ Write(t, e)

StoreSpec == StoreInit /\ [][StoreNext]_storeVars
=============================================================================
