--------------------------- MODULE BelongsToCache ---------------------------
(***************************************************************************)
(* The parent cache of a BelongsTo field, src/src/model/association/       *)
(* belongs_to.rs, beside the child caches of HasManyCache and over the same *)
(* database and transactions: load looks at the cache, finds the parent by *)
(* its key without the cache's mutex, and stores it under the mutex again. *)
(* All threads refer to one field, of a record they share.                 *)
(*                                                                         *)
(* The parent is one row; what it holds is the number of the save that     *)
(* wrote it, Gone when it is deleted.                                      *)
(***************************************************************************)
EXTENDS HasManyCache

CONSTANT MaxVersions    \* bound: saves of the parent

ASSUME BelongsToAssumption == MaxVersions \in Nat \ {0}

VARIABLES
    uses,       \* bound: uses[t] is the association thread t works with
    parent,     \* the committed parent row
    edited,     \* the parent row the open transaction sees
    newest,     \* the last version saved
    kept,       \* BelongsTo::cached
    asking,     \* asking[t]: where t is in BelongsTo::load
    found,      \* found[t]: what it has found
    held,       \* held[t]: the parent its last load returned
    current     \* what a load that began after the last clear could find

parentRow == <<parent, edited, newest>>
parentVars == <<parentRow, kept, asking, found, held, current>>
allVars == <<vars, parentVars, uses>>

Gone == 0
Version == 1..MaxVersions

AssociationsTypeOK ==
    /\ TypeOK
    /\ uses \in [Thread -> {"children", "parent"}]
    /\ parent \in Version \cup {Gone} /\ edited \in Version \cup {Gone}
    /\ newest \in Version
    /\ kept = NotLoaded \/ kept \in Version
    /\ asking \in [Thread -> {"idle", "find", "keep"}]
    /\ \A t \in Thread :
        /\ held[t] = NotLoaded \/ held[t] \in Version
        /\ IF asking[t] = "keep" THEN found[t] \in Version ELSE found[t] = NotLoaded
        /\ asking[t] # "idle" => stage[t] = "idle"
    /\ owner = NoThread => edited = parent

ParentInit ==
    /\ parent = 1 /\ edited = 1 /\ newest = 1
    /\ kept = NotLoaded
    /\ asking = [t \in Thread |-> "idle"]
    /\ found = [t \in Thread |-> NotLoaded]
    /\ held = [t \in Thread |-> NotLoaded]
    /\ current = {1}

(***************************************************************************)
(* The parent's row.                                                       *)
(***************************************************************************)
Quiet(t) == stage[t] = "idle" /\ asking[t] = "idle"
ParentView(t) == IF owner = t THEN edited ELSE parent

StoreParent(t, version) ==
    /\ edited' = version
    /\ parent' = IF owner = t THEN parent ELSE version
    /\ current' = current \cup {version}
    /\ UNCHANGED <<vars, kept, asking, found, held>>

SaveParent(t) ==
    /\ Quiet(t) /\ CanWrite(t) /\ ParentView(t) # Gone /\ newest < MaxVersions
    /\ newest' = newest + 1
    /\ StoreParent(t, newest')

DeleteParent(t) ==
    /\ Quiet(t) /\ CanWrite(t) /\ ParentView(t) # Gone
    /\ StoreParent(t, Gone)
    /\ UNCHANGED newest

TransactBoth(t) ==
    /\ asking[t] = "idle"
    /\ \/ Begin(t) /\ UNCHANGED parentRow
       \/ Commit(t) /\ parent' = edited /\ UNCHANGED <<edited, newest>>
       \/ Rollback(t) /\ edited' = parent /\ UNCHANGED <<parent, newest>>
    /\ UNCHANGED <<kept, asking, found, held, current>>

(***************************************************************************)
(* BelongsTo::load and clear_cache                                         *)
(***************************************************************************)
ParentHit(t) ==
    /\ Quiet(t) /\ kept # NotLoaded
    /\ held' = [held EXCEPT ![t] = kept]
    /\ UNCHANGED <<vars, parentRow, kept, asking, found, current>>

ParentMiss(t) ==
    /\ Quiet(t) /\ kept = NotLoaded
    /\ asking' = [asking EXCEPT ![t] = "find"]
    /\ UNCHANGED <<vars, parentRow, kept, found, held, current>>

\* Mutant: a parent that is not there is kept as found.
FindParent_Missing(t) ==
    /\ asking[t] = "find"
    /\ found' = [found EXCEPT ![t] = ParentView(t)]
    /\ asking' = [asking EXCEPT ![t] = "keep"]
    /\ UNCHANGED <<vars, parentRow, kept, held, current>>

FindParent(t) ==
    /\ asking[t] = "find" /\ ParentView(t) # Gone
    /\ found' = [found EXCEPT ![t] = ParentView(t)]
    /\ asking' = [asking EXCEPT ![t] = "keep"]
    /\ UNCHANGED <<vars, parentRow, kept, held, current>>

\* No such row, or the query fails: load returns the error and keeps nothing.
FindParentFails(t) ==
    /\ asking[t] = "find"
    /\ asking' = [asking EXCEPT ![t] = "idle"]
    /\ UNCHANGED <<vars, parentRow, kept, found, held, current>>

KeepParent(t) ==
    /\ asking[t] = "keep"
    /\ kept' = found[t]
    /\ held' = [held EXCEPT ![t] = found[t]]
    /\ found' = [found EXCEPT ![t] = NotLoaded]
    /\ asking' = [asking EXCEPT ![t] = "idle"]
    /\ UNCHANGED <<vars, parentRow, current>>

\* A load that has found its parent already stores it after the clear.
InFlight == {found[t] : t \in {u \in Thread : asking[u] = "keep"}}

\* Mutant: the cached parent is looked at and stays.
ClearParent_Keeps(t) ==
    /\ Quiet(t)
    /\ current' = ({parent, edited} \cup InFlight) \ {Gone}
    /\ UNCHANGED <<vars, parentRow, kept, asking, found, held>>

ClearParent(t) ==
    /\ Quiet(t)
    /\ kept' = NotLoaded
    /\ current' = ({parent, edited} \cup InFlight) \ {Gone}
    /\ UNCHANGED <<vars, parentRow, asking, found, held>>

(***************************************************************************)
(* The record's field is assigned, which needs the record to oneself: a    *)
(* parent record comes with its cache filled, a key, a borrowed record, a  *)
(* clone or a row just read come without.                                  *)
(***************************************************************************)
Alone(t) == \A u \in Thread : Quiet(u)

AssignParent(t) ==
    /\ Alone(t) /\ held[t] # NotLoaded
    /\ kept' = held[t] /\ current' = {held[t]}
    /\ UNCHANGED <<vars, parentRow, asking, found, held>>

AssignKey(t) ==
    /\ Alone(t)
    /\ kept' = NotLoaded /\ current' = {parent, edited} \ {Gone}
    /\ UNCHANGED <<vars, parentRow, asking, found, held>>

ParentCall(t) ==
    \/ SaveParent(t) \/ DeleteParent(t)
    \/ ParentHit(t) \/ ParentMiss(t) \/ FindParent(t) \/ FindParentFails(t) \/ KeepParent(t)
    \/ ClearParent(t) \/ AssignParent(t) \/ AssignKey(t)

AssociationsInit == Init /\ ParentInit /\ uses \in [Thread -> {"children", "parent"}]
AssociationsNext ==
    /\ \E t \in Thread :
        \/ TransactBoth(t)
        \/ uses[t] = "children" /\ Call(t) /\ UNCHANGED parentVars
        \/ uses[t] = "parent" /\ ParentCall(t)
    /\ UNCHANGED uses
AssociationsSpec == AssociationsInit /\ [][AssociationsNext]_allVars

-----------------------------------------------------------------------------
(***************************************************************************)
(* Properties.                                                             *)
(***************************************************************************)
\* After clear_cache (src/src/model/association/belongs_to.rs:73) the field
\* never again shows a parent the database had stopped showing by then, save one
\* that a load of another holder had found before the clear and stored after it.
ClearedParentIsReread == kept # NotLoaded => kept \in current
=============================================================================
