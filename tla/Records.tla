------------------------------ MODULE Records ------------------------------
(***************************************************************************)
(* Records of one model: the save, find, reload and delete of              *)
(* src/src/model/mod.rs, and the builder and params code that              *)
(* src/seekwel-macros/src/model/codegen.rs generates around them.  A       *)
(* thread holds one record value at a time; its typestate is state.        *)
(*                                                                         *)
(* The model has two columns, a name that its validator may refuse and a   *)
(* bool with a default; its primary key is generated by SQLite and read    *)
(* into an integer type that ends at MaxId.                                *)
(*                                                                         *)
(* Transactions are those of Connection.tla: one open at a time, writes of *)
(* other threads wait for its end, their reads see the committed rows.     *)
(***************************************************************************)
EXTENDS Integers, FiniteSetsExt, Functions

CONSTANTS
    Thread, NoThread,
    Name,
    Blank,          \* the name the validator refuses
    Unset,          \* a field the builder or the params were not given
    MaxId,          \* the greatest primary key the model's key type holds
    MaxInserts      \* bound: rows ever inserted

ASSUME RecordsAssumption ==
    /\ NoThread \notin Thread /\ Blank \in Name
    /\ Unset \notin Name \cup BOOLEAN
    /\ MaxId \in Nat \ {0} /\ MaxInserts \in Nat

VARIABLES
    db,         \* the committed rows, by primary key
    work,       \* the rows the open transaction sees
    owner,      \* the thread with an open transaction
    births,     \* rows inserted so far; row.birth numbers them
    record,     \* record[t]: the value t holds
    builder,    \* builder[t]: the builder of its create_or_update_by
    stage,      \* stage[t]: "upsert" between the query and the save of that call
    saved,      \* the thread whose save has just returned Ok
    fresh,      \* t read or saved its record in the transaction it has open
    touched     \* the columns t has assigned since

database == <<db, work, owner, births>>
history == <<fresh, touched>>
vars == <<database, record, builder, stage, saved, history>>

Column == {"name", "active"}
Given == [name : Name \cup {Unset}, active : BOOLEAN \cup {Unset}]
State == {"none", "new", "persisted", "invalid_new", "invalid_persisted"}
Held == [state : State, id : 0..MaxId, name : Name \cup {Unset}, active : BOOLEAN \cup {Unset}]
NoRecord == [state |-> "none", id |-> 0, name |-> Unset, active |-> Unset]
NoBuilder == [name |-> Unset, active |-> Unset]

Init ==
    /\ db = << >> /\ work = << >> /\ owner = NoThread /\ births = 0
    /\ record = [t \in Thread |-> NoRecord]
    /\ builder = [t \in Thread |-> NoBuilder]
    /\ stage = [t \in Thread |-> "idle"]
    /\ saved = NoThread
    /\ fresh = [t \in Thread |-> FALSE]
    /\ touched = [t \in Thread |-> {}]

(***************************************************************************)
(* The database.                                                           *)
(***************************************************************************)
CanWrite(t) == owner \in {NoThread, t}
\* Mutant: reads always go to a reader connection.
View_Committed(t) == db
View(t) == IF owner = t THEN work ELSE db

Store(rows) ==
    /\ work' = rows
    /\ db' = IF owner = NoThread THEN rows ELSE db
    /\ UNCHANGED owner

With(rows, id, row) ==
    [i \in DOMAIN rows \cup {id} |-> IF i = id THEN row ELSE rows[i]]

\* A generated key is one more than the greatest in the table: the table is
\* declared without AUTOINCREMENT.
NextId == IF work = << >> THEN 1 ELSE Max(DOMAIN work) + 1

Begin(t) ==
    /\ stage[t] = "idle" /\ owner = NoThread
    /\ owner' = t /\ saved' = NoThread
    /\ UNCHANGED <<db, work, births, record, builder, stage, history>>

\* What t holds need not be what the database holds.
Leave(t) ==
    /\ fresh' = [fresh EXCEPT ![t] = FALSE]
    /\ touched' = [touched EXCEPT ![t] = {}]

Over(t) ==
    /\ stage[t] = "idle" /\ owner = t
    /\ owner' = NoThread /\ saved' = NoThread
    /\ Leave(t)
    /\ UNCHANGED <<births, record, builder, stage>>

Commit(t) == Over(t) /\ db' = work /\ UNCHANGED work
Rollback(t) == Over(t) /\ work' = db /\ UNCHANGED db

(***************************************************************************)
(* The ends of calls.                                                      *)
(***************************************************************************)
Ends(t, ok, held) ==
    /\ saved' = IF ok THEN t ELSE NoThread
    /\ record' = [record EXCEPT ![t] = held]
    /\ builder' = [builder EXCEPT ![t] = NoBuilder]
    /\ stage' = [stage EXCEPT ![t] = "idle"]

\* The record is what the database holds, as far as t can see.
InStep(t) ==
    /\ fresh' = [fresh EXCEPT ![t] = owner = t]
    /\ touched' = [touched EXCEPT ![t] = {}]

Touch(t, columns) ==
    touched' = [touched EXCEPT ![t] = IF fresh[t] THEN @ \cup columns ELSE {}]

FromRow(rows, id) ==
    [state |-> "persisted", id |-> id, name |-> rows[id].name, active |-> rows[id].active]

Valid(fields) == fields.name # Blank

(***************************************************************************)
(* Building and assigning.                                                 *)
(***************************************************************************)
\* The default of the bool column.
Filled(given) == IF given.active = Unset THEN TRUE ELSE given.active

NewRecord(given) ==
    [state |-> "new", id |-> 0, name |-> given.name, active |-> Filled(given)]

\* build() of the builder, new() from params: a missing name is an error.
Build(t) ==
    /\ stage[t] = "idle"
    /\ \E given \in Given : given.name # Unset /\ Ends(t, FALSE, NewRecord(given))
    /\ Leave(t)
    /\ UNCHANGED database

Assigned(held, given) ==
    [held EXCEPT !.name = IF given.name = Unset THEN @ ELSE given.name,
                 !.active = IF given.active = Unset THEN @ ELSE given.active]
ColumnsOf(given) == {c \in Column : given[c] # Unset}

\* One field of the record is assigned.
Assign(t) ==
    /\ stage[t] = "idle" /\ record[t].state \in {"new", "persisted"}
    /\ \E given \in {g \in Given : Cardinality(ColumnsOf(g)) = 1} :
        /\ Ends(t, FALSE, Assigned(record[t], given))
        /\ Touch(t, ColumnsOf(given))
    /\ UNCHANGED <<database, fresh>>

(***************************************************************************)
(* NewModel::save: the record is consumed.                                 *)
(***************************************************************************)
\* Mutant: the generated key is not checked against the key's type.
Insert_AnyKey(t, new) ==
    /\ CanWrite(t) /\ births < MaxInserts
    /\ births' = births + 1
    /\ Store(With(work, NextId, [name |-> new.name, active |-> new.active, birth |-> births']))
    /\ Ends(t, TRUE, [new EXCEPT !.state = "persisted", !.id = NextId])
    /\ InStep(t)

Insert(t, new) ==
    /\ CanWrite(t) /\ births < MaxInserts
    /\ births' = births + 1
    /\ Store(With(work, NextId, [name |-> new.name, active |-> new.active, birth |-> births']))
    \* into_persisted may still refuse the key: the row stays.
    /\ IF NextId > MaxId THEN Ends(t, FALSE, NoRecord)
       ELSE Ends(t, TRUE, [new EXCEPT !.state = "persisted", !.id = NextId])
    /\ InStep(t)

Create(t, new) ==
    \/ /\ ~Valid(new)
       /\ Ends(t, FALSE, [new EXCEPT !.state = "invalid_new"])
       /\ UNCHANGED <<database, history>>
    \/ Valid(new) /\ Insert(t, new)

SaveNew(t) ==
    /\ stage[t] = "idle" /\ record[t].state = "new"
    /\ Create(t, record[t])

(***************************************************************************)
(* PersistedModel::save writes every column; held is what the caller still *)
(* holds when it returns an error.                                         *)
(***************************************************************************)
\* Mutant: the number of changed rows is not looked at.
Write_Unchecked(t, r, held, columns) ==
    /\ CanWrite(t)
    /\ Store([id \in DOMAIN work |->
                IF id = r.id THEN [name |-> r.name, active |-> r.active, birth |-> work[id].birth]
                ELSE work[id]])
    /\ Ends(t, TRUE, r)
    /\ fresh' = [fresh EXCEPT ![t] = owner = t]
    /\ Touch(t, columns)
    /\ UNCHANGED births

\* Mutant: a row that is not there is inserted.
Write_Replaces(t, r, held, columns) ==
    /\ CanWrite(t)
    /\ Store(With(work, r.id, [name |-> r.name, active |-> r.active,
                    birth |-> IF r.id \in DOMAIN work THEN work[r.id].birth ELSE births]))
    /\ Ends(t, TRUE, r)
    /\ fresh' = [fresh EXCEPT ![t] = owner = t]
    /\ Touch(t, columns)
    /\ UNCHANGED births

Write(t, r, held, columns) ==
    /\ CanWrite(t)
    /\ \/ /\ r.id \in DOMAIN work
          /\ Store([work EXCEPT ![r.id].name = r.name, ![r.id].active = r.active])
          /\ Ends(t, TRUE, r)
          /\ fresh' = [fresh EXCEPT ![t] = owner = t]
       \/ /\ r.id \notin DOMAIN work
          /\ Ends(t, FALSE, held)
          /\ UNCHANGED <<db, work, owner, fresh>>
    /\ Touch(t, columns)
    /\ UNCHANGED births

\* Mutant: an existing record is written without validation.
Update_Unvalidated(t, r, held, columns) == Write(t, r, held, columns)

Update(t, r, held, columns) ==
    \/ /\ ~Valid(r)
       /\ Ends(t, FALSE, held)
       /\ Touch(t, columns)
       /\ UNCHANGED <<database, fresh>>
    \/ Valid(r) /\ Write(t, r, held, columns)

Save(t) ==
    /\ stage[t] = "idle" /\ record[t].state = "persisted"
    /\ Update(t, record[t], record[t], {})

\* What apply_params assigns: the given columns that are allowed; an allowed
\* bool that was not given is assigned false.
Applicable ==
    {[name |-> IF "name" \in allowed THEN given.name ELSE Unset,
      active |-> IF "active" \notin allowed THEN Unset
                 ELSE IF given.active = Unset THEN FALSE ELSE given.active] :
     allowed \in SUBSET Column, given \in Given}

\* update(): the record keeps what was applied when its save fails.
UpdateFromParams(t) ==
    /\ stage[t] = "idle" /\ record[t].state = "persisted"
    /\ \E applied \in Applicable :
        LET r == Assigned(record[t], applied) IN Update(t, r, r, ColumnsOf(applied))

(***************************************************************************)
(* find, reload and delete.                                                *)
(***************************************************************************)
Readable(t) == {id \in DOMAIN View(t) : id <= MaxId}

Find(t) ==
    /\ stage[t] = "idle"
    /\ \E id \in Readable(t) : Ends(t, FALSE, FromRow(View(t), id))
    /\ InStep(t)
    /\ UNCHANGED database

Reload(t) ==
    /\ stage[t] = "idle" /\ record[t].state = "persisted"
    /\ \/ /\ record[t].id \in DOMAIN View(t)
          /\ Ends(t, FALSE, FromRow(View(t), record[t].id))
          /\ InStep(t)
       \/ /\ record[t].id \notin DOMAIN View(t)
          /\ Ends(t, FALSE, record[t])
          /\ UNCHANGED history
    /\ UNCHANGED database

\* delete consumes the record, whether there was a row or not.
Delete(t) ==
    /\ stage[t] = "idle" /\ record[t].state = "persisted" /\ CanWrite(t)
    /\ Store([id \in DOMAIN work \ {record[t].id} |-> work[id]])
    /\ Ends(t, FALSE, NoRecord)
    /\ UNCHANGED <<births, history>>

(***************************************************************************)
(* create_or_update_by([Name]): a query, then a save.                      *)
(***************************************************************************)
Matches(rows, name) == {id \in DOMAIN rows : rows[id].name = name}

UpsertFind(t) ==
    /\ stage[t] = "idle"
    /\ \E given \in Given :
        /\ given.name # Unset
        /\ builder' = [builder EXCEPT ![t] = given]
        /\ \/ \E id \in Matches(View(t), given.name) \cap Readable(t) :
                record' = [record EXCEPT ![t] = FromRow(View(t), id)]
           \/ /\ Matches(View(t), given.name) = {}
              /\ record' = [record EXCEPT ![t] = NoRecord]
    /\ stage' = [stage EXCEPT ![t] = "upsert"]
    /\ saved' = NoThread
    /\ InStep(t)
    /\ UNCHANGED database

\* Mutant: a field the builder was not given is written with its default.
UpsertSave_WritesDefaults(t) ==
    /\ stage[t] = "upsert"
    /\ LET given == builder[t]
           found == record[t]
           r == [Assigned(found, given) EXCEPT !.active = Filled(given)]
       IN  IF found.state = "none" THEN Create(t, NewRecord(given))
           ELSE Update(t, r, [r EXCEPT !.state = "invalid_persisted"], ColumnsOf(given))

UpsertSave(t) ==
    /\ stage[t] = "upsert"
    /\ LET given == builder[t]
           found == record[t]
           r == Assigned(found, given)
       IN  IF found.state = "none" THEN Create(t, NewRecord(given))
           ELSE Update(t, r, IF Valid(r) THEN NoRecord ELSE [r EXCEPT !.state = "invalid_persisted"],
                       ColumnsOf(given))

\* Any statement may fail; a record that was to be consumed is gone.
StatementFails(t) ==
    /\ Ends(t, FALSE,
            IF stage[t] = "upsert" \/ record[t].state = "new" THEN NoRecord ELSE record[t])
    /\ UNCHANGED <<database, history>>

Next == \E t \in Thread :
    \/ Begin(t) \/ Commit(t) \/ Rollback(t)
    \/ Build(t) \/ Assign(t) \/ SaveNew(t) \/ Save(t) \/ UpdateFromParams(t)
    \/ Find(t) \/ Reload(t) \/ Delete(t)
    \/ UpsertFind(t) \/ UpsertSave(t) \/ StatementFails(t)

Spec == Init /\ [][Next]_vars

-----------------------------------------------------------------------------
(***************************************************************************)
(* Properties.                                                             *)
(***************************************************************************)
\* A record in the state persisted has a key of its type; outside a transaction
\* there is nothing uncommitted.
TypeOK ==
    /\ \A rows \in {db, work} :
        /\ DOMAIN rows \subseteq 1..(MaxInserts + 1)
        /\ \A id \in DOMAIN rows : rows[id].name \in Name /\ rows[id].birth \in 1..births
        /\ IsInjective([id \in DOMAIN rows |-> rows[id].birth])
    /\ owner \in Thread \cup {NoThread}
    /\ owner = NoThread => work = db
    /\ record \in [Thread -> Held] /\ builder \in [Thread -> Given]
    /\ \A t \in Thread :
        /\ record[t].state \in {"persisted", "invalid_persisted"} <=> record[t].id # 0
        /\ record[t].state # "none" => record[t].name # Unset /\ record[t].active # Unset
    /\ stage \in [Thread -> {"idle", "upsert"}]
    /\ saved \in Thread \cup {NoThread}
    /\ touched \in [Thread -> SUBSET Column] /\ fresh \in [Thread -> BOOLEAN]

\* "Failed saves return SaveError::Invalid(model)" (src/README.md:154): on no path, by the
\* builder, params, create_or_update_by or a plain save, does a row that the
\* validator refuses get into the table.
RowsAreValid == \A rows \in {db, work} : \A id \in DOMAIN rows : Valid(rows[id])

\* A save, update or create_or_update_by that returns Ok has left exactly the
\* record it returns in the table, whoever deleted or changed the row before.
SavedIsStored ==
    [][\A t \in Thread : saved' = t =>
        LET r == record'[t]
        IN  /\ r.id \in DOMAIN work'
            /\ work'[r.id].name = r.name /\ work'[r.id].active = r.active]_vars

Births(rows) == {rows[id].birth : id \in DOMAIN rows}

\* A deleted or rolled back record does not come back through a value that
\* somebody still holds: every row was there before, or is the one just inserted.
NoResurrection ==
    [][Births(work') \subseteq Births(work) \cup Births(db) \cup ((births + 1)..births')]_vars

\* A transaction that reads a record, assigns some columns and saves it changes
\* those columns only, whatever others committed between an earlier read and the
\* transaction: saves write every column, so this rests on reads inside a
\* transaction seeing it.  The same for create_or_update_by and params.
TransactionsLoseNoUpdate ==
    [][\A t \in Thread :
        LET id == record[t].id IN
        (owner = t /\ owner' = t /\ fresh[t] /\ id \in DOMAIN work \cap DOMAIN work') =>
            \A c \in Column \ touched'[t] : work'[id][c] = work[id][c]]_vars

\* In a transaction create_or_update_by creates a record only if there is none
\* with the columns looked up, and updates one otherwise.
UpsertCreatesOnlyTheMissing ==
    [][\A t \in Thread :
        (stage[t] = "upsert" /\ owner = t /\ saved' = t) =>
            (DOMAIN work' = DOMAIN work <=> Matches(work, builder[t].name) # {})]_vars
=============================================================================
