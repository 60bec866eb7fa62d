--------------------------- MODULE RecordsProofs ---------------------------
(***************************************************************************)
(* Proofs about Records: what the table and the records in hand can be,    *)
(* that a save which returns Ok is stored, that a deleted row does not come *)
(* back, and that transactions lose no update.                             *)
(***************************************************************************)
EXTENDS Records, WellFoundedInduction, TLAPS

Row(n) == [name : Name \ {Blank}, active : BOOLEAN, birth : 1..n]

\* A table after n rows were inserted: no key is greater than n, and every row has
\* a birth of its own.
TableInv(rows, n) ==
    /\ DOMAIN rows \subseteq 1..n
    /\ rows \in [DOMAIN rows -> Row(n)]
    /\ \A i, j \in DOMAIN rows : rows[i].birth = rows[j].birth => i = j

DatabaseInv ==
    /\ births \in 0..MaxInserts
    /\ TableInv(db, births) /\ TableInv(work, births)
    /\ owner \in Thread \cup {NoThread}
    /\ owner = NoThread => work = db

\* The record of a thread has a key when it is persisted, and only then, and the
\* values of its columns when it is one at all.
Proper(r) ==
    /\ r \in Held
    /\ r.state \in {"persisted", "invalid_persisted"} <=> r.id # 0
    /\ r.state # "none" => r.name # Unset /\ r.active # Unset

HandInv ==
    /\ record \in [Thread -> Held] /\ builder \in [Thread -> Given]
    /\ stage \in [Thread -> {"idle", "upsert"}]
    /\ saved \in Thread \cup {NoThread}
    /\ touched \in [Thread -> SUBSET Column] /\ fresh \in [Thread -> BOOLEAN]
    /\ \A t \in Thread : Proper(record[t])
    /\ \A t \in Thread : stage[t] = "upsert" =>
            builder[t].name # Unset /\ record[t].state \in {"none", "persisted"}

\* In its transaction a thread that is in step with a row differs from it in the
\* columns it has assigned and in no other.
FreshOf(t) ==
    fresh[t] =>
        /\ owner = t
        /\ record[t].id \in DOMAIN work =>
            \A c \in Column \ touched[t] : work[record[t].id][c] = record[t][c]
FreshInv == \A t \in Thread : FreshOf(t)

\* Between the query and the save of create_or_update_by the table matches what
\* the query found, if both run in one transaction.
UpsertOf(t) ==
    (stage[t] = "upsert" /\ owner = t) =>
        IF record[t].state = "none" THEN Matches(work, builder[t].name) = {}
        ELSE record[t].id \in Matches(work, builder[t].name)
UpsertInv == \A t \in Thread : UpsertOf(t)

RecordsInv == DatabaseInv /\ HandInv /\ FreshInv /\ UpsertInv

-----------------------------------------------------------------------------
(***************************************************************************)
(* Tables.                                                                 *)
(***************************************************************************)
LEMMA Greatest ==
    ASSUME NEW n \in Nat, NEW S, S \subseteq 1..n, S # {}
    PROVE  Max(S) \in S /\ \A y \in S : Max(S) >= y
  <1> DEFINE T == {k \in Nat : \A y \in S : k >= y}
  <1>1. n \in T
    OBVIOUS
  <1>2. PICK k \in T : \A j \in T : ~(j < k)
    <2> DEFINE L == {p \in Nat \X Nat : p[1] < p[2]}
    <2>1. T \subseteq Nat /\ T # {}
      BY <1>1
    <2>2. IsWellFoundedOn(L, Nat)
      BY NatLessThanWellFounded DEF OpToRel
    <2> HIDE DEF T, L
    <2>3. PICK k \in T : \A j \in T : <<j, k>> \notin L
      BY <2>1, <2>2, WFMin
    <2>4. \A j \in T : j < k => <<j, k>> \in L
      BY <2>1 DEF L
    <2> QED BY <2>3, <2>4
  <1>3. k \in S
    <2> SUFFICES ASSUME k \notin S PROVE FALSE
      OBVIOUS
    <2>1. \A y \in S : y \in Nat /\ y > 0 /\ k >= y /\ y # k
      BY <1>2
    <2>a. PICK w \in S : TRUE
      OBVIOUS
    <2>b. k \in Nat
      BY <1>2
    <2>2. k \in Nat /\ k > 0
      BY <2>a, <2>b, <2>1
    <2>3. \A y \in S : k - 1 >= y
      BY <2>1, <2>2
    <2>4. k - 1 \in T
      BY <2>2, <2>3
    <2> QED BY <1>2, <2>2, <2>4
  <1>4. \E x \in S : \A y \in S : x >= y
    BY <1>2, <1>3
  <1> QED BY <1>4 DEF Max

\* The key SQLite generates is new.
LEMMA NextIdIsNew ==
    ASSUME DatabaseInv
    PROVE  NextId \in 1..(births + 1) /\ NextId \notin DOMAIN work
  <1>1. births \in Nat /\ DOMAIN work \subseteq 1..births /\ work \in [DOMAIN work -> Row(births)]
    BY RecordsAssumption DEF DatabaseInv, TableInv
  <1>2. CASE DOMAIN work = {}
    <2>1. work = << >>
      BY <1>1, <1>2
    <2> QED BY <1>1, <1>2, <2>1 DEF NextId
  <1>3. CASE DOMAIN work # {}
    <2>1. /\ Max(DOMAIN work) \in DOMAIN work
          /\ \A y \in DOMAIN work : Max(DOMAIN work) >= y
      BY <1>1, <1>3, Greatest
    <2>2. work # << >>
      BY <1>3
    <2>3. NextId = Max(DOMAIN work) + 1
      BY <2>2 DEF NextId
    <2> QED BY <1>1, <2>1, <2>3
  <1> QED BY <1>2, <1>3

LEMMA InsertedTable ==
    ASSUME NEW n \in Nat, NEW rows, TableInv(rows, n),
           NEW id \in 1..(n + 1), id \notin DOMAIN rows,
           NEW row \in Row(n + 1), row.birth = n + 1
    PROVE  TableInv(With(rows, id, row), n + 1)
  <1> DEFINE new == With(rows, id, row)
  <1>1. DOMAIN new = DOMAIN rows \cup {id}
    BY DEF With
  <1>2. new[id] = row /\ \A i \in DOMAIN rows : new[i] = rows[i]
    BY DEF With
  <1>3. \A i \in DOMAIN rows : rows[i] \in Row(n + 1) /\ rows[i].birth \in 1..n
    BY DEF TableInv, Row
  <1>4. new = [i \in DOMAIN new |-> new[i]]
    BY DEF With
  <1> HIDE DEF new
  <1>5. DOMAIN new \subseteq 1..(n + 1)
    BY <1>1 DEF TableInv
  <1>6. new \in [DOMAIN new -> Row(n + 1)]
    BY <1>1, <1>2, <1>3, <1>4
  <1>7. \A i, j \in DOMAIN new : new[i].birth = new[j].birth => i = j
    BY <1>1, <1>2, <1>3 DEF TableInv
  <1>8. TableInv(new, n + 1)
    BY <1>5, <1>6, <1>7 DEF TableInv
  <1> QED BY <1>8 DEF new

LEMMA OlderTable ==
    ASSUME NEW n \in Nat, NEW rows, TableInv(rows, n)
    PROVE  TableInv(rows, n + 1)
  BY DEF TableInv, Row

LEMMA WrittenTable ==
    ASSUME NEW n \in Nat, NEW rows, TableInv(rows, n), NEW id \in DOMAIN rows,
           NEW row \in Row(n), row.birth = rows[id].birth
    PROVE  TableInv([rows EXCEPT ![id] = row], n)
  <1> DEFINE new == [rows EXCEPT ![id] = row]
  <1>1. /\ DOMAIN new = DOMAIN rows /\ new[id] = row
        /\ \A i \in DOMAIN rows : i # id => new[i] = rows[i]
    OBVIOUS
  <1>2. new \in [DOMAIN new -> Row(n)]
    BY DEF TableInv
  <1> HIDE DEF new
  <1>3. TableInv(new, n)
    BY <1>1, <1>2 DEF TableInv
  <1> QED BY <1>3 DEF new

LEMMA ShrunkTable ==
    ASSUME NEW n \in Nat, NEW rows, TableInv(rows, n), NEW id
    PROVE  TableInv([i \in DOMAIN rows \ {id} |-> rows[i]], n)
  BY DEF TableInv

-----------------------------------------------------------------------------
(***************************************************************************)
(* Records in hand.                                                        *)
(***************************************************************************)
LEMMA AssignedFields ==
    ASSUME NEW held \in Held, NEW given \in Given
    PROVE  LET r == Assigned(held, given) IN
           /\ r \in Held /\ r.state = held.state /\ r.id = held.id
           /\ r.name = (IF given.name = Unset THEN held.name ELSE given.name)
           /\ r.active = (IF given.active = Unset THEN held.active ELSE given.active)
           /\ \A c \in Column \ ColumnsOf(given) : r[c] = held[c]
           /\ Proper(held) => Proper(r)
  BY DEF Assigned, Held, Given, Column, ColumnsOf, Proper

LEMMA NewFields ==
    ASSUME NEW given \in Given, given.name # Unset
    PROVE  LET r == NewRecord(given) IN
           /\ Proper(r) /\ r.state = "new" /\ r.id = 0 /\ r.name = given.name
           /\ r.name \in Name /\ r.active \in BOOLEAN
  <1>1. given.name \in Name /\ given.active \in BOOLEAN \cup {Unset}
    BY DEF Given
  <1>2. Filled(given) \in BOOLEAN
    BY <1>1 DEF Filled
  <1>3. 0 \in 0..MaxId /\ Filled(given) # Unset
    BY <1>2, RecordsAssumption
  <1>4. "new" \in State /\ "new" # "none" /\ "new" \notin {"persisted", "invalid_persisted"}
    BY DEF State
  <1> HIDE DEF State
  <1>5. NewRecord(given) \in Held
    BY <1>1, <1>2, <1>3, <1>4 DEF NewRecord, Held
  <1> QED BY <1>1, <1>2, <1>3, <1>4, <1>5 DEF NewRecord, Proper

LEMMA NoFields == Proper(NoRecord) /\ NoBuilder \in Given
  BY RecordsAssumption DEF NoRecord, NoBuilder, Proper, Held, Given, State

LEMMA StateChanges ==
    ASSUME NEW r, Proper(r), NEW state \in State,
           state \in {"persisted", "invalid_persisted"} <=> r.id # 0, state # "none",
           r.state # "none"
    PROVE  LET s == [r EXCEPT !.state = state] IN
           /\ Proper(s) /\ s.id = r.id /\ s.name = r.name /\ s.active = r.active
  BY DEF Proper, Held

LEMMA RowFields ==
    ASSUME NEW n \in Nat, NEW rows, TableInv(rows, n), NEW id \in DOMAIN rows, id <= MaxId
    PROVE  LET r == FromRow(rows, id) IN
           /\ Proper(r) /\ r.state = "persisted" /\ r.id = id
           /\ r.name = rows[id].name /\ r.active = rows[id].active
  <1>1. /\ id \in Nat /\ id # 0 /\ rows[id].name \in Name \ {Blank}
        /\ rows[id].active \in BOOLEAN
    BY DEF TableInv, Row
  <1> QED BY <1>1, RecordsAssumption DEF FromRow, Proper, Held, State

LEMMA AppliedIsGiven == Applicable \subseteq Given
  <1> SUFFICES ASSUME NEW a \in Applicable PROVE a \in Given
    OBVIOUS
  <1> DEFINE f(allowed, given) ==
            [name |-> IF "name" \in allowed THEN given.name ELSE Unset,
             active |-> IF "active" \notin allowed THEN Unset
                        ELSE IF given.active = Unset THEN FALSE ELSE given.active]
  <1>a. Applicable = {f(allowed, given) : allowed \in SUBSET Column, given \in Given}
    BY DEF Applicable
  <1> HIDE DEF f
  <1>1. PICK allowed \in SUBSET Column, given \in Given : a = f(allowed, given)
    BY <1>a
  <1>2. given.name \in Name \cup {Unset} /\ given.active \in BOOLEAN \cup {Unset}
    BY DEF Given
  <1>3. a.name \in Name \cup {Unset} /\ a.active \in BOOLEAN \cup {Unset}
    BY <1>1, <1>2 DEF f
  <1> QED BY <1>1, <1>3 DEF Given, f

-----------------------------------------------------------------------------
(***************************************************************************)
(* What the actions of a thread do.                                        *)
(***************************************************************************)
Act(t) ==
    \/ Begin(t) \/ Commit(t) \/ Rollback(t)
    \/ Build(t) \/ Assign(t) \/ SaveNew(t) \/ Save(t) \/ UpdateFromParams(t)
    \/ Find(t) \/ Reload(t) \/ Delete(t)
    \/ UpsertFind(t) \/ UpsertSave(t) \/ StatementFails(t)

\* A record to insert; and one to write over that of t, which keeps what it holds
\* in other columns, with what t holds when the write fails.
Insertable(new) ==
    /\ Proper(new) /\ new.state = "new" /\ new.name \in Name /\ new.active \in BOOLEAN

Replaces(t, r, columns) ==
    /\ Proper(r) /\ r.id = record[t].id
    /\ \A c \in Column \ columns : r[c] = record[t][c]

Writable(t, r, held, columns) ==
    /\ Replaces(t, r, columns) /\ r.state = "persisted"
    /\ held = NoRecord \/ Replaces(t, held, columns)

\* The saves, wherever they come from, create or update such a record.
LEMMA Saves ==
    ASSUME HandInv, NEW t \in Thread, SaveNew(t) \/ Save(t) \/ UpdateFromParams(t) \/ UpsertSave(t)
    PROVE  \/ \E new : Insertable(new) /\ Create(t, new)
           \/ \E r, held : \E columns \in SUBSET Column :
                Writable(t, r, held, columns) /\ Update(t, r, held, columns)
  <1>0. /\ Proper(record[t]) /\ record[t] \in Held /\ builder[t] \in Given
        /\ stage[t] = "upsert" =>
                builder[t].name # Unset /\ record[t].state \in {"none", "persisted"}
    BY DEF HandInv
  <1>1. ASSUME SaveNew(t) PROVE \E new : Insertable(new) /\ Create(t, new)
    <2>1. Insertable(record[t])
      BY <1>0, <1>1 DEF SaveNew, Insertable, Proper, Held
    <2> QED BY <1>1, <2>1 DEF SaveNew
  <1>2. ASSUME Save(t)
        PROVE  \E r, held : \E columns \in SUBSET Column :
                Writable(t, r, held, columns) /\ Update(t, r, held, columns)
    <2>1. Writable(t, record[t], record[t], {})
      BY <1>0, <1>2 DEF Save, Writable, Replaces
    <2> QED BY <1>2, <2>1 DEF Save
  <1>3. ASSUME UpdateFromParams(t)
        PROVE  \E r, held : \E columns \in SUBSET Column :
                Writable(t, r, held, columns) /\ Update(t, r, held, columns)
    <2>1. PICK applied \in Applicable :
            LET r == Assigned(record[t], applied) IN Update(t, r, r, ColumnsOf(applied))
      BY <1>3 DEF UpdateFromParams
    <2> DEFINE r == Assigned(record[t], applied)
    <2>2. Writable(t, r, r, ColumnsOf(applied))
      BY <1>0, <1>3, AppliedIsGiven, AssignedFields DEF UpdateFromParams, Writable, Replaces
    <2>3. ColumnsOf(applied) \in SUBSET Column
      BY DEF ColumnsOf
    <2> QED BY <2>1, <2>2, <2>3
  <1>4. ASSUME UpsertSave(t), record[t].state = "none"
        PROVE  \E new : Insertable(new) /\ Create(t, new)
    <2>1. Insertable(NewRecord(builder[t]))
      BY <1>0, <1>4, NewFields DEF UpsertSave, Insertable
    <2> QED BY <1>4, <2>1 DEF UpsertSave
  <1>5. ASSUME UpsertSave(t), record[t].state # "none"
        PROVE  \E r, held : \E columns \in SUBSET Column :
                Writable(t, r, held, columns) /\ Update(t, r, held, columns)
    <2> DEFINE r == Assigned(record[t], builder[t])
               kept == [r EXCEPT !.state = "invalid_persisted"]
               held == IF Valid(r) THEN NoRecord ELSE kept
               columns == ColumnsOf(builder[t])
    <2>1. Update(t, r, held, columns)
      BY <1>5 DEF UpsertSave
    <2>2. record[t].state = "persisted"
      BY <1>0, <1>5 DEF UpsertSave
    <2>3. Replaces(t, r, columns) /\ Proper(r) /\ r.state = "persisted" /\ r.id # 0 /\ r \in Held
      BY <1>0, <2>2, AssignedFields DEF Replaces, Proper
    <2>4. Replaces(t, kept, columns)
      <3> HIDE DEF r
      <3>1. Proper(kept) /\ kept.id = r.id
        BY <2>3, StateChanges DEF State
      <3>2. \A c \in Column : kept[c] = r[c]
        BY <2>3 DEF Held, Column
      <3> QED BY <2>3, <3>1, <3>2 DEF Replaces
    <2>5. Writable(t, r, held, columns)
      BY <2>3, <2>4 DEF Writable
    <2>6. columns \in SUBSET Column
      BY DEF ColumnsOf
    <2> QED BY <2>1, <2>5, <2>6
  <1> QED BY <1>1, <1>2, <1>3, <1>4, <1>5

\* What an action of t does to the database.
LEMMA Kinds ==
    ASSUME HandInv, NEW t \in Thread, Act(t)
    PROVE  \/ Begin(t) \/ Commit(t) \/ Rollback(t) \/ Delete(t)
           \/ \E new : Insertable(new) /\ Valid(new) /\ Insert(t, new)
           \/ \E r, held : \E columns \in SUBSET Column :
                Writable(t, r, held, columns) /\ Valid(r) /\ Write(t, r, held, columns)
           \/ UNCHANGED database
  <1>1. ASSUME Build(t) \/ Assign(t) \/ Find(t) \/ Reload(t) \/ UpsertFind(t) \/ StatementFails(t)
        PROVE  UNCHANGED database
    BY <1>1 DEF Build, Assign, Find, Reload, UpsertFind, StatementFails
  <1>2. ASSUME NEW new, Insertable(new), Create(t, new)
        PROVE  UNCHANGED database \/ (Valid(new) /\ Insert(t, new))
    BY <1>2 DEF Create
  <1>3. ASSUME NEW r, NEW held, NEW columns, Update(t, r, held, columns)
        PROVE  UNCHANGED database \/ (Valid(r) /\ Write(t, r, held, columns))
    BY <1>3 DEF Update
  <1> QED BY <1>1, <1>2, <1>3, Saves DEF Act

\* The row an insertion stores, and the record it returns.
LEMMA InsertStores ==
    ASSUME DatabaseInv, NEW t \in Thread, NEW new, Insertable(new), Valid(new), Insert(t, new)
    PROVE  /\ births' = births + 1 /\ births \in Nat /\ births' \in 0..MaxInserts
           /\ TableInv(work', births') /\ CanWrite(t) /\ owner' = owner
           /\ db' = (IF owner = NoThread THEN work' ELSE db)
           /\ DOMAIN work' = DOMAIN work \cup {NextId} /\ NextId \notin DOMAIN work /\ NextId # 0
           /\ \A i \in DOMAIN work : work'[i] = work[i]
           /\ work'[NextId].name = new.name /\ work'[NextId].active = new.active
           /\ work'[NextId].birth = births'
  <1> DEFINE row == [name |-> new.name, active |-> new.active, birth |-> births + 1]
             rows == With(work, NextId, row)
  <1>1. births \in Nat /\ births < MaxInserts /\ births' = births + 1 /\ TableInv(work, births)
    BY RecordsAssumption DEF DatabaseInv, Insert
  <1>2. work' = rows /\ owner' = owner /\ db' = (IF owner = NoThread THEN work' ELSE db)
    BY <1>1 DEF Insert, Store
  <1>3. NextId \in 1..(births + 1) /\ NextId \notin DOMAIN work
    BY NextIdIsNew
  <1>4. row \in Row(births + 1) /\ row.birth = births + 1
    BY <1>1 DEF Row, Insertable, Valid
  <1> HIDE DEF row
  <1>5. TableInv(rows, births + 1)
    BY <1>1, <1>3, <1>4, InsertedTable
  <1>6. DOMAIN rows = DOMAIN work \cup {NextId} /\ rows[NextId] = row
        /\ \A i \in DOMAIN work : rows[i] = work[i]
    BY <1>3 DEF With
  <1>7. row.name = new.name /\ row.active = new.active /\ row.birth = births + 1
    BY DEF row
  <1>8. births' \in 0..MaxInserts
    BY <1>1, RecordsAssumption
  <1> HIDE DEF rows
  <1> QED BY <1>1, <1>2, <1>3, <1>5, <1>6, <1>7, <1>8 DEF Insert

\* A write that finds its row replaces it and reports success; another fails.
LEMMA WriteStores ==
    ASSUME DatabaseInv, NEW t \in Thread, NEW r, NEW held, NEW columns,
           Writable(t, r, held, columns), Valid(r), Write(t, r, held, columns)
    PROVE  /\ births' = births /\ owner' = owner /\ CanWrite(t)
           /\ \/ /\ r.id \in DOMAIN work /\ DOMAIN work' = DOMAIN work
                 /\ TableInv(work', births)
                 /\ db' = (IF owner = NoThread THEN work' ELSE db)
                 /\ work'[r.id].name = r.name /\ work'[r.id].active = r.active
                 /\ work'[r.id].birth = work[r.id].birth
                 /\ \A i \in DOMAIN work : i # r.id => work'[i] = work[i]
                 /\ Ends(t, TRUE, r) /\ fresh' = [fresh EXCEPT ![t] = owner = t]
              \/ /\ r.id \notin DOMAIN work /\ UNCHANGED <<db, work, fresh>>
                 /\ Ends(t, FALSE, held)
  <1>1. births \in Nat /\ TableInv(work, births)
    BY RecordsAssumption DEF DatabaseInv
  <1>2. r.name \in Name \ {Blank} /\ r.active \in BOOLEAN
    BY DEF Writable, Replaces, Proper, Held, Valid
  <1>3. CASE r.id \in DOMAIN work
    <2>1. /\ work' = [work EXCEPT ![r.id].name = r.name, ![r.id].active = r.active]
          /\ owner' = owner /\ db' = (IF owner = NoThread THEN work' ELSE db)
          /\ Ends(t, TRUE, r) /\ fresh' = [fresh EXCEPT ![t] = owner = t]
      BY <1>3 DEF Write, Store
    <2> DEFINE row == [work[r.id] EXCEPT !.name = r.name, !.active = r.active]
               new == [work EXCEPT ![r.id] = row]
    <2>2. work[r.id] \in Row(births)
      BY <1>1, <1>3 DEF TableInv
    <2>3. /\ row \in Row(births) /\ row.birth = work[r.id].birth
          /\ row.name = r.name /\ row.active = r.active
      BY <1>2, <2>2 DEF Row
    <2>4. work' = new
      BY <2>1
    <2> HIDE DEF row
    <2>5. /\ DOMAIN new = DOMAIN work /\ new[r.id] = row
          /\ \A i \in DOMAIN work : i # r.id => new[i] = work[i]
      BY <1>1, <1>3 DEF TableInv
    <2>6. TableInv(new, births)
      BY <1>1, <1>3, <2>3, WrittenTable
    <2> HIDE DEF new
    <2> QED BY <1>3, <2>1, <2>3, <2>4, <2>5, <2>6 DEF Write
  <1>4. CASE r.id \notin DOMAIN work
    BY <1>4 DEF Write
  <1> QED BY <1>3, <1>4

LEMMA StepDatabase ==
    ASSUME DatabaseInv, HandInv, NEW t \in Thread, Act(t)
    PROVE  DatabaseInv'
  <1>0. births \in Nat
    BY RecordsAssumption DEF DatabaseInv
  <1>1. ASSUME Begin(t) \/ Commit(t) \/ Rollback(t) PROVE DatabaseInv'
    BY <1>1, RecordsAssumption DEF Begin, Commit, Rollback, Over, DatabaseInv
  <1>2. ASSUME Delete(t) PROVE DatabaseInv'
    <2> DEFINE rows == [i \in DOMAIN work \ {record[t].id} |-> work[i]]
    <2>1. /\ work' = rows /\ owner' = owner /\ births' = births
          /\ db' = (IF owner = NoThread THEN rows ELSE db)
      BY <1>2 DEF Delete, Store
    <2>2. TableInv(rows, births)
      BY <1>0, ShrunkTable DEF DatabaseInv
    <2> HIDE DEF rows
    <2> QED BY <2>1, <2>2 DEF DatabaseInv
  <1>3. ASSUME NEW new, Insertable(new), Valid(new), Insert(t, new) PROVE DatabaseInv'
    <2>1. TableInv(db, births')
      BY <1>0, <1>3, InsertStores, OlderTable DEF DatabaseInv
    <2> QED BY <1>3, <2>1, InsertStores DEF DatabaseInv
  <1>4. ASSUME NEW r, NEW held, NEW columns,
               Writable(t, r, held, columns), Valid(r), Write(t, r, held, columns)
        PROVE  DatabaseInv'
    BY <1>4, WriteStores DEF DatabaseInv
  <1>5. ASSUME UNCHANGED database PROVE DatabaseInv'
    BY <1>5 DEF database, DatabaseInv
  <1> QED BY <1>1, <1>2, <1>3, <1>4, <1>5, Kinds

-----------------------------------------------------------------------------
(***************************************************************************)
(* The records in hand after an action.                                    *)
(***************************************************************************)
\* The end of a call that returns a proper record.
LEMMA EndsHand ==
    ASSUME HandInv, NEW t \in Thread, NEW ok \in BOOLEAN, NEW held, Proper(held),
           Ends(t, ok, held)
    PROVE  /\ record' \in [Thread -> Held] /\ builder' \in [Thread -> Given]
           /\ stage' \in [Thread -> {"idle", "upsert"}]
           /\ saved' \in Thread \cup {NoThread} /\ (saved' # NoThread => saved' = t)
           /\ record'[t] = held /\ stage'[t] = "idle"
           /\ \A u \in Thread : Proper(record'[u])
           /\ \A u \in Thread : stage'[u] = "upsert" =>
                builder'[u].name # Unset /\ record'[u].state \in {"none", "persisted"}
           /\ \A u \in Thread \ {t} :
                record'[u] = record[u] /\ builder'[u] = builder[u] /\ stage'[u] = stage[u]
  BY NoFields DEF Ends, HandInv, Proper

LEMMA HistoryTypes ==
    ASSUME HandInv, NEW t \in Thread,
           \/ Leave(t) \/ InStep(t) \/ UNCHANGED history
           \/ /\ \E columns \in SUBSET Column : Touch(t, columns)
              /\ UNCHANGED fresh \/ fresh' = [fresh EXCEPT ![t] = owner = t]
    PROVE  /\ touched' \in [Thread -> SUBSET Column] /\ fresh' \in [Thread -> BOOLEAN]
           /\ \A u \in Thread \ {t} : fresh'[u] = fresh[u] /\ touched'[u] = touched[u]
  <1>1. (owner = t) \in BOOLEAN
    OBVIOUS
  <1>2. CASE Leave(t) \/ InStep(t) \/ UNCHANGED history
    BY <1>1, <1>2 DEF HandInv, Leave, InStep, history
  <1>3. CASE /\ \E columns \in SUBSET Column : Touch(t, columns)
             /\ UNCHANGED fresh \/ fresh' = [fresh EXCEPT ![t] = owner = t]
    <2>1. PICK columns \in SUBSET Column : Touch(t, columns)
      BY <1>3
    <2>2. (IF fresh[t] THEN touched[t] \cup columns ELSE {}) \in SUBSET Column
      BY DEF HandInv
    <2>3. touched' = [touched EXCEPT ![t] = IF fresh[t] THEN touched[t] \cup columns ELSE {}]
      BY <2>1 DEF Touch
    <2>4. /\ touched' \in [Thread -> SUBSET Column]
          /\ \A u \in Thread \ {t} : touched'[u] = touched[u]
      BY <2>2, <2>3 DEF HandInv
    <2>5. /\ fresh' \in [Thread -> BOOLEAN]
          /\ \A u \in Thread \ {t} : fresh'[u] = fresh[u]
      BY <1>1, <1>3 DEF HandInv
    <2> QED BY <2>4, <2>5
  <1> QED BY <1>2, <1>3

\* The part of a thread that acts, and those of the others, who keep theirs.
Kept(t) ==
    /\ \A u \in Thread \ {t} :
        /\ record'[u] = record[u] /\ builder'[u] = builder[u] /\ stage'[u] = stage[u]
        /\ fresh'[u] = fresh[u] /\ touched'[u] = touched[u]
    /\ saved' # NoThread => saved' = t

LEMMA StepHand ==
    ASSUME DatabaseInv, HandInv, NEW t \in Thread, Act(t)
    PROVE  HandInv' /\ Kept(t)
  <1>a. \A r : Proper(r) => r \in Held
    BY DEF Proper
  <1>b. /\ Proper(record[t]) /\ record[t] \in Held
        /\ births \in Nat /\ TableInv(db, births) /\ TableInv(work, births)
    BY RecordsAssumption DEF HandInv, DatabaseInv
  <1>c. TableInv(View(t), births)
    BY <1>b DEF View
  <1>1. ASSUME Begin(t) \/ Commit(t) \/ Rollback(t) PROVE HandInv' /\ Kept(t)
    <2>1. UNCHANGED <<record, builder, stage>> /\ saved' = NoThread
          /\ (Leave(t) \/ UNCHANGED history)
      BY <1>1 DEF Begin, Commit, Rollback, Over
    <2> QED BY <2>1, HistoryTypes DEF HandInv, Kept
  <1>2. ASSUME NEW ok \in BOOLEAN, NEW held, Proper(held), Ends(t, ok, held),
               \/ Leave(t) \/ InStep(t) \/ UNCHANGED history
               \/ /\ \E columns \in SUBSET Column : Touch(t, columns)
                  /\ UNCHANGED fresh \/ fresh' = [fresh EXCEPT ![t] = owner = t]
        PROVE  HandInv' /\ Kept(t)
    <2>1. /\ record' \in [Thread -> Held] /\ builder' \in [Thread -> Given]
          /\ stage' \in [Thread -> {"idle", "upsert"}]
          /\ saved' \in Thread \cup {NoThread} /\ (saved' # NoThread => saved' = t)
          /\ \A u \in Thread : Proper(record'[u])
          /\ \A u \in Thread : stage'[u] = "upsert" =>
                builder'[u].name # Unset /\ record'[u].state \in {"none", "persisted"}
          /\ \A u \in Thread \ {t} :
                record'[u] = record[u] /\ builder'[u] = builder[u] /\ stage'[u] = stage[u]
      BY <1>2, EndsHand
    <2>2. /\ touched' \in [Thread -> SUBSET Column] /\ fresh' \in [Thread -> BOOLEAN]
          /\ \A u \in Thread \ {t} : fresh'[u] = fresh[u] /\ touched'[u] = touched[u]
      BY <1>2, HistoryTypes
    <2> QED BY <2>1, <2>2 DEF HandInv, Kept
  <1>3. ASSUME Build(t) PROVE HandInv' /\ Kept(t)
    BY <1>2, <1>3, NewFields DEF Build
  <1>4. ASSUME Assign(t) PROVE HandInv' /\ Kept(t)
    <2>1. PICK given \in Given : Ends(t, FALSE, Assigned(record[t], given)) /\ Touch(t, ColumnsOf(given))
      BY <1>4 DEF Assign
    <2>2. Proper(Assigned(record[t], given)) /\ ColumnsOf(given) \in SUBSET Column
      BY <1>b, AssignedFields DEF ColumnsOf
    <2> QED BY <1>2, <1>4, <2>1, <2>2 DEF Assign
  <1>5. ASSUME NEW new, Insertable(new), Create(t, new) PROVE HandInv' /\ Kept(t)
    <2>1. CASE ~Valid(new)
      <3>1. Proper([new EXCEPT !.state = "invalid_new"])
        BY <1>5, StateChanges DEF Insertable, Proper, State, Held
      <3> QED BY <1>2, <1>5, <2>1, <3>1 DEF Create
    <2>2. CASE Valid(new) /\ Insert(t, new)
      <3>1. CASE NextId > MaxId
        BY <1>2, <2>2, <3>1, NoFields DEF Insert
      <3>2. CASE ~(NextId > MaxId)
        <4> DEFINE held == [new EXCEPT !.state = "persisted", !.id = NextId]
        <4>1. NextId \in 1..MaxId
          BY <1>b, <3>2, NextIdIsNew, RecordsAssumption
        <4>2. Proper(held)
          <5>1. /\ new \in Held /\ new.name # Unset /\ new.active # Unset
            BY <1>5 DEF Insertable, Proper
          <5>2. NextId \in 0..MaxId /\ "persisted" \in State /\ NextId # 0
            BY <4>1, RecordsAssumption DEF State
          <5>3. /\ held \in Held /\ held.state = "persisted" /\ held.id = NextId
                /\ held.name = new.name /\ held.active = new.active
            <6> HIDE DEF State
            <6> QED BY <5>1, <5>2 DEF Held
          <5> HIDE DEF held
          <5> QED BY <5>1, <5>2, <5>3 DEF Proper
        <4>3. Ends(t, TRUE, held) /\ InStep(t)
          BY <2>2, <3>2 DEF Insert
        <4> QED BY <1>2, <4>2, <4>3
      <3> QED BY <3>1, <3>2
    <2> QED BY <1>5, <2>1, <2>2 DEF Create
  <1>6. ASSUME NEW r, NEW held, NEW columns \in SUBSET Column,
               Writable(t, r, held, columns), Update(t, r, held, columns)
        PROVE  HandInv' /\ Kept(t)
    <2>1. Proper(r) /\ Proper(held)
      BY <1>6, NoFields DEF Writable, Replaces
    <2>2. CASE ~Valid(r)
      BY <1>2, <1>6, <2>1, <2>2 DEF Update
    <2>3. CASE Valid(r) /\ Write(t, r, held, columns)
      BY <1>2, <1>6, <2>1, <2>3 DEF Write
    <2> QED BY <1>6, <2>2, <2>3 DEF Update
  <1>7. ASSUME Find(t) PROVE HandInv' /\ Kept(t)
    <2>1. PICK id \in Readable(t) : Ends(t, FALSE, FromRow(View(t), id))
      BY <1>7 DEF Find
    <2>2. Proper(FromRow(View(t), id))
      BY <1>b, <1>c, RowFields DEF Readable
    <2> QED BY <1>2, <1>7, <2>1, <2>2 DEF Find
  <1>8. ASSUME Reload(t) PROVE HandInv' /\ Kept(t)
    <2>1. record[t].id <= MaxId
      BY <1>b, RecordsAssumption DEF Held
    <2>2. CASE record[t].id \in DOMAIN View(t)
      <3>1. Proper(FromRow(View(t), record[t].id))
        BY <1>b, <1>c, <2>1, <2>2, RowFields
      <3> QED BY <1>2, <1>8, <2>2, <3>1 DEF Reload
    <2>3. CASE record[t].id \notin DOMAIN View(t)
      BY <1>2, <1>8, <1>b, <2>3 DEF Reload
    <2> QED BY <2>2, <2>3
  <1>9. ASSUME Delete(t) PROVE HandInv' /\ Kept(t)
    BY <1>2, <1>9, NoFields DEF Delete
  <1>10. ASSUME StatementFails(t) PROVE HandInv' /\ Kept(t)
    <2> DEFINE held == IF stage[t] = "upsert" \/ record[t].state = "new" THEN NoRecord ELSE record[t]
    <2>1. Proper(held)
      BY <1>b, NoFields
    <2> QED BY <1>2, <1>10, <2>1 DEF StatementFails
  <1>11. ASSUME UpsertFind(t) PROVE HandInv' /\ Kept(t)
    <2>1. PICK given \in Given :
            /\ given.name # Unset
            /\ builder' = [builder EXCEPT ![t] = given]
            /\ \/ \E id \in Readable(t) :
                    record' = [record EXCEPT ![t] = FromRow(View(t), id)]
               \/ record' = [record EXCEPT ![t] = NoRecord]
      BY <1>11 DEF UpsertFind
    <2>2. PICK r : Proper(r) /\ r.state \in {"none", "persisted"} /\ record' = [record EXCEPT ![t] = r]
      <3>1. \A id \in Readable(t) :
                Proper(FromRow(View(t), id)) /\ FromRow(View(t), id).state = "persisted"
        BY <1>b, <1>c, RowFields DEF Readable
      <3>2. Proper(NoRecord) /\ NoRecord.state = "none"
        BY NoFields DEF NoRecord
      <3> QED BY <2>1, <3>1, <3>2
    <2>3. /\ stage' = [stage EXCEPT ![t] = "upsert"] /\ saved' = NoThread /\ InStep(t)
      BY <1>11 DEF UpsertFind
    <2> QED BY <1>a, <2>1, <2>2, <2>3, HistoryTypes DEF HandInv, Kept
  <1> QED
    BY <1>1, <1>3, <1>4, <1>5, <1>6, <1>7, <1>8, <1>9, <1>10, <1>11, Saves DEF Act

-----------------------------------------------------------------------------
(***************************************************************************)
(* Transactions.                                                           *)
(***************************************************************************)
\* Nobody else writes while a transaction is open, and nobody ends it.
LEMMA OthersWait ==
    ASSUME DatabaseInv, HandInv, NEW t \in Thread, Act(t), NEW u \in Thread \ {t}
    PROVE  /\ owner = u => owner' = u /\ work' = work
           /\ owner # u => owner' # u
  <1>0. u # NoThread /\ u # t
    BY RecordsAssumption
  <1>1. ASSUME Begin(t) \/ Commit(t) \/ Rollback(t) \/ Delete(t)
        PROVE  (owner = u => owner' = u /\ work' = work) /\ (owner # u => owner' # u)
    <2>1. CASE Begin(t)
      BY <1>0, <2>1 DEF Begin
    <2>2. CASE Commit(t) \/ Rollback(t)
      BY <1>0, <2>2 DEF Commit, Rollback, Over
    <2>3. CASE Delete(t)
      BY <1>0, <2>3 DEF Delete, Store, CanWrite
    <2> QED BY <1>1, <2>1, <2>2, <2>3
  <1>2. ASSUME NEW new, Insertable(new), Valid(new), Insert(t, new)
        PROVE  (owner = u => owner' = u /\ work' = work) /\ (owner # u => owner' # u)
    BY <1>0, <1>2, InsertStores DEF CanWrite
  <1>3. ASSUME NEW r, NEW held, NEW columns,
               Writable(t, r, held, columns), Valid(r), Write(t, r, held, columns)
        PROVE  (owner = u => owner' = u /\ work' = work) /\ (owner # u => owner' # u)
    <2>1. owner' = owner /\ CanWrite(t)
      BY <1>3, WriteStores
    <2> QED BY <1>0, <2>1 DEF CanWrite
  <1> QED BY <1>1, <1>2, <1>3, Kinds DEF database

LEMMA StepFresh ==
    ASSUME DatabaseInv, HandInv, FreshInv, NEW t \in Thread, Act(t)
    PROVE  FreshInv'
  <1>a. /\ births \in Nat /\ TableInv(work, births) /\ 0 \notin DOMAIN work
        /\ FreshOf(t) /\ Proper(record[t])
    BY RecordsAssumption DEF DatabaseInv, TableInv, FreshInv, HandInv
  <1>b. /\ record \in [Thread -> Held]
        /\ fresh \in [Thread -> BOOLEAN] /\ touched \in [Thread -> SUBSET Column]
    BY DEF HandInv
  <1>c. DatabaseInv' /\ HandInv' /\ Kept(t)
    BY StepDatabase, StepHand
  <1>d. NoRecord.id = 0 /\ NoRecord.state = "none"
    BY DEF NoRecord
  <1>1. \A u \in Thread \ {t} : FreshOf(u)'
    BY <1>c, OthersWait DEF FreshInv, FreshOf, Kept
  <1>2. ASSUME Begin(t) PROVE FreshOf(t)'
    BY <1>a, <1>2, RecordsAssumption DEF Begin, history, FreshOf
  <1>3. ASSUME Leave(t) PROVE FreshOf(t)'
    BY <1>b, <1>3 DEF Leave, FreshOf
  \* A call that leaves the database alone and returns what t held, in other
  \* columns than those it reports as assigned, or nothing.
  <1>4. ASSUME UNCHANGED database, UNCHANGED fresh,
               NEW held, record' = [record EXCEPT ![t] = held],
               \/ held.id = 0
               \/ \E columns : /\ Replaces(t, held, columns)
                               /\ Touch(t, columns) \/ (touched' = touched /\ columns = {})
        PROVE  FreshOf(t)'
    <2>1. CASE held.id = 0
      BY <1>a, <1>b, <1>4, <2>1 DEF database, FreshOf
    <2>2. CASE held.id # 0
      <3>1. PICK columns : /\ Replaces(t, held, columns)
                           /\ Touch(t, columns) \/ (touched' = touched /\ columns = {})
        BY <1>4, <2>2
      <3>2. fresh[t] => touched'[t] = touched[t] \cup columns
        BY <1>b, <3>1 DEF Touch
      <3>3. record'[t] = held /\ held.id = record[t].id
            /\ \A c \in Column \ columns : held[c] = record[t][c]
        BY <1>b, <1>4, <3>1 DEF Replaces
      <3> QED BY <1>a, <1>4, <3>2, <3>3 DEF database, FreshOf
    <2> QED BY <2>1, <2>2
  \* A call that reads a row.
  <1>5. ASSUME UNCHANGED database, InStep(t), NEW held, record' = [record EXCEPT ![t] = held],
               \/ held.id = 0
               \/ /\ held.id \in DOMAIN View(t)
                  /\ held.name = View(t)[held.id].name /\ held.active = View(t)[held.id].active
        PROVE  FreshOf(t)'
    <2>1. record'[t] = held /\ fresh'[t] = (owner = t) /\ touched'[t] = {}
      BY <1>b, <1>5 DEF InStep
    <2>2. CASE held.id = 0
      BY <1>a, <1>5, <2>1, <2>2 DEF database, FreshOf
    <2>3. CASE held.id # 0 /\ owner = t
      BY <1>5, <2>1, <2>3 DEF database, FreshOf, View, Column
    <2>4. CASE owner # t
      BY <2>1, <2>4 DEF FreshOf
    <2> QED BY <2>2, <2>3, <2>4
  <1>6. ASSUME NEW new, Insertable(new), Create(t, new) PROVE FreshOf(t)'
    <2>1. CASE ~Valid(new)
      <3> DEFINE held == [new EXCEPT !.state = "invalid_new"]
      <3>1. held.id = 0 /\ record' = [record EXCEPT ![t] = held]
        BY <1>6, <2>1, StateChanges DEF Create, Insertable, Proper, Ends, Held, State
      <3>2. UNCHANGED database /\ UNCHANGED fresh
        BY <1>6, <2>1 DEF Create, history
      <3> HIDE DEF held
      <3> QED BY <1>4, <3>1, <3>2
    <2>2. CASE Valid(new) /\ Insert(t, new)
      <3>1. /\ owner' = owner /\ 0 \notin DOMAIN work'
            /\ work'[NextId].name = new.name /\ work'[NextId].active = new.active
        BY <1>6, <1>c, <2>2, InsertStores DEF DatabaseInv, TableInv
      <3>2. fresh'[t] = (owner = t) /\ touched'[t] = {}
        BY <1>b, <2>2 DEF Insert, InStep
      <3>3. CASE NextId > MaxId
        <4>1. record'[t].id = 0
          BY <1>b, <1>d, <2>2, <3>3 DEF Insert, Ends
        <4> QED BY <3>1, <3>2, <4>1 DEF FreshOf
      <3>4. CASE ~(NextId > MaxId)
        <4>1. /\ record'[t] = [new EXCEPT !.state = "persisted", !.id = NextId]
          BY <1>b, <2>2, <3>4 DEF Insert, Ends
        <4>2. record'[t].id = NextId /\ record'[t].name = new.name /\ record'[t].active = new.active
          BY <1>6, <4>1 DEF Insertable, Proper, Held
        <4> QED BY <3>1, <3>2, <4>2 DEF FreshOf, Column
      <3> QED BY <3>3, <3>4
    <2> QED BY <1>6, <2>1, <2>2 DEF Create
  <1>7. ASSUME NEW r, NEW held, NEW columns \in SUBSET Column,
               Writable(t, r, held, columns), Update(t, r, held, columns)
        PROVE  FreshOf(t)'
    <2>1. held.id = 0 \/ Replaces(t, held, columns)
      BY <1>7, <1>d DEF Writable
    <2>2. CASE ~Valid(r)
      <3>1. UNCHANGED database /\ UNCHANGED fresh /\ record' = [record EXCEPT ![t] = held]
            /\ Touch(t, columns)
        BY <1>7, <2>2 DEF Update, Ends
      <3> QED BY <1>4, <2>1, <3>1
    <2>3. CASE Valid(r) /\ Write(t, r, held, columns)
      <3>1. CASE r.id \in DOMAIN work
        <4>1. /\ owner' = owner /\ work'[r.id].name = r.name /\ work'[r.id].active = r.active
              /\ Ends(t, TRUE, r) /\ fresh' = [fresh EXCEPT ![t] = owner = t]
          BY <1>7, <2>3, <3>1, WriteStores
        <4>2. record'[t] = r /\ fresh'[t] = (owner = t)
          BY <1>b, <4>1 DEF Ends
        <4> QED BY <4>1, <4>2 DEF FreshOf, Column
      <3>2. CASE r.id \notin DOMAIN work
        <4>1. UNCHANGED database /\ UNCHANGED fresh /\ Ends(t, FALSE, held)
          BY <1>7, <2>3, <3>2, WriteStores DEF database
        <4>2. record' = [record EXCEPT ![t] = held] /\ Touch(t, columns)
          BY <2>3, <4>1 DEF Write, Ends
        <4> QED BY <1>4, <2>1, <4>1, <4>2
      <3> QED BY <3>1, <3>2
    <2> QED BY <1>7, <2>2, <2>3 DEF Update
  <1>8. ASSUME Assign(t) PROVE FreshOf(t)'
    <2>1. PICK given \in Given :
            Ends(t, FALSE, Assigned(record[t], given)) /\ Touch(t, ColumnsOf(given))
      BY <1>8 DEF Assign
    <2>2. Replaces(t, Assigned(record[t], given), ColumnsOf(given))
      BY <1>a, <1>b, AssignedFields DEF Replaces
    <2>3. record' = [record EXCEPT ![t] = Assigned(record[t], given)]
      BY <2>1 DEF Ends
    <2> QED BY <1>4, <1>8, <2>1, <2>2, <2>3 DEF Assign
  <1>9. ASSUME NEW id \in Readable(t), UNCHANGED database, InStep(t),
               record' = [record EXCEPT ![t] = FromRow(View(t), id)]
        PROVE  FreshOf(t)'
    BY <1>5, <1>9 DEF FromRow, Readable
  <1>10. ASSUME Find(t) PROVE FreshOf(t)'
    BY <1>9, <1>10 DEF Find, Ends
  <1>11. ASSUME Reload(t) PROVE FreshOf(t)'
    <2>1. record[t].id <= MaxId
      BY <1>b, RecordsAssumption DEF Held
    <2>2. CASE record[t].id \in DOMAIN View(t)
      BY <1>9, <1>11, <2>1, <2>2 DEF Reload, Ends, Readable
    <2>3. CASE record[t].id \notin DOMAIN View(t)
      <3>1. UNCHANGED database /\ UNCHANGED history /\ record' = [record EXCEPT ![t] = record[t]]
        BY <1>11, <2>3 DEF Reload, Ends
      <3>2. Replaces(t, record[t], {})
        BY <1>a DEF Replaces
      <3> QED BY <1>4, <3>1, <3>2 DEF history
    <2> QED BY <2>2, <2>3
  <1>12. ASSUME Delete(t) PROVE FreshOf(t)'
    <2>1. /\ owner' = owner /\ fresh' = fresh /\ record' = [record EXCEPT ![t] = NoRecord]
          /\ 0 \notin DOMAIN work'
      BY <1>c, <1>12 DEF Delete, Store, Ends, history, DatabaseInv, TableInv
    <2> QED BY <1>a, <1>b, <1>d, <2>1 DEF FreshOf
  <1>13. ASSUME StatementFails(t) PROVE FreshOf(t)'
    <2> DEFINE held == IF stage[t] = "upsert" \/ record[t].state = "new" THEN NoRecord ELSE record[t]
    <2>1. UNCHANGED database /\ UNCHANGED history /\ record' = [record EXCEPT ![t] = held]
      BY <1>13 DEF StatementFails, Ends
    <2>2. held.id = 0 \/ Replaces(t, held, {})
      BY <1>a, <1>d DEF Replaces
    <2> HIDE DEF held
    <2> QED BY <1>4, <2>1, <2>2 DEF history
  <1>14. ASSUME UpsertFind(t) PROVE FreshOf(t)'
    <2>1. UNCHANGED database /\ InStep(t)
      BY <1>14 DEF UpsertFind
    <2>2. \/ \E id \in Readable(t) : record' = [record EXCEPT ![t] = FromRow(View(t), id)]
          \/ record' = [record EXCEPT ![t] = NoRecord]
      BY <1>14 DEF UpsertFind
    <2> QED BY <1>5, <1>9, <1>d, <2>1, <2>2
  <1>15. FreshOf(t)'
    BY <1>2, <1>3, <1>6, <1>7, <1>8, <1>10, <1>11, <1>12, <1>13, <1>14, Saves
    DEF Act, Commit, Rollback, Over, Build
  <1> QED BY <1>1, <1>15 DEF FreshInv

\* No save leaves create_or_update_by between its query and its save.
LEMMA SavesEnd ==
    ASSUME NEW t \in Thread, NEW new, NEW r, NEW held, NEW columns,
           Create(t, new) \/ Update(t, r, held, columns)
    PROVE  stage' = [stage EXCEPT ![t] = "idle"]
  BY DEF Create, Update, Insert, Write, Ends

LEMMA StepUpsert ==
    ASSUME DatabaseInv, HandInv, UpsertInv, NEW t \in Thread, Act(t)
    PROVE  UpsertInv'
  <1>a. stage \in [Thread -> {"idle", "upsert"}] /\ record \in [Thread -> Held]
        /\ builder \in [Thread -> Given]
    BY DEF HandInv
  <1>b. Kept(t)
    BY StepHand
  <1>1. \A u \in Thread \ {t} : UpsertOf(u)'
    BY <1>b, OthersWait DEF UpsertInv, UpsertOf, Kept, Matches
  <1>2. ASSUME Begin(t) \/ Commit(t) \/ Rollback(t) PROVE UpsertOf(t)'
    BY <1>2 DEF Begin, Commit, Rollback, Over, UpsertOf
  <1>3. ASSUME stage' = [stage EXCEPT ![t] = "idle"] PROVE UpsertOf(t)'
    BY <1>a, <1>3 DEF UpsertOf
  <1>4. ASSUME UpsertFind(t) PROVE UpsertOf(t)'
    <2>1. PICK given \in Given :
            /\ builder' = [builder EXCEPT ![t] = given]
            /\ \/ \E id \in Matches(View(t), given.name) \cap Readable(t) :
                    record' = [record EXCEPT ![t] = FromRow(View(t), id)]
               \/ /\ Matches(View(t), given.name) = {}
                  /\ record' = [record EXCEPT ![t] = NoRecord]
      BY <1>4 DEF UpsertFind
    <2>2. builder'[t] = given /\ UNCHANGED database
      BY <1>a, <1>4, <2>1 DEF UpsertFind
    <2>3. CASE owner # t
      BY <2>2, <2>3 DEF UpsertOf, database
    <2>4. CASE owner = t
      <3>1. View(t) = work /\ work' = work
        BY <2>2, <2>4 DEF View, database
      <3>2. ASSUME NEW id \in Matches(work, given.name),
                   record' = [record EXCEPT ![t] = FromRow(work, id)]
            PROVE  UpsertOf(t)'
        <4>1. record'[t].id = id /\ record'[t].state = "persisted"
          BY <1>a, <3>2 DEF FromRow
        <4> QED BY <2>2, <3>1, <3>2, <4>1 DEF UpsertOf, Matches
      <3>3. ASSUME Matches(work, given.name) = {}, record' = [record EXCEPT ![t] = NoRecord]
            PROVE  UpsertOf(t)'
        <4>1. record'[t].state = "none"
          BY <1>a, <3>3 DEF NoRecord
        <4> QED BY <2>2, <3>1, <3>3, <4>1 DEF UpsertOf, Matches
      <3> QED BY <2>1, <3>1, <3>2, <3>3
    <2> QED BY <2>3, <2>4
  <1>5. UpsertOf(t)'
    BY <1>2, <1>3, <1>4, Saves, SavesEnd
    DEF Act, Build, Assign, Find, Reload, Delete, StatementFails, Ends
  <1> QED BY <1>1, <1>5 DEF UpsertInv

-----------------------------------------------------------------------------
(***************************************************************************)
(* The invariant and what follows from it.                                 *)
(***************************************************************************)
LEMMA InitRecordsInv == Init => RecordsInv
  <1> SUFFICES ASSUME Init PROVE RecordsInv
    OBVIOUS
  <1>1. DatabaseInv
    <2>1. DOMAIN << >> = {} /\ << >> \in [DOMAIN << >> -> Row(0)]
      OBVIOUS
    <2>2. TableInv(<< >>, 0)
      BY <2>1 DEF TableInv
    <2> QED BY <2>2, RecordsAssumption DEF Init, DatabaseInv
  <1>2. HandInv
    BY NoFields DEF Init, HandInv, Proper, NoRecord
  <1>3. FreshInv /\ UpsertInv
    BY DEF Init, FreshInv, FreshOf, UpsertInv, UpsertOf
  <1> QED BY <1>1, <1>2, <1>3 DEF RecordsInv

LEMMA StepRecordsInv ==
    ASSUME RecordsInv, [Next]_vars
    PROVE  RecordsInv'
  <1>0. DatabaseInv /\ HandInv /\ FreshInv /\ UpsertInv
    BY DEF RecordsInv
  <1>1. CASE UNCHANGED vars
    <2>1. UNCHANGED <<db, work, owner, births, record, builder, stage, saved, fresh, touched>>
      BY <1>1 DEF vars, database, history
    <2> QED BY <1>0, <2>1
      DEF RecordsInv, DatabaseInv, HandInv, FreshInv, FreshOf, UpsertInv, UpsertOf, Matches
  <1>2. ASSUME NEW t \in Thread, Act(t) PROVE RecordsInv'
    BY <1>0, <1>2, StepDatabase, StepHand, StepFresh, StepUpsert DEF RecordsInv
  <1> QED BY <1>1, <1>2 DEF Next, Act

LEMMA SpecRecordsInv == Spec => []RecordsInv
  <1>1. RecordsInv /\ [Next]_vars => RecordsInv'
    BY StepRecordsInv
  <1> QED BY <1>1, InitRecordsInv, PTL DEF Spec

\* A record is persisted exactly when it has a key of its type, and no key,
\* birth or value is outside what was inserted, whichever of save, update,
\* reload, delete and create_or_update_by made it so.
THEOREM RecordsTypeOK == Spec => []TypeOK
  <1>1. RecordsInv => TypeOK
    <2> SUFFICES ASSUME RecordsInv PROVE TypeOK
      OBVIOUS
    <2>0. DatabaseInv /\ HandInv
      BY DEF RecordsInv
    <2>1. ASSUME NEW rows \in {db, work}
          PROVE  /\ DOMAIN rows \subseteq 1..(MaxInserts + 1)
                 /\ \A id \in DOMAIN rows : rows[id].name \in Name /\ rows[id].birth \in 1..births
                 /\ IsInjective([id \in DOMAIN rows |-> rows[id].birth])
      <3>1. TableInv(rows, births) /\ births \in 0..MaxInserts
        BY <2>0 DEF DatabaseInv
      <3> QED BY <3>1, RecordsAssumption DEF TableInv, Row, IsInjective
    <2>2. \A t \in Thread :
            /\ record[t].state \in {"persisted", "invalid_persisted"} <=> record[t].id # 0
            /\ record[t].state # "none" => record[t].name # Unset /\ record[t].active # Unset
      BY <2>0 DEF HandInv, Proper
    <2> QED BY <2>0, <2>1, <2>2 DEF TypeOK, DatabaseInv, HandInv
  <1> QED BY <1>1, SpecRecordsInv, PTL

\* Save, update and create_or_update_by validate before they write: no row in the
\* table is one the validator refuses.
THEOREM RowsStayValid == Spec => []RowsAreValid
  <1>1. RecordsInv => RowsAreValid
    BY DEF RecordsInv, DatabaseInv, TableInv, Row, RowsAreValid, Valid
  <1> QED BY <1>1, SpecRecordsInv, PTL

\* An insertion takes a new row number and no other statement makes a row: what
\* was deleted or rolled back does not come back.
THEOREM NothingResurrects == Spec => NoResurrection
  <1> DEFINE A == Births(work') \subseteq Births(work) \cup Births(db) \cup ((births + 1)..births')
  <1>1. ASSUME RecordsInv, NEW t \in Thread, Act(t) PROVE A
    <2>0. DatabaseInv /\ HandInv
      BY <1>1 DEF RecordsInv
    <2>1. ASSUME Begin(t) \/ Commit(t) \/ Rollback(t) \/ Delete(t) PROVE A
      BY <2>1 DEF Begin, Commit, Rollback, Over, Delete, Store, Births
    <2>2. ASSUME NEW new, Insertable(new), Valid(new), Insert(t, new) PROVE A
      BY <2>0, <2>2, InsertStores DEF Births
    <2>3. ASSUME NEW r, NEW held, NEW columns,
                 Writable(t, r, held, columns), Valid(r), Write(t, r, held, columns)
          PROVE  A
      <3>1. work' = work \/ (DOMAIN work' = DOMAIN work
                             /\ \A i \in DOMAIN work : work'[i].birth = work[i].birth)
        BY <2>0, <2>3, WriteStores
      <3> QED BY <3>1 DEF Births
    <2>4. ASSUME UNCHANGED database PROVE A
      BY <2>4 DEF database
    <2> QED BY <1>1, <2>0, <2>1, <2>2, <2>3, <2>4, Kinds
  <1>2. RecordsInv /\ [Next]_vars => [A]_vars
    BY <1>1 DEF Next, Act
  <1> QED BY <1>2, SpecRecordsInv, PTL DEF Spec, NoResurrection

\* A save, update or create_or_update_by that returns Ok has stored what it
\* returns: an insertion its row, a write only if it found one to change.
THEOREM SavesAreStored == Spec => SavedIsStored
  <1> DEFINE A == \A t \in Thread : saved' = t =>
                    LET r == record'[t]
                    IN  /\ r.id \in DOMAIN work'
                        /\ work'[r.id].name = r.name /\ work'[r.id].active = r.active
  <1>1. ASSUME RecordsInv, NEW t \in Thread, Act(t), saved' = t
        PROVE  LET r == record'[t]
               IN  /\ r.id \in DOMAIN work'
                   /\ work'[r.id].name = r.name /\ work'[r.id].active = r.active
    <2>0. DatabaseInv /\ HandInv /\ t # NoThread
      BY <1>1, RecordsAssumption DEF RecordsInv
    <2>1. ~(Begin(t) \/ Commit(t) \/ Rollback(t) \/ Build(t) \/ Assign(t) \/ Find(t) \/ Reload(t)
            \/ Delete(t) \/ UpsertFind(t) \/ StatementFails(t))
      BY <1>1, <2>0 DEF Begin, Commit, Rollback, Over, Build, Assign, Find, Reload, Delete, UpsertFind,
                        StatementFails, Ends
    <2>2. ASSUME NEW new, Insertable(new), Create(t, new)
          PROVE  LET r == record'[t]
                 IN  /\ r.id \in DOMAIN work'
                     /\ work'[r.id].name = r.name /\ work'[r.id].active = r.active
      <3>1. Valid(new) /\ Insert(t, new)
        BY <1>1, <2>0, <2>2 DEF Create, Ends
      <3>2. Ends(t, TRUE, [new EXCEPT !.state = "persisted", !.id = NextId])
        BY <1>1, <2>0, <3>1 DEF Insert, Ends
      <3>3. record'[t] = [new EXCEPT !.state = "persisted", !.id = NextId]
        BY <2>0, <3>2 DEF Ends, HandInv
      <3>4. record'[t].id = NextId /\ record'[t].name = new.name /\ record'[t].active = new.active
        BY <2>2, <3>3 DEF Insertable, Proper, Held
      <3> QED BY <2>0, <2>2, <3>1, <3>4, InsertStores
    <2>3. ASSUME NEW r, NEW held, NEW columns, Writable(t, r, held, columns), Update(t, r, held, columns)
          PROVE  /\ record'[t].id \in DOMAIN work'
                 /\ work'[record'[t].id].name = record'[t].name
                 /\ work'[record'[t].id].active = record'[t].active
      <3>1. Valid(r) /\ Write(t, r, held, columns)
        BY <1>1, <2>0, <2>3 DEF Update, Ends
      <3>2. ~Ends(t, FALSE, held)
        BY <1>1, <2>0 DEF Ends
      <3>3. /\ r.id \in DOMAIN work' /\ Ends(t, TRUE, r)
            /\ work'[r.id].name = r.name /\ work'[r.id].active = r.active
        BY <2>0, <2>3, <3>1, <3>2, WriteStores
      <3>4. record'[t] = r
        BY <2>0, <3>3 DEF Ends, HandInv
      <3> QED BY <3>3, <3>4
    <2> QED BY <1>1, <2>0, <2>1, <2>2, <2>3, Saves DEF Act
  <1>2. RecordsInv /\ [Next]_vars => [A]_vars
    <2>1. ASSUME RecordsInv, NEW t \in Thread, Act(t) PROVE A
      <3>1. Kept(t)
        BY <2>1, StepHand DEF RecordsInv
      <3> QED BY <1>1, <2>1, <3>1, RecordsAssumption DEF Kept
    <2> QED BY <2>1 DEF Next, Act
  <1> QED BY <1>2, SpecRecordsInv, PTL DEF Spec, SavedIsStored

\* A transaction that reads a record, assigns columns and saves it changes those
\* columns and no others, though saves write every column.
THEOREM NoUpdateIsLost == Spec => TransactionsLoseNoUpdate
  <1> DEFINE B(t) == LET id == record[t].id IN
                (owner = t /\ owner' = t /\ fresh[t] /\ id \in DOMAIN work \cap DOMAIN work') =>
                    \A c \in Column \ touched'[t] : work'[id][c] = work[id][c]
             A == \A t \in Thread : B(t)
  <1>1. ASSUME RecordsInv, NEW t \in Thread, Act(t) PROVE B(t)
    <2>0. DatabaseInv /\ HandInv /\ FreshOf(t)
      BY <1>1 DEF RecordsInv, FreshInv
    <2>1. ASSUME Begin(t) \/ Commit(t) \/ Rollback(t) PROVE B(t)
      BY <2>0, <2>1, RecordsAssumption DEF Begin, Commit, Rollback, Over
    <2>2. ASSUME Delete(t) PROVE B(t)
      BY <2>2 DEF Delete, Store
    <2>3. ASSUME NEW new, Insertable(new), Valid(new), Insert(t, new) PROVE B(t)
      BY <2>0, <2>3, InsertStores
    <2>4. ASSUME NEW r, NEW held, NEW columns \in SUBSET Column,
                 Writable(t, r, held, columns), Valid(r), Write(t, r, held, columns)
          PROVE  B(t)
      <3>1. CASE r.id \notin DOMAIN work
        BY <2>0, <2>4, <3>1, WriteStores
      <3>2. CASE r.id \in DOMAIN work
        <4>1. work'[r.id].name = r.name /\ work'[r.id].active = r.active
          BY <2>0, <2>4, <3>2, WriteStores
        <4>2. fresh[t] => touched'[t] = touched[t] \cup columns
          BY <2>0, <2>4 DEF Write, Touch, HandInv
        <4>3. r.id = record[t].id /\ \A c \in Column \ columns : r[c] = record[t][c]
          BY <2>4 DEF Writable, Replaces
        <4>4. \A c \in Column : work'[r.id][c] = r[c]
          BY <4>1 DEF Column
        <4> QED BY <2>0, <3>2, <4>2, <4>3, <4>4 DEF FreshOf
      <3> QED BY <3>1, <3>2
    <2>5. ASSUME UNCHANGED database PROVE B(t)
      BY <2>5 DEF database
    <2> QED BY <1>1, <2>0, <2>1, <2>2, <2>3, <2>4, <2>5, Kinds
  <1>2. RecordsInv /\ [Next]_vars => [A]_vars
    <2>1. ASSUME RecordsInv, NEW t \in Thread, Act(t), NEW u \in Thread \ {t} PROVE B(u)
      BY <2>1, OthersWait DEF RecordsInv
    <2> QED BY <1>1, <2>1 DEF Next, Act
  <1> QED BY <1>2, SpecRecordsInv, PTL DEF Spec, TransactionsLoseNoUpdate

\* In a transaction create_or_update_by inserts exactly when no row has the
\* columns looked up: nothing comes between its query and its save.
THEOREM UpsertsDecideOnce == Spec => UpsertCreatesOnlyTheMissing
  <1> DEFINE A == \A t \in Thread :
                    (stage[t] = "upsert" /\ owner = t /\ saved' = t) =>
                        (DOMAIN work' = DOMAIN work <=> Matches(work, builder[t].name) # {})
  <1>1. ASSUME RecordsInv, NEW t \in Thread, Act(t), stage[t] = "upsert", owner = t, saved' = t
        PROVE  DOMAIN work' = DOMAIN work <=> Matches(work, builder[t].name) # {}
    <2>0. DatabaseInv /\ HandInv /\ UpsertOf(t) /\ t # NoThread
      BY <1>1, RecordsAssumption DEF RecordsInv, UpsertInv
    <2>1. UpsertSave(t)
      BY <1>1, <2>0 DEF Act, Begin, Commit, Rollback, Over, Build, Assign, SaveNew, Save,
            UpdateFromParams, Find, Reload, Delete, UpsertFind, StatementFails, Ends
    <2>2. CASE record[t].state = "none"
      <3> DEFINE new == NewRecord(builder[t])
      <3>1. Insertable(new)
        BY <1>1, <2>0, NewFields DEF HandInv, Insertable
      <3>2. Create(t, new)
        BY <2>1, <2>2 DEF UpsertSave
      <3> HIDE DEF new
      <3>3. Valid(new) /\ Insert(t, new)
        BY <1>1, <2>0, <3>2 DEF Create, Ends
      <3>4. DOMAIN work' # DOMAIN work
        BY <2>0, <3>1, <3>3, InsertStores
      <3> QED BY <1>1, <2>0, <2>2, <3>4 DEF UpsertOf
    <2>3. CASE record[t].state # "none"
      <3>1. PICK r, held, columns : Update(t, r, held, columns) /\ r.id = record[t].id
        BY <2>0, <2>1, <2>3, AssignedFields DEF UpsertSave, HandInv
      <3>2. Write(t, r, held, columns) /\ ~Ends(t, FALSE, held)
        BY <1>1, <2>0, <3>1 DEF Update, Ends
      <3>3. work' = [work EXCEPT ![r.id].name = r.name, ![r.id].active = r.active]
        BY <3>2 DEF Write, Store
      <3>4. DOMAIN work' = DOMAIN work
        BY <2>0, <3>3 DEF DatabaseInv, TableInv
      <3> QED BY <1>1, <2>0, <2>3, <3>4 DEF UpsertOf
    <2> QED BY <2>2, <2>3
  <1>2. RecordsInv /\ [Next]_vars => [A]_vars
    <2>1. ASSUME RecordsInv, NEW t \in Thread, Act(t) PROVE A
      <3>1. Kept(t)
        BY <2>1, StepHand DEF RecordsInv
      <3> QED BY <1>1, <2>1, <3>1, RecordsAssumption DEF Kept
    <2> QED BY <2>1 DEF Next, Act
  <1> QED BY <1>2, SpecRecordsInv, PTL DEF Spec, UpsertCreatesOnlyTheMissing
=============================================================================
