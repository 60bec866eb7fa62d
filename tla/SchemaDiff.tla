----------------------------- MODULE SchemaDiff -----------------------------
(***************************************************************************)
(* The reconciliation of two schemas, src/src/schema/diff.rs, and what the *)
(* statements of each operation do to a database, src/src/schema/apply.rs. *)
(*                                                                         *)
(* Names of tables, columns and indexes are numbers, in the lexical order  *)
(* of the names they stand for.  A schema maps table names to definitions, *)
(* a database maps them to live tables: a definition with its rows, the    *)
(* order SQLite lists its columns and indexes in, the hand-made indexes on *)
(* it and what else depends on it.                                         *)
(***************************************************************************)
EXTENDS Integers, Sequences, FiniteSets, SequencesExt

CONSTANTS
    NoDefault,      \* the column has no DEFAULT clause
    NumberOf,       \* NumberOf[s]: the integer that the text s spells
    TextOf          \* TextOf[n]: the text that spells the integer n

\* Several texts may spell a number ('7', '07'), one of them is how it is written.
ASSUME StorageAssumption ==
    /\ \A s \in DOMAIN NumberOf : NumberOf[s] \in DOMAIN TextOf
    /\ \A n \in DOMAIN TextOf : TextOf[n] \in DOMAIN NumberOf /\ NumberOf[TextOf[n]] = n
    /\ DOMAIN NumberOf \cap DOMAIN TextOf = {}
    /\ "null" \notin DOMAIN NumberOf \cup DOMAIN TextOf

\* SqlAffinity::from_declared_type, for the types in use.
Affinity(sql_type) ==
    IF sql_type \in {"INT", "INTEGER", "integer"} THEN "integer" ELSE "text"

\* INTEGER PRIMARY KEY, in any case: the key is the rowid.
IsExactKey(key_type) == key_type \in {"INTEGER", "integer"}

Definitions(db) == [t \in DOMAIN db |-> db[t].def]
Columns(def) == DOMAIN def.columns
Indexes(def) == DOMAIN def.indexes

(***************************************************************************)
(* diff                                                                    *)
(***************************************************************************)
Changed(desired, actual) ==
    {c \in Columns(desired) \cap Columns(actual) :
        LET d == desired.columns[c]
            a == actual.columns[c]
        IN  \/ Affinity(d.sql_type) # Affinity(a.sql_type)
            \/ d.nullable # a.nullable
            \/ d.default_sql # a.default_sql}

\* A key type counts by its spelling, which decides its affinity too.
NeedsRebuild(desired, actual) ==
    \/ desired.primary_key # actual.primary_key
    \/ desired.key_type # actual.key_type
    \/ Changed(desired, actual) # {}
    \/ Columns(actual) \ Columns(desired) # {}

\* A new column that existing rows could not have a value for.
Required(column) == ~column.nullable /\ column.default_sql = NoDefault
Missing(desired, actual) == Columns(desired) \ Columns(actual)

\* Mutant: an index is compared by its name only.
IndexDiffers_ByName(desired, actual, i) ==
    i \in Indexes(desired) /\ i \notin Indexes(actual)
IndexDiffers(desired, actual, i) ==
    i \in Indexes(desired) /\ (i \in Indexes(actual) => desired.indexes[i] # actual.indexes[i])

\* A rebuild and a drop carry the table as it was listed, in its live order.
TableOps(t, desired, actual, listed) ==
    IF NeedsRebuild(desired, actual)
    THEN {[kind |-> "RebuildTable", table |-> t, item |-> 0, listed |-> listed,
           from |-> actual, to |-> desired]}
    ELSE {[kind |-> "AddColumn", table |-> t, item |-> c, to |-> desired] :
            c \in {m \in Missing(desired, actual) : ~Required(desired.columns[m])}}
    \cup {[kind |-> "CreateIndex", table |-> t, item |-> i, to |-> desired] :
            i \in {j \in Indexes(desired) : IndexDiffers(desired, actual, j)}}
    \cup {[kind |-> "DropIndex", table |-> t, item |-> i] :
            i \in {j \in Indexes(actual) :
                    j \in Indexes(desired) => IndexDiffers(desired, actual, j)}}

DiffOps(target, db) ==
    {[kind |-> "CreateTable", table |-> t, item |-> 0, to |-> target[t]] :
        t \in DOMAIN target \ DOMAIN db}
    \cup (UNION {TableOps(t, target[t], db[t].def, db[t].listed) :
            t \in DOMAIN target \cap DOMAIN db})
    \cup {[kind |-> "DropTable", table |-> t, item |-> 0, listed |-> db[t].listed] :
            t \in DOMAIN db \ DOMAIN target}

\* The conditions under which apply refuses the plan.
Blockers(target, db) ==
    (UNION {{<<"RequiredColumnAddition", t, c>> :
            c \in {m \in Missing(target[t], db[t].def) : Required(target[t].columns[m])}} :
        t \in DOMAIN target \cap DOMAIN db})
    \cup {<<"UnsupportedInlineFeature", t, 0>> : t \in {u \in DOMAIN target \cap DOMAIN db :
            /\ db[u].unsupported \/ ~IsExactKey(db[u].def.key_type)
            /\ NeedsRebuild(target[u], db[u].def)}}
    \cup {<<"Dependent", t, 0>> : t \in {u \in DOMAIN db : db[u].dependents /\
            (u \in DOMAIN target => NeedsRebuild(target[u], db[u].def))}}

\* Mutant: a rebuild is taken for a safe operation.
IsDestructive_DropOnly(op) == op.kind = "DropTable"
IsDestructive(op) == op.kind \in {"RebuildTable", "DropTable"}

\* plan_op_sort_key
Rank(kind) == CASE kind = "DropIndex" -> 0
                [] kind = "CreateTable" -> 1
                [] kind = "AddColumn" -> 2
                [] kind = "RebuildTable" -> 3
                [] kind = "CreateIndex" -> 4
                [] kind = "DropTable" -> 5

\* Mutant: indexes are dropped last, after the new ones are created.
Precedes_DropIndexLast(a, b) ==
    LET key(op) == <<IF op.kind = "DropIndex" THEN 6 ELSE Rank(op.kind), op.table, op.item>>
    IN  \E k \in 1..3 : /\ key(a)[k] < key(b)[k]
                        /\ \A j \in 1..(k - 1) : key(a)[j] = key(b)[j]
Precedes(a, b) ==
    LET key(op) == <<Rank(op.kind), op.table, op.item>>
    IN  \E k \in 1..3 : /\ key(a)[k] < key(b)[k]
                        /\ \A j \in 1..(k - 1) : key(a)[j] = key(b)[j]

\* In the order of their keys: every operation after those that precede it.
PlanOps(target, db) ==
    LET ops == DiffOps(target, db) IN
    [k \in 1..Cardinality(ops) |->
        CHOOSE op \in ops : Cardinality({o \in ops : Precedes(o, op)}) = k - 1]

(***************************************************************************)
(* The operations on a database.  Each may be refused by SQLite.           *)
(***************************************************************************)
With(f, x, v) == [y \in DOMAIN f \cup {x} |-> IF y = x THEN v ELSE f[y]]
Without(f, x) == [y \in DOMAIN f \ {x} |-> f[y]]

\* Index names are global to the database.
IndexNames(db) == UNION {Indexes(db[t].def) : t \in DOMAIN db}

\* Primary keys are unique, and NULL is distinct from NULL.
Duplicates(def, rows, c) ==
    /\ c # def.primary_key
    /\ \E r, s \in rows : r # s /\ r.cells[c] = s.cells[c] /\ r.cells[c] # "null"
UniqueHolds(def, rows, i) ==
    def.indexes[i].unique => ~Duplicates(def, rows, def.indexes[i].column)

\* What a column of that type stores of a value: the affinity INTEGER turns a
\* text that spells an integer into it, and TEXT an integer into its text.
Stored(sql_type, value) ==
    CASE Affinity(sql_type) = "integer" /\ value \in DOMAIN NumberOf -> NumberOf[value]
      [] Affinity(sql_type) = "text" /\ value \in DOMAIN TextOf -> TextOf[value]
      [] OTHER -> value

\* Mutant: the DEFAULT clause is not rendered.
Fresh_NoDefaultClause(column) == "null"
Fresh(column) ==
    IF column.default_sql = NoDefault THEN "null" ELSE Stored(column.sql_type, "default")

\* INSERT INTO new (retained columns) SELECT ... FROM old: every value is stored
\* as its new column's type has it.
Retained(from, to) == Columns(from) \cap Columns(to)
\* Mutant: only the columns whose declared type is the same are copied.
Copied_SameType(from, to, rows) ==
    {[key |-> r.key,
      cells |-> [c \in Columns(to) |->
        IF c \in Retained(from, to) /\ from.columns[c].sql_type = to.columns[c].sql_type
        THEN Stored(to.columns[c].sql_type, r.cells[c]) ELSE Fresh(to.columns[c])]] : r \in rows}
Copied(from, to, rows) ==
    {[key |-> r.key,
      cells |-> [c \in Columns(to) |->
        IF c \in Retained(from, to) THEN Stored(to.columns[c].sql_type, r.cells[c])
        ELSE Fresh(to.columns[c])]] : r \in rows}

NullsAllowed(def, rows) ==
    \A r \in rows : \A c \in Columns(def) : r.cells[c] = "null" => def.columns[c].nullable

\* Can SQLite run the statements of op on db?
Accepts(db, op) ==
    LET t == op.table IN
    CASE op.kind = "CreateTable" ->
            t \notin DOMAIN db /\ Indexes(op.to) \cap IndexNames(db) = {}
      [] op.kind = "AddColumn" ->
            /\ t \in DOMAIN db /\ op.item \notin Columns(db[t].def) \cup {db[t].def.primary_key}
            /\ Required(op.to.columns[op.item]) => db[t].rows = {}
      [] op.kind = "CreateIndex" ->
            LET index == op.to.indexes[op.item] IN
            /\ op.item \notin IndexNames(db)
            /\ t \in DOMAIN db
            /\ index.column \in Columns(db[t].def) \cup {db[t].def.primary_key}
            /\ index.unique => ~Duplicates(db[t].def, db[t].rows, index.column)
      [] op.kind = "DropIndex" -> op.item \in IndexNames(db)
      [] op.kind = "RebuildTable" ->
            /\ t \in DOMAIN db /\ op.from.primary_key = db[t].def.primary_key
            /\ Retained(op.from, op.to) \subseteq Columns(db[t].def)
            /\ LET rows == Copied(op.from, op.to, db[t].rows) IN
                /\ NullsAllowed(op.to, rows)
                /\ \A i \in Indexes(op.to) : UniqueHolds(op.to, rows, i)
            /\ Indexes(op.to) \cap IndexNames(Without(db, t)) = {}
            /\ op.replay \subseteq Columns(op.to) \cup {op.to.primary_key}
      [] op.kind = "DropTable" -> t \in DOMAIN db

\* The order PRAGMA table_xinfo and index_list list columns and indexes in: a new
\* table has them by name, the index created last first; a column goes to the
\* end, an index to the front.
Listed(def) ==
    [columns |-> SetToSortSeq(Columns(def), LAMBDA a, b : a < b),
     indexes |-> SetToSortSeq(Indexes(def), LAMBDA a, b : a > b)]
ListedColumn(listed, c) == [listed EXCEPT !.columns = Append(@, c)]
ListedIndex(listed, i) == [listed EXCEPT !.indexes = <<i>> \o @]
UnlistedIndex(listed, i) == [listed EXCEPT !.indexes = SelectSeq(@, LAMBDA j : j # i)]

EmptyTable(def) ==
    [def |-> def, rows |-> {}, listed |-> Listed(def), handmade |-> {},
     unsupported |-> FALSE, dependents |-> FALSE]

ColumnAdded(table, c, column) ==
    [table EXCEPT !.def.columns = With(@, c, column),
                  !.rows = {[r EXCEPT !.cells = With(@, c, Fresh(column))] : r \in @},
                  !.listed = ListedColumn(@, c)]
IndexAdded(table, i, index) ==
    [table EXCEPT !.def.indexes = With(@, i, index), !.listed = ListedIndex(@, i)]
IndexDropped(table, i) ==
    IF i \in Indexes(table.def)
    THEN [table EXCEPT !.def.indexes = Without(@, i), !.listed = UnlistedIndex(@, i)]
    ELSE table
Rebuilt(table, op) ==
    [table EXCEPT !.def = op.to, !.rows = Copied(op.from, op.to, @),
                  !.listed = Listed(op.to), !.handmade = op.replay]

\* What they make of it.
Perform(db, op) ==
    LET t == op.table IN
    CASE op.kind = "CreateTable" -> With(db, t, EmptyTable(op.to))
      [] op.kind = "AddColumn" ->
            [db EXCEPT ![t] = ColumnAdded(@, op.item, op.to.columns[op.item])]
      [] op.kind = "CreateIndex" ->
            [db EXCEPT ![t] = IndexAdded(@, op.item, op.to.indexes[op.item])]
      [] op.kind = "DropIndex" -> [u \in DOMAIN db |-> IndexDropped(db[u], op.item)]
      [] op.kind = "RebuildTable" -> [db EXCEPT ![t] = Rebuilt(@, op)]
      [] op.kind = "DropTable" -> Without(db, t)

\* The whole list, within one transaction: all of it or nothing.
PerformAll(db, ops) ==
    LET after[k \in 0..Len(ops)] ==
            IF k = 0 THEN [ok |-> TRUE, db |-> db]
            ELSE LET before == after[k - 1] IN
                 IF before.ok /\ Accepts(before.db, ops[k])
                 THEN [ok |-> TRUE, db |-> Perform(before.db, ops[k])]
                 ELSE [ok |-> FALSE, db |-> before.db]
    IN  after[Len(ops)]

-----------------------------------------------------------------------------
(***************************************************************************)
(* What SQLite can hold and a model can read.                              *)
(***************************************************************************)
\* The key is no column, and an index is on a column or the key.
IsDefinition(def) ==
    /\ def = [primary_key |-> def.primary_key, key_type |-> def.key_type,
              columns |-> def.columns, indexes |-> def.indexes]
    /\ def.indexes = [i \in Indexes(def) |-> def.indexes[i]]
    /\ IsFiniteSet(Columns(def)) /\ IsFiniteSet(Indexes(def))
    /\ def.primary_key \notin Columns(def)
    /\ \A i \in Indexes(def) : def.indexes[i].column \in Columns(def) \cup {def.primary_key}

IsSchema(schema) == IsFiniteSet(DOMAIN schema) /\ \A t \in DOMAIN schema : IsDefinition(schema[t])

\* Every cell is as its column's type stores it.
AsStored(def, rows) ==
    \A r \in rows : \A c \in Columns(def) :
        Stored(def.columns[c].sql_type, r.cells[c]) = r.cells[c]

\* Every row has a key of its own and the table's columns; its cells are as they
\* would be stored; NOT NULL and UNIQUE hold.
IsTable(table) ==
    /\ table = [def |-> table.def, rows |-> table.rows, listed |-> table.listed,
                handmade |-> table.handmade,
                unsupported |-> table.unsupported, dependents |-> table.dependents]
    /\ IsDefinition(table.def)
    /\ \A r \in table.rows :
        r = [key |-> r.key, cells |-> r.cells] /\ DOMAIN r.cells = Columns(table.def)
    /\ \A r, s \in table.rows : r.key = s.key => r = s
    /\ AsStored(table.def, table.rows)
    /\ NullsAllowed(table.def, table.rows)
    /\ \A i \in Indexes(table.def) : UniqueHolds(table.def, table.rows, i)

\* An index has a name of its own.
IsDatabase(db) ==
    /\ IsFiniteSet(DOMAIN db) /\ \A t \in DOMAIN db : IsTable(db[t])
    /\ \A t, u \in DOMAIN db : t # u => Indexes(db[t].def) \cap Indexes(db[u].def) = {}
=============================================================================
