---------------------------- MODULE SchemaProofs ----------------------------
(***************************************************************************)
(* Proofs about planning and applying schema changes: for any models, any  *)
(* database and any operations that SQLite accepts.                        *)
(***************************************************************************)
EXTENDS SchemaApply, FiniteLemmas

-----------------------------------------------------------------------------
(***************************************************************************)
(* A list of operations that is accepted as a whole goes from database to  *)
(* database, one operation at a time.                                      *)
(***************************************************************************)
\* What PerformAll makes of the outcome so far and one more operation.
After(before, op) ==
    IF before.ok /\ Accepts(before.db, op)
    THEN [ok |-> TRUE, db |-> Perform(before.db, op)]
    ELSE [ok |-> FALSE, db |-> before.db]

\* a are the outcomes on the way from d by the operations ops.
Walks(a, d, ops) ==
    /\ a[0] = [ok |-> TRUE, db |-> d]
    /\ \A k \in 1..Len(ops) : a[k] = After(a[k - 1], ops[k])

LEMMA Performed ==
    ASSUME NEW d, NEW ops, Len(ops) \in Nat
    PROVE  \E a : Walks(a, d, ops) /\ PerformAll(d, ops) = a[Len(ops)]
<1> DEFINE n == Len(ops)
           First == [ok |-> TRUE, db |-> d]
           Is(f, m) == f = [k \in 0..m |-> IF k = 0 THEN First ELSE After(f[k - 1], ops[k])]
<1>1. PerformAll(d, ops) = (CHOOSE f : Is(f, n))[n]
  BY DEF PerformAll, After
<1> HIDE DEF First
<1>2. \E f : Is(f, n)
  <2> DEFINE G == {m \in 0..n : \E f : Is(f, m)}
  <2>1. 0 \in G
    <3>1. Is([k \in 0..0 |-> First], 0)
      OBVIOUS
    <3> HIDE DEF Is
    <3>2. \E f : Is(f, 0)
      BY <3>1
    <3> QED
      BY <3>2
  <2>2. ASSUME NEW m \in 1..n, m - 1 \in G PROVE m \in G
    <3>1. PICK f : Is(f, m - 1)
      BY <2>2
    <3> DEFINE g == [k \in 0..m |-> IF k = m THEN After(f[m - 1], ops[m]) ELSE f[k]]
    <3>2. ASSUME NEW k \in 0..m
          PROVE  g[k] = IF k = 0 THEN First ELSE After(g[k - 1], ops[k])
      <4>1. CASE k = m
        BY <4>1
      <4>2. CASE k # m
        <5>1. k \in 0..(m - 1) /\ g[k] = f[k]
          BY <4>2
        <5>2. f[k] = IF k = 0 THEN First ELSE After(f[k - 1], ops[k])
          BY <3>1, <5>1
        <5>3. k # 0 => g[k - 1] = f[k - 1]
          BY <5>1
        <5> QED
          BY <5>1, <5>2, <5>3
      <4> QED
        BY <4>1, <4>2
    <3>3. Is(g, m)
      BY <3>2
    <3> HIDE DEF Is, g
    <3>4. \E h : Is(h, m)
      BY <3>3
    <3> QED
      BY <3>4
  <2>3. n \in G
    <3> HIDE DEF G, Is
    <3>1. \A k \in 0..n : k \in G
      BY <2>1, <2>2, Counting
    <3> QED
      BY <3>1
  <2> HIDE DEF Is
  <2> QED
    BY <2>3
<1>3. PICK a : Is(a, n) /\ PerformAll(d, ops) = a[n]
  BY <1>1, <1>2
<1>4. a[0] = First /\ \A k \in 1..n : a[k] = After(a[k - 1], ops[k])
  BY <1>3
<1> QED
  BY <1>3, <1>4 DEF Walks, First

\* s are the databases on the way from d by the operations ops.
Passes(s, d, ops) ==
    /\ s[0] = d
    /\ \A k \in 1..Len(ops) : Accepts(s[k - 1], ops[k]) /\ s[k] = Perform(s[k - 1], ops[k])

LEMMA Runs ==
    ASSUME NEW d, NEW ops, Len(ops) \in Nat, PerformAll(d, ops).ok
    PROVE  \E s : Passes(s, d, ops) /\ s[Len(ops)] = PerformAll(d, ops).db
<1> DEFINE n == Len(ops)
<1>1. \A before, op : After(before, op).ok =>
            /\ before.ok /\ Accepts(before.db, op)
            /\ After(before, op).db = Perform(before.db, op)
  BY DEF After
<1>2. PICK a : Walks(a, d, ops) /\ PerformAll(d, ops) = a[n]
  BY Performed
<1>3. a[0].db = d /\ \A k \in 1..n : a[k] = After(a[k - 1], ops[k])
  BY <1>2 DEF Walks
<1>4. \A k \in 0..n : a[k].ok
  <2> DEFINE G == {m \in 0..n : a[n - m].ok}
  <2>1. 0 \in G
    BY <1>2
  <2>2. ASSUME NEW m \in 1..n, m - 1 \in G PROVE m \in G
    <3>1. n - (m - 1) \in 1..n /\ (n - (m - 1)) - 1 = n - m
      OBVIOUS
    <3>2. a[n - (m - 1)].ok
      BY <2>2
    <3>3. a[n - (m - 1)] = After(a[n - m], ops[n - (m - 1)])
      BY <1>3, <3>1
    <3>4. a[n - m].ok
      BY <1>1, <3>2, <3>3
    <3> QED
      BY <3>4
  <2>3. \A m \in 0..n : m \in G
    <3> HIDE DEF G
    <3> QED
      BY <2>1, <2>2, Counting
  <2>4. ASSUME NEW k \in 0..n PROVE a[k].ok
    <3>1. n - k \in 0..n /\ n - (n - k) = k
      OBVIOUS
    <3>2. n - k \in G
      BY <2>3, <3>1
    <3>3. a[n - (n - k)].ok
      BY <3>2
    <3> QED
      BY <3>1, <3>3
  <2> QED
    BY <2>4
<1> DEFINE s == [k \in 0..n |-> a[k].db]
<1>5. s[0] = d /\ s[n] = PerformAll(d, ops).db
  BY <1>2, <1>3
<1>6. ASSUME NEW k \in 1..n
      PROVE  Accepts(s[k - 1], ops[k]) /\ s[k] = Perform(s[k - 1], ops[k])
  <2>1. k \in 0..n /\ k - 1 \in 0..n
    OBVIOUS
  <2>2. s[k] = a[k].db /\ s[k - 1] = a[k - 1].db /\ a[k].ok
    BY <1>4, <2>1
  <2>3. a[k] = After(a[k - 1], ops[k])
    BY <1>3
  <2> HIDE DEF s
  <2> QED
    BY <1>1, <2>2, <2>3
<1> QED
  BY <1>5, <1>6 DEF Passes

-----------------------------------------------------------------------------
(***************************************************************************)
(* What a column stores of a value.                                        *)
(***************************************************************************)
LEMMA StoredOnce ==
    ASSUME NEW type, NEW v
    PROVE  Stored(type, Stored(type, v)) = Stored(type, v)
BY StorageAssumption DEF Stored

LEMMA NullStored ==
    ASSUME NEW type, NEW v
    PROVE  Stored(type, v) = "null" <=> v = "null"
BY StorageAssumption DEF Stored

LEMMA StoredByAffinity ==
    ASSUME NEW type, NEW other, Affinity(type) = Affinity(other), NEW v
    PROVE  Stored(type, v) = Stored(other, v)
BY DEF Stored

LEMMA StoredMeansTheSame ==
    ASSUME NEW type, NEW v
    PROVE  Meaning(Stored(type, v)) = Meaning(v)
BY StorageAssumption DEF Stored, Meaning

LEMMA FreshIsStored ==
    ASSUME NEW column
    PROVE  /\ Stored(column.sql_type, Fresh(column)) = Fresh(column)
           /\ Fresh(column) = "null" => column.default_sql = NoDefault
<1>1. "default" # "null"
  OBVIOUS
<1> QED
  BY <1>1, StoredOnce, NullStored DEF Fresh

-----------------------------------------------------------------------------
(***************************************************************************)
(* What SQLite accepts leaves a database behind.                           *)
(***************************************************************************)
Kinds == {"CreateTable", "AddColumn", "CreateIndex", "DropIndex", "RebuildTable", "DropTable"}

\* The definition an operation brings with it, if any.
Carries(op) == op.kind \in {"CreateTable", "RebuildTable"} => IsDefinition(op.to)

LEMMA OneTableChanges ==
    ASSUME NEW d, IsDatabase(d), NEW e, NEW t,
           DOMAIN e = DOMAIN d \cup {t}, IsTable(e[t]),
           \A u \in DOMAIN d \ {t} :
                e[u] = d[u] /\ Indexes(e[t].def) \cap Indexes(d[u].def) = {}
    PROVE  IsDatabase(e)
<1>1. IsFiniteSet(DOMAIN e)
  BY FS_AddElement DEF IsDatabase
<1>2. \A u \in DOMAIN e : IsTable(e[u])
  BY DEF IsDatabase
<1>3. ASSUME NEW u \in DOMAIN e, NEW v \in DOMAIN e, u # v
      PROVE  Indexes(e[u].def) \cap Indexes(e[v].def) = {}
  <2>1. CASE u = t
    BY <1>3, <2>1
  <2>2. CASE v = t
    BY <1>3, <2>2
  <2>3. CASE u # t /\ v # t
    BY <1>3, <2>3 DEF IsDatabase
  <2> QED
    BY <2>1, <2>2, <2>3
<1> QED
  BY <1>1, <1>2, <1>3 DEF IsDatabase

\* A table, and a definition, put together again.
Table(def, rows, listed, handmade, old) ==
    [def |-> def, rows |-> rows, listed |-> listed, handmade |-> handmade,
     unsupported |-> old.unsupported, dependents |-> old.dependents]
Definition(old, columns, indexes) ==
    [primary_key |-> old.primary_key, key_type |-> old.key_type,
     columns |-> columns, indexes |-> indexes]

LEMMA TableIs ==
    ASSUME NEW table, IsTable(table)
    PROVE  /\ table = [def |-> table.def, rows |-> table.rows, listed |-> table.listed,
                       handmade |-> table.handmade,
                       unsupported |-> table.unsupported, dependents |-> table.dependents]
           /\ table.def = [primary_key |-> table.def.primary_key,
                           key_type |-> table.def.key_type,
                           columns |-> table.def.columns, indexes |-> table.def.indexes]
<1>1. IsDefinition(table.def)
  BY DEF IsTable
<1>2. table.def = [primary_key |-> table.def.primary_key, key_type |-> table.def.key_type,
                   columns |-> table.def.columns, indexes |-> table.def.indexes]
  BY <1>1 DEF IsDefinition
<1>3. table = [def |-> table.def, rows |-> table.rows, listed |-> table.listed,
               handmade |-> table.handmade,
               unsupported |-> table.unsupported, dependents |-> table.dependents]
  BY DEF IsTable
<1> QED
  BY <1>2, <1>3

LEMMA ColumnsReplaced ==
    ASSUME NEW table, IsTable(table), NEW columns, NEW rows, NEW listed
    PROVE  [table EXCEPT !.def.columns = columns, !.rows = rows, !.listed = listed] =
                Table(Definition(table.def, columns, table.def.indexes), rows, listed,
                      table.handmade, table)
<1>0. /\ table = [def |-> table.def, rows |-> table.rows, listed |-> table.listed,
                  handmade |-> table.handmade,
                  unsupported |-> table.unsupported, dependents |-> table.dependents]
      /\ table.def = [primary_key |-> table.def.primary_key, key_type |-> table.def.key_type,
                      columns |-> table.def.columns, indexes |-> table.def.indexes]
  BY TableIs
<1> DEFINE new == [table EXCEPT !.def.columns = columns, !.rows = rows, !.listed = listed]
<1>1. new = [table EXCEPT !.def.columns = columns, !.rows = rows, !.listed = listed]
  OBVIOUS
<1> HIDE DEF new
<1>2. new = [def |-> new.def, rows |-> rows, listed |-> listed, handmade |-> table.handmade,
             unsupported |-> table.unsupported, dependents |-> table.dependents]
  BY <1>0, <1>1
<1>3. new.def = [primary_key |-> table.def.primary_key, key_type |-> table.def.key_type,
                 columns |-> columns, indexes |-> table.def.indexes]
  BY <1>0, <1>1
<1> QED
  BY <1>2, <1>3 DEF new, Table, Definition

LEMMA IndexesReplaced ==
    ASSUME NEW table, IsTable(table), NEW indexes, NEW listed
    PROVE  [table EXCEPT !.def.indexes = indexes, !.listed = listed] =
                Table(Definition(table.def, table.def.columns, indexes), table.rows, listed,
                      table.handmade, table)
<1>0. /\ table = [def |-> table.def, rows |-> table.rows, listed |-> table.listed,
                  handmade |-> table.handmade,
                  unsupported |-> table.unsupported, dependents |-> table.dependents]
      /\ table.def = [primary_key |-> table.def.primary_key, key_type |-> table.def.key_type,
                      columns |-> table.def.columns, indexes |-> table.def.indexes]
  BY TableIs
<1> DEFINE new == [table EXCEPT !.def.indexes = indexes, !.listed = listed]
<1>1. new = [table EXCEPT !.def.indexes = indexes, !.listed = listed]
  OBVIOUS
<1> HIDE DEF new
<1>2. new = [def |-> new.def, rows |-> table.rows, listed |-> listed, handmade |-> table.handmade,
             unsupported |-> table.unsupported, dependents |-> table.dependents]
  BY <1>0, <1>1
<1>3. new.def = [primary_key |-> table.def.primary_key, key_type |-> table.def.key_type,
                 columns |-> table.def.columns, indexes |-> indexes]
  BY <1>0, <1>1
<1> QED
  BY <1>2, <1>3 DEF new, Table, Definition

LEMMA TableReplaced ==
    ASSUME NEW table, IsTable(table), NEW def, NEW rows, NEW listed, NEW handmade
    PROVE  [table EXCEPT !.def = def, !.rows = rows, !.listed = listed, !.handmade = handmade] =
                Table(def, rows, listed, handmade, table)
<1>0. /\ table = [def |-> table.def, rows |-> table.rows, listed |-> table.listed,
                  handmade |-> table.handmade,
                  unsupported |-> table.unsupported, dependents |-> table.dependents]
      /\ table.def = [primary_key |-> table.def.primary_key, key_type |-> table.def.key_type,
                      columns |-> table.def.columns, indexes |-> table.def.indexes]
  BY TableIs
<1> DEFINE new == [table EXCEPT !.def = def, !.rows = rows, !.listed = listed, !.handmade = handmade]
<1>1. new = [table EXCEPT !.def = def, !.rows = rows, !.listed = listed, !.handmade = handmade]
  OBVIOUS
<1> HIDE DEF new
<1>2. new = [def |-> def, rows |-> rows, listed |-> listed, handmade |-> handmade,
             unsupported |-> table.unsupported, dependents |-> table.dependents]
  BY <1>0, <1>1
<1> QED
  BY <1>2 DEF new, Table

\* The row with one more cell.
Wider(r, c, column) == [r EXCEPT !.cells = With(@, c, Fresh(column))]

LEMMA ColumnAddedIs ==
    ASSUME NEW table, IsTable(table), NEW c, NEW column
    PROVE  ColumnAdded(table, c, column) =
                Table(Definition(table.def, With(table.def.columns, c, column), table.def.indexes),
                      {Wider(r, c, column) : r \in table.rows}, ListedColumn(table.listed, c),
                      table.handmade, table)
<1> DEFINE columns == With(table.def.columns, c, column)
           rows == {Wider(r, c, column) : r \in table.rows}
           listed == ListedColumn(table.listed, c)
<1> HIDE DEF columns, rows, listed
<1>1. [table EXCEPT !.def.columns = columns, !.rows = rows, !.listed = listed] =
      Table(Definition(table.def, columns, table.def.indexes), rows, listed, table.handmade, table)
  BY ColumnsReplaced, Zenon
<1> QED
  BY <1>1, Zenon DEF columns, rows, listed, ColumnAdded, Wider

LEMMA IndexAddedIs ==
    ASSUME NEW table, IsTable(table), NEW i, NEW index
    PROVE  IndexAdded(table, i, index) =
                Table(Definition(table.def, table.def.columns, With(table.def.indexes, i, index)),
                      table.rows, ListedIndex(table.listed, i), table.handmade, table)
BY IndexesReplaced, Zenon DEF IndexAdded

LEMMA IndexDroppedIs ==
    ASSUME NEW table, IsTable(table), NEW i \in Indexes(table.def)
    PROVE  IndexDropped(table, i) =
                Table(Definition(table.def, table.def.columns, Without(table.def.indexes, i)),
                      table.rows, UnlistedIndex(table.listed, i), table.handmade, table)
BY IndexesReplaced, Zenon DEF IndexDropped

LEMMA DropLeavesColumns ==
    ASSUME NEW table, IsTable(table), NEW i
    PROVE  /\ IndexDropped(table, i).rows = table.rows
           /\ IndexDropped(table, i).handmade = table.handmade
           /\ IndexDropped(table, i).def.columns = table.def.columns
<1>1. CASE i \in Indexes(table.def)
  BY <1>1, IndexDroppedIs DEF Table, Definition
<1>2. CASE i \notin Indexes(table.def)
  BY <1>2 DEF IndexDropped
<1> QED
  BY <1>1, <1>2

LEMMA RebuiltIs ==
    ASSUME NEW table, IsTable(table), NEW op
    PROVE  Rebuilt(table, op) =
                Table(op.to, Copied(op.from, op.to, table.rows), Listed(op.to), op.replay, table)
BY TableReplaced, Zenon DEF Rebuilt

LEMMA CreateTableKeeps ==
    ASSUME NEW d, IsDatabase(d), NEW op, op.kind = "CreateTable", IsDefinition(op.to),
           Accepts(d, op)
    PROVE  IsDatabase(Perform(d, op))
<1> DEFINE t == op.table
           e == Perform(d, op)
<1>1. e = With(d, t, EmptyTable(op.to)) /\ Indexes(op.to) \cap IndexNames(d) = {}
  BY DEF Perform, Accepts
<1>2. /\ DOMAIN e = DOMAIN d \cup {t} /\ e[t] = EmptyTable(op.to)
      /\ \A u \in DOMAIN d \ {t} : e[u] = d[u]
  BY <1>1 DEF With
<1>3. IsTable(EmptyTable(op.to)) /\ EmptyTable(op.to).def = op.to
  BY DEF EmptyTable, IsTable, AsStored, NullsAllowed, UniqueHolds, Duplicates
<1>4. \A u \in DOMAIN d : Indexes(op.to) \cap Indexes(d[u].def) = {}
  BY <1>1 DEF IndexNames
<1> HIDE DEF e
<1> QED
  BY <1>2, <1>3, <1>4, OneTableChanges DEF e

LEMMA DropTableKeeps ==
    ASSUME NEW d, IsDatabase(d), NEW t
    PROVE  IsDatabase(Without(d, t))
<1>1. DOMAIN Without(d, t) = DOMAIN d \ {t} /\ \A u \in DOMAIN d \ {t} : Without(d, t)[u] = d[u]
  BY DEF Without
<1>2. IsFiniteSet(DOMAIN d \ {t})
  BY FS_Difference DEF IsDatabase
<1> QED
  BY <1>1, <1>2 DEF IsDatabase

LEMMA DropIndexKeeps ==
    ASSUME NEW d, IsDatabase(d), NEW op, op.kind = "DropIndex"
    PROVE  IsDatabase(Perform(d, op))
<1> DEFINE e == Perform(d, op)
<1>1. e = [u \in DOMAIN d |-> IndexDropped(d[u], op.item)]
  BY DEF Perform
<1>2. ASSUME NEW u \in DOMAIN d
      PROVE  IsTable(e[u]) /\ Indexes(e[u].def) \subseteq Indexes(d[u].def)
  <2> DEFINE old == d[u]
             new == e[u]
             left == Without(old.def.indexes, op.item)
             listed == UnlistedIndex(old.listed, op.item)
  <2>1. IsTable(old)
    BY DEF IsDatabase
  <2>2. CASE op.item \notin Indexes(old.def)
    <3>1. new = old
      BY <1>1, <2>2, Zenon DEF IndexDropped
    <3> HIDE DEF new, old
    <3> QED
      BY <2>1, <3>1 DEF new, old
  <2>3. CASE op.item \in Indexes(old.def)
    <3>2. new = Table(Definition(old.def, old.def.columns, left), old.rows, listed,
                      old.handmade, old)
      BY <1>1, <2>1, <2>3, IndexDroppedIs
    <3>3. /\ DOMAIN left = Indexes(old.def) \ {op.item}
          /\ left = [i \in DOMAIN left |-> left[i]]
          /\ \A i \in DOMAIN left : left[i] = old.def.indexes[i]
      BY DEF Without, Indexes
    <3> HIDE DEF left, listed, old, new
    <3>4. IsDefinition(old.def)
      BY <2>1 DEF IsTable
    <3>6. /\ new = [def |-> new.def, rows |-> old.rows, listed |-> listed,
                    handmade |-> old.handmade, unsupported |-> old.unsupported, dependents |-> old.dependents]
          /\ new.def = [primary_key |-> old.def.primary_key, key_type |-> old.def.key_type,
                        columns |-> old.def.columns, indexes |-> left]
      BY <3>2 DEF Table, Definition
    <3>7. /\ new.rows = old.rows /\ new.listed = listed /\ new.handmade = old.handmade
          /\ new.unsupported = old.unsupported /\ new.dependents = old.dependents
          /\ new.def.primary_key = old.def.primary_key /\ new.def.key_type = old.def.key_type
          /\ new.def.columns = old.def.columns /\ new.def.indexes = left
      BY <3>6
    <3>8. Indexes(new.def) = Indexes(old.def) \ {op.item} /\ Columns(new.def) = Columns(old.def)
      BY <3>3, <3>7 DEF Indexes, Columns
    <3>9. IsDefinition(new.def)
      <4>1. IsFiniteSet(Indexes(new.def))
        <5>1. IsFiniteSet(Indexes(old.def))
          BY <3>4 DEF IsDefinition
        <5>2. IsFiniteSet(Indexes(old.def) \ {op.item})
          BY <5>1, FS_Difference
        <5> QED
          BY <3>8, <5>2
      <4>2. new.def.indexes = [i \in Indexes(new.def) |-> new.def.indexes[i]]
        BY <3>3, <3>7 DEF Indexes
      <4>3. \A i \in Indexes(new.def) :
              new.def.indexes[i].column \in Columns(new.def) \cup {new.def.primary_key}
        BY <3>3, <3>4, <3>7, <3>8 DEF IsDefinition, Indexes
      <4>4. IsFiniteSet(Columns(new.def)) /\ new.def.primary_key \notin Columns(new.def)
        BY <3>4, <3>7, <3>8 DEF IsDefinition
      <4> QED
        BY <3>6, <3>7, <4>1, <4>2, <4>3, <4>4 DEF IsDefinition
    <3>10. \A i \in Indexes(new.def) : UniqueHolds(new.def, new.rows, i)
      BY <2>1, <3>3, <3>7, <3>8 DEF IsTable, UniqueHolds, Duplicates, Indexes
    <3>11. NullsAllowed(new.def, new.rows)
      BY <2>1, <3>7, <3>8 DEF IsTable, NullsAllowed
    <3>12. AsStored(new.def, new.rows)
      BY <2>1, <3>7, <3>8 DEF IsTable, AsStored
    <3>13. IsTable(new)
      BY <2>1, <3>6, <3>7, <3>8, <3>9, <3>10, <3>11, <3>12 DEF IsTable
    <3> QED
      BY <3>8, <3>13 DEF new, old
  <2> QED
    BY <2>2, <2>3
<1>3. DOMAIN e = DOMAIN d
  BY <1>1
<1> HIDE DEF e
<1> QED
  BY <1>2, <1>3 DEF IsDatabase, e

\* The table an AddColumn leaves behind.
LEMMA AddColumnKeeps ==
    ASSUME NEW d, IsDatabase(d), NEW op, op.kind = "AddColumn", Accepts(d, op)
    PROVE  IsDatabase(Perform(d, op))
<1> DEFINE t == op.table
           e == Perform(d, op)
           old == d[t]
           new == e[t]
           x == op.item
           column == op.to.columns[x]
           columns == With(old.def.columns, x, column)
           listed == ListedColumn(old.listed, x)
           Wide(r) == Wider(r, x, column)
<1>1. /\ t \in DOMAIN d /\ x \notin Columns(old.def) \cup {old.def.primary_key}
      /\ Required(column) => old.rows = {}
  BY DEF Accepts
<1>2. IsTable(old) /\ IsDefinition(old.def)
  BY <1>1 DEF IsDatabase, IsTable
<1>3. /\ DOMAIN e = DOMAIN d /\ \A u \in DOMAIN d \ {t} : e[u] = d[u]
      /\ new = ColumnAdded(old, x, column)
  BY <1>1 DEF Perform
<1>4. new = Table(Definition(old.def, columns, old.def.indexes),
                  {Wide(r) : r \in old.rows}, listed, old.handmade, old)
  <2> HIDE DEF old, new, x, column
  <2> QED
    BY <1>2, <1>3, ColumnAddedIs
<1>5. DOMAIN columns = Columns(old.def) \cup {x} /\ columns[x] = column
      /\ \A c \in Columns(old.def) : columns[c] = old.def.columns[c]
  BY <1>1 DEF With, Columns
<1>6. ASSUME NEW r \in old.rows
      PROVE  /\ Wide(r) = [key |-> r.key, cells |-> Wide(r).cells]
             /\ DOMAIN Wide(r).cells = Columns(old.def) \cup {x}
             /\ Wide(r).cells[x] = Fresh(column)
             /\ \A c \in Columns(old.def) : Wide(r).cells[c] = r.cells[c]
  <2>1. r = [key |-> r.key, cells |-> r.cells] /\ DOMAIN r.cells = Columns(old.def)
    BY <1>2 DEF IsTable
  <2>2. Wide(r) = [key |-> r.key, cells |-> With(r.cells, x, Fresh(column))]
    BY <2>1 DEF Wider
  <2> HIDE DEF Wide
  <2> QED
    BY <1>1, <2>1, <2>2 DEF With
<1> HIDE DEF columns, listed, Wide, e, old, new
<1>7. /\ new = [def |-> new.def, rows |-> new.rows, listed |-> listed,
                handmade |-> old.handmade, unsupported |-> old.unsupported, dependents |-> old.dependents]
      /\ new.rows = {Wide(r) : r \in old.rows}
      /\ new.def = [primary_key |-> old.def.primary_key, key_type |-> old.def.key_type,
                    columns |-> columns, indexes |-> old.def.indexes]
  BY <1>4 DEF Table, Definition
<1>8. /\ new.handmade = old.handmade /\ new.listed = listed
      /\ new.def.primary_key = old.def.primary_key /\ new.def.key_type = old.def.key_type
      /\ new.unsupported = old.unsupported /\ new.dependents = old.dependents
      /\ new.def.columns = columns /\ new.def.indexes = old.def.indexes
  BY <1>7
<1>9. Columns(new.def) = Columns(old.def) \cup {x} /\ Indexes(new.def) = Indexes(old.def)
  BY <1>5, <1>8 DEF Columns, Indexes
<1>10. IsDefinition(new.def)
  <2>1. IsFiniteSet(Columns(new.def))
    <3>1. IsFiniteSet(Columns(old.def))
      BY <1>2 DEF IsDefinition
    <3> QED
      BY <1>9, <3>1, FS_AddElement
  <2>2. new.def.primary_key \notin Columns(new.def)
    BY <1>1, <1>2, <1>8, <1>9 DEF IsDefinition
  <2>3. \A i \in Indexes(new.def) :
            new.def.indexes[i].column \in Columns(new.def) \cup {new.def.primary_key}
    BY <1>2, <1>8, <1>9 DEF IsDefinition
  <2> QED
    BY <1>2, <1>7, <1>8, <1>9, <2>1, <2>2, <2>3 DEF IsDefinition
<1>11. NullsAllowed(new.def, new.rows)
  <2> SUFFICES ASSUME NEW r \in old.rows, NEW c \in Columns(new.def), Wide(r).cells[c] = "null"
               PROVE  new.def.columns[c].nullable
    BY <1>7 DEF NullsAllowed
  <2>1. CASE c = x
    <3>1. Fresh(column) = "null" /\ ~Required(column)
      BY <1>1, <1>6, <2>1
    <3>2. column.default_sql = NoDefault
      BY <3>1, FreshIsStored
    <3> QED
      BY <1>5, <1>8, <2>1, <3>1, <3>2 DEF Required
  <2>2. CASE c \in Columns(old.def)
    BY <1>2, <1>5, <1>6, <1>8, <2>2 DEF IsTable, NullsAllowed
  <2> QED
    BY <1>9, <2>1, <2>2
<1>12. ASSUME NEW i \in Indexes(new.def) PROVE UniqueHolds(new.def, new.rows, i)
  <2> DEFINE c == old.def.indexes[i].column
  <2>1. /\ i \in Indexes(old.def) /\ new.def.indexes[i] = old.def.indexes[i]
        /\ c \in Columns(old.def) \cup {old.def.primary_key}
        /\ UniqueHolds(old.def, old.rows, i)
    BY <1>2, <1>8, <1>9 DEF IsTable, IsDefinition
  <2>2. ASSUME Duplicates(new.def, new.rows, c) PROVE Duplicates(old.def, old.rows, c)
    <3>1. c # old.def.primary_key /\ c \in Columns(old.def)
      BY <1>8, <2>1, <2>2 DEF Duplicates
    <3>2. PICK p \in new.rows, q \in new.rows :
              p # q /\ p.cells[c] = q.cells[c] /\ p.cells[c] # "null"
      BY <2>2 DEF Duplicates
    <3>3. PICK r \in old.rows, s \in old.rows : p = Wide(r) /\ q = Wide(s)
      BY <1>7
    <3>4. r # s /\ r.cells[c] = s.cells[c] /\ r.cells[c] # "null"
      BY <1>6, <3>1, <3>2, <3>3
    <3> QED
      BY <3>1, <3>4 DEF Duplicates
  <2> HIDE DEF c
  <2> QED
    BY <2>1, <2>2 DEF UniqueHolds, c
<1>13. /\ \A r \in new.rows : r = [key |-> r.key, cells |-> r.cells]
                              /\ DOMAIN r.cells = Columns(new.def)
       /\ \A r, s \in new.rows : r.key = s.key => r = s
  <2>1. \A r \in old.rows : Wide(r).key = r.key
    BY <1>6
  <2>2. \A r, s \in old.rows : r.key = s.key => r = s
    BY <1>2 DEF IsTable
  <2>3. \A p \in new.rows : \E r \in old.rows : p = Wide(r)
    BY <1>7
  <2> QED
    BY <1>6, <1>9, <2>1, <2>2, <2>3
<1>14. AsStored(new.def, new.rows)
  <2> SUFFICES ASSUME NEW r \in old.rows, NEW c \in Columns(new.def)
               PROVE  Stored(new.def.columns[c].sql_type, Wide(r).cells[c]) = Wide(r).cells[c]
    BY <1>7 DEF AsStored
  <2>1. CASE c = x
    <3>1. Wide(r).cells[c] = Fresh(column) /\ new.def.columns[c] = column
      BY <1>5, <1>6, <1>8, <2>1
    <3> QED
      BY <3>1, FreshIsStored
  <2>2. CASE c \in Columns(old.def)
    <3>1. Wide(r).cells[c] = r.cells[c] /\ new.def.columns[c] = old.def.columns[c]
      BY <1>5, <1>6, <1>8, <2>2
    <3> QED
      BY <1>2, <2>2, <3>1 DEF IsTable, AsStored
  <2> QED
    BY <1>9, <2>1, <2>2
<1>15. IsTable(new)
  BY <1>7, <1>8, <1>10, <1>11, <1>12, <1>13, <1>14 DEF IsTable
<1>16. \A u \in DOMAIN d \ {t} : Indexes(new.def) \cap Indexes(d[u].def) = {}
  BY <1>1, <1>9 DEF IsDatabase, old
<1>17. DOMAIN e = DOMAIN d \cup {t}
  BY <1>1, <1>3
<1>18. /\ IsTable(e[t])
       /\ \A u \in DOMAIN d \ {t} : e[u] = d[u] /\ Indexes(e[t].def) \cap Indexes(d[u].def) = {}
  BY <1>3, <1>15, <1>16 DEF new
<1>19. IsDatabase(e)
  BY <1>17, <1>18, OneTableChanges
<1> QED
  BY <1>19 DEF e

LEMMA CreateIndexKeeps ==
    ASSUME NEW d, IsDatabase(d), NEW op, op.kind = "CreateIndex", Accepts(d, op)
    PROVE  IsDatabase(Perform(d, op))
<1> DEFINE t == op.table
           e == Perform(d, op)
           old == d[t]
           new == e[t]
           x == op.item
           index == op.to.indexes[x]
           indexes == With(old.def.indexes, x, index)
           listed == ListedIndex(old.listed, x)
<1>1. /\ t \in DOMAIN d /\ x \notin IndexNames(d)
      /\ index.column \in Columns(old.def) \cup {old.def.primary_key}
      /\ index.unique => ~Duplicates(old.def, old.rows, index.column)
  BY DEF Accepts
<1>2. IsTable(old) /\ IsDefinition(old.def)
  BY <1>1 DEF IsDatabase, IsTable
<1>3. /\ DOMAIN e = DOMAIN d /\ \A u \in DOMAIN d \ {t} : e[u] = d[u]
      /\ new = IndexAdded(old, x, index)
  BY <1>1 DEF Perform
<1>4. new = Table(Definition(old.def, old.def.columns, indexes), old.rows, listed,
                  old.handmade, old)
  BY <1>2, <1>3, IndexAddedIs
<1>5. DOMAIN indexes = Indexes(old.def) \cup {x} /\ indexes[x] = index
      /\ indexes = [i \in DOMAIN indexes |-> indexes[i]]
      /\ \A i \in Indexes(old.def) : i # x => indexes[i] = old.def.indexes[i]
  BY DEF With, Indexes
<1>6. \A u \in DOMAIN d : x \notin Indexes(d[u].def)
  BY <1>1 DEF IndexNames
<1> HIDE DEF indexes, listed, e, old, new, index
<1>7. /\ new = [def |-> new.def, rows |-> old.rows, listed |-> listed,
                handmade |-> old.handmade, unsupported |-> old.unsupported, dependents |-> old.dependents]
      /\ new.def = [primary_key |-> old.def.primary_key, key_type |-> old.def.key_type,
                    columns |-> old.def.columns, indexes |-> indexes]
  BY <1>4 DEF Table, Definition
<1>8. /\ new.handmade = old.handmade /\ new.listed = listed
      /\ new.def.primary_key = old.def.primary_key /\ new.def.key_type = old.def.key_type
      /\ new.unsupported = old.unsupported /\ new.dependents = old.dependents
      /\ new.def.columns = old.def.columns /\ new.def.indexes = indexes /\ new.rows = old.rows
  BY <1>7
<1>9. Columns(new.def) = Columns(old.def) /\ Indexes(new.def) = Indexes(old.def) \cup {x}
  BY <1>5, <1>8 DEF Columns, Indexes
<1>10. IsDefinition(new.def)
  <2>1. IsFiniteSet(Indexes(new.def))
    <3>1. IsFiniteSet(Indexes(old.def))
      BY <1>2 DEF IsDefinition
    <3> QED
      BY <1>9, <3>1, FS_AddElement
  <2>2. \A i \in Indexes(new.def) :
            new.def.indexes[i].column \in Columns(new.def) \cup {new.def.primary_key}
    BY <1>1, <1>2, <1>5, <1>8, <1>9 DEF IsDefinition
  <2>3. new.def.indexes = [i \in Indexes(new.def) |-> new.def.indexes[i]]
    BY <1>5, <1>8 DEF Indexes
  <2> QED
    BY <1>2, <1>7, <1>8, <1>9, <2>1, <2>2, <2>3 DEF IsDefinition
<1>11. NullsAllowed(new.def, new.rows)
  BY <1>2, <1>8, <1>9 DEF IsTable, NullsAllowed
<1>12. \A rows, c : Duplicates(new.def, rows, c) <=> Duplicates(old.def, rows, c)
  BY <1>8 DEF Duplicates
<1>13. ASSUME NEW i \in Indexes(new.def) PROVE UniqueHolds(new.def, new.rows, i)
  <2>1. CASE i = x
    BY <1>1, <1>5, <1>8, <1>12, <2>1 DEF UniqueHolds
  <2>2. CASE i # x
    <3>1. i \in Indexes(old.def) /\ new.def.indexes[i] = old.def.indexes[i]
      BY <1>5, <1>8, <1>9, <2>2
    <3> QED
      BY <1>2, <1>8, <1>12, <3>1 DEF UniqueHolds, IsTable
  <2> QED
    BY <2>1, <2>2
<1>14. AsStored(new.def, new.rows)
  BY <1>2, <1>8, <1>9 DEF IsTable, AsStored
<1>15. IsTable(new)
  BY <1>2, <1>7, <1>8, <1>9, <1>10, <1>11, <1>13, <1>14 DEF IsTable
<1>16. \A u \in DOMAIN d \ {t} : Indexes(new.def) \cap Indexes(d[u].def) = {}
  BY <1>1, <1>6, <1>9 DEF IsDatabase, old
<1>17. DOMAIN e = DOMAIN d \cup {t}
  BY <1>1, <1>3
<1>18. /\ IsTable(e[t])
       /\ \A u \in DOMAIN d \ {t} : e[u] = d[u] /\ Indexes(e[t].def) \cap Indexes(d[u].def) = {}
  BY <1>3, <1>15, <1>16 DEF new
<1>19. IsDatabase(e)
  BY <1>17, <1>18, OneTableChanges
<1> QED
  BY <1>19 DEF e

LEMMA RebuildKeeps ==
    ASSUME NEW d, IsDatabase(d), NEW op, op.kind = "RebuildTable", IsDefinition(op.to),
           Accepts(d, op)
    PROVE  IsDatabase(Perform(d, op))
<1> DEFINE t == op.table
           e == Perform(d, op)
           old == d[t]
           new == e[t]
           rows == Copied(op.from, op.to, old.rows)
           listed == Listed(op.to)
<1>1. /\ t \in DOMAIN d
      /\ NullsAllowed(op.to, rows) /\ \A i \in Indexes(op.to) : UniqueHolds(op.to, rows, i)
      /\ Indexes(op.to) \cap IndexNames(Without(d, t)) = {}
  BY DEF Accepts
<1>2. IsTable(old)
  BY <1>1 DEF IsDatabase
<1>3. /\ DOMAIN e = DOMAIN d /\ \A u \in DOMAIN d \ {t} : e[u] = d[u]
      /\ new = Rebuilt(old, op)
  BY <1>1 DEF Perform
<1>4. new = Table(op.to, rows, listed, op.replay, old)
  BY <1>2, <1>3, RebuiltIs
<1>5. /\ \A p \in rows : p = [key |-> p.key, cells |-> p.cells]
                         /\ DOMAIN p.cells = Columns(op.to)
      /\ \A p \in rows : \E r \in old.rows : p.key = r.key
      /\ \A p, q \in rows : p.key = q.key => p = q
      /\ AsStored(op.to, rows)
  <2> DEFINE Copy(r) == [key |-> r.key,
                         cells |-> [c \in Columns(op.to) |->
                            IF c \in Retained(op.from, op.to) THEN Stored(op.to.columns[c].sql_type, r.cells[c])
                            ELSE Fresh(op.to.columns[c])]]
  <2>1. rows = {Copy(r) : r \in old.rows}
    BY DEF Copied
  <2>2. \A r \in old.rows : /\ Copy(r) = [key |-> Copy(r).key, cells |-> Copy(r).cells]
                            /\ DOMAIN Copy(r).cells = Columns(op.to)
                            /\ Copy(r).key = r.key
    OBVIOUS
  <2>3. \A r, s \in old.rows : r.key = s.key => r = s
    BY <1>2 DEF IsTable
  <2>4. ASSUME NEW r \in old.rows, NEW c \in Columns(op.to)
        PROVE  Stored(op.to.columns[c].sql_type, Copy(r).cells[c]) = Copy(r).cells[c]
    <3>1. Copy(r).cells[c] = IF c \in Retained(op.from, op.to)
                             THEN Stored(op.to.columns[c].sql_type, r.cells[c])
                             ELSE Fresh(op.to.columns[c])
      OBVIOUS
    <3> HIDE DEF Copy
    <3> QED
      BY <3>1, StoredOnce, FreshIsStored
  <2> HIDE DEF rows, Copy, old
  <2>5. AsStored(op.to, rows)
    BY <2>1, <2>4 DEF AsStored
  <2> QED
    BY <2>1, <2>2, <2>3, <2>5
<1>6. \A u \in DOMAIN d \ {t} : Indexes(op.to) \cap Indexes(d[u].def) = {}
  BY <1>1 DEF IndexNames, Without
<1> HIDE DEF rows, listed, e, old, new
<1>7. /\ new = [def |-> op.to, rows |-> rows, listed |-> listed,
                handmade |-> op.replay, unsupported |-> old.unsupported, dependents |-> old.dependents]
  BY <1>4 DEF Table
<1>8. /\ new.def = op.to /\ new.rows = rows
      /\ new = [def |-> new.def, rows |-> new.rows, listed |-> new.listed,
                handmade |-> new.handmade, unsupported |-> new.unsupported, dependents |-> new.dependents]
  BY <1>7
<1>9. IsTable(new)
  BY <1>1, <1>5, <1>8 DEF IsTable
<1>10. DOMAIN e = DOMAIN d \cup {t}
  BY <1>1, <1>3
<1> QED
  BY <1>3, <1>6, <1>8, <1>9, <1>10, OneTableChanges DEF new, e

LEMMA StepKeepsDatabase ==
    ASSUME NEW d, IsDatabase(d), NEW op, op.kind \in Kinds, Carries(op), Accepts(d, op)
    PROVE  IsDatabase(Perform(d, op))
<1>1. CASE op.kind = "CreateTable"
  BY <1>1, CreateTableKeeps DEF Carries
<1>2. CASE op.kind = "AddColumn"
  BY <1>2, AddColumnKeeps
<1>3. CASE op.kind = "CreateIndex"
  BY <1>3, CreateIndexKeeps
<1>4. CASE op.kind = "DropIndex"
  BY <1>4, DropIndexKeeps
<1>5. CASE op.kind = "RebuildTable"
  BY <1>5, RebuildKeeps DEF Carries
<1>6. CASE op.kind = "DropTable"
  <2>1. Perform(d, op) = Without(d, op.table)
    BY <1>6 DEF Perform
  <2> QED
    BY <2>1, DropTableKeeps
<1> QED
  BY <1>1, <1>2, <1>3, <1>4, <1>5, <1>6 DEF Kinds

\* So does a whole list of them.
LEMMA ListKeepsDatabase ==
    ASSUME NEW d, IsDatabase(d), NEW ops, Len(ops) \in Nat, NEW s, Passes(s, d, ops),
           \A k \in 1..Len(ops) : ops[k].kind \in Kinds /\ Carries(ops[k])
    PROVE  \A k \in 0..Len(ops) : IsDatabase(s[k])
<1> DEFINE n == Len(ops)
           G == {k \in 0..n : IsDatabase(s[k])}
<1>1. 0 \in G
  BY DEF Passes
<1>2. ASSUME NEW k \in 1..n, k - 1 \in G PROVE k \in G
  <2>1. IsDatabase(s[k - 1])
    BY <1>2
  <2>2. Accepts(s[k - 1], ops[k]) /\ s[k] = Perform(s[k - 1], ops[k])
    BY DEF Passes
  <2>3. IsDatabase(s[k])
    BY <2>1, <2>2, StepKeepsDatabase
  <2> QED
    BY <2>3
<1>3. \A k \in 0..n : k \in G
  <2> HIDE DEF G
  <2> QED
    BY <1>1, <1>2, Counting
<1> QED
  BY <1>3

-----------------------------------------------------------------------------
(***************************************************************************)
(* The operations of a plan.                                               *)
(***************************************************************************)
\* What introspection shows of a database.
Seen(d, scope) == [t \in DOMAIN d \cap scope |-> d[t]]

\* The operations on one table.
Adding(t, c, to) == [kind |-> "AddColumn", table |-> t, item |-> c, to |-> to]
Creating(t, i, to) == [kind |-> "CreateIndex", table |-> t, item |-> i, to |-> to]
Dropping(t, i) == [kind |-> "DropIndex", table |-> t, item |-> i]
Rebuilding(t, from, to, listed) ==
    [kind |-> "RebuildTable", table |-> t, item |-> 0, listed |-> listed,
     from |-> from, to |-> to]
Removing(t, listed) == [kind |-> "DropTable", table |-> t, item |-> 0, listed |-> listed]

\* What an operation that leads from the tables of a to target may be.
Asked(op, target, a) ==
    /\ op.kind \in Kinds
    /\ op.kind = "CreateTable" => op.table \in DOMAIN target \ DOMAIN a
    /\ op.kind \in {"AddColumn", "CreateIndex", "DropIndex", "RebuildTable"} =>
            op.table \in DOMAIN target \cap DOMAIN a
    /\ op.kind = "DropTable" => op.table \in DOMAIN a \ DOMAIN target
    /\ op.kind \in {"CreateTable", "AddColumn", "CreateIndex", "RebuildTable"} =>
            op.to = target[op.table]
    /\ op.kind = "AddColumn" => op.item \notin Columns(a[op.table].def)
    /\ op.kind = "RebuildTable" => op.from = a[op.table].def

LEMMA OpsAreAsked ==
    ASSUME NEW target, NEW a, NEW op \in DiffOps(target, a)
    PROVE  Asked(op, target, a)
<1>1. CASE op \in {[kind |-> "CreateTable", table |-> t, item |-> 0, to |-> target[t]] :
                    t \in DOMAIN target \ DOMAIN a}
  BY <1>1 DEF Asked, Kinds
<1>2. CASE op \in {Removing(t, a[t].listed) : t \in DOMAIN a \ DOMAIN target}
  BY <1>2 DEF Asked, Kinds, Removing
<1>3. ASSUME NEW t \in DOMAIN target \cap DOMAIN a, op \in TableOps(t, target[t], a[t].def, a[t].listed)
      PROVE  Asked(op, target, a)
  <2>1. CASE NeedsRebuild(target[t], a[t].def)
    <3>1. op = [kind |-> "RebuildTable", table |-> t, item |-> 0, listed |-> a[t].listed,
                from |-> a[t].def, to |-> target[t]]
      BY <1>3, <2>1 DEF TableOps
    <3> QED
      BY <3>1 DEF Asked, Kinds
  <2>2. CASE ~NeedsRebuild(target[t], a[t].def)
    <3>1. \/ \E c \in Missing(target[t], a[t].def) :
                op = [kind |-> "AddColumn", table |-> t, item |-> c, to |-> target[t]]
          \/ \E i \in Indexes(target[t]) :
                op = [kind |-> "CreateIndex", table |-> t, item |-> i, to |-> target[t]]
          \/ \E i \in Indexes(a[t].def) : op = [kind |-> "DropIndex", table |-> t, item |-> i]
      BY <1>3, <2>2 DEF TableOps
    <3>2. CASE \E c \in Missing(target[t], a[t].def) :
                op = [kind |-> "AddColumn", table |-> t, item |-> c, to |-> target[t]]
      BY <3>2 DEF Asked, Kinds, Missing
    <3>3. CASE \E i \in Indexes(target[t]) :
                op = [kind |-> "CreateIndex", table |-> t, item |-> i, to |-> target[t]]
      BY <3>3 DEF Asked, Kinds
    <3>4. CASE \E i \in Indexes(a[t].def) : op = [kind |-> "DropIndex", table |-> t, item |-> i]
      BY <3>4 DEF Asked, Kinds
    <3> QED
      BY <3>1, <3>2, <3>3, <3>4
  <2> QED
    BY <2>1, <2>2
<1> QED
  BY <1>1, <1>2, <1>3 DEF DiffOps, Removing

\* The operation that runs: a rebuild knows the hand-made indexes to replay.
Replayed(op, d) ==
    IF op.kind = "RebuildTable" THEN With(op, "replay", d[op.table].handmade) ELSE op

LEMMA ReplayedAreAsked ==
    ASSUME NEW target, NEW a, NEW d, NEW op \in DiffOps(target, a)
    PROVE  /\ Asked(Replayed(op, d), target, a)
           /\ Replayed(op, d).kind = op.kind /\ Replayed(op, d).table = op.table
           /\ op.kind = "RebuildTable" =>
                Replayed(op, d).replay = d[Replayed(op, d).table].handmade
<1>1. Asked(op, target, a)
  BY OpsAreAsked
<1>2. CASE op.kind = "RebuildTable"
  <2>1. PICK t \in DOMAIN target \cap DOMAIN a :
            op = [kind |-> "RebuildTable", table |-> t, item |-> 0, listed |-> a[t].listed,
                  from |-> a[t].def, to |-> target[t]]
    BY <1>2 DEF DiffOps, TableOps
  <2> DEFINE new == Replayed(op, d)
  <2>2. new = With(op, "replay", d[t].handmade)
    BY <1>2, <2>1 DEF Replayed
  <2>3. /\ new.kind = "RebuildTable" /\ new.table = t /\ new.from = a[t].def
        /\ new.to = target[t] /\ new.replay = d[t].handmade
    BY <2>1, <2>2 DEF With
  <2> HIDE DEF new
  <2> QED
    BY <1>2, <2>1, <2>3 DEF Asked, Kinds, new
<1>3. CASE op.kind # "RebuildTable"
  BY <1>1, <1>3 DEF Replayed
<1> QED
  BY <1>2, <1>3

\* A schema and a database differ in finitely many things.
LEMMA FiniteOps ==
    ASSUME NEW target, IsSchema(target), NEW d, IsDatabase(d)
    PROVE  IsFiniteSet(DiffOps(target, d))
<1>1. IsFiniteSet(DOMAIN target) /\ IsFiniteSet(DOMAIN d)
  BY DEF IsSchema, IsDatabase
<1>2. IsFiniteSet(DOMAIN target \ DOMAIN d) /\ IsFiniteSet(DOMAIN d \ DOMAIN target)
  BY <1>1, FS_Difference
<1>3. IsFiniteSet(DOMAIN target \cap DOMAIN d)
  BY <1>1, FS_Subset
<1>4. ASSUME NEW t \in DOMAIN target \cap DOMAIN d
      PROVE  IsFiniteSet(TableOps(t, target[t], d[t].def, d[t].listed))
  <2> DEFINE desired == target[t]
             actual == d[t].def
             listed == d[t].listed
             C == {c \in Missing(desired, actual) : ~Required(desired.columns[c])}
             I == {i \in Indexes(desired) : IndexDiffers(desired, actual, i)}
             J == {i \in Indexes(actual) : i \in Indexes(desired) => IndexDiffers(desired, actual, i)}
             add == [c \in C |-> [kind |-> "AddColumn", table |-> t, item |-> c, to |-> desired]]
             create == [i \in I |-> [kind |-> "CreateIndex", table |-> t, item |-> i, to |-> desired]]
             drop == [i \in J |-> [kind |-> "DropIndex", table |-> t, item |-> i]]
             rebuild == [kind |-> "RebuildTable", table |-> t, item |-> 0, listed |-> listed,
                         from |-> actual, to |-> desired]
  <2>1. /\ IsFiniteSet(Columns(desired)) /\ IsFiniteSet(Indexes(desired))
        /\ IsFiniteSet(Indexes(actual))
    BY DEF IsSchema, IsDatabase, IsTable, IsDefinition
  <2>2. C \subseteq Columns(desired) /\ I \subseteq Indexes(desired) /\ J \subseteq Indexes(actual)
    BY DEF Missing
  <2>3. TableOps(t, desired, actual, listed) =
            IF NeedsRebuild(desired, actual) THEN {rebuild}
            ELSE {add[c] : c \in C} \cup {create[i] : i \in I} \cup {drop[i] : i \in J}
    BY DEF TableOps
  <2>4. add = [c \in C |-> add[c]] /\ create = [i \in I |-> create[i]] /\ drop = [i \in J |-> drop[i]]
    OBVIOUS
  <2> HIDE DEF C, I, J, add, create, drop, rebuild, desired, actual, listed
  <2>5. IsFiniteSet(C) /\ IsFiniteSet(I) /\ IsFiniteSet(J)
    BY <2>1, <2>2, FS_Subset
  <2>6. /\ IsFiniteSet({add[c] : c \in C}) /\ IsFiniteSet({create[i] : i \in I})
        /\ IsFiniteSet({drop[i] : i \in J})
    BY <2>4, <2>5, FiniteImage
  <2>7. IsFiniteSet({add[c] : c \in C} \cup {create[i] : i \in I} \cup {drop[i] : i \in J})
    BY <2>6, FS_Union
  <2>8. IsFiniteSet({rebuild})
    BY FS_Singleton
  <2> QED
    BY <2>3, <2>7, <2>8 DEF desired, actual, listed
<1> DEFINE create == [t \in DOMAIN target \ DOMAIN d |->
                        [kind |-> "CreateTable", table |-> t, item |-> 0, to |-> target[t]]]
           drop == [t \in DOMAIN d \ DOMAIN target |->
                        [kind |-> "DropTable", table |-> t, item |-> 0, listed |-> d[t].listed]]
           change == [t \in DOMAIN target \cap DOMAIN d |-> TableOps(t, target[t], d[t].def, d[t].listed)]
           Creates == {create[t] : t \in DOMAIN target \ DOMAIN d}
           Drops == {drop[t] : t \in DOMAIN d \ DOMAIN target}
           Changes == {change[t] : t \in DOMAIN target \cap DOMAIN d}
<1>5. DiffOps(target, d) = Creates \cup (UNION Changes) \cup Drops
  BY DEF DiffOps
<1>6. IsFiniteSet(Creates) /\ IsFiniteSet(Drops) /\ IsFiniteSet(Changes)
  <2>1. /\ create = [t \in DOMAIN target \ DOMAIN d |-> create[t]]
        /\ drop = [t \in DOMAIN d \ DOMAIN target |-> drop[t]]
        /\ change = [t \in DOMAIN target \cap DOMAIN d |-> change[t]]
    OBVIOUS
  <2> HIDE DEF create, drop, change
  <2> QED
    BY <1>2, <1>3, <2>1, FiniteImage
<1>7. \A T \in Changes : IsFiniteSet(T)
  BY <1>4
<1> HIDE DEF Creates, Drops, Changes
<1>8. IsFiniteSet(UNION Changes)
  BY <1>6, <1>7, FS_UNION
<1>9. IsFiniteSet(Creates \cup (UNION Changes))
  BY <1>6, <1>8, FS_Union
<1>10. IsFiniteSet((Creates \cup (UNION Changes)) \cup Drops)
  BY <1>6, <1>9, FS_Union
<1> QED
  BY <1>5, <1>10

\* A list of operations.
IsList(ops) == Len(ops) \in Nat /\ DOMAIN ops = 1..Len(ops)

LEMMA PlanIsList ==
    ASSUME NEW target, IsSchema(target), NEW d, IsDatabase(d)
    PROVE  IsList(PlanOps(target, d))
<1> DEFINE n == Cardinality(DiffOps(target, d))
           op(k) == CHOOSE op \in DiffOps(target, d) :
                        Cardinality({o \in DiffOps(target, d) : Precedes(o, op)}) = k - 1
<1>1. n \in Nat
  BY FiniteOps, FS_CardinalityType
<1>2. PlanOps(target, d) = [k \in 1..n |-> op(k)]
  BY DEF PlanOps
<1> HIDE DEF n, op
<1>3. Len([k \in 1..n |-> op(k)]) = n /\ DOMAIN [k \in 1..n |-> op(k)] = 1..n
  BY <1>1
<1> QED
  BY <1>1, <1>2, <1>3 DEF IsList

\* SchemaBuilder makes a schema of any models, or none.
LEMMA NormalizedIsSchema ==
    ASSUME NEW models, Normalized(models).ok, IsFiniteSet(ToSet(models)),
           \A table \in ToSet(models) :
                IsFiniteSet(ToSet(table.columns)) /\ IsFiniteSet(ToSet(table.indexes))
    PROVE  IsSchema(Normalized(models).schema)
<1> DEFINE Named(items, n) == CHOOSE item \in ToSet(items) : item.name = n
           Names(items) == {item.name : item \in ToSet(items)}
           Def(table) ==
                [primary_key |-> table.primary_key, key_type |-> table.key_type,
                 columns |-> [n \in Names(table.columns) |->
                    LET c == Named(table.columns, n) IN
                    [sql_type |-> c.sql_type, nullable |-> c.nullable, default_sql |-> c.default_sql]],
                 indexes |-> [n \in Names(table.indexes) |->
                    LET i == Named(table.indexes, n) IN [column |-> i.column, unique |-> i.unique]]]
<1>1. /\ Normalized(models).schema = [n \in Names(models) |-> Def(Named(models, n))]
      /\ \A table \in ToSet(models) : Consistent(table)
  BY DEF Normalized, ByName, Invalid
<1>2. ASSUME NEW items, IsFiniteSet(ToSet(items)) PROVE IsFiniteSet(Names(items))
  <2> DEFINE f == [item \in ToSet(items) |-> item.name]
  <2>1. f = [item \in ToSet(items) |-> f[item]] /\ Names(items) = {f[item] : item \in ToSet(items)}
    OBVIOUS
  <2> HIDE DEF f, Names
  <2> QED
    BY <1>2, <2>1, FiniteImage
<1>3. ASSUME NEW items, NEW n \in Names(items)
      PROVE  Named(items, n) \in ToSet(items)
  OBVIOUS
<1>4. ASSUME NEW table \in ToSet(models) PROVE IsDefinition(Def(table))
  <2>1. /\ Columns(Def(table)) = Names(table.columns) /\ Indexes(Def(table)) = Names(table.indexes)
        /\ Def(table).primary_key = table.primary_key
        /\ \A n \in Names(table.indexes) : Def(table).indexes[n].column = Named(table.indexes, n).column
        /\ Def(table) = [primary_key |-> Def(table).primary_key,
                         key_type |-> Def(table).key_type, columns |-> Def(table).columns,
                         indexes |-> Def(table).indexes]
        /\ Def(table).indexes = [n \in Indexes(Def(table)) |-> Def(table).indexes[n]]
    BY DEF Columns, Indexes
  <2>2. /\ table.primary_key \notin Names(table.columns)
        /\ \A index \in ToSet(table.indexes) :
                index.column \in Names(table.columns) \cup {table.primary_key}
    BY <1>1 DEF Consistent
  <2> HIDE DEF Def, Named, Names
  <2>3. IsFiniteSet(Names(table.columns)) /\ IsFiniteSet(Names(table.indexes))
    BY <1>2
  <2> QED
    BY <1>3, <2>1, <2>2, <2>3 DEF IsDefinition
<1> HIDE DEF Def, Named, Names
<1>5. IsFiniteSet(Names(models))
  BY <1>2
<1> QED
  BY <1>1, <1>3, <1>4, <1>5 DEF IsSchema

-----------------------------------------------------------------------------
(***************************************************************************)
(* The inductive invariant.                                                *)
(***************************************************************************)
\* What apply compares and replays before its transaction, if d is the live
\* database then.
Compared(c, d) ==
    LET p == plan[c]
        actual == Seen(d, PlanScope(p))
    IN  /\ IsDatabase(d)
        /\ Definitions(actual) = p.source
        /\ DiffOps(p.target, actual) = ToSet(p.ops) /\ Blockers(p.target, actual) = {}
        /\ todo[c] = [k \in DOMAIN p.ops |-> Replayed(p.ops[k], d)]

ControlInv ==
    /\ DOMAIN plan = Client /\ DOMAIN stage = Client
    /\ DOMAIN todo = Client /\ DOMAIN outcome = Client

\* A plan leads from what introspection showed to a schema.
PlanOf(c) == plan[c] # NoPlan =>
    /\ IsSchema(plan[c].target)
    /\ \E a : /\ IsDatabase(a) /\ plan[c].source = Definitions(a)
             /\ plan[c].ops = PlanOps(plan[c].target, a)
PlanInv == \A c \in Client : PlanOf(c)

\* An apply that has compared has not answered yet; the database it compared is
\* still the live one, if nobody but the threads of its process can change it.
ApplyOf(c) ==
    /\ stage[c] \in {"idle", "SafeOnly", "AllowDestructive"}
    /\ stage[c] # "idle" =>
        /\ plan[c] # NoPlan /\ outcome[c] = "none"
        /\ \E d : Compared(c, d) /\ (OneProcess => d = db)
        /\ stage[c] = "SafeOnly" => \A k \in DOMAIN todo[c] : ~IsDestructive(todo[c][k])
ApplyInv == \A c \in Client : ApplyOf(c)

\* One apply at a time, in one process.
AloneInv == OneProcess =>
    \A c, b \in Client : stage[c] # "idle" /\ stage[b] # "idle" => c = b

SchemaInv == IsDatabase(db) /\ ControlInv /\ PlanInv /\ ApplyInv /\ AloneInv

LEMMA SeenIsDatabase ==
    ASSUME NEW d, IsDatabase(d), NEW scope
    PROVE  IsDatabase(Seen(d, scope))
<1>1. DOMAIN Seen(d, scope) \subseteq DOMAIN d
  BY DEF Seen
<1>2. \A t \in DOMAIN Seen(d, scope) : Seen(d, scope)[t] = d[t]
  BY DEF Seen
<1>3. IsFiniteSet(DOMAIN Seen(d, scope))
  BY <1>1, FS_Subset DEF IsDatabase
<1> QED
  BY <1>1, <1>2, <1>3 DEF IsDatabase

\* What an apply is about to run is what its plan asks for.
LEMMA TodoIsAsked ==
    ASSUME NEW c \in Client, plan[c] # NoPlan, PlanOf(c), NEW d, Compared(c, d)
    PROVE  /\ IsList(todo[c]) /\ Len(todo[c]) = Len(plan[c].ops)
           /\ \A k \in 1..Len(todo[c]) :
                /\ Asked(todo[c][k], plan[c].target, Seen(d, PlanScope(plan[c])))
                /\ todo[c][k].kind = plan[c].ops[k].kind
                /\ todo[c][k].kind = "RebuildTable" =>
                        todo[c][k].replay = d[todo[c][k].table].handmade
<1> DEFINE p == plan[c]
           actual == Seen(d, PlanScope(p))
           n == Len(p.ops)
<1>0. IsList(p.ops)
  BY PlanIsList DEF PlanOf
<1>1. todo[c] = [k \in 1..n |-> Replayed(p.ops[k], d)] /\ n \in Nat /\ DOMAIN p.ops = 1..n
  BY <1>0 DEF Compared, IsList
<1>2. IsList(todo[c]) /\ Len(todo[c]) = n
  <2> DEFINE r(k) == Replayed(p.ops[k], d)
  <2>1. Len([k \in 1..n |-> r(k)]) = n /\ DOMAIN [k \in 1..n |-> r(k)] = 1..n
    <3> HIDE DEF r, n
    <3> QED
      BY <1>1
  <2> QED
    BY <1>1, <2>1 DEF IsList
<1>3. ASSUME NEW k \in 1..n PROVE p.ops[k] \in DiffOps(p.target, actual)
  BY <1>1 DEF Compared, ToSet
<1>4. ASSUME NEW k \in 1..n
      PROVE  /\ Asked(todo[c][k], p.target, actual)
             /\ todo[c][k].kind = p.ops[k].kind
             /\ todo[c][k].kind = "RebuildTable" =>
                    todo[c][k].replay = d[todo[c][k].table].handmade
  <2>1. todo[c][k] = Replayed(p.ops[k], d)
    BY <1>1
  <2>2. p.ops[k] \in DiffOps(p.target, actual)
    BY <1>3
  <2> HIDE DEF p, actual
  <2>3. /\ Asked(Replayed(p.ops[k], d), p.target, actual)
        /\ Replayed(p.ops[k], d).kind = p.ops[k].kind
        /\ p.ops[k].kind = "RebuildTable" =>
                Replayed(p.ops[k], d).replay = d[Replayed(p.ops[k], d).table].handmade
    <3> DEFINE op == p.ops[k]
               target == p.target
    <3>1. op \in DiffOps(target, actual)
      BY <2>2
    <3> HIDE DEF op, target
    <3>2. /\ Asked(Replayed(op, d), target, actual)
          /\ Replayed(op, d).kind = op.kind /\ Replayed(op, d).table = op.table
          /\ op.kind = "RebuildTable" =>
                Replayed(op, d).replay = d[Replayed(op, d).table].handmade
      BY <3>1, ReplayedAreAsked
    <3> QED
      BY <3>2 DEF op, target
  <2> QED
    BY <2>1, <2>3
<1> QED
  BY <1>2, <1>4

\* An apply that SQLite accepts goes from database to database.
LEMMA ApplyPasses ==
    ASSUME SchemaInv, NEW c \in Client, stage[c] # "idle", PerformAll(db, todo[c]).ok
    PROVE  \E s : /\ Passes(s, db, todo[c])
                  /\ s[Len(todo[c])] = PerformAll(db, todo[c]).db
                  /\ \A k \in 0..Len(todo[c]) : IsDatabase(s[k])
<1>1. plan[c] # NoPlan /\ PlanOf(c) /\ IsSchema(plan[c].target)
  BY DEF SchemaInv, PlanInv, PlanOf, ApplyInv, ApplyOf
<1>2. PICK d : Compared(c, d)
  BY DEF SchemaInv, ApplyInv, ApplyOf
<1>3. /\ Len(todo[c]) \in Nat
      /\ \A k \in 1..Len(todo[c]) :
            Asked(todo[c][k], plan[c].target, Seen(d, PlanScope(plan[c])))
  BY <1>1, <1>2, TodoIsAsked DEF IsList
<1>4. \A k \in 1..Len(todo[c]) : todo[c][k].kind \in Kinds /\ Carries(todo[c][k])
  BY <1>1, <1>3 DEF Asked, Carries, IsSchema
<1>5. PICK s : Passes(s, db, todo[c]) /\ s[Len(todo[c])] = PerformAll(db, todo[c]).db
  BY <1>3, Runs
<1>6. \A k \in 0..Len(todo[c]) : IsDatabase(s[k])
  BY <1>3, <1>4, <1>5, ListKeepsDatabase DEF SchemaInv
<1> QED
  BY <1>5, <1>6

LEMMA SchemaInit == Init => SchemaInv
<1> SUFFICES ASSUME Init PROVE SchemaInv
  OBVIOUS
<1>1. IsDatabase(db)
  BY SchemaAssumption DEF Init
<1>2. ControlInv /\ PlanInv /\ ApplyInv /\ AloneInv
  BY DEF Init, ControlInv, PlanInv, PlanOf, ApplyInv, ApplyOf, AloneInv
<1> QED
  BY <1>1, <1>2 DEF SchemaInv

\* A client that keeps its plan and its apply keeps its part, as long as the
\* database it compared stays or another process may change it.
LEMMA ClientFrame ==
    ASSUME NEW c \in Client, PlanOf(c), ApplyOf(c),
           plan'[c] = plan[c], stage'[c] = stage[c], todo'[c] = todo[c], outcome'[c] = outcome[c],
           stage[c] # "idle" /\ OneProcess => db' = db
    PROVE  PlanOf(c)' /\ ApplyOf(c)'
<1>1. \A d : Compared(c, d)' <=> Compared(c, d)
  BY DEF Compared
<1>2. PlanOf(c)'
  BY DEF PlanOf
<1>3. ASSUME stage[c] # "idle" PROVE \E d : Compared(c, d)' /\ (OneProcess => d = db')
  <2>1. PICK d : Compared(c, d) /\ (OneProcess => d = db)
    BY <1>3 DEF ApplyOf
  <2>2. Compared(c, d)' /\ (OneProcess => d = db')
    BY <1>1, <1>3, <2>1
  <2> QED
    BY <2>2
<1>4. ApplyOf(c)'
  BY <1>3 DEF ApplyOf
<1> QED
  BY <1>2, <1>4

LEMMA BuildPlanKeeps ==
    ASSUME SchemaInv, NEW c \in Client, BuildPlan(c, Desired)
    PROVE  SchemaInv'
<1>0. ControlInv /\ PlanInv /\ ApplyInv /\ AloneInv /\ IsDatabase(db)
  BY DEF SchemaInv
<1>1. /\ stage[c] = "idle" /\ db' = db /\ stage' = stage /\ todo' = todo
      /\ \E o : outcome' = [outcome EXCEPT ![c] = o]
  BY DEF BuildPlan
<1>2. \/ UNCHANGED plan
      \/ \E p : /\ plan' = [plan EXCEPT ![c] = p]
                /\ IsSchema(p.target)
                /\ \E a : /\ IsDatabase(a) /\ p.source = Definitions(a)
                         /\ p.ops = PlanOps(p.target, a)
  <2>1. PICK last \in {LastTarget}, desired \in Desired :
          LET target == desired.schema
              actual == Introspect(ManagedScope(target, last.schema))
          IN  \/ /\ desired.ok /\ last.ok
                 /\ plan' = [plan EXCEPT ![c] =
                      [source |-> Definitions(actual), target |-> target,
                       ops |-> PlanOps(target, actual), blockers |-> Blockers(target, actual)]]
              \/ UNCHANGED plan
    BY DEF BuildPlan
  <2> DEFINE target == desired.schema
             scope == ManagedScope(target, last.schema)
             actual == Seen(db, scope)
             p == [source |-> Definitions(actual), target |-> target,
                   ops |-> PlanOps(target, actual), blockers |-> Blockers(target, actual)]
  <2>2. Introspect(scope) = actual
    BY DEF Introspect, Seen
  <2>3. CASE UNCHANGED plan
    BY <2>3
  <2>4. CASE desired.ok /\ plan' = [plan EXCEPT ![c] = p]
    <3>1. IsSchema(target)
      <4>1. PICK models \in Target : desired = Normalized(models)
        BY DEF Desired
      <4> QED
        BY <2>4, <4>1, NormalizedIsSchema, SchemaAssumption
    <3>2. IsDatabase(actual)
      BY <1>0, SeenIsDatabase
    <3> HIDE DEF target, scope, actual
    <3>3. /\ p.target = target /\ p.source = Definitions(actual)
          /\ p.ops = PlanOps(target, actual)
      OBVIOUS
    <3> HIDE DEF p
    <3> QED
      BY <2>4, <3>1, <3>2, <3>3
  <2> QED
    BY <2>1, <2>2, <2>3, <2>4
<1>3. ASSUME NEW u \in Client PROVE PlanOf(u)' /\ ApplyOf(u)'
  <2>1. CASE u # c
    BY <1>0, <1>1, <1>2, <2>1, ClientFrame DEF ControlInv, PlanInv, ApplyInv
  <2>2. CASE u = c
    <3>1. PlanOf(c)'
      BY <1>0, <1>2 DEF ControlInv, PlanInv, PlanOf
    <3>2. ApplyOf(c)'
      BY <1>1 DEF ApplyOf
    <3> QED
      BY <2>2, <3>1, <3>2
  <2> QED
    BY <2>1, <2>2
<1>4. ControlInv'
  BY <1>0, <1>1, <1>2 DEF ControlInv
<1>5. AloneInv' /\ IsDatabase(db')
  BY <1>0, <1>1 DEF AloneInv
<1> QED
  BY <1>3, <1>4, <1>5 DEF SchemaInv, PlanInv, ApplyInv

LEMMA RefuseKeeps ==
    ASSUME SchemaInv, NEW c \in Client, NEW mode, Refuse(c, mode)
    PROVE  SchemaInv'
<1>0. ControlInv /\ PlanInv /\ ApplyInv /\ AloneInv /\ IsDatabase(db)
  BY DEF SchemaInv
<1>1. /\ stage[c] = "idle" /\ UNCHANGED <<db, plan, stage, todo>>
      /\ \E o : outcome' = [outcome EXCEPT ![c] = o]
  BY DEF Refuse, CanApply
<1>2. ASSUME NEW u \in Client PROVE PlanOf(u)' /\ ApplyOf(u)'
  <2>1. CASE u # c
    BY <1>0, <1>1, <2>1, ClientFrame DEF ControlInv, PlanInv, ApplyInv
  <2>2. CASE u = c
    BY <1>0, <1>1, <2>2 DEF PlanInv, PlanOf, ApplyOf
  <2> QED
    BY <2>1, <2>2
<1>3. ControlInv' /\ AloneInv' /\ IsDatabase(db')
  BY <1>0, <1>1 DEF ControlInv, AloneInv
<1> QED
  BY <1>2, <1>3 DEF SchemaInv, PlanInv, ApplyInv

LEMMA CheckKeeps ==
    ASSUME SchemaInv, NEW c \in Client, NEW mode \in {"SafeOnly", "AllowDestructive"},
           Check(c, mode)
    PROVE  SchemaInv'
<1>0. ControlInv /\ PlanInv /\ ApplyInv /\ AloneInv /\ IsDatabase(db)
  BY DEF SchemaInv
<1> DEFINE p == plan[c]
           actual == Seen(db, PlanScope(p))
<1>1. /\ stage[c] = "idle" /\ p # NoPlan /\ GateFree
      /\ ~Drifted(p) /\ ~Replanned(p) /\ ~Refused(p, mode)
      /\ UNCHANGED <<db, plan>>
      /\ stage' = [stage EXCEPT ![c] = mode]
      /\ todo' = [todo EXCEPT ![c] = Replay(p.ops)]
      /\ outcome' = [outcome EXCEPT ![c] = "none"]
  BY DEF Check, CanApply
<1>2. Introspect(PlanScope(p)) = actual
  BY DEF Introspect, Seen
<1>3. Replay(p.ops) = [k \in DOMAIN p.ops |-> Replayed(p.ops[k], db)]
  BY DEF Replay, Replayed
<1>4. /\ stage'[c] = mode /\ outcome'[c] = "none"
      /\ todo'[c] = [k \in DOMAIN p.ops |-> Replayed(p.ops[k], db)]
  BY <1>0, <1>1, <1>3 DEF ControlInv
<1>5. Compared(c, db)'
  <2>1. /\ Definitions(actual) = p.source
        /\ DiffOps(p.target, actual) = ToSet(p.ops) /\ Blockers(p.target, actual) = {}
    BY <1>1, <1>2 DEF Drifted, Replanned, Refused
  <2> QED
    BY <1>0, <1>1, <1>4, <2>1 DEF Compared
<1>6. mode = "SafeOnly" => \A k \in DOMAIN todo'[c] : ~IsDestructive(todo'[c][k])
  <2> SUFFICES ASSUME mode = "SafeOnly", NEW k \in DOMAIN p.ops
               PROVE  ~IsDestructive(todo'[c][k])
    BY <1>4
  <2>1. ~IsDestructive(p.ops[k])
    BY <1>1 DEF Refused
  <2>2. todo'[c][k] = p.ops[k]
    BY <1>4, <2>1 DEF Replayed, IsDestructive
  <2> QED
    BY <2>1, <2>2
<1>7. ASSUME NEW u \in Client PROVE PlanOf(u)' /\ ApplyOf(u)'
  <2>1. CASE u # c
    BY <1>0, <1>1, <2>1, ClientFrame DEF ControlInv, PlanInv, ApplyInv
  <2>2. CASE u = c
    <3>1. PlanOf(c)'
      BY <1>0, <1>1 DEF PlanInv, PlanOf
    <3>2. stage'[c] \in {"SafeOnly", "AllowDestructive"} /\ plan'[c] # NoPlan
      BY <1>1, <1>4
    <3>3. \E d : Compared(c, d)' /\ (OneProcess => d = db')
      BY <1>1, <1>5
    <3>4. ApplyOf(c)'
      BY <1>4, <1>6, <3>2, <3>3 DEF ApplyOf
    <3> QED
      BY <2>2, <3>1, <3>4
  <2> QED
    BY <2>1, <2>2
<1>8. AloneInv'
  BY <1>0, <1>1 DEF AloneInv, GateFree, ControlInv
<1>9. ControlInv' /\ IsDatabase(db')
  BY <1>0, <1>1 DEF ControlInv
<1> QED
  BY <1>7, <1>8, <1>9 DEF SchemaInv, PlanInv, ApplyInv

\* The end of an apply, however it went.
LEMMA FinishKeeps ==
    ASSUME SchemaInv, NEW c \in Client, stage[c] # "idle", NEW how, Finish(c, how),
           IsDatabase(db')
    PROVE  SchemaInv'
<1>0. ControlInv /\ PlanInv /\ ApplyInv /\ AloneInv
  BY DEF SchemaInv
<1>1. /\ outcome' = [outcome EXCEPT ![c] = how]
      /\ stage' = [stage EXCEPT ![c] = "idle"]
      /\ todo' = [todo EXCEPT ![c] = <<>>]
      /\ plan' = plan
  BY DEF Finish
<1>2. ASSUME NEW u \in Client PROVE PlanOf(u)' /\ ApplyOf(u)'
  <2>1. CASE u # c
    <3>1. ~(stage[u] # "idle" /\ OneProcess)
      BY <1>0, <2>1 DEF AloneInv
    <3> QED
      BY <1>0, <1>1, <2>1, <3>1, ClientFrame DEF ControlInv, PlanInv, ApplyInv
  <2>2. CASE u = c
    BY <1>0, <1>1, <2>2 DEF ControlInv, PlanInv, PlanOf, ApplyOf
  <2> QED
    BY <2>1, <2>2
<1>3. ControlInv' /\ AloneInv'
  BY <1>0, <1>1 DEF ControlInv, AloneInv
<1> QED
  BY <1>2, <1>3 DEF SchemaInv, PlanInv, ApplyInv

LEMMA ApplyKeeps ==
    ASSUME SchemaInv, NEW c \in Client, Apply(c)
    PROVE  SchemaInv'
<1>1. /\ stage[c] # "idle" /\ \E how : Finish(c, how)
      /\ PerformAll(db, todo[c]).ok /\ db' = PerformAll(db, todo[c]).db
  BY DEF Apply
<1>2. PICK s : /\ s[Len(todo[c])] = PerformAll(db, todo[c]).db
               /\ \A k \in 0..Len(todo[c]) : IsDatabase(s[k])
  BY <1>1, ApplyPasses
<1>3. Len(todo[c]) \in Nat
  <2>1. PlanOf(c) /\ plan[c] # NoPlan /\ \E d : Compared(c, d)
    BY <1>1 DEF SchemaInv, PlanInv, ApplyInv, ApplyOf
  <2> QED
    BY <2>1, TodoIsAsked DEF PlanOf, IsList
<1>4. IsDatabase(db')
  <2>1. Len(todo[c]) \in 0..Len(todo[c])
    BY <1>3
  <2> QED
    BY <1>1, <1>2, <2>1
<1> QED
  BY <1>1, <1>4, FinishKeeps

LEMMA ApplyEndsKeeps ==
    ASSUME SchemaInv, NEW c \in Client, ApplyRejected(c) \/ ApplyFails(c)
    PROVE  SchemaInv'
<1>1. stage[c] # "idle" /\ db' = db /\ \E how : Finish(c, how)
  BY DEF ApplyRejected, ApplyFails
<1>2. IsDatabase(db')
  BY <1>1 DEF SchemaInv
<1> QED
  BY <1>1, <1>2, FinishKeeps

\* A row that is added has a key of its own.
LEMMA InsertKeepsDatabase ==
    ASSUME IsDatabase(db), InsertRow
    PROVE  IsDatabase(db')
<1>1. PICK t \in DOMAIN db, key \in 1..MaxRows : \E values \in [Columns(db[t].def) -> Cells] :
        LET row == [key |-> key, cells |-> [x \in Columns(db[t].def) |->
                        Stored(db[t].def.columns[x].sql_type, values[x])]]
            rows == db[t].rows \cup {row}
        IN
        /\ {r.key : r \in db[t].rows} = 1..(key - 1)
        /\ NullsAllowed(db[t].def, rows)
        /\ \A i \in Indexes(db[t].def) : UniqueHolds(db[t].def, rows, i)
        /\ db' = [db EXCEPT ![t].rows = rows]
  BY DEF InsertRow
<1>2. PICK values \in [Columns(db[t].def) -> Cells] :
        LET row == [key |-> key, cells |-> [x \in Columns(db[t].def) |->
                        Stored(db[t].def.columns[x].sql_type, values[x])]]
            rows == db[t].rows \cup {row}
        IN
        /\ {r.key : r \in db[t].rows} = 1..(key - 1)
        /\ NullsAllowed(db[t].def, rows)
        /\ \A i \in Indexes(db[t].def) : UniqueHolds(db[t].def, rows, i)
        /\ db' = [db EXCEPT ![t].rows = rows]
  BY <1>1
<1> DEFINE old == db[t]
           new == db'[t]
           cells == [x \in Columns(old.def) |-> Stored(old.def.columns[x].sql_type, values[x])]
           row == [key |-> key, cells |-> cells]
           rows == old.rows \cup {row}
<1>3. IsTable(old)
  BY DEF IsDatabase
<1>4. old = [def |-> old.def, rows |-> old.rows, listed |-> old.listed,
             handmade |-> old.handmade, unsupported |-> old.unsupported, dependents |-> old.dependents]
  BY <1>3 DEF IsTable
<1>5. /\ DOMAIN db' = DOMAIN db /\ \A u \in DOMAIN db \ {t} : db'[u] = db[u]
      /\ new = [old EXCEPT !.rows = rows]
  BY <1>2
<1>6. /\ row = [key |-> row.key, cells |-> row.cells] /\ DOMAIN row.cells = Columns(old.def)
      /\ row.key = key
      /\ \A x \in Columns(old.def) :
            row.cells[x] = Stored(old.def.columns[x].sql_type, values[x])
  OBVIOUS
<1>7. ASSUME NEW r \in old.rows PROVE r.key # row.key
  <2>1. r.key \in 1..(key - 1)
    BY <1>2
  <2>2. key \in Nat
    BY SchemaAssumption
  <2> QED
    BY <1>6, <2>1, <2>2
<1>8. NullsAllowed(old.def, rows) /\ \A i \in Indexes(old.def) : UniqueHolds(old.def, rows, i)
  BY <1>2
<1> HIDE DEF row, old, new
<1>9. new = [def |-> old.def, rows |-> rows, listed |-> old.listed,
             handmade |-> old.handmade, unsupported |-> old.unsupported, dependents |-> old.dependents]
  BY <1>4, <1>5
<1>10. /\ \A r \in rows : r = [key |-> r.key, cells |-> r.cells] /\ DOMAIN r.cells = Columns(old.def)
       /\ \A r, s \in rows : r.key = s.key => r = s
  BY <1>3, <1>6, <1>7 DEF IsTable
<1>11. AsStored(old.def, rows)
  BY <1>3, <1>6, StoredOnce DEF IsTable, AsStored
<1> HIDE DEF rows
<1>12. /\ new.def = old.def /\ new.rows = rows
       /\ new = [def |-> new.def, rows |-> new.rows, listed |-> new.listed,
                 handmade |-> new.handmade, unsupported |-> new.unsupported, dependents |-> new.dependents]
  BY <1>9
<1>13. IsTable(new)
  BY <1>3, <1>8, <1>10, <1>12, <1>11 DEF IsTable
<1>14. \A u \in DOMAIN db \ {t} : Indexes(new.def) \cap Indexes(db[u].def) = {}
  BY <1>12 DEF IsDatabase, old
<1>15. DOMAIN db' = DOMAIN db \cup {t}
  BY <1>5
<1> QED
  BY <1>5, <1>13, <1>14, <1>15, OneTableChanges DEF new

LEMMA InsertRowKeeps ==
    ASSUME SchemaInv, InsertRow
    PROVE  SchemaInv'
<1>0. ControlInv /\ PlanInv /\ ApplyInv /\ AloneInv /\ IsDatabase(db)
  BY DEF SchemaInv
<1>1. GateFree /\ UNCHANGED <<plan, stage, todo, outcome>>
  BY DEF InsertRow
<1>2. ASSUME NEW u \in Client PROVE PlanOf(u)' /\ ApplyOf(u)'
  BY <1>0, <1>1, ClientFrame DEF PlanInv, ApplyInv, GateFree
<1>3. ControlInv' /\ AloneInv'
  BY <1>0, <1>1 DEF ControlInv, AloneInv
<1>4. IsDatabase(db')
  BY <1>0, InsertKeepsDatabase
<1> QED
  BY <1>2, <1>3, <1>4 DEF SchemaInv, PlanInv, ApplyInv

LEMMA StutterKeeps ==
    ASSUME SchemaInv, UNCHANGED vars
    PROVE  SchemaInv'
<1>0. ControlInv /\ PlanInv /\ ApplyInv /\ AloneInv /\ IsDatabase(db)
  BY DEF SchemaInv
<1>1. UNCHANGED <<db, plan, stage, todo, outcome>>
  BY DEF vars
<1>2. ASSUME NEW u \in Client PROVE PlanOf(u)' /\ ApplyOf(u)'
  BY <1>0, <1>1, ClientFrame DEF PlanInv, ApplyInv
<1>3. ControlInv' /\ AloneInv' /\ IsDatabase(db')
  BY <1>0, <1>1 DEF ControlInv, AloneInv
<1> QED
  BY <1>2, <1>3 DEF SchemaInv, PlanInv, ApplyInv

LEMMA SchemaStep == SchemaInv /\ [Next]_vars => SchemaInv'
<1> SUFFICES ASSUME SchemaInv, [Next]_vars PROVE SchemaInv'
  OBVIOUS
<1>1. ASSUME NEW c \in Client, BuildPlan(c, Desired) PROVE SchemaInv'
  BY <1>1, BuildPlanKeeps
<1>2. ASSUME NEW c \in Client, NEW mode \in {"SafeOnly", "AllowDestructive"}, Check(c, mode)
      PROVE  SchemaInv'
  BY <1>2, CheckKeeps
<1>3. ASSUME NEW c \in Client, NEW mode, Refuse(c, mode) PROVE SchemaInv'
  BY <1>3, RefuseKeeps
<1>4. ASSUME NEW c \in Client, Apply(c) PROVE SchemaInv'
  BY <1>4, ApplyKeeps
<1>5. ASSUME NEW c \in Client, ApplyRejected(c) \/ ApplyFails(c) PROVE SchemaInv'
  BY <1>5, ApplyEndsKeeps
<1>6. CASE InsertRow
  BY <1>6, InsertRowKeeps
<1>7. CASE UNCHANGED vars
  BY <1>7, StutterKeeps
<1> QED
  BY <1>1, <1>2, <1>3, <1>4, <1>5, <1>6, <1>7 DEF Next, Step

LEMMA SchemaAlways == Spec => []SchemaInv
<1>1. Init => SchemaInv
  BY SchemaInit
<1>2. SchemaInv /\ [Next]_vars => SchemaInv'
  BY SchemaStep
<1> QED
  BY <1>1, <1>2, PTL DEF Spec

-----------------------------------------------------------------------------
(***************************************************************************)
(* Theorems.                                                               *)
(***************************************************************************)
\* Whatever is planned and applied, by any number of clients and processes and
\* in whatever order: the live database stays one SQLite could hold and a model
\* could read, and what an apply runs is a plan, operation by operation.
THEOREM SchemaTypeOK == Spec => []TypeOK
<1>1. SchemaInv => TypeOK
  <2> SUFFICES ASSUME SchemaInv PROVE TypeOK
    OBVIOUS
  <2>1. ASSUME NEW c \in Client, stage[c] # "idle"
        PROVE  plan[c] # NoPlan /\ Len(todo[c]) = Len(plan[c].ops)
    <3>1. plan[c] # NoPlan /\ PlanOf(c) /\ \E d : Compared(c, d)
      BY <2>1 DEF SchemaInv, PlanInv, ApplyInv, ApplyOf
    <3> QED
      BY <3>1, TodoIsAsked DEF PlanOf
  <2> QED
    BY <2>1 DEF TypeOK, SchemaInv, ApplyInv, ApplyOf
<1> QED
  BY <1>1, SchemaAlways, PTL

\* The threads of one process never run the operations of a plan on another
\* schema than the plan was made for: the gate is held from the comparison to
\* the commit.  A second process is not kept out by it (the hypothesis).
THEOREM PlansRunOnTheirSource ==
    ASSUME OneProcess
    PROVE  Spec => RunsOnPlannedSource
<1>1. ASSUME SchemaInv, NEW c \in Client, Commits(c)
      PROVE  Definitions(Introspect(PlanScope(plan[c]))) = plan[c].source
  <2>1. Compared(c, db)
    BY <1>1 DEF Commits, SchemaInv, ApplyInv, ApplyOf
  <2> QED
    BY <2>1 DEF Compared, Introspect, Seen
<1>2. SchemaInv /\ [Next]_vars =>
        [\A c \in Client : Commits(c) =>
            Definitions(Introspect(PlanScope(plan[c]))) = plan[c].source]_vars
  BY <1>1
<1> QED
  BY <1>2, SchemaAlways, PTL DEF Spec, RunsOnPlannedSource

-----------------------------------------------------------------------------
(***************************************************************************)
(* What an apply keeps of a table.                                         *)
(***************************************************************************)
\* An apply is answered only by its own commit.
LEMMA CommitIsApply ==
    ASSUME SchemaInv, [Next]_vars, NEW c \in Client, Commits(c)
    PROVE  Apply(c)
<1>0. DOMAIN outcome = Client
  BY DEF SchemaInv, ControlInv
<1>1. stage[c] # "idle" /\ outcome[c] = "none" /\ outcome'[c] \in {"applied", "optimize_failed"}
  BY DEF Commits, SchemaInv, ApplyInv, ApplyOf
<1>2. ASSUME NEW b \in Client, BuildPlan(b, Desired) PROVE FALSE
  <2>1. b # c /\ \E how : outcome' = [outcome EXCEPT ![b] = how]
    BY <1>1, <1>2 DEF BuildPlan
  <2> QED
    BY <1>1, <2>1
<1>3. ASSUME NEW b \in Client, NEW mode, Check(b, mode) \/ Refuse(b, mode) PROVE FALSE
  <2>1. b # c /\ \E how : outcome' = [outcome EXCEPT ![b] = how]
    BY <1>1, <1>3 DEF Check, Refuse, CanApply
  <2> QED
    BY <1>1, <2>1
<1>4. ASSUME NEW b \in Client, ApplyRejected(b) \/ ApplyFails(b) PROVE FALSE
  <2>1. \E how \in {"rejected", "failed"} : outcome' = [outcome EXCEPT ![b] = how]
    BY <1>4 DEF ApplyRejected, ApplyFails, Finish
  <2> QED
    BY <1>0, <1>1, <2>1
<1>5. ASSUME NEW b \in Client, Apply(b) PROVE b = c
  <2>1. \E how : outcome' = [outcome EXCEPT ![b] = how]
    BY <1>5 DEF Apply, Finish
  <2> QED
    BY <1>1, <2>1
<1>6. ~InsertRow /\ ~UNCHANGED vars
  BY <1>1 DEF InsertRow, vars
<1> QED
  BY <1>2, <1>3, <1>4, <1>5, <1>6 DEF Next, Step

\* An apply that ends in another way leaves the database and its plan.
LEMMA EndsWithoutCommit ==
    ASSUME SchemaInv, [Next]_vars,
           NEW c \in Client, stage[c] # "idle", stage'[c] = "idle", ~Commits(c)
    PROVE  UNCHANGED <<db, plan>>
<1>0. DOMAIN outcome = Client /\ DOMAIN stage = Client
  BY DEF SchemaInv, ControlInv
<1>1. ASSUME NEW b \in Client, BuildPlan(b, Desired) \/ \E mode : Refuse(b, mode) PROVE FALSE
  BY <1>1 DEF BuildPlan, Refuse
<1>2. ASSUME NEW b \in Client, NEW mode \in {"SafeOnly", "AllowDestructive"}, Check(b, mode)
      PROVE  FALSE
  <2>1. b # c /\ stage' = [stage EXCEPT ![b] = mode]
    BY <1>2 DEF Check, CanApply
  <2> QED
    BY <2>1
<1>3. ASSUME NEW b \in Client, Apply(b) PROVE FALSE
  <2>1. PICK how \in {"applied", "optimize_failed"} : Finish(b, how)
    BY <1>3 DEF Apply
  <2>2. outcome' = [outcome EXCEPT ![b] = how] /\ stage' = [stage EXCEPT ![b] = "idle"]
    BY <2>1 DEF Finish
  <2>3. b = c
    BY <2>2
  <2> QED
    BY <1>0, <2>2, <2>3 DEF Commits
<1>4. ASSUME NEW b \in Client, ApplyRejected(b) \/ ApplyFails(b) PROVE UNCHANGED <<db, plan>>
  BY <1>4 DEF ApplyRejected, ApplyFails, Finish
<1>5. ASSUME InsertRow \/ UNCHANGED vars PROVE FALSE
  BY <1>5 DEF InsertRow, vars
<1> QED
  BY <1>1, <1>2, <1>3, <1>4, <1>5 DEF Next, Step

\* The cells of a column are those of base, as a column of that type has them.
CellsAre(base, table, x, type) ==
    /\ table.def.columns[x].sql_type = type
    /\ \A r \in base.rows, s \in table.rows :
        r.key = s.key => s.cells[x] = Stored(type, r.cells[x])

\* The rows and the hand-made indexes of base are still there, and each of its
\* columns has the type it had or, after a rebuild, the one to gives it.
Holds(base, to, table) ==
    /\ SameKeys(base, table) /\ base.handmade = table.handmade
    /\ \A x \in Columns(base.def) \cap Columns(table.def) :
        \/ CellsAre(base, table, x, base.def.columns[x].sql_type)
        \/ CellsAre(base, table, x, to.columns[x].sql_type)

LEMMA TablesHoldThemselves ==
    ASSUME NEW table, IsTable(table), NEW to
    PROVE  Holds(table, to, table)
BY DEF Holds, CellsAre, SameKeys, IsTable, AsStored

\* Nothing is lost of a table that no rebuild converts.
LEMMA HeldIsKept ==
    ASSUME NEW base, IsTable(base), NEW table, Holds(base, base.def, table)
    PROVE  Keeps(base, table)
BY DEF Holds, CellsAre, Keeps, IsTable, AsStored

\* Of one that a rebuild converts, what the cells mean.
LEMMA HeldKeepsMeaning ==
    ASSUME NEW base, IsTable(base), NEW to, NEW table, Holds(base, to, table)
    PROVE  KeepsMeaning(base, table)
<1> SUFFICES ASSUME NEW r \in base.rows, NEW s \in table.rows, r.key = s.key,
                    NEW x \in Columns(base.def) \cap Columns(table.def)
             PROVE  /\ SameAffinity(base, table, x) => r.cells[x] = s.cells[x]
                    /\ Meaning(r.cells[x]) = Meaning(s.cells[x])
  BY DEF KeepsMeaning, Holds
<1> DEFINE old == base.def.columns[x].sql_type
           new == table.def.columns[x].sql_type
<1>1. s.cells[x] = Stored(new, r.cells[x])
  BY DEF Holds, CellsAre
<1>2. Stored(old, r.cells[x]) = r.cells[x]
  BY DEF IsTable, AsStored
<1>3. SameAffinity(base, table, x) => Affinity(old) = Affinity(new)
  BY DEF SameAffinity
<1> HIDE DEF old, new
<1> QED
  BY <1>1, <1>2, <1>3, StoredByAffinity, StoredMeansTheSame

\* As long as neither the rows nor the columns change.
LEMMA HoldsOn ==
    ASSUME NEW base, NEW to, NEW old, Holds(base, to, old), NEW new,
           new.rows = old.rows, new.handmade = old.handmade, new.def.columns = old.def.columns
    PROVE  Holds(base, to, new)
BY DEF Holds, CellsAre, SameKeys, Columns

\* One operation that neither drops the table nor forgets a column base had.
LEMMA StepHolds ==
    ASSUME NEW d, IsDatabase(d), NEW t \in DOMAIN d,
           NEW base, IsTable(base), NEW to, Holds(base, to, d[t]),
           NEW op, op.kind \in Kinds, Accepts(d, op),
           op.table = t => op.kind # "DropTable",
           op.table = t /\ op.kind = "AddColumn" => op.item \notin Columns(base.def),
           op.table = t /\ op.kind = "RebuildTable" =>
                op.from = base.def /\ op.to = to /\ op.replay = base.handmade
    PROVE  t \in DOMAIN Perform(d, op) /\ Holds(base, to, Perform(d, op)[t])
<1> DEFINE e == Perform(d, op)
           old == d[t]
           new == e[t]
<1>0. IsTable(old)
  BY DEF IsDatabase
<1>1. CASE op.kind = "DropIndex"
  <2>1. t \in DOMAIN e /\ new = IndexDropped(old, op.item)
    BY <1>1 DEF Perform
  <2>2. new.rows = old.rows /\ new.handmade = old.handmade /\ new.def.columns = old.def.columns
    BY <1>0, <2>1, DropLeavesColumns
  <2> HIDE DEF new, e, old
  <2> QED
    BY <2>1, <2>2, HoldsOn DEF new, e, old
<1>2. CASE op.kind # "DropIndex" /\ op.table # t
  <2>1. t \in DOMAIN e /\ new = old
    <3>1. CASE op.kind = "CreateTable"
      BY <1>2, <3>1 DEF Perform, With
    <3>2. CASE op.kind = "AddColumn"
      BY <1>2, <3>2 DEF Perform
    <3>3. CASE op.kind = "CreateIndex"
      BY <1>2, <3>3 DEF Perform
    <3>4. CASE op.kind = "RebuildTable"
      BY <1>2, <3>4 DEF Perform
    <3>5. CASE op.kind = "DropTable"
      BY <1>2, <3>5 DEF Perform, Without
    <3> QED
      BY <1>2, <3>1, <3>2, <3>3, <3>4, <3>5 DEF Kinds
  <2> QED
    BY <2>1
<1>3. CASE op.kind = "CreateIndex" /\ op.table = t
  <2>1. t \in DOMAIN e /\ new = IndexAdded(old, op.item, op.to.indexes[op.item])
    BY <1>3 DEF Perform
  <2>2. new.rows = old.rows /\ new.handmade = old.handmade /\ new.def.columns = old.def.columns
    BY <1>0, <2>1, IndexAddedIs DEF Table, Definition
  <2> HIDE DEF new, e, old
  <2> QED
    BY <2>1, <2>2, HoldsOn DEF new, e, old
<1>4. CASE op.kind = "AddColumn" /\ op.table = t
  <2> DEFINE x == op.item
             column == op.to.columns[x]
             Wide(r) == Wider(r, x, column)
  <2>1. /\ t \in DOMAIN e /\ x \notin Columns(base.def)
        /\ new = ColumnAdded(old, x, column)
    BY <1>4 DEF Perform
  <2> HIDE DEF new, old, e, x, column
  <2>2. /\ new.rows = {Wide(r) : r \in old.rows} /\ new.handmade = old.handmade
        /\ new.def.columns = With(old.def.columns, x, column)
    BY <1>0, <2>1, ColumnAddedIs DEF Table, Definition
  <2>3. ASSUME NEW r \in old.rows
        PROVE  /\ Wide(r).key = r.key
               /\ \A c \in Columns(old.def) : c # x => Wide(r).cells[c] = r.cells[c]
    <3>1. r = [key |-> r.key, cells |-> r.cells] /\ DOMAIN r.cells = Columns(old.def)
      BY <1>0 DEF IsTable
    <3>2. Wide(r).key = r.key /\ Wide(r).cells = With(r.cells, x, Fresh(column))
      BY <3>1 DEF Wider
    <3> HIDE DEF Wide
    <3> QED
      BY <3>1, <3>2 DEF With
  <2>4. /\ Columns(new.def) = Columns(old.def) \cup {x}
        /\ \A c \in Columns(old.def) : c # x => new.def.columns[c] = old.def.columns[c]
    BY <2>2 DEF Columns, With
  <2> HIDE DEF Wide
  <2>5. SameKeys(base, old) => SameKeys(base, new)
    BY <2>2, <2>3 DEF SameKeys
  <2>6. ASSUME NEW c \in Columns(base.def) \cap Columns(new.def), NEW type,
               CellsAre(base, old, c, type)
        PROVE  CellsAre(base, new, c, type)
    <3>1. c # x /\ c \in Columns(old.def)
      BY <2>1, <2>4
    <3>2. \A p \in new.rows : \E q \in old.rows : p.key = q.key /\ p.cells[c] = q.cells[c]
      BY <2>2, <2>3, <3>1
    <3> QED
      BY <2>4, <2>6, <3>1, <3>2 DEF CellsAre
  <2>7. \A c \in Columns(base.def) \cap Columns(new.def) : c \in Columns(old.def)
    BY <2>1, <2>4
  <2>8. Holds(base, to, old)
    BY DEF old
  <2>9. Holds(base, to, new)
    BY <2>2, <2>5, <2>6, <2>7, <2>8 DEF Holds
  <2> QED
    BY <2>1, <2>9 DEF new, e
<1>5. CASE op.kind = "RebuildTable" /\ op.table = t
  <2> DEFINE Kept(c) == c \in Retained(op.from, op.to)
             Copy(r) ==
                [key |-> r.key,
                 cells |-> [c \in Columns(op.to) |->
                    IF Kept(c) THEN Stored(op.to.columns[c].sql_type, r.cells[c])
                    ELSE Fresh(op.to.columns[c])]]
  <2>1. /\ t \in DOMAIN e /\ op.from = base.def /\ op.to = to /\ op.replay = base.handmade
        /\ Retained(op.from, op.to) \subseteq Columns(old.def)
        /\ new = Rebuilt(old, op)
    BY <1>5 DEF Perform, Accepts
  <2>2. new.rows = Copied(op.from, op.to, old.rows) /\ new.handmade = op.replay /\ new.def = to
    <3>1. new = Table(op.to, Copied(op.from, op.to, old.rows), Listed(op.to), op.replay, old)
      BY <1>0, <2>1, RebuiltIs, Zenon
    <3> HIDE DEF new, old
    <3> QED
      BY <2>1, <3>1 DEF Table
  <2>3. new.rows = {Copy(r) : r \in old.rows}
    BY <2>2 DEF Copied
  <2>4. /\ \A r \in old.rows : Copy(r).key = r.key
        /\ \A r \in old.rows : \A c \in Columns(to) :
                Kept(c) => Copy(r).cells[c] = Stored(to.columns[c].sql_type, r.cells[c])
    BY <2>1
  <2>5. \A c \in Columns(base.def) \cap Columns(to) : Kept(c) /\ c \in Columns(old.def)
    BY <2>1 DEF Retained
  <2> HIDE DEF new, old, e, Copy, Kept
  <2>6. SameKeys(base, old) => SameKeys(base, new)
    BY <2>3, <2>4 DEF SameKeys
  <2>7. Holds(base, to, old)
    BY DEF old
  <2>8. ASSUME NEW c \in Columns(base.def) \cap Columns(to)
        PROVE  CellsAre(base, new, c, to.columns[c].sql_type)
    <3> DEFINE type == to.columns[c].sql_type
    <3>1. ASSUME NEW r \in base.rows, NEW q \in old.rows, r.key = q.key
          PROVE  Stored(type, q.cells[c]) = Stored(type, r.cells[c])
      <4>1. q.cells[c] = r.cells[c] \/ q.cells[c] = Stored(type, r.cells[c])
        <5>1. Stored(base.def.columns[c].sql_type, r.cells[c]) = r.cells[c]
          BY DEF IsTable, AsStored
        <5>2. \/ CellsAre(base, old, c, base.def.columns[c].sql_type)
              \/ CellsAre(base, old, c, type)
          BY <2>5, <2>7 DEF Holds
        <5> HIDE DEF type
        <5> QED
          BY <3>1, <5>1, <5>2 DEF CellsAre
      <4> QED
        BY <4>1, StoredOnce
    <3>2. \A p \in new.rows : \E q \in old.rows :
                p.key = q.key /\ p.cells[c] = Stored(type, q.cells[c])
      BY <2>3, <2>4, <2>5
    <3>3. new.def.columns[c].sql_type = type
      BY <2>2
    <3> HIDE DEF type
    <3>4. CellsAre(base, new, c, type)
      BY <3>1, <3>2, <3>3 DEF CellsAre
    <3> QED
      BY <3>4 DEF type
  <2>9. Holds(base, to, new)
    BY <2>1, <2>2, <2>6, <2>7, <2>8 DEF Holds
  <2> QED
    BY <2>1, <2>9 DEF new, e
<1>6. ~(op.kind = "CreateTable" /\ op.table = t)
  BY DEF Accepts
<1> QED
  BY <1>1, <1>2, <1>3, <1>4, <1>5, <1>6 DEF Kinds

\* The operations of a safe plan take no column away.
LEMMA SafeStepKeepsColumns ==
    ASSUME NEW d, IsDatabase(d), NEW t \in DOMAIN d, NEW op, op.kind \in Kinds,
           ~IsDestructive(op), Accepts(d, op)
    PROVE  Columns(d[t].def) \subseteq Columns(Perform(d, op)[t].def)
<1> DEFINE old == d[t]
           new == Perform(d, op)[t]
<1>0. IsTable(old)
  BY DEF IsDatabase
<1>1. CASE op.kind = "CreateTable"
  <2>1. new = old
    BY <1>1 DEF Accepts, Perform, With
  <2> QED
    BY <2>1
<1>2. CASE op.kind = "AddColumn"
  <2>1. CASE op.table = t
    <3>1. new = ColumnAdded(old, op.item, op.to.columns[op.item])
      BY <1>2, <2>1 DEF Perform
    <3>2. new.def.columns = With(old.def.columns, op.item, op.to.columns[op.item])
      BY <1>0, <3>1, ColumnAddedIs DEF Table, Definition
    <3> HIDE DEF new, old
    <3> QED
      BY <3>2 DEF Columns, With, new, old
  <2>2. CASE op.table # t
    BY <1>2, <2>2 DEF Perform
  <2> QED
    BY <2>1, <2>2
<1>3. CASE op.kind = "CreateIndex"
  <2>1. new = old \/ new = IndexAdded(old, op.item, op.to.indexes[op.item])
    BY <1>3 DEF Perform
  <2>2. new.def.columns = old.def.columns
    BY <1>0, <2>1, IndexAddedIs DEF Table, Definition
  <2> QED
    BY <2>2 DEF Columns
<1>4. CASE op.kind = "DropIndex"
  <2>1. new = IndexDropped(old, op.item)
    BY <1>4 DEF Perform
  <2>2. new.def.columns = old.def.columns
    BY <1>0, <2>1, DropLeavesColumns
  <2> QED
    BY <2>2 DEF Columns
<1> QED
  BY <1>1, <1>2, <1>3, <1>4 DEF Kinds, IsDestructive

\* A safe plan loses nothing, whatever other processes did since it was
\* compared: SQLite refuses an operation that does not fit what it finds.
THEOREM SafePlansLoseNothing == Spec => SafeApplyLosesNothing
<1> DEFINE Kept(c) == \A t \in DOMAIN db :
                /\ t \in DOMAIN db' /\ Columns(db[t].def) \subseteq Columns(db'[t].def)
                /\ Keeps(db[t], db'[t])
                /\ db[t].handmade = db'[t].handmade
<1>1. ASSUME SchemaInv, [Next]_vars, NEW c \in Client, Commits(c), stage[c] = "SafeOnly"
      PROVE  Kept(c)
  <2>1. PerformAll(db, todo[c]).ok /\ db' = PerformAll(db, todo[c]).db
    BY <1>1, CommitIsApply DEF Apply
  <2> DEFINE n == Len(todo[c])
  <2>2. PICK d : Compared(c, d)
    BY <1>1 DEF SchemaInv, ApplyInv, ApplyOf
  <2>3. IsList(todo[c]) /\ \A k \in 1..n : todo[c][k].kind \in Kinds
    <3>1. plan[c] # NoPlan /\ PlanOf(c)
      BY <1>1 DEF SchemaInv, PlanInv, ApplyInv, ApplyOf
    <3> QED
      BY <2>2, <3>1, TodoIsAsked DEF Asked
  <2>4. n \in Nat /\ \A k \in 1..n : ~IsDestructive(todo[c][k])
    BY <1>1, <2>3 DEF IsList, SchemaInv, ApplyInv, ApplyOf
  <2>5. PICK s : Passes(s, db, todo[c]) /\ s[n] = db' /\ \A k \in 0..n : IsDatabase(s[k])
    BY <1>1, <2>1, ApplyPasses
  <2>6. ASSUME NEW t \in DOMAIN db
        PROVE  /\ t \in DOMAIN db' /\ Columns(db[t].def) \subseteq Columns(db'[t].def)
               /\ Keeps(db[t], db'[t]) /\ db[t].handmade = db'[t].handmade
    <3> DEFINE G == {k \in 0..n : /\ t \in DOMAIN s[k]
                                  /\ Columns(db[t].def) \subseteq Columns(s[k][t].def)
                                  /\ Holds(db[t], db[t].def, s[k][t])}
    <3>0. IsTable(db[t])
      BY <1>1 DEF SchemaInv, IsDatabase
    <3>1. 0 \in G
      <4>1. s[0] = db
        BY <2>5 DEF Passes
      <4> QED
        BY <2>4, <3>0, <4>1, TablesHoldThemselves
    <3>2. ASSUME NEW k \in 1..n, k - 1 \in G PROVE k \in G
      <4> DEFINE op == todo[c][k]
                 now == s[k - 1]
      <4>1. /\ Accepts(now, op) /\ s[k] = Perform(now, op)
            /\ op.kind \in Kinds /\ ~IsDestructive(op)
        BY <2>3, <2>4, <2>5 DEF Passes
      <4>2. k - 1 \in 0..n /\ k \in 0..n
        BY <2>4
      <4>3. /\ IsDatabase(now) /\ t \in DOMAIN now
            /\ Columns(db[t].def) \subseteq Columns(now[t].def) /\ Holds(db[t], db[t].def, now[t])
        BY <2>5, <3>2, <4>2
      <4> HIDE DEF op, now
      <4>4. op.table = t /\ op.kind = "AddColumn" => op.item \notin Columns(db[t].def)
        BY <4>1, <4>3 DEF Accepts
      <4>5. op.kind # "DropTable" /\ op.kind # "RebuildTable"
        BY <4>1 DEF IsDestructive
      <4>6. t \in DOMAIN Perform(now, op) /\ Holds(db[t], db[t].def, Perform(now, op)[t])
        BY <3>0, <4>1, <4>3, <4>4, <4>5, StepHolds
      <4>7. Columns(now[t].def) \subseteq Columns(Perform(now, op)[t].def)
        BY <4>1, <4>3, SafeStepKeepsColumns
      <4> QED
        BY <4>1, <4>2, <4>3, <4>6, <4>7
    <3>3. n \in G
      <4> HIDE DEF G, n
      <4>1. \A k \in 0..n : k \in G
        BY <2>4, <3>1, <3>2, Counting
      <4> QED
        BY <2>4, <4>1
    <3>4. /\ t \in DOMAIN db' /\ Columns(db[t].def) \subseteq Columns(db'[t].def)
          /\ Holds(db[t], db[t].def, db'[t])
      BY <2>5, <3>3
    <3> QED
      BY <3>0, <3>4, HeldIsKept DEF Holds
  <2> QED
    BY <2>6
<1>2. SchemaInv /\ [Next]_vars =>
        [\A c \in Client : Commits(c) /\ stage[c] = "SafeOnly" => Kept(c)]_vars
  <2> HIDE DEF Kept
  <2> QED
    BY <1>1
<1> QED
  BY <1>2, SchemaAlways, PTL DEF Spec, SafeApplyLosesNothing

\* A table of the target keeps its rows, their keys, its hand-made indexes and of
\* every column it still has the cells, through any rebuild; a rebuild that
\* changes the affinity of a column keeps what its cells stand for.  In one
\* process: of several, one may add a column that the rebuild another has planned
\* does not copy (the hypothesis).
THEOREM TargetTablesKeepRows ==
    ASSUME OneProcess
    PROVE  Spec => TargetTablesKeepTheirRows
<1> DEFINE Kept(c) == \A t \in DOMAIN db \cap DOMAIN plan[c].target :
                t \in DOMAIN db' /\ KeepsMeaning(db[t], db'[t])
                /\ db[t].handmade = db'[t].handmade
<1>1. ASSUME SchemaInv, [Next]_vars, NEW c \in Client, Commits(c)
      PROVE  Kept(c)
  <2>1. PerformAll(db, todo[c]).ok /\ db' = PerformAll(db, todo[c]).db
    BY <1>1, CommitIsApply DEF Apply
  <2> DEFINE n == Len(todo[c])
             target == plan[c].target
             actual == Seen(db, PlanScope(plan[c]))
  <2>2. Compared(c, db) /\ stage[c] # "idle"
    BY <1>1 DEF Commits, SchemaInv, ApplyInv, ApplyOf
  <2>3. /\ n \in Nat
        /\ \A k \in 1..n : /\ Asked(todo[c][k], target, actual)
                           /\ todo[c][k].kind = "RebuildTable" =>
                                todo[c][k].replay = db[todo[c][k].table].handmade
    <3>1. plan[c] # NoPlan /\ PlanOf(c)
      BY <1>1, <2>2 DEF SchemaInv, PlanInv, ApplyInv, ApplyOf
    <3> QED
      BY <2>2, <3>1, TodoIsAsked DEF IsList
  <2>4. PICK s : Passes(s, db, todo[c]) /\ s[n] = db' /\ \A k \in 0..n : IsDatabase(s[k])
    BY <1>1, <2>1, <2>2, ApplyPasses
  <2>5. ASSUME NEW t \in DOMAIN db \cap DOMAIN target
        PROVE  /\ t \in DOMAIN db' /\ KeepsMeaning(db[t], db'[t])
               /\ db[t].handmade = db'[t].handmade
    <3>0. IsTable(db[t])
      BY <1>1 DEF SchemaInv, IsDatabase
    <3>1. t \in DOMAIN actual /\ actual[t] = db[t]
      BY DEF Seen, PlanScope
    <3> DEFINE G == {k \in 0..n : t \in DOMAIN s[k] /\ Holds(db[t], target[t], s[k][t])}
    <3>2. 0 \in G
      <4>1. s[0] = db
        BY <2>4 DEF Passes
      <4> QED
        BY <2>3, <3>0, <4>1, TablesHoldThemselves
    <3>3. ASSUME NEW k \in 1..n, k - 1 \in G PROVE k \in G
      <4> DEFINE op == todo[c][k]
                 now == s[k - 1]
      <4>1. Accepts(now, op) /\ s[k] = Perform(now, op)
        BY <2>4 DEF Passes
      <4>2. /\ Asked(op, target, actual)
            /\ op.kind = "RebuildTable" => op.replay = db[op.table].handmade
        BY <2>3
      <4>3. k - 1 \in 0..n /\ k \in 0..n
        BY <2>3
      <4>4. IsDatabase(now) /\ t \in DOMAIN now /\ Holds(db[t], target[t], now[t])
        BY <2>4, <3>3, <4>3
      <4> HIDE DEF op, now, actual, target
      <4>5. /\ op.kind \in Kinds
            /\ op.table = t => op.kind # "DropTable"
            /\ op.table = t /\ op.kind = "AddColumn" => op.item \notin Columns(db[t].def)
            /\ op.table = t /\ op.kind = "RebuildTable" =>
                    op.from = db[t].def /\ op.to = target[t] /\ op.replay = db[t].handmade
        BY <3>1, <4>2 DEF Asked
      <4>6. t \in DOMAIN Perform(now, op) /\ Holds(db[t], target[t], Perform(now, op)[t])
        BY <3>0, <4>1, <4>4, <4>5, StepHolds
      <4> QED
        BY <4>1, <4>3, <4>6
    <3>4. n \in G
      <4> HIDE DEF G, n
      <4>1. \A k \in 0..n : k \in G
        BY <2>3, <3>2, <3>3, Counting
      <4> QED
        BY <2>3, <4>1
    <3>5. t \in DOMAIN db' /\ Holds(db[t], target[t], db'[t])
      BY <2>4, <3>4
    <3> QED
      BY <3>0, <3>5, HeldKeepsMeaning DEF Holds
  <2> QED
    BY <2>5
<1>2. SchemaInv /\ [Next]_vars => [\A c \in Client : Commits(c) => Kept(c)]_vars
  <2> HIDE DEF Kept
  <2> QED
    BY <1>1
<1> QED
  BY <1>2, SchemaAlways, PTL DEF Spec, TargetTablesKeepTheirRows

-----------------------------------------------------------------------------
(***************************************************************************)
(* Reaching the target.  The operations of a plan are all run, each once,  *)
(* and each changes its own table only, in whatever order SQLite accepts   *)
(* them.                                                                   *)
(***************************************************************************)
LEMMA OpsOfTable ==
    ASSUME NEW target, NEW a, NEW op \in DiffOps(target, a)
    PROVE  /\ op.table \in DOMAIN target \ DOMAIN a =>
                op.kind = "CreateTable" /\ op.to = target[op.table]
           /\ op.table \in DOMAIN target \cap DOMAIN a =>
                op \in TableOps(op.table, target[op.table], a[op.table].def,
                               a[op.table].listed)
           /\ op.table \notin DOMAIN target => op.table \in DOMAIN a /\ op.kind = "DropTable"
<1>1. CASE op \in {[kind |-> "CreateTable", table |-> t, item |-> 0, to |-> target[t]] :
                    t \in DOMAIN target \ DOMAIN a}
  BY <1>1
<1>2. CASE op \in {Removing(t, a[t].listed) : t \in DOMAIN a \ DOMAIN target}
  BY <1>2 DEF Removing
<1>3. ASSUME NEW t \in DOMAIN target \cap DOMAIN a, op \in TableOps(t, target[t], a[t].def, a[t].listed)
      PROVE  op.table = t
  BY <1>3 DEF TableOps
<1> QED
  BY <1>1, <1>2, <1>3 DEF DiffOps, Removing

LEMMA RebuildOps ==
    ASSUME NEW t, NEW to, NEW from, NEW listed, NeedsRebuild(to, from)
    PROVE  TableOps(t, to, from, listed) = {Rebuilding(t, from, to, listed)}
BY DEF TableOps, Rebuilding

LEMMA PlainOps ==
    ASSUME NEW t, NEW to, NEW from, NEW listed, ~NeedsRebuild(to, from), NEW op
    PROVE  op \in TableOps(t, to, from, listed) <=>
            \/ \E c \in Missing(to, from) : ~Required(to.columns[c]) /\ op = Adding(t, c, to)
            \/ \E i \in Indexes(to) : IndexDiffers(to, from, i) /\ op = Creating(t, i, to)
            \/ \E i \in Indexes(from) :
                (i \in Indexes(to) => IndexDiffers(to, from, i)) /\ op = Dropping(t, i)
BY DEF TableOps, Adding, Creating, Dropping

\* An operation is its kind, its table and its item.
LEMMA FormOfOps ==
    ASSUME NEW target, NEW a, NEW op \in DiffOps(target, a)
    PROVE  LET t == op.table IN
           \/ /\ t \in DOMAIN target \ DOMAIN a
              /\ op = [kind |-> "CreateTable", table |-> t, item |-> 0, to |-> target[t]]
           \/ /\ t \in DOMAIN target \cap DOMAIN a
              /\ op = Adding(t, op.item, target[t]) /\ op.item \in Columns(target[t])
           \/ /\ t \in DOMAIN target \cap DOMAIN a
              /\ op = Creating(t, op.item, target[t]) /\ op.item \in Indexes(target[t])
           \/ /\ t \in DOMAIN target \cap DOMAIN a
              /\ op = Dropping(t, op.item) /\ op.item \in Indexes(a[t].def)
           \/ /\ t \in DOMAIN target \cap DOMAIN a
              /\ op = Rebuilding(t, a[t].def, target[t], a[t].listed)
           \/ /\ t \in DOMAIN a \ DOMAIN target
              /\ op = Removing(t, a[t].listed)
<1>1. CASE op \in {[kind |-> "CreateTable", table |-> t, item |-> 0, to |-> target[t]] :
                    t \in DOMAIN target \ DOMAIN a}
  BY <1>1
<1>2. CASE op \in {Removing(t, a[t].listed) : t \in DOMAIN a \ DOMAIN target}
  <2>1. PICK t \in DOMAIN a \ DOMAIN target : op = Removing(t, a[t].listed)
    BY <1>2
  <2>2. op.table = t
    BY <2>1 DEF Removing
  <2> QED
    BY <2>1, <2>2
<1>3. ASSUME NEW t \in DOMAIN target \cap DOMAIN a, op \in TableOps(t, target[t], a[t].def, a[t].listed)
      PROVE  /\ op.table = t
             /\ \/ op = Adding(t, op.item, target[t]) /\ op.item \in Columns(target[t])
                \/ op = Creating(t, op.item, target[t]) /\ op.item \in Indexes(target[t])
                \/ op = Dropping(t, op.item) /\ op.item \in Indexes(a[t].def)
                \/ op = Rebuilding(t, a[t].def, target[t], a[t].listed)
  <2>1. CASE NeedsRebuild(target[t], a[t].def)
    BY <1>3, <2>1, RebuildOps DEF Rebuilding
  <2>2. CASE ~NeedsRebuild(target[t], a[t].def)
    BY <1>3, <2>2, PlainOps DEF Missing, Adding, Creating, Dropping
  <2> QED
    BY <2>1, <2>2
<1>4. \/ op \in {[kind |-> "CreateTable", table |-> t, item |-> 0, to |-> target[t]] :
                    t \in DOMAIN target \ DOMAIN a}
      \/ op \in {Removing(t, a[t].listed) : t \in DOMAIN a \ DOMAIN target}
      \/ \E t \in DOMAIN target \cap DOMAIN a : op \in TableOps(t, target[t], a[t].def, a[t].listed)
  BY DEF DiffOps, Removing
<1> QED
  BY <1>1, <1>2, <1>3, <1>4

SameOp(o, op) == o.kind = op.kind /\ o.table = op.table /\ o.item = op.item

LEMMA KeyTellsOp ==
    ASSUME NEW target, NEW a, NEW o \in DiffOps(target, a), NEW op \in DiffOps(target, a),
           SameOp(o, op)
    PROVE  o = op
<1>1. /\ \A t, x, to : Adding(t, x, to).kind = "AddColumn"
      /\ \A t, x, to : Creating(t, x, to).kind = "CreateIndex"
      /\ \A t, x : Dropping(t, x).kind = "DropIndex"
      /\ \A t, from, to, listed : Rebuilding(t, from, to, listed).kind = "RebuildTable"
      /\ \A t, listed : Removing(t, listed).kind = "DropTable"
  BY DEF Adding, Creating, Dropping, Rebuilding, Removing
<1>2. CASE op.kind = "CreateTable"
  BY <1>1, <1>2, FormOfOps DEF SameOp
<1>3. CASE op.kind = "AddColumn"
  BY <1>1, <1>3, FormOfOps DEF SameOp
<1>4. CASE op.kind = "CreateIndex"
  BY <1>1, <1>4, FormOfOps DEF SameOp
<1>5. CASE op.kind = "DropIndex"
  BY <1>1, <1>5, FormOfOps DEF SameOp
<1>6. CASE op.kind = "RebuildTable"
  BY <1>1, <1>6, FormOfOps DEF SameOp
<1>7. CASE op.kind = "DropTable"
  BY <1>1, <1>7, FormOfOps DEF SameOp
<1>8. op.kind \in Kinds
  BY OpsAreAsked DEF Asked
<1> QED
  BY <1>2, <1>3, <1>4, <1>5, <1>6, <1>7, <1>8 DEF Kinds

\* Which operations there are depends on the definitions only, what they say of
\* the live table does not.
LEMMA SameOps ==
    ASSUME NEW target, NEW a, NEW b, Definitions(a) = Definitions(b),
           NEW op \in DiffOps(target, a)
    PROVE  \E o \in DiffOps(target, b) : SameOp(o, op)
<1>1. DOMAIN a = DOMAIN b /\ \A t \in DOMAIN a : a[t].def = b[t].def
  BY DEF Definitions
<1>2. CASE op \in {[kind |-> "CreateTable", table |-> t, item |-> 0, to |-> target[t]] :
                    t \in DOMAIN target \ DOMAIN a}
  <2>1. op \in DiffOps(target, b)
    BY <1>1, <1>2 DEF DiffOps
  <2> QED
    BY <2>1 DEF SameOp
<1>3. CASE op \in {Removing(t, a[t].listed) : t \in DOMAIN a \ DOMAIN target}
  <2>1. PICK t \in DOMAIN b \ DOMAIN target : op = Removing(t, a[t].listed)
    BY <1>1, <1>3
  <2> DEFINE o == Removing(t, b[t].listed)
  <2>2. o \in DiffOps(target, b)
    BY DEF DiffOps, Removing
  <2>3. SameOp(o, op)
    BY <2>1 DEF SameOp, Removing
  <2> QED
    BY <2>2, <2>3
<1>4. ASSUME NEW t \in DOMAIN target \cap DOMAIN a,
             op \in TableOps(t, target[t], a[t].def, a[t].listed)
      PROVE  \E o \in DiffOps(target, b) : SameOp(o, op)
  <2> DEFINE to == target[t]
             from == a[t].def
             O == TableOps(t, to, from, b[t].listed)
  <2>1. O \subseteq DiffOps(target, b)
    <3>1. t \in DOMAIN target \cap DOMAIN b /\ O = TableOps(t, target[t], b[t].def, b[t].listed)
      BY <1>1
    <3> HIDE DEF O
    <3> QED
      BY <3>1 DEF DiffOps
  <2>2. CASE NeedsRebuild(to, from)
    <3> DEFINE o == Rebuilding(t, from, to, b[t].listed)
    <3>1. o \in O /\ op = Rebuilding(t, from, to, a[t].listed)
      BY <1>4, <2>2, RebuildOps
    <3>2. SameOp(o, op)
      BY <3>1 DEF SameOp, Rebuilding
    <3> QED
      BY <2>1, <3>1, <3>2
  <2>3. CASE ~NeedsRebuild(to, from)
    <3>1. op \in O
      <4> HIDE DEF to, from
      <4> QED
        BY <1>4, <2>3, PlainOps DEF to, from
    <3> QED
      BY <2>1, <3>1 DEF SameOp
  <2> QED
    BY <2>2, <2>3
<1> QED
  BY <1>2, <1>3, <1>4 DEF DiffOps, Removing

LEMMA AsManyOps ==
    ASSUME NEW target, IsSchema(target), NEW a, IsDatabase(a), NEW b, IsDatabase(b),
           Definitions(a) = Definitions(b)
    PROVE  Cardinality(DiffOps(target, a)) = Cardinality(DiffOps(target, b))
<1>1. ASSUME NEW x, IsDatabase(x), NEW y, IsDatabase(y), Definitions(x) = Definitions(y)
      PROVE  Cardinality(DiffOps(target, x)) <= Cardinality(DiffOps(target, y))
  <2> DEFINE X == DiffOps(target, x)
             Y == DiffOps(target, y)
             f == [op \in X |-> CHOOSE o \in Y : SameOp(o, op)]
  <2>1. \A op \in X : \E o \in Y : SameOp(o, op)
    BY <1>1, SameOps
  <2>2. \A op, o \in X : SameOp(o, op) => o = op
    BY KeyTellsOp
  <2>3. IsFiniteSet(Y)
    BY <1>1, FiniteOps
  <2> HIDE DEF X, Y
  <2>4. f = [op \in X |-> f[op]] /\ \A op \in X : f[op] \in Y /\ SameOp(f[op], op)
    BY <2>1
  <2> HIDE DEF f
  <2>5. \A op, o \in X : f[op] = f[o] => op = o
    BY <2>2, <2>4 DEF SameOp
  <2>6. f \in Injection(X, Y)
    BY <2>4, <2>5 DEF Injection, IsInjective
  <2>7. Cardinality(X) <= Cardinality(Y)
    BY <2>3, <2>6, FS_Injection
  <2> QED
    BY <2>7 DEF X, Y
<1>2. Cardinality(DiffOps(target, a)) \in Nat /\ Cardinality(DiffOps(target, b)) \in Nat
  BY FiniteOps, FS_CardinalityType
<1>3. /\ Cardinality(DiffOps(target, a)) <= Cardinality(DiffOps(target, b))
      /\ Cardinality(DiffOps(target, b)) <= Cardinality(DiffOps(target, a))
  BY <1>1
<1> QED
  BY <1>2, <1>3

\* An operation changes no other table.
LEMMA OwnTable ==
    ASSUME NEW d, IsDatabase(d), NEW op, op.kind \in Kinds, Accepts(d, op),
           op.kind = "DropIndex" =>
                op.table \in DOMAIN d /\ op.item \in Indexes(d[op.table].def),
           NEW t, t # op.table
    PROVE  /\ t \in DOMAIN Perform(d, op) <=> t \in DOMAIN d
           /\ t \in DOMAIN d => Perform(d, op)[t] = d[t]
<1>1. CASE op.kind = "CreateTable"
  BY <1>1 DEF Perform, With
<1>2. CASE op.kind = "AddColumn"
  BY <1>2 DEF Perform
<1>3. CASE op.kind = "CreateIndex"
  BY <1>3 DEF Perform
<1>4. CASE op.kind = "DropIndex"
  <2>1. DOMAIN Perform(d, op) = DOMAIN d
    BY <1>4 DEF Perform
  <2>2. ASSUME t \in DOMAIN d PROVE Perform(d, op)[t] = d[t]
    <3>1. op.item \notin Indexes(d[t].def)
      BY <1>4, <2>2 DEF IsDatabase
    <3> QED
      BY <1>4, <2>2, <3>1 DEF Perform, IndexDropped
  <2> QED
    BY <2>1, <2>2
<1>5. CASE op.kind = "RebuildTable"
  BY <1>5 DEF Perform
<1>6. CASE op.kind = "DropTable"
  BY <1>6 DEF Perform, Without
<1> QED
  BY <1>1, <1>2, <1>3, <1>4, <1>5, <1>6 DEF Kinds

\* def is the definition of t on its way between two definitions, by
\* operations that need no rebuild, when those in done have run.  An index that
\* both have is dropped before it is created.
Between(def, from, to, t, done) ==
    /\ def.primary_key = from.primary_key /\ def.key_type = from.key_type
    /\ \A c : c \in Columns(def) <=> c \in Columns(from) \/ Adding(t, c, to) \in done
    /\ \A c \in Columns(from) : def.columns[c] = from.columns[c]
    /\ \A c \in Columns(def) \ Columns(from) : def.columns[c] = to.columns[c]
    /\ \A i : Creating(t, i, to) \in done =>
            i \in Indexes(def) /\ def.indexes[i] = to.indexes[i]
    /\ \A i : Creating(t, i, to) \in done /\ i \in Indexes(from) => Dropping(t, i) \in done
    /\ \A i : Creating(t, i, to) \notin done =>
            /\ i \in Indexes(def) <=> i \in Indexes(from) /\ Dropping(t, i) \notin done
            /\ i \in Indexes(def) => def.indexes[i] = from.indexes[i]

LEMMA BetweenStarts ==
    ASSUME NEW def, NEW to, NEW t
    PROVE  Between(def, def, to, t, {})
BY DEF Between

LEMMA BetweenStep ==
    ASSUME NEW d, IsDatabase(d), NEW t \in DOMAIN d, NEW from, NEW to, ~NeedsRebuild(to, from),
           NEW done, Between(d[t].def, from, to, t, done),
           NEW listed, NEW op \in TableOps(t, to, from, listed) \ done, Accepts(d, op)
    PROVE  t \in DOMAIN Perform(d, op)
           /\ Between(Perform(d, op)[t].def, from, to, t, done \cup {op})
<1> DEFINE old == d[t]
           new == Perform(d, op)[t]
<1>0. IsTable(old) /\ IsDefinition(old.def)
  BY DEF IsDatabase, IsTable
<1>1. CASE \E c \in Missing(to, from) : op = Adding(t, c, to)
  <2>1. PICK x \in Missing(to, from) : op = Adding(t, x, to)
    BY <1>1
  <2>2. op.kind = "AddColumn" /\ op.table = t /\ op.item = x /\ op.to = to
    BY <2>1 DEF Adding
  <2>3. /\ t \in DOMAIN Perform(d, op)
        /\ new = ColumnAdded(old, x, to.columns[x])
    BY <2>2 DEF Perform
  <2>4. /\ new.def.columns = With(old.def.columns, x, to.columns[x])
        /\ new.def.indexes = old.def.indexes
        /\ new.def.primary_key = old.def.primary_key /\ new.def.key_type = old.def.key_type
    BY <1>0, <2>3, ColumnAddedIs DEF Table, Definition
  <2> HIDE DEF new, old
  <2>5. /\ Columns(new.def) = Columns(old.def) \cup {x} /\ new.def.columns[x] = to.columns[x]
        /\ \A c \in Columns(old.def) : c # x => new.def.columns[c] = old.def.columns[c]
        /\ Indexes(new.def) = Indexes(old.def)
    BY <2>4 DEF With, Columns, Indexes
  <2>6. /\ x \notin Columns(from)
        /\ \A c : Adding(t, c, to) = op <=> c = x
        /\ \A i : Creating(t, i, to) # op /\ Dropping(t, i) # op
    BY <2>1 DEF Missing, Adding, Creating, Dropping
  <2>7. Between(old.def, from, to, t, done)
    BY DEF old
  <2>8. Between(new.def, from, to, t, done \cup {op})
    BY <2>4, <2>5, <2>6, <2>7 DEF Between
  <2> QED
    BY <2>3, <2>8 DEF new
<1>2. CASE \E i \in Indexes(to) : op = Creating(t, i, to)
  <2>1. PICK x \in Indexes(to) : op = Creating(t, x, to)
    BY <1>2
  <2>2. op.kind = "CreateIndex" /\ op.table = t /\ op.item = x /\ op.to = to
    BY <2>1 DEF Creating
  <2>3. /\ t \in DOMAIN Perform(d, op) /\ x \notin IndexNames(d)
        /\ new = IndexAdded(old, x, to.indexes[x])
    BY <2>2 DEF Perform, Accepts
  <2>4. /\ new.def.indexes = With(old.def.indexes, x, to.indexes[x])
        /\ new.def.columns = old.def.columns
        /\ new.def.primary_key = old.def.primary_key /\ new.def.key_type = old.def.key_type
    BY <1>0, <2>3, IndexAddedIs DEF Table, Definition
  <2>5. x \notin Indexes(old.def)
    BY <2>3 DEF IndexNames
  <2> HIDE DEF new, old
  <2>6. /\ Indexes(new.def) = Indexes(old.def) \cup {x} /\ new.def.indexes[x] = to.indexes[x]
        /\ \A i \in Indexes(old.def) : new.def.indexes[i] = old.def.indexes[i]
        /\ Columns(new.def) = Columns(old.def)
    BY <2>4, <2>5 DEF With, Columns, Indexes
  <2>7. /\ \A c : Adding(t, c, to) # op
        /\ \A i : Creating(t, i, to) = op <=> i = x
        /\ \A i : Dropping(t, i) # op
    BY <2>1 DEF Adding, Creating, Dropping
  <2>8. Between(old.def, from, to, t, done)
    BY DEF old
  <2>9. x \in Indexes(from) => Dropping(t, x) \in done
    BY <2>1, <2>5, <2>8 DEF Between
  <2>10. Between(new.def, from, to, t, done \cup {op})
    BY <2>4, <2>5, <2>6, <2>7, <2>8, <2>9 DEF Between
  <2> QED
    BY <2>3, <2>10 DEF new
<1>3. CASE \E i \in Indexes(from) : op = Dropping(t, i)
  <2>1. PICK x \in Indexes(from) : op = Dropping(t, x)
    BY <1>3
  <2>2. op.kind = "DropIndex" /\ op.item = x
    BY <2>1 DEF Dropping
  <2>3. /\ t \in DOMAIN Perform(d, op)
        /\ new = IndexDropped(old, x)
    BY <2>2 DEF Perform
  <2>4. /\ Indexes(new.def) = Indexes(old.def) \ {x}
        /\ \A i \in Indexes(new.def) : new.def.indexes[i] = old.def.indexes[i]
        /\ new.def.columns = old.def.columns
        /\ new.def.primary_key = old.def.primary_key /\ new.def.key_type = old.def.key_type
    <3>1. CASE x \in Indexes(old.def)
      <4>1. /\ new.def.indexes = Without(old.def.indexes, x)
            /\ new.def.columns = old.def.columns
            /\ new.def.primary_key = old.def.primary_key /\ new.def.key_type = old.def.key_type
        BY <1>0, <2>3, <3>1, IndexDroppedIs DEF Table, Definition
      <4> HIDE DEF new, old
      <4> QED
        BY <4>1 DEF Without, Indexes
    <3>2. CASE x \notin Indexes(old.def)
      BY <2>3, <3>2 DEF IndexDropped
    <3> QED
      BY <3>1, <3>2
  <2> HIDE DEF new, old
  <2>5. Columns(new.def) = Columns(old.def)
    BY <2>4 DEF Columns
  <2>6. /\ \A c : Adding(t, c, to) # op
        /\ \A i : Creating(t, i, to) # op
        /\ \A i : Dropping(t, i) = op <=> i = x
    BY <2>1 DEF Adding, Creating, Dropping
  <2>7. Between(old.def, from, to, t, done)
    BY DEF old
  <2>8. Creating(t, x, to) \notin done
    BY <2>1, <2>7 DEF Between
  <2>9. Between(new.def, from, to, t, done \cup {op})
    BY <2>4, <2>5, <2>6, <2>7, <2>8 DEF Between
  <2> QED
    BY <2>3, <2>9 DEF new
<1> QED
  BY <1>1, <1>2, <1>3, PlainOps

\* When all of them have run, the table matches.
LEMMA BetweenEnds ==
    ASSUME NEW def, IsDefinition(def), NEW from, NEW to, IsDefinition(to),
           ~NeedsRebuild(to, from), \A c \in Missing(to, from) : ~Required(to.columns[c]),
           NEW t, NEW done, Between(def, from, to, t, done), NEW listed,
           \A op : op.table = t => (op \in done <=> op \in TableOps(t, to, from, listed))
    PROVE  Matches(def, to)
<1>1. /\ to.primary_key = from.primary_key /\ to.key_type = from.key_type
      /\ Changed(to, from) = {}
      /\ Columns(from) \subseteq Columns(to)
  BY DEF NeedsRebuild
<1>2. \A c : Adding(t, c, to) \in done <=> c \in Missing(to, from)
  <2>1. \A c : Adding(t, c, to).table = t
    BY DEF Adding
  <2>2. \A c : Adding(t, c, to) \in TableOps(t, to, from, listed) <=> c \in Missing(to, from)
    BY PlainOps DEF Adding, Creating, Dropping
  <2> QED
    BY <2>1, <2>2
<1>3. \A i : Creating(t, i, to) \in done <=> i \in Indexes(to) /\ IndexDiffers(to, from, i)
  <2>1. \A i : Creating(t, i, to).table = t
    BY DEF Creating
  <2>2. \A i : Creating(t, i, to) \in TableOps(t, to, from, listed) <=>
                i \in Indexes(to) /\ IndexDiffers(to, from, i)
    BY PlainOps DEF Adding, Creating, Dropping
  <2> QED
    BY <2>1, <2>2
<1>4. \A i : Dropping(t, i) \in done <=>
            i \in Indexes(from) /\ (i \in Indexes(to) => IndexDiffers(to, from, i))
  <2>1. \A i : Dropping(t, i).table = t
    BY DEF Dropping
  <2>2. \A i : Dropping(t, i) \in TableOps(t, to, from, listed) <=>
                i \in Indexes(from) /\ (i \in Indexes(to) => IndexDiffers(to, from, i))
    BY PlainOps DEF Adding, Creating, Dropping
  <2> QED
    BY <2>1, <2>2
<1>5. Columns(def) = Columns(to)
  BY <1>1, <1>2 DEF Between, Missing
<1>6. Indexes(def) = Indexes(to) /\ \A i \in Indexes(to) : def.indexes[i] = to.indexes[i]
  <2>1. ASSUME NEW i
        PROVE  /\ i \in Indexes(def) <=> i \in Indexes(to)
               /\ i \in Indexes(to) => def.indexes[i] = to.indexes[i]
    <3>1. CASE i \in Indexes(to) /\ IndexDiffers(to, from, i)
      BY <1>3, <3>1 DEF Between
    <3>2. CASE ~(i \in Indexes(to) /\ IndexDiffers(to, from, i))
      <4>1. Creating(t, i, to) \notin done
        BY <1>3, <3>2
      <4>2. i \in Indexes(to) => i \in Indexes(from) /\ to.indexes[i] = from.indexes[i]
        BY <3>2 DEF IndexDiffers
      <4>3. /\ i \in Indexes(def) <=> i \in Indexes(from) /\ Dropping(t, i) \notin done
            /\ i \in Indexes(def) => def.indexes[i] = from.indexes[i]
        BY <4>1 DEF Between
      <4> QED
        BY <1>4, <3>2, <4>2, <4>3
    <3> QED
      BY <3>1, <3>2
  <2> QED
    BY <2>1
<1>7. def.indexes = to.indexes
  BY <1>6 DEF IsDefinition
<1>8. ASSUME NEW c \in Columns(def)
      PROVE  /\ Affinity(def.columns[c].sql_type) = Affinity(to.columns[c].sql_type)
             /\ def.columns[c].nullable = to.columns[c].nullable
             /\ def.columns[c].default_sql = to.columns[c].default_sql
  <2>1. CASE c \in Columns(from)
    <3>1. def.columns[c] = from.columns[c] /\ c \in Columns(to) /\ c \notin Changed(to, from)
      BY <1>1, <2>1 DEF Between
    <3> QED
      BY <2>1, <3>1 DEF Changed
  <2>2. CASE c \notin Columns(from)
    BY <2>2 DEF Between
  <2> QED
    BY <2>1, <2>2
<1>9. def.primary_key = to.primary_key /\ def.key_type = to.key_type
  BY <1>1 DEF Between
<1> QED
  BY <1>5, <1>7, <1>8, <1>9 DEF Matches

\* How far a plan from the tables of a to target has come at d.
Touched(t, done) == \E op \in done : op.table = t

Reached(target, a, d, done) ==
    /\ \A t \in DOMAIN target :
        (t \in DOMAIN a => NeedsRebuild(target[t], a[t].def)) /\ Touched(t, done) =>
            t \in DOMAIN d /\ d[t].def = target[t]
    /\ \A t \in DOMAIN target \cap DOMAIN a : ~NeedsRebuild(target[t], a[t].def) =>
            t \in DOMAIN d /\ Between(d[t].def, a[t].def, target[t], t, done)
    /\ \A t \in DOMAIN a \ DOMAIN target : Touched(t, done) => t \notin DOMAIN d

\* An index that is still to be dropped is there.
LEMMA PendingIndex ==
    ASSUME NEW target, NEW a, NEW d, NEW done, Reached(target, a, d, done),
           NEW op \in DiffOps(target, a) \ done, op.kind = "DropIndex"
    PROVE  op.table \in DOMAIN d /\ op.item \in Indexes(d[op.table].def)
<1> DEFINE u == op.table
<1>1. u \in DOMAIN target \cap DOMAIN a
  BY OpsAreAsked DEF Asked
<1>2. op \in TableOps(u, target[u], a[u].def, a[u].listed)
  BY <1>1, OpsOfTable
<1>3. ~NeedsRebuild(target[u], a[u].def)
  BY <1>2, RebuildOps DEF Rebuilding
<1>4. PICK i \in Indexes(a[u].def) : op = Dropping(u, i)
  BY <1>2, <1>3, PlainOps DEF Adding, Creating
<1>5. u \in DOMAIN d /\ Between(d[u].def, a[u].def, target[u], u, done)
  BY <1>1, <1>3 DEF Reached
<1>6. Dropping(u, i) \notin done /\ op.item = i
  BY <1>4 DEF Dropping
<1>7. i \in Indexes(d[u].def)
  BY <1>5, <1>6 DEF Between
<1> QED
  BY <1>5, <1>6, <1>7

LEMMA ReachedStep ==
    ASSUME NEW target, NEW a, NEW d, IsDatabase(d), NEW done,
           NEW op \in DiffOps(target, a) \ done, Reached(target, a, d, done),
           NEW base, Accepts(d, Replayed(op, base))
    PROVE  Reached(target, a, Perform(d, Replayed(op, base)), done \cup {op})
<1> DEFINE run == Replayed(op, base)
           u == op.table
           e == Perform(d, run)
           after == done \cup {op}
           Plain(t) == t \in DOMAIN target \cap DOMAIN a /\ ~NeedsRebuild(target[t], a[t].def)
<1>1. /\ Asked(run, target, a) /\ run.kind = op.kind
      /\ op.kind # "RebuildTable" => run = op
  BY ReplayedAreAsked DEF Replayed
<1>2. run.table = u
  BY ReplayedAreAsked
<1>3. ASSUME run.kind = "DropIndex"
      PROVE  run.table \in DOMAIN d /\ run.item \in Indexes(d[run.table].def)
  BY <1>1, <1>3, PendingIndex
<1>4. ASSUME NEW t, t # u
      PROVE  /\ t \in DOMAIN e <=> t \in DOMAIN d
             /\ t \in DOMAIN d => e[t].def = d[t].def
             /\ Touched(t, after) <=> Touched(t, done)
             /\ \A def, from, to : Between(def, from, to, t, done) => Between(def, from, to, t, after)
  <2>1. run.kind \in Kinds
    BY <1>1 DEF Asked
  <2> HIDE DEF run, e
  <2>2. /\ t \in DOMAIN e <=> t \in DOMAIN d
        /\ t \in DOMAIN d => e[t].def = d[t].def
    BY <1>2, <1>3, <1>4, <2>1, OwnTable DEF run, e
  <2>3. Touched(t, after) <=> Touched(t, done)
    BY <1>4 DEF Touched
  <2>4. \A x, to : Adding(t, x, to) # op /\ Creating(t, x, to) # op /\ Dropping(t, x) # op
    BY <1>4 DEF Adding, Creating, Dropping
  <2>5. \A def, from, to : Between(def, from, to, t, done) => Between(def, from, to, t, after)
    BY <2>4 DEF Between
  <2> QED
    BY <2>2, <2>3, <2>5
<1>5. u \in DOMAIN target \cup DOMAIN a
  BY OpsOfTable
<1>6. ASSUME u \in DOMAIN target, u \in DOMAIN a => NeedsRebuild(target[u], a[u].def)
      PROVE  u \in DOMAIN e /\ e[u].def = target[u]
  <2>1. CASE u \notin DOMAIN a
    <3>1. op.kind = "CreateTable" /\ op.to = target[u] /\ run = op
      BY <1>1, <1>6, <2>1, OpsOfTable
    <3>2. e = With(d, u, EmptyTable(target[u]))
      BY <3>1 DEF Perform
    <3> QED
      BY <3>2 DEF With, EmptyTable
  <2>2. CASE u \in DOMAIN a
    <3>1. op = Rebuilding(u, a[u].def, target[u], a[u].listed)
      BY <1>6, <2>2, OpsOfTable, RebuildOps
    <3>2. run.kind = "RebuildTable" /\ run.to = target[u]
      BY <1>1, <1>2, <3>1 DEF Asked, Rebuilding
    <3> HIDE DEF run
    <3>3. u \in DOMAIN d /\ IsTable(d[u])
      BY <1>2, <3>2 DEF Accepts, IsDatabase, run
    <3>4. u \in DOMAIN e /\ e[u] = Rebuilt(d[u], run)
      BY <1>2, <3>2, <3>3 DEF Perform
    <3> QED
      BY <3>2, <3>3, <3>4, RebuiltIs DEF Table
  <2> QED
    BY <2>1, <2>2
<1>7. ASSUME Plain(u)
      PROVE  u \in DOMAIN e /\ Between(e[u].def, a[u].def, target[u], u, after)
  <2>1. op \in TableOps(u, target[u], a[u].def, a[u].listed) \ done
    BY <1>7, OpsOfTable
  <2>2. run = op
    BY <1>1, <1>7, <2>1, PlainOps DEF Adding, Creating, Dropping
  <2>3. u \in DOMAIN d /\ Between(d[u].def, a[u].def, target[u], u, done)
    BY <1>7 DEF Reached
  <2> QED
    BY <1>7, <2>1, <2>2, <2>3, BetweenStep
<1>8. ASSUME u \notin DOMAIN target PROVE u \notin DOMAIN e
  <2>1. op.kind = "DropTable" /\ run = op
    BY <1>1, <1>8, OpsOfTable
  <2> QED
    BY <2>1 DEF Perform, Without
<1> HIDE DEF run, e, after, u
<1>9. \A t \in DOMAIN target :
        (t \in DOMAIN a => NeedsRebuild(target[t], a[t].def)) /\ Touched(t, after) =>
            t \in DOMAIN e /\ e[t].def = target[t]
  BY <1>4, <1>6 DEF Reached
<1>10. \A t \in DOMAIN target \cap DOMAIN a : ~NeedsRebuild(target[t], a[t].def) =>
            t \in DOMAIN e /\ Between(e[t].def, a[t].def, target[t], t, after)
  <2> SUFFICES ASSUME NEW t, Plain(t)
               PROVE  t \in DOMAIN e /\ Between(e[t].def, a[t].def, target[t], t, after)
    OBVIOUS
  <2>1. CASE t = u
    BY <1>7, <2>1
  <2>2. CASE t # u
    <3>1. t \in DOMAIN d /\ Between(d[t].def, a[t].def, target[t], t, done)
      BY DEF Reached
    <3> QED
      BY <1>4, <2>2, <3>1
  <2> QED
    BY <2>1, <2>2
<1>11. \A t \in DOMAIN a \ DOMAIN target : Touched(t, after) => t \notin DOMAIN e
  BY <1>4, <1>8 DEF Reached
<1>12. Reached(target, a, e, after)
  BY <1>9, <1>10, <1>11 DEF Reached
<1> QED
  BY <1>12 DEF e, run, after

LEMMA ReachedEnds ==
    ASSUME NEW target, IsSchema(target), NEW a, NEW d, IsDatabase(d),
           Reached(target, a, d, DiffOps(target, a)), Blockers(target, a) = {}
    PROVE  /\ \A t \in DOMAIN target : t \in DOMAIN d /\ Matches(d[t].def, target[t])
           /\ \A t \in DOMAIN a \ DOMAIN target : t \notin DOMAIN d
<1> DEFINE D == DiffOps(target, a)
<1>1. ASSUME NEW t \in DOMAIN target, t \in DOMAIN a => NeedsRebuild(target[t], a[t].def)
      PROVE  t \in DOMAIN d /\ Matches(d[t].def, target[t])
  <2>1. Touched(t, D)
    <3>1. CASE t \notin DOMAIN a
      <4> DEFINE op == [kind |-> "CreateTable", table |-> t, item |-> 0, to |-> target[t]]
      <4>1. op \in D /\ op.table = t
        BY <3>1 DEF DiffOps
      <4> QED
        BY <4>1 DEF Touched
    <3>2. CASE t \in DOMAIN a
      <4> DEFINE op == Rebuilding(t, a[t].def, target[t], a[t].listed)
      <4>1. op \in TableOps(t, target[t], a[t].def, a[t].listed)
        BY <1>1, <3>2, RebuildOps
      <4>2. op \in D /\ op.table = t
        BY <3>2, <4>1 DEF DiffOps, Rebuilding
      <4> QED
        BY <4>2 DEF Touched
    <3> QED
      BY <3>1, <3>2
  <2>2. t \in DOMAIN d /\ d[t].def = target[t]
    BY <1>1, <2>1 DEF Reached
  <2> QED
    BY <2>2 DEF Matches
<1>2. ASSUME NEW t \in DOMAIN target \cap DOMAIN a, ~NeedsRebuild(target[t], a[t].def)
      PROVE  t \in DOMAIN d /\ Matches(d[t].def, target[t])
  <2>1. t \in DOMAIN d /\ Between(d[t].def, a[t].def, target[t], t, D)
    BY <1>2 DEF Reached
  <2>2. IsDefinition(d[t].def) /\ IsDefinition(target[t])
    BY <2>1 DEF IsDatabase, IsTable, IsSchema
  <2>3. ASSUME NEW op, op.table = t
        PROVE  op \in D <=> op \in TableOps(t, target[t], a[t].def, a[t].listed)
    <3>1. op \in D => op \in TableOps(t, target[t], a[t].def, a[t].listed)
      BY <1>2, <2>3, OpsOfTable
    <3>2. op \in TableOps(t, target[t], a[t].def, a[t].listed) => op \in D
      BY DEF DiffOps
    <3> QED
      BY <3>1, <3>2
  <2>4. ASSUME NEW c \in Missing(target[t], a[t].def), Required(target[t].columns[c])
        PROVE  FALSE
    <3>1. <<"RequiredColumnAddition", t, c>> \in Blockers(target, a)
      BY <2>4 DEF Blockers
    <3> QED
      BY <3>1
  <2> HIDE DEF D
  <2> QED
    BY <1>2, <2>1, <2>2, <2>3, <2>4, BetweenEnds
<1>3. ASSUME NEW t \in DOMAIN a \ DOMAIN target PROVE t \notin DOMAIN d
  <2> DEFINE op == Removing(t, a[t].listed)
  <2>1. op \in D /\ op.table = t
    BY DEF DiffOps, Removing
  <2>2. Touched(t, D)
    BY <2>1 DEF Touched
  <2> QED
    BY <2>2 DEF Reached
<1> QED
  BY <1>1, <1>2, <1>3

\* A plan names each of its operations once.
LEMMA OpsOnce ==
    ASSUME NEW c \in Client, plan[c] # NoPlan, PlanOf(c), NEW d, Compared(c, d)
    PROVE  \A j, k \in DOMAIN plan[c].ops : plan[c].ops[j] = plan[c].ops[k] => j = k
<1> DEFINE ops == plan[c].ops
           target == plan[c].target
           D == DiffOps(target, Seen(d, PlanScope(plan[c])))
<1>1. PICK a : /\ IsDatabase(a) /\ plan[c].source = Definitions(a)
               /\ ops = PlanOps(target, a)
  BY DEF PlanOf
<1>2. D = ToSet(ops) /\ IsDatabase(Seen(d, PlanScope(plan[c])))
  BY SeenIsDatabase DEF Compared
<1>3. IsFiniteSet(D) /\ IsList(ops) /\ Cardinality(D) = Cardinality(DiffOps(target, a))
  <2>1. IsSchema(target) /\ Definitions(Seen(d, PlanScope(plan[c]))) = Definitions(a)
    BY <1>1 DEF PlanOf, Compared
  <2> QED
    BY <1>1, <1>2, <2>1, FiniteOps, PlanIsList, AsManyOps
<1> HIDE DEF ops, target, D
<1>4. Cardinality(D) \in Nat
  BY <1>3, FS_CardinalityType
<1>5. ops = [k \in 1..Cardinality(D) |-> ops[k]]
  BY <1>1, <1>3 DEF PlanOps
<1> DEFINE n == Cardinality(D)
<1>6. IsFiniteSet(1..n) /\ Cardinality(1..n) = n
  BY <1>4, FS_Interval
<1>7. ops \in Surjection(1..n, D)
  <2>1. DOMAIN ops = 1..n /\ ops = [k \in 1..n |-> ops[k]]
    BY <1>5
  <2>2. D = {ops[k] : k \in 1..n}
    BY <1>2, <2>1 DEF ToSet
  <2> HIDE DEF n
  <2>3. ops \in [1..n -> D]
    BY <2>1, <2>2
  <2> QED
    BY <2>2, <2>3 DEF Surjection
<1> HIDE DEF n
<1>8. ops \in Injection(1..n, D)
  BY <1>6, <1>7, FS_SurjSameCardinalityImpliesInj DEF n
<1>9. \A j, k \in 1..n : ops[j] = ops[k] => j = k
  BY <1>5, <1>8 DEF Injection, IsInjective
<1>10. DOMAIN ops = 1..n
  BY <1>5 DEF n
<1>11. \A j, k \in DOMAIN ops : ops[j] = ops[k] => j = k
  BY <1>9, <1>10
<1> QED
  BY <1>11 DEF ops

\* And the tables no operation has come to are those of base.
OnTheWay(target, a, base, d, done) ==
    /\ Reached(target, a, d, done)
    /\ \A t : ~Touched(t, done) =>
        /\ t \in DOMAIN d <=> t \in DOMAIN base
        /\ t \in DOMAIN d => d[t] = base[t]

LEMMA WayStep ==
    ASSUME NEW target, IsSchema(target), NEW a, NEW base, NEW d, IsDatabase(d), NEW done,
           OnTheWay(target, a, base, d, done),
           NEW op \in DiffOps(target, a) \ done, Accepts(d, Replayed(op, base))
    PROVE  LET e == Perform(d, Replayed(op, base)) IN
           IsDatabase(e) /\ OnTheWay(target, a, base, e, done \cup {op})
<1> DEFINE run == Replayed(op, base)
           e == Perform(d, run)
           after == done \cup {op}
<1>1. Asked(run, target, a) /\ run.kind = op.kind /\ run.table = op.table
      /\ (op.kind # "RebuildTable" => run = op)
  BY ReplayedAreAsked DEF Replayed
<1>2. Reached(target, a, d, done)
  BY DEF OnTheWay
<1> HIDE DEF run
<1>3. IsDatabase(e)
  <2>1. run.kind \in Kinds /\ Carries(run)
    BY <1>1 DEF Asked, Carries, IsSchema
  <2> QED
    BY <2>1, StepKeepsDatabase DEF run
<1>4. Reached(target, a, e, after)
  BY <1>2, ReachedStep DEF run
<1>5. run.kind = "DropIndex" =>
            run.table \in DOMAIN d /\ run.item \in Indexes(d[run.table].def)
  BY <1>1, <1>2, PendingIndex
<1> HIDE DEF e
<1>6. ASSUME NEW t, ~Touched(t, after)
      PROVE  /\ t \in DOMAIN e <=> t \in DOMAIN base
             /\ t \in DOMAIN e => e[t] = base[t]
  <2>1. t # run.table /\ ~Touched(t, done)
    BY <1>1, <1>6 DEF Touched
  <2>2. /\ t \in DOMAIN e <=> t \in DOMAIN d
        /\ t \in DOMAIN d => e[t] = d[t]
    BY <1>1, <1>5, <2>1, OwnTable DEF Asked, e, run
  <2> QED
    BY <2>1, <2>2 DEF OnTheWay
<1>7. OnTheWay(target, a, base, e, after)
  BY <1>4, <1>6 DEF OnTheWay
<1> QED
  BY <1>3, <1>7 DEF e, run

\* The first k operations of the plan.
Done(c, k) == {plan[c].ops[j] : j \in 1..k}

LEMMA StepsOfTodo ==
    ASSUME NEW c \in Client, plan[c] # NoPlan, PlanOf(c), Compared(c, db)
    PROVE  LET D == DiffOps(plan[c].target, Seen(db, PlanScope(plan[c]))) IN
           /\ Len(todo[c]) \in Nat
           /\ Done(c, 0) = {} /\ Done(c, Len(todo[c])) = D
           /\ \A k \in 1..Len(todo[c]) :
                /\ todo[c][k] = Replayed(plan[c].ops[k], db)
                /\ plan[c].ops[k] \in D \ Done(c, k - 1)
                /\ Done(c, k) = Done(c, k - 1) \cup {plan[c].ops[k]}
<1> DEFINE ops == plan[c].ops
           n == Len(todo[c])
           D == DiffOps(plan[c].target, Seen(db, PlanScope(plan[c])))
<1>1. n \in Nat /\ DOMAIN ops = 1..n
  BY TodoIsAsked, PlanIsList DEF IsList, PlanOf
<1>2. D = ToSet(ops) /\ \A k \in 1..n : todo[c][k] = Replayed(ops[k], db)
  BY <1>1 DEF Compared
<1>3. \A i, j \in 1..n : ops[i] = ops[j] => i = j
  BY <1>1, OpsOnce
<1> HIDE DEF n, D
<1>4. Done(c, 0) = {} /\ Done(c, n) = D
  BY <1>1, <1>2 DEF Done, ToSet
<1>5. ASSUME NEW k \in 1..n
      PROVE  ops[k] \in D \ Done(c, k - 1) /\ Done(c, k) = Done(c, k - 1) \cup {ops[k]}
  <2>1. /\ \A j \in 1..(k - 1) : j \in 1..n /\ j # k
        /\ \A j \in 1..k : j \in 1..(k - 1) \/ j = k
        /\ 1..(k - 1) \subseteq 1..k /\ k \in 1..k
    BY <1>1
  <2>2. ops[k] \in D
    BY <1>1, <1>2 DEF ToSet
  <2> HIDE DEF ops
  <2>3. Done(c, k) = {ops[j] : j \in 1..k} /\ Done(c, k - 1) = {ops[j] : j \in 1..(k - 1)}
    BY DEF Done, ops
  <2> QED
    BY <1>3, <2>1, <2>2, <2>3
<1> QED
  BY <1>1, <1>2, <1>4, <1>5 DEF n, D

\* As long as SQLite has refused nothing, the apply is on the way.
LEMMA WalkIsOnTheWay ==
    ASSUME SchemaInv, NEW c \in Client, plan[c] # NoPlan, Compared(c, db),
           NEW w, Walks(w, db, todo[c])
    PROVE  \A k \in 0..Len(todo[c]) : w[k].ok =>
                /\ IsDatabase(w[k].db)
                /\ OnTheWay(plan[c].target, Seen(db, PlanScope(plan[c])), db, w[k].db, Done(c, k))
<1> DEFINE n == Len(todo[c])
           target == plan[c].target
           a == Seen(db, PlanScope(plan[c]))
           Good(k) == w[k].ok => IsDatabase(w[k].db) /\ OnTheWay(target, a, db, w[k].db, Done(c, k))
           G == {k \in 0..n : Good(k)}
<1>1. PlanOf(c) /\ IsSchema(target) /\ IsDatabase(db)
  BY DEF SchemaInv, PlanInv, PlanOf
<1>2. n \in Nat /\ Done(c, 0) = {}
  BY <1>1, StepsOfTodo
<1>3. ASSUME NEW k \in 1..n
      PROVE  /\ todo[c][k] = Replayed(plan[c].ops[k], db)
             /\ plan[c].ops[k] \in DiffOps(target, a) \ Done(c, k - 1)
             /\ Done(c, k) = Done(c, k - 1) \cup {plan[c].ops[k]}
  BY <1>1, StepsOfTodo
<1>4. Good(0)
  <2>1. w[0].db = db
    BY DEF Walks
  <2>2. \A t : ~Touched(t, {})
    BY DEF Touched
  <2>3. \A t \in DOMAIN target \cap DOMAIN a : t \in DOMAIN db /\ db[t] = a[t]
    BY DEF Seen
  <2> HIDE DEF target, a
  <2>4. Reached(target, a, db, {})
    BY <2>2, <2>3, BetweenStarts DEF Reached
  <2>5. OnTheWay(target, a, db, db, {})
    BY <2>2, <2>4 DEF OnTheWay
  <2> QED
    BY <1>1, <1>2, <2>1, <2>5
<1>5. ASSUME NEW k \in 1..n, Good(k - 1) PROVE Good(k)
  <2> DEFINE op == plan[c].ops[k]
             d == w[k - 1].db
  <2>1. SUFFICES ASSUME w[k].ok
                 PROVE  IsDatabase(w[k].db) /\ OnTheWay(target, a, db, w[k].db, Done(c, k))
    OBVIOUS
  <2>2. w[k] = After(w[k - 1], Replayed(op, db))
    BY <1>3 DEF Walks
  <2>3. w[k - 1].ok /\ Accepts(d, Replayed(op, db)) /\ w[k].db = Perform(d, Replayed(op, db))
    BY <2>1, <2>2 DEF After
  <2>4. IsDatabase(d) /\ OnTheWay(target, a, db, d, Done(c, k - 1))
    BY <1>5, <2>3
  <2>5. op \in DiffOps(target, a) \ Done(c, k - 1) /\ Done(c, k) = Done(c, k - 1) \cup {op}
    BY <1>3
  <2> HIDE DEF target, a, op, d
  <2> QED
    BY <1>1, <2>3, <2>4, <2>5, WayStep
<1> HIDE DEF Good, n
<1>6. \A k \in 0..n : k \in G
  <2>1. 0 \in G
    BY <1>2, <1>4
  <2>2. ASSUME NEW k \in 1..n, k - 1 \in G PROVE k \in G
    <3>1. k \in 0..n
      BY <1>2
    <3> QED
      BY <1>5, <2>2, <3>1
  <2> HIDE DEF G
  <2> QED
    BY <1>2, <2>1, <2>2, Counting
<1>7. \A k \in 0..n : Good(k)
  BY <1>6
<1> QED
  BY <1>7 DEF Good, n

\* An apply that commits has gone all the way.
LEMMA ApplyGoesAllTheWay ==
    ASSUME OneProcess, SchemaInv, NEW c \in Client, Apply(c)
    PROVE  LET target == plan[c].target
               a == Seen(db, PlanScope(plan[c])) IN
           /\ Compared(c, db) /\ IsSchema(target) /\ IsDatabase(db')
           /\ OnTheWay(target, a, db, db', DiffOps(target, a))
<1>1. stage[c] # "idle" /\ PerformAll(db, todo[c]).ok /\ db' = PerformAll(db, todo[c]).db
  BY DEF Apply
<1>2. Compared(c, db) /\ plan[c] # NoPlan /\ PlanOf(c) /\ IsSchema(plan[c].target)
  BY <1>1 DEF SchemaInv, PlanInv, PlanOf, ApplyInv, ApplyOf
<1> DEFINE n == Len(todo[c])
<1>3. n \in Nat /\ Done(c, n) = DiffOps(plan[c].target, Seen(db, PlanScope(plan[c])))
  BY <1>2, StepsOfTodo
<1>4. PICK w : Walks(w, db, todo[c]) /\ PerformAll(db, todo[c]) = w[n]
  BY <1>3, Performed
<1>5. n \in 0..n
  BY <1>3
<1>6. /\ IsDatabase(w[n].db)
      /\ OnTheWay(plan[c].target, Seen(db, PlanScope(plan[c])), db, w[n].db, Done(c, n))
  BY <1>1, <1>2, <1>4, <1>5, WalkIsOnTheWay
<1> QED
  BY <1>1, <1>2, <1>3, <1>4, <1>6

\* In one process an apply is all or nothing.  A plan that was applied has
\* reached its target: whatever the tables, their rows and their indexes were
\* before, every table of the target is there as wanted, and every other table
\* of the plan is gone.  One that failed, also half way, left the schema the
\* plan was made for, for nobody else came between.  (Another
\* process may change a table between the comparison and the transaction, the
\* hypothesis.)
THEOREM PlansReachTheirTarget ==
    ASSUME OneProcess
    PROVE  Spec => ApplyReachesTarget
<1> DEFINE There(c) ==
                /\ \A t \in DOMAIN plan[c].target :
                    t \in DOMAIN db' /\ Matches(db'[t].def, plan[c].target[t])
                /\ DOMAIN db' \cap PlanScope(plan[c]) = DOMAIN plan[c].target
<1>1. ASSUME SchemaInv, [Next]_vars, NEW c \in Client, Commits(c)
      PROVE  There(c)
  <2> DEFINE target == plan[c].target
             a == Seen(db, PlanScope(plan[c]))
  <2>1. /\ Compared(c, db) /\ IsSchema(target) /\ IsDatabase(db')
        /\ Reached(target, a, db', DiffOps(target, a))
    BY <1>1, CommitIsApply, ApplyGoesAllTheWay DEF OnTheWay
  <2>2. Blockers(target, a) = {} /\ Definitions(a) = plan[c].source
    BY <2>1 DEF Compared
  <2>3. /\ \A t \in DOMAIN target : t \in DOMAIN db' /\ Matches(db'[t].def, target[t])
        /\ \A t \in DOMAIN a \ DOMAIN target : t \notin DOMAIN db'
    <3> HIDE DEF target, a
    <3> QED
      BY <2>1, <2>2, ReachedEnds
  <2>4. PlanScope(plan[c]) = DOMAIN a \cup DOMAIN target
    <3>1. DOMAIN Definitions(a) = DOMAIN a
      BY DEF Definitions
    <3> HIDE DEF a
    <3> QED
      BY <2>2, <3>1 DEF PlanScope
  <2> QED
    BY <2>3, <2>4
<1> DEFINE Back(c) == Definitions(Introspect(PlanScope(plan[c])))' = plan[c].source
           Ends(c) == stage[c] # "idle" /\ stage'[c] = "idle"
<1>2. ASSUME SchemaInv, [Next]_vars, NEW c \in Client, Ends(c), ~Commits(c)
      PROVE  Back(c)
  <2>1. UNCHANGED <<db, plan>>
    BY <1>2, EndsWithoutCommit
  <2>2. Compared(c, db)
    BY <1>2 DEF SchemaInv, ApplyInv, ApplyOf
  <2>3. Definitions(Introspect(PlanScope(plan[c]))) = plan[c].source
    BY <2>2 DEF Compared, Introspect, Seen
  <2>4. Definitions(Introspect(PlanScope(plan[c])))'
            = Definitions(Introspect(PlanScope(plan[c])))
    BY <2>1 DEF Definitions, Introspect, PlanScope
  <2> QED
    BY <2>3, <2>4
<1>3. SchemaInv /\ [Next]_vars =>
        [\A c \in Client : Ends(c) => IF Commits(c) THEN There(c) ELSE Back(c)]_vars
  <2> HIDE DEF There, Back, Ends
  <2> QED
    BY <1>1, <1>2
<1> QED
  BY <1>3, SchemaAlways, PTL DEF Spec, ApplyReachesTarget

-----------------------------------------------------------------------------
(***************************************************************************)
(* The order of a plan.  Names are numbers, and no two tables have an      *)
(* index name in common: owner tells whose it is.                          *)
(***************************************************************************)
Owned(schema, owner) ==
    \A t \in DOMAIN schema :
        /\ t \in Int /\ Columns(schema[t]) \subseteq Int
        /\ \A i \in Indexes(schema[t]) : i \in Int /\ owner[i] = t

LEMMA KeysOfOps ==
    ASSUME NEW target, NEW owner, Owned(target, owner), NEW a, Owned(Definitions(a), owner),
           NEW op \in DiffOps(target, a)
    PROVE  op.kind \in Kinds /\ op.table \in Int /\ op.item \in Int
<1>1. op.kind \in Kinds
  BY OpsAreAsked DEF Asked
<1>2. \A t \in DOMAIN target : /\ t \in Int /\ Columns(target[t]) \subseteq Int
                               /\ Indexes(target[t]) \subseteq Int
  BY DEF Owned
<1>3. \A t \in DOMAIN a : t \in Int /\ Indexes(a[t].def) \subseteq Int
  BY DEF Owned, Definitions
<1>4. op.table \in Int /\ op.item \in Int
  BY <1>2, <1>3, FormOfOps DEF Rebuilding, Removing
<1> QED
  BY <1>1, <1>4

LEMMA RankOfKinds ==
    /\ \A kind \in Kinds : Rank(kind) \in Int
    /\ \A k, l \in Kinds : Rank(k) = Rank(l) => k = l
    /\ Rank("DropIndex") < Rank("CreateIndex") /\ Rank("AddColumn") < Rank("CreateIndex")
<1>1. /\ Rank("DropIndex") = 0 /\ Rank("CreateTable") = 1 /\ Rank("AddColumn") = 2
      /\ Rank("RebuildTable") = 3 /\ Rank("CreateIndex") = 4 /\ Rank("DropTable") = 5
  BY DEF Rank
<1>2. \A kind \in Kinds : Rank(kind) \in Int
  BY <1>1 DEF Kinds
<1>3. ASSUME NEW k \in Kinds, NEW l \in Kinds, Rank(k) = Rank(l) PROVE k = l
  BY <1>1, <1>3 DEF Kinds
<1> QED
  BY <1>1, <1>2, <1>3

LEMMA PrecedesIs ==
    ASSUME NEW o, NEW op
    PROVE  Precedes(o, op) <=>
            \/ Rank(o.kind) < Rank(op.kind)
            \/ Rank(o.kind) = Rank(op.kind) /\ o.table < op.table
            \/ Rank(o.kind) = Rank(op.kind) /\ o.table = op.table /\ o.item < op.item
<1> DEFINE key(p) == <<Rank(p.kind), p.table, p.item>>
           Less(k) == key(o)[k] < key(op)[k] /\ \A j \in 1..(k - 1) : key(o)[j] = key(op)[j]
<1>1. Precedes(o, op) <=> \E k \in 1..3 : Less(k)
  BY DEF Precedes
<1>2. Less(1) <=> Rank(o.kind) < Rank(op.kind)
  OBVIOUS
<1>3. Less(2) <=> Rank(o.kind) = Rank(op.kind) /\ o.table < op.table
  OBVIOUS
<1>4. Less(3) <=> Rank(o.kind) = Rank(op.kind) /\ o.table = op.table /\ o.item < op.item
  <2>1. \A j \in 1..(3 - 1) : j = 1 \/ j = 2
    OBVIOUS
  <2>2. 1 \in 1..(3 - 1) /\ 2 \in 1..(3 - 1)
    OBVIOUS
  <2> QED
    BY <2>1, <2>2
<1> HIDE DEF Less
<1>5. (\E k \in 1..3 : Less(k)) <=> Less(1) \/ Less(2) \/ Less(3)
  <2>1. \A k \in 1..3 : k = 1 \/ k = 2 \/ k = 3
    OBVIOUS
  <2> QED
    BY <2>1
<1> QED
  BY <1>1, <1>2, <1>3, <1>4, <1>5

\* No operation precedes itself, and of two that differ one precedes the other.
LEMMA PrecedesIsOrder ==
    ASSUME NEW target, NEW owner, Owned(target, owner), NEW a, Owned(Definitions(a), owner),
           NEW o \in DiffOps(target, a), NEW op \in DiffOps(target, a)
    PROVE  /\ ~Precedes(o, o)
           /\ o # op => Precedes(o, op) \/ Precedes(op, o)
           /\ \A p \in DiffOps(target, a) : Precedes(p, o) /\ Precedes(o, op) => Precedes(p, op)
<1>1. ASSUME NEW p \in DiffOps(target, a)
      PROVE  p.kind \in Kinds /\ Rank(p.kind) \in Int /\ p.table \in Int /\ p.item \in Int
  <2>1. p.kind \in Kinds /\ p.table \in Int /\ p.item \in Int
    BY KeysOfOps
  <2> QED
    BY <2>1, RankOfKinds
<1>2. ~Precedes(o, o)
  BY <1>1, PrecedesIs
<1>3. ASSUME o # op PROVE Precedes(o, op) \/ Precedes(op, o)
  <2>1. ~(o.kind = op.kind /\ o.table = op.table /\ o.item = op.item)
    BY <1>3, KeyTellsOp DEF SameOp
  <2>2. Rank(o.kind) = Rank(op.kind) => o.kind = op.kind
    BY <1>1, RankOfKinds
  <2> QED
    BY <1>1, <2>1, <2>2, PrecedesIs
<1>4. ASSUME NEW p \in DiffOps(target, a), Precedes(p, o), Precedes(o, op)
      PROVE  Precedes(p, op)
  BY <1>1, <1>4, PrecedesIs
<1> QED
  BY <1>2, <1>3, <1>4

\* A plan lists the operations, each after all that precede it.
LEMMA PlanOrder ==
    ASSUME NEW target, IsSchema(target), NEW a, IsDatabase(a),
           NEW owner, Owned(target, owner), Owned(Definitions(a), owner)
    PROVE  LET ops == PlanOps(target, a) IN
           \A k \in 1..Len(ops) :
                /\ ops[k] \in DiffOps(target, a)
                /\ \A o \in DiffOps(target, a) :
                    Precedes(o, ops[k]) => \E j \in 1..(k - 1) : ops[j] = o
<1> DEFINE D == DiffOps(target, a)
           R == {p \in D \X D : Precedes(p[1], p[2])}
           ops == PlanOps(target, a)
<1>1. IsFiniteSet(D)
  BY FiniteOps
<1>2. \A o, op \in D : <<o, op>> \in R <=> Precedes(o, op)
  OBVIOUS
<1>3. /\ \A op \in D : ~Precedes(op, op)
      /\ \A o, op \in D : o # op => Precedes(o, op) \/ Precedes(op, o)
      /\ \A p, o, op \in D : Precedes(p, o) /\ Precedes(o, op) => Precedes(p, op)
  BY PrecedesIsOrder
<1>4. ops = Ranked(D, R)
  <2>1. ASSUME NEW op \in D PROVE Below(D, R, op) = {o \in D : Precedes(o, op)}
    BY DEF Below
  <2>2. ops = [k \in 1..Cardinality(D) |-> CHOOSE op \in D :
                    Cardinality({o \in D : Precedes(o, op)}) = k - 1]
    BY DEF PlanOps
  <2>3. Ranked(D, R) = [k \in 1..Cardinality(D) |-> CHOOSE op \in D : Cardinality(Below(D, R, op)) = k - 1]
    BY DEF Ranked
  <2> HIDE DEF D, R, ops
  <2>4. ASSUME NEW k \in 1..Cardinality(D)
        PROVE  (CHOOSE op \in D : Cardinality({o \in D : Precedes(o, op)}) = k - 1)
                    = CHOOSE op \in D : Cardinality(Below(D, R, op)) = k - 1
    <3>1. \A op \in D : Cardinality({o \in D : Precedes(o, op)}) = Cardinality(Below(D, R, op))
      BY <2>1
    <3> QED
      BY <3>1
  <2> QED
    BY <2>2, <2>3, <2>4
<1> HIDE DEF D, R, ops
<1>5. Orders(R, D)
  BY <1>2, <1>3 DEF Orders
<1>6. Lists(ops, D, R)
  BY <1>1, <1>4, <1>5, RankedLists
<1>7. \A k \in 1..Len(ops) :
            ops[k] \in D /\ \A o \in D : Precedes(o, ops[k]) => \E j \in 1..(k - 1) : ops[j] = o
  BY <1>2, <1>6 DEF Lists
<1> QED
  BY <1>7 DEF ops, D

-----------------------------------------------------------------------------
(***************************************************************************)
(* No operation is refused.                                                *)
(***************************************************************************)
\* On the way every index still has the owner it had or will have.
LEMMA WayIsOwned ==
    ASSUME NEW target, NEW owner, Owned(target, owner), NEW base, Owned(Definitions(base), owner),
           NEW a, \A t \in DOMAIN a : t \in DOMAIN base /\ a[t] = base[t],
           NEW d, NEW done \in SUBSET DiffOps(target, a), OnTheWay(target, a, base, d, done)
    PROVE  Owned(Definitions(d), owner)
<1> DEFINE Own(t, def) == /\ t \in Int /\ Columns(def) \subseteq Int
                          /\ \A i \in Indexes(def) : i \in Int /\ owner[i] = t
<1>1. \A t \in DOMAIN target : Own(t, target[t])
  BY DEF Owned
<1>2. \A t \in DOMAIN base : Own(t, base[t].def)
  BY DEF Owned, Definitions
<1>3. ASSUME NEW t \in DOMAIN d PROVE Own(t, d[t].def)
  <2>1. CASE ~Touched(t, done)
    BY <1>2, <2>1 DEF OnTheWay
  <2>2. CASE Touched(t, done)
    <3>1. PICK op \in done : op.table = t
      BY <2>2 DEF Touched
    <3>2. t \in DOMAIN target \cup DOMAIN a
      BY <3>1, OpsOfTable
    <3>3. t \in DOMAIN target
      BY <2>2, <3>2 DEF OnTheWay, Reached
    <3>4. CASE t \in DOMAIN a => NeedsRebuild(target[t], a[t].def)
      <4>1. d[t].def = target[t]
        BY <2>2, <3>3, <3>4 DEF OnTheWay, Reached
      <4> QED
        BY <1>1, <3>3, <4>1
    <3>5. CASE t \in DOMAIN a /\ ~NeedsRebuild(target[t], a[t].def)
      <4> DEFINE from == a[t].def
                 to == target[t]
                 def == d[t].def
                 listed == a[t].listed
      <4>1. Between(def, from, to, t, done)
        BY <3>3, <3>5 DEF OnTheWay, Reached
      <4>2. \A o \in done : o.table = t => o \in TableOps(t, to, from, listed)
        BY <3>3, <3>5, OpsOfTable
      <4>3. ASSUME NEW c, Adding(t, c, to) \in done PROVE c \in Columns(to)
        <5>1. Adding(t, c, to) \in TableOps(t, to, from, listed)
          BY <4>2, <4>3 DEF Adding
        <5>2. \E m \in Missing(to, from) : Adding(t, c, to) = Adding(t, m, to)
          BY <3>5, <5>1, PlainOps DEF Adding, Creating, Dropping
        <5> QED
          BY <5>2 DEF Adding, Missing
      <4>4. ASSUME NEW i, Creating(t, i, to) \in done PROVE i \in Indexes(to)
        <5>1. Creating(t, i, to) \in TableOps(t, to, from, listed)
          BY <4>2, <4>4 DEF Creating
        <5>2. \E j \in Indexes(to) : Creating(t, i, to) = Creating(t, j, to)
          BY <3>5, <5>1, PlainOps DEF Adding, Creating, Dropping
        <5> QED
          BY <5>2 DEF Creating
      <4>5. Own(t, from) /\ Own(t, to)
        BY <1>1, <1>2, <3>3, <3>5
      <4> HIDE DEF from, to, def, listed
      <4>6. Columns(def) \subseteq Columns(from) \cup Columns(to)
        BY <4>1, <4>3 DEF Between
      <4>7. Indexes(def) \subseteq Indexes(from) \cup Indexes(to)
        BY <4>1, <4>4 DEF Between
      <4>8. Own(t, def)
        BY <4>5, <4>6, <4>7
      <4> QED
        BY <4>8 DEF def
    <3> QED
      BY <3>4, <3>5
  <2> QED
    BY <2>1, <2>2
<1> QED
  BY <1>3 DEF Owned, Definitions

\* The only operation of its table waits for a table as it was.
LEMMA AloneWaits ==
    ASSUME NEW target, NEW a, NEW op \in DiffOps(target, a),
           op.table \in DOMAIN target \cap DOMAIN a =>
                NeedsRebuild(target[op.table], a[op.table].def),
           NEW done \in SUBSET (DiffOps(target, a) \ {op})
    PROVE  ~Touched(op.table, done)
<1> DEFINE u == op.table
<1> SUFFICES ASSUME NEW o \in done, o.table = u PROVE FALSE
  BY DEF Touched
<1>1. o \in DiffOps(target, a) /\ o # op
  OBVIOUS
<1>2. CASE u \in DOMAIN target \cap DOMAIN a
  <2>1. {o, op} \subseteq TableOps(u, target[u], a[u].def, a[u].listed)
    BY <1>1, <1>2, OpsOfTable
  <2> QED
    BY <1>1, <1>2, <2>1, RebuildOps
<1>3. CASE u \notin DOMAIN target \cap DOMAIN a
  BY <1>1, <1>3, FormOfOps DEF Adding, Creating, Dropping, Rebuilding, Removing
<1> QED
  BY <1>2, <1>3

NoRows(d) == \A t \in DOMAIN d : d[t].rows = {}

\* No operation makes rows.
LEMMA NoRowsStay ==
    ASSUME NEW d, IsDatabase(d), NoRows(d), NEW op, op.kind \in Kinds, Accepts(d, op)
    PROVE  NoRows(Perform(d, op))
<1> DEFINE u == op.table
           e == Perform(d, op)
<1>0. \A t \in DOMAIN d : IsTable(d[t])
  BY DEF IsDatabase
<1>1. CASE op.kind = "CreateTable"
  <2>1. e = With(d, u, EmptyTable(op.to))
    BY <1>1 DEF Perform
  <2> HIDE DEF e
  <2> QED
    BY <2>1 DEF With, EmptyTable, NoRows, e
<1>2. CASE op.kind = "AddColumn"
  <2> DEFINE x == op.item
             column == op.to.columns[x]
  <2>1. /\ u \in DOMAIN d /\ DOMAIN e = DOMAIN d /\ \A t \in DOMAIN d \ {u} : e[t] = d[t]
        /\ e[u] = ColumnAdded(d[u], x, column)
    BY <1>2 DEF Perform, Accepts
  <2> HIDE DEF e, x, column
  <2>2. e[u].rows = {Wider(r, x, column) : r \in d[u].rows}
    BY <1>0, <2>1, ColumnAddedIs DEF Table
  <2> QED
    BY <2>1, <2>2 DEF NoRows, e
<1>3. CASE op.kind = "CreateIndex"
  <2>1. /\ u \in DOMAIN d /\ DOMAIN e = DOMAIN d /\ \A t \in DOMAIN d \ {u} : e[t] = d[t]
        /\ e[u] = IndexAdded(d[u], op.item, op.to.indexes[op.item])
    BY <1>3 DEF Perform, Accepts
  <2>2. e[u].rows = d[u].rows
    BY <1>0, <2>1, IndexAddedIs DEF Table
  <2> HIDE DEF e
  <2> QED
    BY <2>1, <2>2 DEF NoRows, e
<1>4. CASE op.kind = "DropIndex"
  <2>1. e = [t \in DOMAIN d |-> IndexDropped(d[t], op.item)]
    BY <1>4 DEF Perform
  <2>2. \A t \in DOMAIN d : e[t].rows = d[t].rows
    BY <1>0, <2>1, DropLeavesColumns
  <2>3. DOMAIN e = DOMAIN d
    BY <2>1
  <2> HIDE DEF e
  <2> QED
    BY <2>2, <2>3 DEF NoRows, e
<1>5. CASE op.kind = "RebuildTable"
  <2>1. /\ u \in DOMAIN d /\ DOMAIN e = DOMAIN d /\ \A t \in DOMAIN d \ {u} : e[t] = d[t]
        /\ e[u] = Rebuilt(d[u], op)
    BY <1>5 DEF Perform, Accepts
  <2>2. e[u].rows = Copied(op.from, op.to, d[u].rows)
    BY <1>0, <2>1, RebuiltIs DEF Table
  <2>3. e[u].rows = {}
    BY <2>1, <2>2 DEF Copied, NoRows
  <2> HIDE DEF e
  <2> QED
    BY <2>1, <2>3 DEF NoRows, e
<1>6. CASE op.kind = "DropTable"
  BY <1>6 DEF Perform, Without, NoRows
<1> QED
  BY <1>1, <1>2, <1>3, <1>4, <1>5, <1>6 DEF Kinds

\* On a table that is not rebuilt, SQLite takes each operation when those that
\* precede it have run: an index follows its columns, and the index it replaces.
LEMMA PlainIsAccepted ==
    ASSUME NEW target, IsSchema(target), NEW owner, Owned(target, owner),
           NEW a, Blockers(target, a) = {},
           NEW d, IsDatabase(d), NoRows(d), Owned(Definitions(d), owner),
           NEW done, Reached(target, a, d, done),
           NEW op \in DiffOps(target, a) \ done,
           \A o \in DiffOps(target, a) : Precedes(o, op) => o \in done,
           op.table \in DOMAIN target \cap DOMAIN a,
           ~NeedsRebuild(target[op.table], a[op.table].def)
    PROVE  Accepts(d, op)
<1> DEFINE t == op.table
           to == target[t]
           from == a[t].def
           def == d[t].def
           listed == a[t].listed
           D == DiffOps(target, a)
<1>1. t \in DOMAIN d /\ Between(def, from, to, t, done)
  BY DEF Reached
<1>2. IsDefinition(to) /\ to.primary_key = from.primary_key
  BY DEF IsSchema, NeedsRebuild
<1>3. op \in TableOps(t, to, from, listed)
  BY OpsOfTable
<1>4. \A o : o \in TableOps(t, to, from, listed) => o \in D
  BY DEF DiffOps
<1>5. \A i, u : u \in DOMAIN d /\ i \in Indexes(d[u].def) => owner[i] = u
  BY DEF Owned, Definitions
<1>6. \A i \in Indexes(to) : owner[i] = t
  BY DEF Owned
<1>7. ~NeedsRebuild(to, from) /\ d[t].rows = {}
  BY <1>1 DEF NoRows
<1>8. \A o \in D : Rank(o.kind) < Rank(op.kind) => o \in done
  BY PrecedesIs
<1>9. ASSUME NEW c \in Missing(to, from) PROVE ~Required(to.columns[c])
  <2>1. Required(to.columns[c]) => <<"RequiredColumnAddition", t, c>> \in Blockers(target, a)
    BY <1>9 DEF Blockers
  <2> QED
    BY <2>1
<1>10. op \notin done
  OBVIOUS
<1> HIDE DEF D, to, from, def, listed
<1>11. ASSUME NEW x \in Missing(to, from), op = Adding(t, x, to)
       PROVE  Accepts(d, op)
  <2>1. op.kind = "AddColumn" /\ op.item = x /\ op.to = to
    BY <1>11 DEF Adding
  <2>2. x \in Columns(to) /\ x \notin Columns(from)
    BY DEF Missing
  <2>3. x \notin Columns(def) /\ def.primary_key = to.primary_key
    BY <1>1, <1>2, <1>10, <1>11, <2>2 DEF Between
  <2>4. x # to.primary_key
    BY <1>2, <2>2 DEF IsDefinition
  <2> QED
    BY <1>1, <1>7, <2>1, <2>3, <2>4 DEF Accepts, def
<1>12. ASSUME NEW i \in Indexes(to), IndexDiffers(to, from, i), op = Creating(t, i, to)
       PROVE  Accepts(d, op)
  <2> DEFINE column == to.indexes[i].column
  <2>1. op.kind = "CreateIndex" /\ op.item = i /\ op.to = to
    BY <1>12 DEF Creating
  <2>2. i \notin Indexes(from) \/ Dropping(t, i) \in done
    <3> SUFFICES ASSUME i \in Indexes(from) PROVE Dropping(t, i) \in done
      OBVIOUS
    <3>1. Dropping(t, i) \in TableOps(t, to, from, listed)
      BY <1>7, <1>12, PlainOps
    <3>2. Dropping(t, i) \in D /\ Dropping(t, i).kind = "DropIndex"
      BY <1>4, <3>1 DEF Dropping
    <3> QED
      BY <1>8, <2>1, <3>2, RankOfKinds
  <2>3. i \notin Indexes(def)
    BY <1>1, <1>10, <1>12, <2>2 DEF Between
  <2>4. i \notin IndexNames(d)
    <3> SUFFICES ASSUME NEW u \in DOMAIN d, i \in Indexes(d[u].def) PROVE FALSE
      BY DEF IndexNames
    <3>1. u = t
      BY <1>5, <1>6
    <3> QED
      BY <2>3, <3>1 DEF def
  <2>5. column \in Columns(to) \cup {to.primary_key}
    BY <1>2 DEF IsDefinition
  <2>6. ASSUME column \in Missing(to, from) PROVE column \in Columns(def)
    <3>1. Adding(t, column, to) \in TableOps(t, to, from, listed)
      BY <1>7, <1>9, <2>6, PlainOps
    <3>2. Adding(t, column, to) \in D /\ Adding(t, column, to).kind = "AddColumn"
      BY <1>4, <3>1 DEF Adding
    <3>3. Adding(t, column, to) \in done
      BY <1>8, <2>1, <3>2, RankOfKinds
    <3> QED
      BY <1>1, <3>3 DEF Between
  <2>7. column \in Columns(def) \cup {def.primary_key}
    BY <1>1, <1>2, <2>5, <2>6 DEF Between, Missing
  <2>8. ~Duplicates(def, d[t].rows, column)
    BY <1>7 DEF Duplicates
  <2> QED
    BY <1>1, <2>1, <2>4, <2>7, <2>8 DEF Accepts, def
<1>13. ASSUME NEW i \in Indexes(from), op = Dropping(t, i)
       PROVE  Accepts(d, op)
  <2>1. op.kind = "DropIndex" /\ op.item = i
    BY <1>13 DEF Dropping
  <2>2. i \in Indexes(d[t].def)
    BY <2>1, PendingIndex
  <2> QED
    BY <1>1, <2>1, <2>2 DEF Accepts, IndexNames
<1> QED
  BY <1>3, <1>7, <1>11, <1>12, <1>13, PlainOps

\* The same of a table that is created, rebuilt or dropped.
LEMMA AloneIsAccepted ==
    ASSUME NEW target, NEW owner, Owned(target, owner), NEW base, NEW scope,
           DOMAIN target \subseteq scope, \A t \in DOMAIN base : base[t].handmade = {},
           NEW d, NoRows(d), Owned(Definitions(d), owner),
           NEW op \in DiffOps(target, Seen(base, scope)),
           NEW done \in SUBSET (DiffOps(target, Seen(base, scope)) \ {op}),
           OnTheWay(target, Seen(base, scope), base, d, done),
           op.table \in DOMAIN target \cap DOMAIN Seen(base, scope) =>
                NeedsRebuild(target[op.table], Seen(base, scope)[op.table].def)
    PROVE  Accepts(d, Replayed(op, base))
<1> DEFINE a == Seen(base, scope)
           t == op.table
           run == Replayed(op, base)
<1>1. ~Touched(t, done)
  BY AloneWaits
<1>2. t \in DOMAIN d <=> t \in DOMAIN base
  BY <1>1 DEF OnTheWay
<1>3. t \in DOMAIN d => d[t].def = base[t].def
  BY <1>1 DEF OnTheWay
<1>4. /\ DOMAIN a = DOMAIN base \cap scope /\ \A u \in DOMAIN a : a[u] = base[u]
  BY DEF Seen
<1>5. ASSUME NEW u \in DOMAIN d, NEW i \in Indexes(d[u].def), t \in DOMAIN target,
             i \in Indexes(target[t])
      PROVE  u = t
  BY <1>5 DEF Owned, Definitions
<1>6. /\ Asked(run, target, a) /\ run.kind = op.kind /\ run.table = t
      /\ op.kind = "RebuildTable" => run.replay = base[t].handmade
  BY ReplayedAreAsked
<1> HIDE DEF a, run, t
<1>7. CASE t \in DOMAIN target \ DOMAIN a
  <2>1. run.kind = "CreateTable" /\ run.to = target[t]
    BY <1>6, <1>7, OpsOfTable DEF Asked, a, t
  <2>2. t \notin DOMAIN d
    BY <1>2, <1>4, <1>7
  <2>3. Indexes(target[t]) \cap IndexNames(d) = {}
    BY <1>5, <1>7, <2>2 DEF IndexNames
  <2> QED
    BY <1>6, <2>1, <2>2, <2>3 DEF Accepts, run
<1>8. CASE t \in DOMAIN target \cap DOMAIN a
  <2>1. op = Rebuilding(t, a[t].def, target[t], a[t].listed)
    BY <1>8, OpsOfTable, RebuildOps DEF a, t
  <2>2. run.kind = "RebuildTable" /\ run.to = target[t] /\ run.from = a[t].def
    BY <1>6, <2>1 DEF Asked, Rebuilding
  <2>3. t \in DOMAIN d /\ d[t].def = run.from /\ run.replay = {}
    BY <1>2, <1>3, <1>4, <1>6, <1>8, <2>1, <2>2 DEF Rebuilding
  <2>4. Copied(run.from, run.to, d[t].rows) = {}
    BY <2>3 DEF Copied, NoRows
  <2>5. /\ NullsAllowed(run.to, {})
        /\ \A i \in Indexes(run.to) : UniqueHolds(run.to, {}, i)
    BY DEF NullsAllowed, UniqueHolds, Duplicates
  <2>6. Indexes(run.to) \cap IndexNames(Without(d, t)) = {}
    BY <1>5, <1>8, <2>2 DEF IndexNames, Without
  <2>7. Retained(run.from, run.to) \subseteq Columns(d[t].def)
    BY <2>3 DEF Retained
  <2> QED
    BY <1>6, <2>2, <2>3, <2>4, <2>5, <2>6, <2>7 DEF Accepts, run
<1>9. CASE t \notin DOMAIN target
  <2>1. run.kind = "DropTable" /\ t \in DOMAIN a
    BY <1>6, <1>9, OpsOfTable DEF a, t
  <2> QED
    BY <1>2, <1>4, <1>6, <2>1 DEF Accepts, run
<1> QED
  BY <1>7, <1>8, <1>9

\* Nobody's index has the name of another table's.
OwnedInv(owner) ==
    /\ Owned(Definitions(db), owner)
    /\ \A c \in Client : plan[c] # NoPlan => Owned(plan[c].target, owner)

\* SQLite refuses no operation of an apply that has compared.
LEMMA ApplyIsAccepted ==
    ASSUME SchemaInv, NEW owner, OwnedInv(owner), NEW c \in Client, plan[c] # NoPlan,
           Compared(c, db), \A t \in DOMAIN db : db[t].rows = {} /\ db[t].handmade = {}
    PROVE  PerformAll(db, todo[c]).ok
<1> DEFINE target == plan[c].target
           scope == PlanScope(plan[c])
           a == Seen(db, scope)
           D == DiffOps(target, a)
           ops == plan[c].ops
           n == Len(todo[c])
<1>1. PlanOf(c) /\ IsSchema(target) /\ IsDatabase(db)
  BY DEF SchemaInv, PlanInv, PlanOf
<1>2. Owned(target, owner) /\ Owned(Definitions(db), owner) /\ Owned(Definitions(a), owner)
  BY DEF OwnedInv, Owned, Definitions, Seen
<1>3. /\ n \in Nat /\ Done(c, 0) = {} /\ Done(c, n) = D
      /\ \A k \in 1..n :
            /\ todo[c][k] = Replayed(ops[k], db)
            /\ ops[k] \in D \ Done(c, k - 1)
            /\ Done(c, k) = Done(c, k - 1) \cup {ops[k]}
  BY <1>1, StepsOfTodo
<1>4. /\ Blockers(target, a) = {} /\ DOMAIN target \subseteq scope
      /\ \A t \in DOMAIN a : t \in DOMAIN db /\ a[t] = db[t]
  BY DEF Compared, PlanScope, Seen
<1>5. ASSUME NEW k \in 1..n, NEW o \in D, Precedes(o, ops[k]) PROVE o \in Done(c, k - 1)
  <2>1. PICK b : /\ IsDatabase(b) /\ plan[c].source = Definitions(b)
                 /\ ops = PlanOps(target, b)
    BY <1>1 DEF PlanOf
  <2>2. Definitions(a) = Definitions(b)
    BY <2>1 DEF Compared
  <2>3. Owned(Definitions(b), owner)
    BY <1>2, <2>2
  <2>4. k \in 1..Len(ops) /\ IsList(ops) /\ D = ToSet(ops)
    <3>1. IsSchema(target)
      BY <1>1
    <3>2. IsList(ops)
      BY <2>1, <3>1, PlanIsList
    <3> QED
      BY <1>1, <3>2, TodoIsAsked DEF Compared
  <2> HIDE DEF target, a, n, D
  <2>5. o \in DiffOps(target, b)
    <3>1. PICK m \in 1..Len(ops) : o = ops[m]
      BY <2>4 DEF ToSet, IsList
    <3> QED
      BY <1>1, <1>2, <2>1, <2>3, <3>1, PlanOrder
  <2>6. \E j \in 1..(k - 1) : ops[j] = o
    BY <1>1, <1>2, <1>5, <2>1, <2>3, <2>4, <2>5, PlanOrder
  <2> QED
    BY <2>6 DEF Done
<1>6. ASSUME NEW k \in 1..n PROVE Done(c, k - 1) \in SUBSET (D \ {ops[k]})
  <2>1. \A j \in 1..(k - 1) : j \in 1..n
    BY <1>3
  <2>2. Done(c, k - 1) \subseteq D
    BY <1>3, <2>1 DEF Done
  <2> QED
    BY <1>3, <2>2
<1>7. PICK w : Walks(w, db, todo[c]) /\ PerformAll(db, todo[c]) = w[n]
  BY <1>3, Performed
<1>8. \A k \in 0..n : w[k].ok =>
            IsDatabase(w[k].db) /\ OnTheWay(target, a, db, w[k].db, Done(c, k))
  BY <1>7, WalkIsOnTheWay
<1> DEFINE Good(k) == w[k].ok /\ NoRows(w[k].db)
           G == {k \in 0..n : Good(k)}
<1>9. Good(0)
  BY <1>7 DEF Walks, NoRows
<1>10. ASSUME NEW k \in 1..n, Good(k - 1) PROVE Good(k)
  <2> DEFINE op == ops[k]
             d == w[k - 1].db
             done == Done(c, k - 1)
             run == Replayed(op, db)
  <2>1. k - 1 \in 0..n
    BY <1>3
  <2>2. IsDatabase(d) /\ NoRows(d) /\ OnTheWay(target, a, db, d, done)
    BY <1>8, <1>10, <2>1
  <2>3. op \in D \ done /\ done \in SUBSET (D \ {op}) /\ done \in SUBSET D
    BY <1>3, <1>6
  <2>4. \A o \in D : Precedes(o, op) => o \in done
    BY <1>5
  <2>5. w[k] = After(w[k - 1], run)
    BY <1>3, <1>7 DEF Walks
  <2> HIDE DEF target, scope, op, d, done, ops
  <2>6. Owned(Definitions(d), owner)
    <3> HIDE DEF a
    <3> QED
      BY <1>2, <1>4, <2>2, <2>3, WayIsOwned
  <2>7. run.kind \in Kinds /\ (op.kind # "RebuildTable" => run = op)
    <3>1. Asked(Replayed(op, db), target, a)
      BY <2>3, ReplayedAreAsked
    <3>2. op.kind # "RebuildTable" => Replayed(op, db) = op
      BY DEF Replayed
    <3> QED
      BY <3>1, <3>2 DEF Asked
  <2>8. Accepts(d, run)
    <3>1. CASE op.table \in DOMAIN target \cap DOMAIN a
               /\ ~NeedsRebuild(target[op.table], a[op.table].def)
      <4> HIDE DEF a
      <4>1. Accepts(d, op)
        BY <1>1, <1>2, <1>4, <2>2, <2>3, <2>4, <2>6, <3>1, PlainIsAccepted DEF OnTheWay
      <4>2. op \in TableOps(op.table, target[op.table], a[op.table].def,
                               a[op.table].listed)
        BY <2>3, <3>1, OpsOfTable
      <4>3. op.kind # "RebuildTable"
        BY <3>1, <4>2, PlainOps DEF Adding, Creating, Dropping
      <4> QED
        BY <2>7, <4>1, <4>3
    <3>2. CASE ~(op.table \in DOMAIN target \cap DOMAIN a
                 /\ ~NeedsRebuild(target[op.table], a[op.table].def))
      BY <1>2, <1>4, <2>2, <2>3, <2>6, <3>2, AloneIsAccepted
    <3> QED
      BY <3>1, <3>2
  <2> HIDE DEF run
  <2>9. NoRows(Perform(d, run))
    BY <2>2, <2>7, <2>8, NoRowsStay
  <2>10. w[k].ok /\ w[k].db = Perform(d, run)
    BY <1>10, <2>5, <2>8 DEF After, d
  <2> QED
    BY <2>9, <2>10
<1> HIDE DEF Good, n
<1>11. n \in G
  <2>1. 0 \in G
    BY <1>3, <1>9
  <2>2. ASSUME NEW k \in 1..n, k - 1 \in G PROVE k \in G
    <3>1. k \in 0..n
      BY <1>3
    <3> QED
      BY <1>10, <2>2, <3>1
  <2> HIDE DEF G
  <2>3. \A k \in 0..n : k \in G
    BY <1>3, <2>1, <2>2, Counting
  <2> QED
    BY <1>3, <2>3
<1> QED
  BY <1>7, <1>11 DEF Good

\* Inserting a row changes no definition.
LEMMA InsertKeepsDefinitions ==
    ASSUME IsDatabase(db), InsertRow
    PROVE  Definitions(db') = Definitions(db)
<1>1. PICK t \in DOMAIN db : \E rows : db' = [db EXCEPT ![t].rows = rows]
  BY DEF InsertRow
<1>2. PICK rows : db' = [db EXCEPT ![t].rows = rows]
  BY <1>1
<1>3. DOMAIN db' = DOMAIN db /\ \A u \in DOMAIN db : db'[u].def = db[u].def
  BY <1>2 DEF IsDatabase, IsTable
<1> QED
  BY <1>3 DEF Definitions

LEMMA OwnedStep ==
    ASSUME OneProcess, NEW owner,
           \A desired \in Desired : desired.ok => Owned(desired.schema, owner),
           SchemaInv, OwnedInv(owner), [Next]_vars
    PROVE  OwnedInv(owner)'
<1>1. ASSUME UNCHANGED <<db, plan>> PROVE OwnedInv(owner)'
  BY <1>1 DEF OwnedInv
<1>2. ASSUME NEW c \in Client, BuildPlan(c, Desired) PROVE OwnedInv(owner)'
  <2>1. db' = db
    BY <1>2 DEF BuildPlan
  <2>2. \/ UNCHANGED plan
        \/ \E p : /\ Owned(p.target, owner)
                  /\ plan' = [plan EXCEPT ![c] = p]
    <3> SUFFICES ASSUME plan' # plan
                 PROVE  \E p : Owned(p.target, owner) /\ plan' = [plan EXCEPT ![c] = p]
      OBVIOUS
    <3>1. PICK desired \in Desired :
            /\ desired.ok
            /\ \E actual : plan' = [plan EXCEPT ![c] =
                    [source |-> Definitions(actual), target |-> desired.schema,
                     ops |-> PlanOps(desired.schema, actual),
                     blockers |-> Blockers(desired.schema, actual)]]
      BY <1>2 DEF BuildPlan
    <3>2. PICK actual : plan' = [plan EXCEPT ![c] =
                    [source |-> Definitions(actual), target |-> desired.schema,
                     ops |-> PlanOps(desired.schema, actual),
                     blockers |-> Blockers(desired.schema, actual)]]
      BY <3>1
    <3> DEFINE p == [source |-> Definitions(actual), target |-> desired.schema,
                     ops |-> PlanOps(desired.schema, actual),
                     blockers |-> Blockers(desired.schema, actual)]
    <3>3. p.target = desired.schema /\ plan' = [plan EXCEPT ![c] = p]
      BY <3>2
    <3> HIDE DEF p
    <3>4. Owned(p.target, owner)
      BY <3>1, <3>3
    <3> QED
      BY <3>3, <3>4
  <2>3. DOMAIN plan = Client
    BY DEF SchemaInv, ControlInv
  <2> QED
    BY <2>1, <2>2, <2>3 DEF OwnedInv
<1>3. ASSUME NEW c \in Client, NEW mode, Check(c, mode) \/ Refuse(c, mode)
      PROVE  OwnedInv(owner)'
  BY <1>1, <1>3 DEF Check, Refuse
<1>4. ASSUME NEW c \in Client, Apply(c) PROVE OwnedInv(owner)'
  <2> DEFINE target == plan[c].target
             scope == PlanScope(plan[c])
             a == Seen(db, scope)
             D == DiffOps(target, a)
  <2>1. OnTheWay(target, a, db, db', D)
    BY <1>4, ApplyGoesAllTheWay
  <2>2. plan' = plan /\ plan[c] # NoPlan
    BY <1>4 DEF Apply, Finish, SchemaInv, ApplyInv, ApplyOf
  <2>3. Owned(target, owner) /\ Owned(Definitions(db), owner)
    BY <2>2 DEF OwnedInv
  <2>4. D \in SUBSET D /\ \A t \in DOMAIN a : t \in DOMAIN db /\ a[t] = db[t]
    BY DEF Seen
  <2>5. Owned(Definitions(db'), owner)
    <3> HIDE DEF target, a
    <3> QED
      BY <2>1, <2>3, <2>4, WayIsOwned
  <2> QED
    BY <2>2, <2>5 DEF OwnedInv
<1>5. ASSUME NEW c \in Client, ApplyRejected(c) \/ ApplyFails(c) PROVE OwnedInv(owner)'
  BY <1>1, <1>5 DEF ApplyRejected, ApplyFails, Finish
<1>6. CASE InsertRow
  <2>1. Definitions(db') = Definitions(db) /\ plan' = plan
    BY <1>6, InsertKeepsDefinitions DEF SchemaInv, InsertRow
  <2> QED
    BY <2>1 DEF OwnedInv
<1>7. CASE UNCHANGED vars
  BY <1>1, <1>7 DEF vars
<1> QED
  BY <1>2, <1>3, <1>4, <1>5, <1>6, <1>7 DEF Next, Step

\* An apply is rejected only by itself.
LEMMA RejectionIsOwn ==
    ASSUME SchemaInv, [Next]_vars, NEW c \in Client, stage[c] # "idle",
           outcome'[c] = "rejected"
    PROVE  ApplyRejected(c)
<1>0. DOMAIN outcome = Client
  BY DEF SchemaInv, ControlInv
<1>1. outcome[c] = "none"
  BY DEF SchemaInv, ApplyInv, ApplyOf
<1>2. ASSUME NEW b \in Client, BuildPlan(b, Desired) PROVE FALSE
  <2>1. b # c /\ \E how : outcome' = [outcome EXCEPT ![b] = how]
    BY <1>2 DEF BuildPlan
  <2> QED
    BY <1>1, <2>1
<1>3. ASSUME NEW b \in Client, NEW mode, Check(b, mode) \/ Refuse(b, mode) PROVE FALSE
  <2>1. b # c /\ \E how : outcome' = [outcome EXCEPT ![b] = how]
    BY <1>3 DEF Check, Refuse, CanApply
  <2> QED
    BY <1>1, <2>1
<1>4. ASSUME NEW b \in Client, Apply(b) \/ ApplyFails(b) PROVE FALSE
  <2>1. \E how \in {"applied", "optimize_failed", "failed"} :
            outcome' = [outcome EXCEPT ![b] = how]
    BY <1>4 DEF Apply, ApplyFails, Finish
  <2> QED
    BY <1>0, <1>1, <2>1
<1>5. ASSUME NEW b \in Client, ApplyRejected(b) PROVE b = c
  <2>1. \E how : outcome' = [outcome EXCEPT ![b] = how]
    BY <1>5 DEF ApplyRejected, Finish
  <2> QED
    BY <1>1, <2>1
<1>6. ~InsertRow /\ ~UNCHANGED vars
  BY <1>1 DEF InsertRow, vars
<1> QED
  BY <1>2, <1>3, <1>4, <1>5, <1>6 DEF Next, Step

\* SQLite refuses no operation of a plan that apply let through: whatever the
\* models and the databases are, as long as there are no rows and no hand-made
\* indexes, the clients are the threads of one process, and no two tables ever
\* have an index name in common (owner gives each name its table; the code does
\* not see to that, which the run schema_index_names shows).
THEOREM PlansAreAccepted ==
    ASSUME OneProcess, NEW owner,
           \A d \in InitialDb : Owned(Definitions(d), owner),
           \A desired \in Desired : desired.ok => Owned(desired.schema, owner)
    PROVE  Spec => UnblockedPlansApply
<1> DEFINE Bare == \A t \in DOMAIN db : db[t].rows = {} /\ db[t].handmade = {}
<1>1. Init => OwnedInv(owner)
  BY DEF Init, OwnedInv
<1>2. SchemaInv /\ OwnedInv(owner) /\ [Next]_vars => OwnedInv(owner)'
  BY OwnedStep
<1>3. ASSUME SchemaInv, OwnedInv(owner), [Next]_vars, NEW c \in Client, stage[c] # "idle", Bare
      PROVE  outcome'[c] # "rejected"
  <2>1. plan[c] # NoPlan /\ Compared(c, db)
    BY <1>3 DEF SchemaInv, ApplyInv, ApplyOf
  <2>2. PerformAll(db, todo[c]).ok
    BY <1>3, <2>1, ApplyIsAccepted
  <2>3. ~ApplyRejected(c)
    BY <2>2 DEF ApplyRejected
  <2> QED
    BY <1>3, <2>3, RejectionIsOwn
<1>4. SchemaInv /\ OwnedInv(owner) /\ [Next]_vars =>
        [\A c \in Client : stage[c] # "idle" /\ Bare => outcome'[c] # "rejected"]_vars
  <2> HIDE DEF Bare
  <2> QED
    BY <1>3
<1> QED
  BY <1>1, <1>2, <1>4, SchemaAlways, PTL DEF Spec, UnblockedPlansApply

-----------------------------------------------------------------------------
(***************************************************************************)
(* Splitting a text.  It is taken token by token.                          *)
(***************************************************************************)
\* What the next token makes of the parts so far.
Extended(parts, x) == [parts EXCEPT ![Len(parts)] = Append(@, x)]
Taken(parts, x, separator) == IF x = separator THEN Append(parts, <<>>) ELSE Extended(parts, x)
LEMMA SplitEmpty == ASSUME NEW separator PROVE Split(<<>>, separator) = <<<<>>>>
<1> DEFINE Op(p, x) == Taken(p, x, separator)
           base == <<<<>>>>
           h == CHOOSE f : Folds(f, base, Op, <<>>)
<1>1. Split(<<>>, separator) = h[Len(<<>>)]
  BY DEF Split, Taken, Extended, Folds
<1>2. <<>> \in Seq({}) /\ Len(<<>>) = 0
  OBVIOUS
<1> HIDE DEF Op, base
<1>3. Folds(h, base, Op, <<>>)
  BY <1>2, FoldExists
<1> HIDE DEF h
<1>4. FoldStarts(h, base, Op, <<>>)
  BY <1>2, <1>3, FoldSteps
<1> QED
  BY <1>1, <1>2, <1>4 DEF FoldStarts, base

LEMMA SplitAppend ==
    ASSUME NEW S, NEW s \in Seq(S), NEW x \in S, NEW separator
    PROVE  Split(Append(s, x), separator) = Taken(Split(s, separator), x, separator)
<1> DEFINE Op(p, y) == Taken(p, y, separator)
           base == <<<<>>>>
           t == Append(s, x)
           f == CHOOSE h : Folds(h, base, Op, s)
           g == CHOOSE h : Folds(h, base, Op, t)
<1>1. Split(s, separator) = f[Len(s)]
  BY DEF Split, Taken, Extended, Folds
<1>2. t \in Seq(S) /\ Len(t) = Len(s) + 1
  OBVIOUS
<1> HIDE DEF t
<1>3. Split(t, separator) = g[Len(t)]
  BY DEF Split, Taken, Extended, Folds
<1> HIDE DEF Op, base
<1>4. Folds(f, base, Op, s)
  BY FoldExists
<1>5. Folds(g, base, Op, t)
  BY <1>2, FoldExists
<1> HIDE DEF f, g
<1>6. FoldGoesOn(f, g, Op, Len(s), x)
  BY <1>4, <1>5, FoldAppend DEF t
<1> QED
  BY <1>1, <1>2, <1>3, <1>6 DEF FoldGoesOn, Op, t

LEMMA TakenType ==
    ASSUME NEW S, NEW parts \in Seq(Seq(S)), parts # <<>>, NEW x \in S, NEW separator
    PROVE  Taken(parts, x, separator) \in Seq(Seq(S)) /\ Taken(parts, x, separator) # <<>>
<1>1. Append(parts, <<>>) \in Seq(Seq(S)) /\ Append(parts, <<>>) # <<>>
  OBVIOUS
<1>2. Extended(parts, x) \in Seq(Seq(S)) /\ Extended(parts, x) # <<>>
  BY DEF Extended
<1> QED
  BY <1>1, <1>2 DEF Taken

LEMMA SplitType ==
    ASSUME NEW S, NEW s \in Seq(S), NEW separator
    PROVE  Split(s, separator) \in Seq(Seq(S)) /\ Split(s, separator) # <<>>
<1> DEFINE Typed(t) == Split(t, separator) \in Seq(Seq(S)) /\ Split(t, separator) # <<>>
           G == {t \in Seq(S) : Typed(t)}
<1>1. <<>> \in G
  <2>1. <<<<>>>> \in Seq(Seq(S)) /\ <<<<>>>> # <<>> /\ <<>> \in Seq(S)
    OBVIOUS
  <2> QED
    BY <2>1, SplitEmpty, Zenon
<1>2. ASSUME NEW t \in Seq(S), t \in G, NEW x \in S PROVE Append(t, x) \in G
  <2>1. Split(Append(t, x), separator) = Taken(Split(t, separator), x, separator)
    BY SplitAppend
  <2>2. Typed(Append(t, x))
    BY <1>2, <2>1, TakenType
  <2>3. Append(t, x) \in Seq(S)
    OBVIOUS
  <2> QED
    BY <2>2, <2>3
<1> HIDE DEF G
<1>3. s \in G
  BY <1>1, <1>2, Growing
<1> QED
  BY <1>3 DEF G

\* A token after parts is one after their last.
LEMMA TakenConcat ==
    ASSUME NEW S, NEW ls \in Seq(Seq(S)), NEW parts \in Seq(Seq(S)), parts # <<>>,
           NEW x \in S, NEW separator
    PROVE  Taken(ls \o parts, x, separator) = ls \o Taken(parts, x, separator)
<1> DEFINE T == Seq(S)
           e == <<>>
           last == Append(parts[Len(parts)], x)
<1>1. ls \in Seq(T) /\ parts \in Seq(T) /\ e \in T /\ last \in T
  OBVIOUS
<1>2. (ls \o parts)[Len(ls \o parts)] = parts[Len(parts)] /\ Len(ls \o parts) \in DOMAIN (ls \o parts)
  <2>1. Len(parts) \in 1..Len(parts)
    OBVIOUS
  <2>2. Len(ls \o parts) = Len(ls) + Len(parts) /\ ls \o parts \in Seq(Seq(S))
        /\ (ls \o parts)[Len(ls) + Len(parts)] = parts[Len(parts)]
    BY <2>1, ConcatIs
  <2>3. Len(ls) + Len(parts) \in 1..(Len(ls) + Len(parts))
    BY <2>1
  <2> QED
    BY <2>2, <2>3
<1>3. Len(parts) \in DOMAIN parts
  OBVIOUS
<1> DEFINE c == ls \o parts
<1> HIDE DEF T, e, c
<1>4. Extended(c, x) = [c EXCEPT ![Len(c)] = last]
  BY <1>2 DEF Extended, c
<1>5. Extended(parts, x) = [parts EXCEPT ![Len(parts)] = last]
  BY <1>3 DEF Extended
<1> HIDE DEF last
<1>6. [c EXCEPT ![Len(c)] = last] = ls \o [parts EXCEPT ![Len(parts)] = last]
  BY <1>1, ReplaceLast DEF c
<1>7. Append(c, e) = ls \o Append(parts, e)
  <2>1. ls \in Seq(T) /\ parts \in Seq(T) /\ e \in T
    BY <1>1
  <2>2. ls \o Append(parts, e) = Append(ls \o parts, e)
    BY <2>1, AppendAfter
  <2> QED
    BY <2>2 DEF c
<1> QED
  BY <1>4, <1>5, <1>6, <1>7 DEF Taken, c, e

\* A text that follows an end of line, or nothing, is split by itself.
Glues(S, separator) ==
    \A a, b \in Seq(S), ls \in Seq(Seq(S)) :
        Split(a, separator) = Append(ls, <<>>) => Split(a \o b, separator) = ls \o Split(b, separator)

LEMMA SplitGlues ==
    ASSUME NEW S, NEW separator
    PROVE  Glues(S, separator)
<1> SUFFICES ASSUME NEW a \in Seq(S), NEW b \in Seq(S), NEW ls \in Seq(Seq(S)),
                    Split(a, separator) = Append(ls, <<>>)
             PROVE  Split(a \o b, separator) = ls \o Split(b, separator)
  BY Zenon DEF Glues
<1> DEFINE Glued(t) == Split(a \o t, separator) = ls \o Split(t, separator)
           G == {t \in Seq(S) : Glued(t)}
<1>1. <<>> \in G
  <2>1. a \o <<>> = a /\ ls \o <<<<>>>> = Append(ls, <<>>) /\ <<>> \in Seq(S)
    OBVIOUS
  <2>2. Glued(<<>>)
    BY <2>1, SplitEmpty
  <2> QED
    BY <2>1, <2>2
<1>2. ASSUME NEW t \in Seq(S), t \in G, NEW x \in S PROVE Append(t, x) \in G
  <2>1. Glued(t)
    BY <1>2
  <2>2. a \o Append(t, x) = Append(a \o t, x) /\ a \o t \in Seq(S)
    BY AppendAfter
  <2>3. Split(a \o Append(t, x), separator) = Taken(Split(a \o t, separator), x, separator)
    BY <2>2, SplitAppend
  <2>4. Split(Append(t, x), separator) = Taken(Split(t, separator), x, separator)
    BY SplitAppend
  <2>5. Split(t, separator) \in Seq(Seq(S)) /\ Split(t, separator) # <<>>
    BY SplitType
  <2>6. Taken(ls \o Split(t, separator), x, separator) = ls \o Taken(Split(t, separator), x, separator)
    BY <2>5, TakenConcat
  <2>7. Glued(Append(t, x))
    BY <2>1, <2>3, <2>4, <2>6
  <2>8. Append(t, x) \in Seq(S)
    OBVIOUS
  <2> QED
    BY <2>7, <2>8
<1> HIDE DEF G
<1>3. b \in G
  BY <1>1, <1>2, Growing
<1> QED
  BY <1>3 DEF G

\* A text without a separator is one part.
Free(w, separator) == \A i \in 1..Len(w) : w[i] # separator

LEMMA SplitWord ==
    ASSUME NEW S, NEW w \in Seq(S), NEW separator, Free(w, separator)
    PROVE  Split(w, separator) = <<w>>
<1> DEFINE G == {t \in Seq(S) : Free(t, separator) => Split(t, separator) = <<t>>}
<1>1. <<>> \in G
  BY SplitEmpty
<1>2. ASSUME NEW t \in Seq(S), t \in G, NEW x \in S PROVE Append(t, x) \in G
  <2> SUFFICES ASSUME Free(Append(t, x), separator)
               PROVE  Split(Append(t, x), separator) = <<Append(t, x)>>
    OBVIOUS
  <2>1. /\ Len(t) \in Nat /\ Len(Append(t, x)) = Len(t) + 1 /\ Append(t, x)[Len(t) + 1] = x
        /\ \A i \in 1..Len(t) : Append(t, x)[i] = t[i]
    OBVIOUS
  <2>2. x # separator /\ Free(t, separator)
    BY <2>1 DEF Free
  <2>3. Split(t, separator) = <<t>>
    BY <1>2, <2>2
  <2>4. Extended(<<t>>, x) = <<Append(t, x)>>
    BY DEF Extended
  <2> QED
    BY <2>2, <2>3, <2>4, SplitAppend DEF Taken
<1> HIDE DEF G
<1>3. w \in G
  BY <1>1, <1>2, Growing
<1> QED
  BY <1>3 DEF G

\* Joined fields are split again.
LEMMA JoinedAppend ==
    ASSUME NEW S, Tab \in S, NEW fields \in Seq(Seq(S)), fields # <<>>, NEW field \in Seq(S)
    PROVE  Joined(Append(fields, field)) = Append(Joined(fields), Tab) \o field
<1> DEFINE of(list) == [k \in DOMAIN list |-> IF k = 1 THEN list[k] ELSE <<Tab>> \o list[k]]
           next == <<Tab>> \o field
           both == Append(fields, field)
           n == Len(fields)
<1>1. next \in Seq(S) /\ of(fields) \in Seq(Seq(S)) /\ n \in Nat \ {0} /\ DOMAIN fields = 1..n
  <2>1. n \in Nat \ {0} /\ DOMAIN fields = 1..n /\ \A k \in 1..n : fields[k] \in Seq(S)
    OBVIOUS
  <2>2. next \in Seq(S) /\ \A s \in Seq(S) : <<Tab>> \o s \in Seq(S)
    OBVIOUS
  <2> HIDE DEF n, next
  <2>3. \A k \in 1..n : (IF k = 1 THEN fields[k] ELSE <<Tab>> \o fields[k]) \in Seq(S)
    BY <2>1, <2>2
  <2> DEFINE T == Seq(S)
             at(k) == IF k = 1 THEN fields[k] ELSE <<Tab>> \o fields[k]
  <2>4. \A k \in 1..n : at(k) \in T
    BY <2>3
  <2>5. of(fields) = [k \in 1..n |-> at(k)]
    BY <2>1
  <2> HIDE DEF T, at, of
  <2>6. [k \in 1..n |-> at(k)] \in Seq(T)
    BY <2>1, <2>4
  <2> QED
    BY <2>1, <2>2, <2>5, <2>6 DEF T
<1>2. DOMAIN both = 1..(n + 1) /\ \A k \in 1..(n + 1) : both[k] = IF k = n + 1 THEN field ELSE fields[k]
  OBVIOUS
<1> HIDE DEF next, both, n
<1>3. of(both) = Append(of(fields), next)
  <2> DEFINE l == of(both)
             r == Append(of(fields), next)
  <2>1. DOMAIN l = 1..(n + 1) /\ l = [k \in DOMAIN l |-> l[k]]
        /\ \A k \in 1..(n + 1) : l[k] = IF k = 1 THEN both[k] ELSE <<Tab>> \o both[k]
    BY <1>2
  <2>2. DOMAIN of(fields) = 1..n
        /\ \A k \in 1..n : of(fields)[k] = IF k = 1 THEN fields[k] ELSE <<Tab>> \o fields[k]
    BY <1>1
  <2> HIDE DEF of
  <2>3. Len(of(fields)) = n
    BY <1>1, <2>2
  <2>4. /\ DOMAIN r = 1..(n + 1) /\ r = [k \in DOMAIN r |-> r[k]]
        /\ \A k \in 1..(n + 1) : r[k] = IF k = n + 1 THEN next ELSE of(fields)[k]
    <3> DEFINE T == Seq(S)
    <3>1. of(fields) \in Seq(T) /\ next \in T
      BY <1>1
    <3> DEFINE l0 == of(fields)
    <3>2. l0 \in Seq(T) /\ next \in T /\ Len(l0) = n /\ n \in Nat
      BY <1>1, <2>3, <3>1
    <3> HIDE DEF T, l0, r
    <3> DEFINE q == Append(l0, next)
    <3>3. /\ q \in Seq(T) /\ DOMAIN q = 1..(n + 1)
          /\ \A k \in 1..(n + 1) : q[k] = IF k = n + 1 THEN next ELSE l0[k]
      BY <3>2
    <3> HIDE DEF q
    <3>4. q = [k \in DOMAIN q |-> q[k]]
      BY <3>3
    <3> QED
      BY <3>3, <3>4 DEF r, l0, q
  <2>5. ASSUME NEW k \in 1..(n + 1) PROVE l[k] = r[k]
    <3>1. CASE k = n + 1
      <4>1. k # 1 /\ both[k] = field
        BY <1>1, <1>2, <3>1
      <4>2. l[k] = <<Tab>> \o both[k] /\ r[k] = next
        BY <2>1, <2>4, <3>1, <4>1
      <4> QED
        BY <4>1, <4>2 DEF next
    <3>2. CASE k # n + 1
      <4>1. k \in 1..n /\ both[k] = fields[k]
        BY <1>1, <1>2, <3>2
      <4>2. r[k] = of(fields)[k] /\ l[k] = IF k = 1 THEN both[k] ELSE <<Tab>> \o both[k]
        BY <2>1, <2>4, <3>2
      <4> QED
        BY <2>2, <4>1, <4>2
    <3> QED
      BY <3>1, <3>2
  <2> HIDE DEF l, r
  <2>6. l = r
    BY <2>1, <2>4, <2>5
  <2> QED
    BY <2>6 DEF l, r
<1> HIDE DEF of
<1>4. FlattenSeq(of(both)) = FlattenSeq(of(fields)) \o next
  BY <1>1, <1>3, FlattenAppend
<1> DEFINE j == FlattenSeq(of(fields))
<1>5. j \in Seq(S) /\ <<Tab>> \in Seq(S)
  BY <1>1, FlattenType
<1> HIDE DEF j
<1>6. j \o (<<Tab>> \o field) = (j \o <<Tab>>) \o field
  <2>1. Regroups(S)
    BY Regroup
  <2> QED
    BY <1>5, <2>1, Zenon DEF Regroups
<1>7. Append(j, Tab) = j \o <<Tab>>
  BY <1>5
<1> QED
  BY <1>4, <1>6, <1>7 DEF Joined, of, next, j, both

LEMMA JoinedOne ==
    ASSUME NEW S, NEW field \in Seq(S)
    PROVE  Joined(<<field>>) = field
  BY DEF Joined, FlattenSeq

LEMMA ReadNone == ReadLines(<<>>) = [ok |-> TRUE, tables |-> <<>>]
<1> DEFINE base == [ok |-> TRUE, tables |-> <<>>]
           h == CHOOSE f : Folds(f, base, ReadLine, <<>>)
<1>1. ReadLines(<<>>) = h[Len(<<>>)]
  BY DEF ReadLines, Folds
<1>2. <<>> \in Seq({}) /\ Len(<<>>) = 0
  OBVIOUS
<1> HIDE DEF base
<1>3. Folds(h, base, ReadLine, <<>>)
  BY <1>2, FoldExists
<1> HIDE DEF h
<1>4. FoldStarts(h, base, ReadLine, <<>>)
  BY <1>2, <1>3, FoldSteps
<1> QED
  BY <1>1, <1>2, <1>4 DEF FoldStarts, base

LEMMA ReadAppend ==
    ASSUME NEW S, NEW lines \in Seq(S), NEW line \in S
    PROVE  ReadLines(Append(lines, line)) = ReadLine(ReadLines(lines), line)
<1> DEFINE base == [ok |-> TRUE, tables |-> <<>>]
           t == Append(lines, line)
           f == CHOOSE h : Folds(h, base, ReadLine, lines)
           g == CHOOSE h : Folds(h, base, ReadLine, t)
<1>1. ReadLines(lines) = f[Len(lines)]
  BY DEF ReadLines, Folds
<1>2. t \in Seq(S) /\ Len(t) = Len(lines) + 1
  OBVIOUS
<1> HIDE DEF t
<1>3. ReadLines(t) = g[Len(t)]
  BY DEF ReadLines, Folds
<1> HIDE DEF base
<1>4. Folds(f, base, ReadLine, lines)
  BY FoldExists
<1>5. Folds(g, base, ReadLine, t)
  BY <1>2, FoldExists
<1> HIDE DEF f, g
<1>6. FoldGoesOn(f, g, ReadLine, Len(lines), line)
  BY <1>4, <1>5, FoldAppend DEF t
<1> QED
  BY <1>1, <1>2, <1>3, <1>6 DEF FoldGoesOn, t

LEMMA JoinedNone == Joined(<<>>) = <<>>
  BY DEF Joined, FlattenSeq

LEMMA JoinedType ==
    ASSUME NEW S, Tab \in S, NEW fields \in Seq(Seq(S))
    PROVE  Joined(fields) \in Seq(S)
<1> DEFINE T == Seq(S)
           G == {f \in Seq(T) : Joined(f) \in Seq(S)}
<1>1. <<>> \in G
  <2>1. <<>> \in Seq(S) /\ <<>> \in Seq(T)
    <3> HIDE DEF T
    <3> QED
      OBVIOUS
  <2> QED
    BY <2>1, JoinedNone
<1>2. ASSUME NEW f \in Seq(T), f \in G, NEW x \in T PROVE Append(f, x) \in G
  <2>1. Joined(Append(f, x)) \in Seq(S)
    <3>1. CASE f = <<>>
      <4>1. Append(f, x) = <<x>>
        BY <3>1
      <4> QED
        BY <4>1, JoinedOne
    <3>2. CASE f # <<>>
      <4>1. Joined(Append(f, x)) = Append(Joined(f), Tab) \o x
        BY <3>2, JoinedAppend
      <4>2. Joined(f) \in Seq(S)
        BY <1>2
      <4> DEFINE j == Joined(f)
      <4> HIDE DEF j
      <4>3. Append(j, Tab) \o x \in Seq(S)
        BY <4>2 DEF j
      <4> QED
        BY <4>1, <4>3 DEF j
    <3> QED
      BY <3>1, <3>2
  <2>2. Append(f, x) \in Seq(T)
    <3> HIDE DEF T
    <3> QED
      OBVIOUS
  <2> QED
    BY <2>1, <2>2
<1>3. fields \in Seq(T)
  OBVIOUS
<1> HIDE DEF G, T
<1>4. fields \in G
  BY <1>1, <1>2, <1>3, Growing
<1> QED
  BY <1>4 DEF G

\* Whatever follows fields that are split again is split after them.
LEMMA SplitLast ==
    ASSUME NEW S, Tab \in S, NEW front \in Seq(Seq(S)), front # <<>>, Split(Joined(front), Tab) = front,
           NEW x \in Seq(S)
    PROVE  Split(Joined(Append(front, x)), Tab) = front \o Split(x, Tab)
<1> DEFINE j == Joined(front)
           a == Append(j, Tab)
<1>1. Joined(Append(front, x)) = a \o x
  BY JoinedAppend
<1>2. j \in Seq(S)
  BY JoinedType
<1>3. Split(j, Tab) = front
  OBVIOUS
<1> HIDE DEF j
<1>4. Split(a, Tab) = Append(front, <<>>)
  BY <1>2, <1>3, SplitAppend DEF Taken
<1>5. a \in Seq(S)
  BY <1>2
<1> HIDE DEF a
<1> DEFINE T == Seq(S)
<1>6. front \in Seq(T) /\ x \in T /\ a \in T
  BY <1>5
<1>7. Glues(S, Tab)
  BY SplitGlues
<1> HIDE DEF T
<1>8. Split(a \o x, Tab) = front \o Split(x, Tab)
  BY <1>4, <1>6, <1>7, Zenon DEF Glues, T
<1> QED
  BY <1>1, <1>8

LEMMA SplitJoined ==
    ASSUME NEW S, Tab \in S, NEW fields \in Seq(Seq(S)), fields # <<>>,
           \A k \in 1..Len(fields) : Free(fields[k], Tab)
    PROVE  Split(Joined(fields), Tab) = fields
<1> DEFINE T == Seq(S)
           Frees(f) == \A k \in 1..Len(f) : Free(f[k], Tab)
           G == {f \in Seq(T) : f # <<>> /\ Frees(f) => Split(Joined(f), Tab) = f}
<1>1. <<>> \in G
  OBVIOUS
<1>2. ASSUME NEW f \in Seq(T), f \in G, NEW x \in T PROVE Append(f, x) \in G
  <2>1. Append(f, x) \in Seq(T) /\ Len(f) \in Nat /\ Len(Append(f, x)) = Len(f) + 1
        /\ Append(f, x)[Len(f) + 1] = x /\ \A i \in 1..Len(f) : Append(f, x)[i] = f[i]
    <3> HIDE DEF T
    <3> QED
      OBVIOUS
  <2>2. ASSUME Frees(Append(f, x)) PROVE Split(Joined(Append(f, x)), Tab) = Append(f, x)
    <3> DEFINE g == Append(f, x)
    <3>1. Len(f) + 1 \in 1..Len(g) /\ \A i \in 1..Len(f) : i \in 1..Len(g)
      BY <2>1
    <3>2. Free(x, Tab) /\ Frees(f)
      <4>1. \A k \in 1..Len(g) : Free(g[k], Tab)
        BY <2>2
      <4> HIDE DEF T
      <4> QED
        BY <2>1, <3>1, <4>1
    <3>3. Split(x, Tab) = <<x>>
      BY <3>2, SplitWord
    <3>4. CASE f = <<>>
      <4>1. Append(f, x) = <<x>>
        BY <3>4
      <4> QED
        BY <3>3, <4>1, JoinedOne
    <3>5. CASE f # <<>>
      <4>1. Split(Joined(f), Tab) = f
        BY <1>2, <3>2, <3>5
      <4>2. Split(Joined(Append(f, x)), Tab) = f \o <<x>>
        BY <3>3, <3>5, <4>1, SplitLast
      <4>3. f \o <<x>> = Append(f, x)
        <5> HIDE DEF T
        <5> QED
          OBVIOUS
      <4> QED
        BY <4>2, <4>3
    <3> QED
      BY <3>4, <3>5
  <2> QED
    BY <2>1, <2>2
<1>3. fields \in Seq(T)
  OBVIOUS
<1> HIDE DEF G
<1>4. fields \in G
  <2> HIDE DEF T
  <2> QED
    BY <1>1, <1>2, <1>3, Growing
<1> QED
  BY <1>4 DEF G

LEMMA FreeAppend ==
    ASSUME NEW S, NEW w \in Seq(S), NEW x \in S, NEW separator
    PROVE  Free(Append(w, x), separator) <=> Free(w, separator) /\ x # separator
<1>1. /\ Len(w) \in Nat /\ Len(Append(w, x)) = Len(w) + 1 /\ Append(w, x)[Len(w) + 1] = x
      /\ \A i \in 1..Len(w) : Append(w, x)[i] = w[i]
  OBVIOUS
<1> QED
  BY <1>1 DEF Free

LEMMA FreeConcat ==
    ASSUME NEW S, NEW a \in Seq(S), NEW b \in Seq(S), NEW separator,
           Free(a, separator), Free(b, separator)
    PROVE  Free(a \o b, separator)
<1>1. /\ Len(a) \in Nat /\ Len(b) \in Nat /\ Len(a \o b) = Len(a) + Len(b)
      /\ \A i \in 1..Len(a) : (a \o b)[i] = a[i]
  BY ConcatIs
<1>2. ASSUME NEW i \in 1..Len(a \o b) PROVE (a \o b)[i] # separator
  <2>1. CASE i <= Len(a)
    BY <1>1, <2>1 DEF Free
  <2>2. CASE ~(i <= Len(a))
    <3>1. i - Len(a) \in 1..Len(b) /\ (a \o b)[i] = b[i - Len(a)]
      BY <1>1, <2>2, ConcatRight
    <3> QED
      BY <3>1 DEF Free
  <2> QED
    BY <2>1, <2>2
<1> QED
  BY <1>2 DEF Free

LEMMA JoinedFree ==
    ASSUME NEW S, Tab \in S, NEW fields \in Seq(Seq(S)), NEW separator, separator # Tab,
           \A k \in 1..Len(fields) : Free(fields[k], separator)
    PROVE  Free(Joined(fields), separator)
<1> DEFINE T == Seq(S)
           Frees(f) == \A k \in 1..Len(f) : Free(f[k], separator)
           G == {f \in Seq(T) : Frees(f) => Free(Joined(f), separator)}
<1>1. <<>> \in G
  BY JoinedNone DEF Free
<1>2. ASSUME NEW f \in Seq(T), f \in G, NEW x \in T PROVE Append(f, x) \in G
  <2>1. Append(f, x) \in Seq(T) /\ Len(f) \in Nat /\ Len(Append(f, x)) = Len(f) + 1
        /\ Append(f, x)[Len(f) + 1] = x /\ \A i \in 1..Len(f) : Append(f, x)[i] = f[i]
    <3> HIDE DEF T
    <3> QED
      OBVIOUS
  <2>2. ASSUME Frees(Append(f, x)) PROVE Free(Joined(Append(f, x)), separator)
    <3> DEFINE g == Append(f, x)
    <3>1. Len(f) + 1 \in 1..Len(g) /\ \A i \in 1..Len(f) : i \in 1..Len(g)
      BY <2>1
    <3>2. Free(x, separator) /\ Frees(f)
      <4>1. \A k \in 1..Len(g) : Free(g[k], separator)
        BY <2>2
      <4> HIDE DEF T
      <4> QED
        BY <2>1, <3>1, <4>1
    <3>4. CASE f = <<>>
      <4>1. Append(f, x) = <<x>>
        BY <3>4
      <4> QED
        BY <3>2, <4>1, JoinedOne
    <3>5. CASE f # <<>>
      <4>1. Free(Joined(f), separator) /\ Joined(f) \in Seq(S)
        BY <1>2, <3>2, JoinedType
      <4> DEFINE j == Joined(f)
      <4>2. j \in Seq(S) /\ Free(j, separator)
        BY <4>1
      <4>3. Joined(Append(f, x)) = Append(j, Tab) \o x
        BY <3>5, JoinedAppend
      <4> HIDE DEF j
      <4>4. Append(j, Tab) \in Seq(S) /\ Free(Append(j, Tab), separator)
        BY <4>2, FreeAppend
      <4> QED
        BY <3>2, <4>3, <4>4, FreeConcat
    <3> QED
      BY <3>4, <3>5
  <2> QED
    BY <2>1, <2>2
<1>3. fields \in Seq(T)
  OBVIOUS
<1> HIDE DEF G
<1>4. fields \in G
  <2> HIDE DEF T
  <2> QED
    BY <1>1, <1>2, <1>3, Growing
<1> QED
  BY <1>4 DEF G

-----------------------------------------------------------------------------
(***************************************************************************)
(* The line of a row, read again.                                          *)
(***************************************************************************)
Clean(fields) == \A k \in 1..Len(fields) : Free(fields[k], Tab) /\ Free(fields[k], Newline)

\* A line that is no row ends the reading.
LEMMA NoRow ==
    ASSUME NEW tables, NEW field, Len(field) \in Nat \ (2..6)
    PROVE  ~ReadRow(tables, field).ok
  BY DEF ReadRow

LEMMA BrokenLine ==
    ASSUME NEW before, NEW line, line # <<>>, Len(Split(line, Tab)) \in Nat \ (2..6)
    PROVE  ~ReadLine(before, line).ok
  BY NoRow DEF ReadLine

LEMMA SplitEnd ==
    ASSUME NEW S, NEW w \in Seq(S), NEW separator \in S, Free(w, separator)
    PROVE  Split(Append(w, separator), separator) = Append(<<w>>, <<>>)
<1>1. Split(w, separator) = <<w>>
  BY SplitWord
<1>2. Split(Append(w, separator), separator) = Taken(Split(w, separator), separator, separator)
  BY SplitAppend
<1>3. Split(Append(w, separator), separator) = Taken(<<w>>, separator, separator)
  BY <1>1, <1>2
<1> QED
  BY <1>3 DEF Taken

LEMMA SplitToken ==
    ASSUME NEW d, NEW separator, d # separator
    PROVE  Free(<<d>>, separator) /\ Split(<<d>>, separator) = <<<<d>>>>
<1>1. Free(<<d>>, separator)
  BY DEF Free
<1>2. <<d>> \in Seq({d})
  OBVIOUS
<1> QED
  BY <1>1, <1>2, SplitWord

LEMMA Pairs ==
    ASSUME NEW w, NEW x
    PROVE  Append(<<w>>, x) = <<w, x>> /\ <<w>> \o <<x>> = <<w, x>>
<1> DEFINE T == {w, x}
<1>1. w \in T /\ x \in T
  OBVIOUS
<1> HIDE DEF T
<1>2. Append(<<w>>, x) = <<w, x>>
  <2> DEFINE l == Append(<<w>>, x)
             r == <<w, x>>
  <2>1. Len(l) = 2 /\ l[1] = w /\ l[2] = x /\ l \in Seq(T)
    BY <1>1
  <2>2. Len(r) = 2 /\ r[1] = w /\ r[2] = x /\ r \in Seq(T)
    BY <1>1
  <2> HIDE DEF l, r
  <2>3. Len(l) = Len(r) /\ \A i \in 1..Len(l) : l[i] = r[i]
    BY <2>1, <2>2
  <2>4. l = r
    BY <2>1, <2>2, <2>3, SeqEqual, Zenon
  <2> QED
    BY <2>4 DEF l, r
<1>3. <<w>> \o <<x>> = Append(<<w>>, x)
  <2>1. <<w>> \in Seq(T)
    BY <1>1
  <2> QED
    BY <1>1, <2>1, AppendIsConcat, Zenon
<1> QED
  BY <1>2, <1>3, Zenon

LEMMA ExtendedPair ==
    ASSUME NEW w, NEW x
    PROVE  Extended(<<w, <<>>>>, x) = <<w, <<x>>>>
  BY DEF Extended

LEMMA FreesAppend ==
    ASSUME NEW T, NEW list \in Seq(T), NEW x \in T, NEW separator,
           \A k \in 1..Len(list) : Free(list[k], separator), Free(x, separator)
    PROVE  \A k \in 1..Len(Append(list, x)) : Free(Append(list, x)[k], separator)
<1>1. /\ Len(list) \in Nat /\ Len(Append(list, x)) = Len(list) + 1 /\ Append(list, x)[Len(list) + 1] = x
      /\ \A k \in 1..Len(list) : Append(list, x)[k] = list[k]
  OBVIOUS
<1> QED
  BY <1>1

LEMMA SplitBroken ==
    ASSUME NEW d, NEW separator, d # separator
    PROVE  Split(<<d, separator, d>>, separator) = <<<<d>>, <<d>>>>
<1> DEFINE S == {d, separator}
           w == <<d>>
           v == Append(w, separator)
           e == <<w, <<>>>>
<1>1. d \in S /\ separator \in S /\ w \in Seq(S)
  OBVIOUS
<1>2. <<d, separator, d>> = Append(v, d)
  OBVIOUS
<1>3. Free(w, separator)
  BY SplitToken
<1>4. Extended(e, d) = <<<<d>>, <<d>>>>
  BY ExtendedPair, Zenon
<1>5. Append(<<w>>, <<>>) = e
  BY Pairs, Zenon
<1> HIDE DEF S, w, e
<1>6. Split(v, separator) = e
  BY <1>1, <1>3, <1>5, SplitEnd
<1>7. v \in Seq(S)
  BY <1>1
<1> HIDE DEF v
<1>8. Split(Append(v, d), separator) = Taken(e, d, separator)
  BY <1>1, <1>6, <1>7, SplitAppend
<1> QED
  BY <1>2, <1>4, <1>8 DEF Taken

LEMMA SplitSome ==
    ASSUME NEW text, NEW separator, Len(Split(text, separator)) # 1
    PROVE  text # <<>>
<1>1. Len(<<<<>>>>) = 1
  OBVIOUS
<1> QED
  BY <1>1, SplitEmpty

\* A line without separators in its fields is read as these fields.
LEMMA CleanLine ==
    ASSUME NEW S, Tab \in S, Newline \in S, NEW fields \in Seq(Seq(S)), fields # <<>>, Len(fields) # 1,
           Clean(fields)
    PROVE  /\ Joined(fields) \in Seq(S) /\ Joined(fields) # <<>>
           /\ Split(Joined(fields), Tab) = fields
           /\ Split(Line(fields), Newline) = Append(<<Joined(fields)>>, <<>>)
<1> DEFINE j == Joined(fields)
<1>1. j \in Seq(S)
  BY JoinedType
<1>2. fields # <<>> /\ \A k \in 1..Len(fields) : Free(fields[k], Tab)
  BY DEF Clean
<1>3. Split(j, Tab) = fields
  BY <1>2, SplitJoined
<1>4. Tab # Newline
  BY SeparatorAssumption
<1>5. Free(j, Newline)
  BY <1>4, JoinedFree DEF Clean
<1> HIDE DEF j
<1>6. j # <<>>
  <2>1. Len(Split(j, Tab)) = Len(fields)
    BY <1>3
  <2> QED
    BY <2>1, SplitSome, Zenon
<1>8. Split(Append(j, Newline), Newline) = Append(<<j>>, <<>>)
  BY <1>1, <1>5, SplitEnd
<1> QED
  BY <1>1, <1>3, <1>6, <1>8 DEF Line, j

\* A tab in the last of six fields makes them seven.
LEMMA TabLine ==
    ASSUME NEW S, Tab \in S, Newline \in S, NEW front \in Seq(Seq(S)), Len(front) = 5, Clean(front),
           NEW d \in S, Word(d), NEW fields, fields = Append(front, <<d, Tab, d>>)
    PROVE  /\ Joined(fields) \in Seq(S) /\ Joined(fields) # <<>>
           /\ Len(Split(Joined(fields), Tab)) = 7
           /\ Split(Line(fields), Newline) = Append(<<Joined(fields)>>, <<>>)
<1> DEFINE j == Joined(fields)
           x == <<d, Tab, d>>
<1>1. fields \in Seq(Seq(S)) /\ x \in Seq(S)
  OBVIOUS
<1>2. j \in Seq(S)
  BY <1>1, JoinedType
<1>3. Split(x, Tab) = <<<<d>>, <<d>>>>
  BY SplitBroken DEF Word
<1>4. Split(Joined(front), Tab) = front
  <2>1. front # <<>> /\ \A k \in 1..Len(front) : Free(front[k], Tab)
    BY DEF Clean
  <2> QED
    BY <2>1, SplitJoined
<1>5. Split(j, Tab) = front \o Split(x, Tab)
  <2>1. front # <<>>
    OBVIOUS
  <2> HIDE DEF x
  <2> QED
    BY <1>1, <1>4, <2>1, SplitLast DEF x
<1>6. Len(Split(j, Tab)) = 7
  <2> DEFINE T == Seq(S)
             y == <<<<d>>, <<d>>>>
  <2>1. Len(y) = 2 /\ Split(j, Tab) = front \o y
    BY <1>3, <1>5
  <2>2. front \in Seq(T) /\ y \in Seq(T)
    OBVIOUS
  <2> HIDE DEF y, T, j
  <2>3. Len(front \o y) = Len(front) + Len(y)
    BY <2>2, ConcatIs, Zenon
  <2> QED
    BY <2>1, <2>3
<1>7. Tab # Newline
  BY SeparatorAssumption
<1>8. Free(j, Newline)
  <2>1. Free(x, Newline)
    BY <1>7 DEF Free, Word
  <2>2. \A k \in 1..Len(fields) : Free(fields[k], Newline)
    <3> DEFINE T == Seq(S)
    <3>1. front \in Seq(T) /\ x \in T
      BY <1>1
    <3> HIDE DEF T, x
    <3>2. \A k \in 1..Len(front) : Free(front[k], Newline)
      BY DEF Clean
    <3>3. \A k \in 1..Len(Append(front, x)) : Free(Append(front, x)[k], Newline)
      BY <2>1, <3>1, <3>2, FreesAppend
    <3> QED
      BY <3>3 DEF x
  <2> QED
    BY <1>1, <1>7, <2>2, JoinedFree
<1> HIDE DEF j
<1>9. j # <<>>
  <2>1. Len(Split(j, Tab)) # 1
    BY <1>6
  <2> QED
    BY <2>1, SplitSome, Zenon
<1>11. Split(Append(j, Newline), Newline) = Append(<<j>>, <<>>)
  BY <1>2, <1>8, SplitEnd
<1> QED
  BY <1>2, <1>6, <1>9, <1>11 DEF Line, j

\* A line and another of one field.
Breaks(S, fields, d) ==
    \E line \in Seq(S) : Split(Line(fields), Newline) = Append(<<line, <<d>>>>, <<>>)

\* A newline in the last field makes two lines, the second of one field.
LEMMA NewlineLine ==
    ASSUME NEW S, Tab \in S, Newline \in S, NEW front \in Seq(Seq(S)), front # <<>>, Clean(front),
           NEW d \in S, Word(d), NEW fields, fields = Append(front, <<d, Newline, d>>)
    PROVE  /\ Split(<<d>>, Tab) = <<<<d>>>>
           /\ Breaks(S, fields, d)
<1> DEFINE x == <<d, Newline, d>>
           j == Joined(front)
           t == Append(j, Tab)
           line == Append(t, d)
<1>1. <<d>> \in Seq(S) /\ x \in Seq(S)
  OBVIOUS
<1>2. Split(<<d>>, Tab) = <<<<d>>>>
  BY SplitToken DEF Word
<1>3. Split(<<d>>, Newline) = <<<<d>>>>
  BY SplitToken DEF Word
<1>4. Tab # Newline
  BY SeparatorAssumption
<1>5. j \in Seq(S) /\ Free(j, Newline)
  BY <1>4, JoinedType, JoinedFree DEF Clean
<1>6. Joined(fields) = t \o x
  BY <1>1, JoinedAppend
<1> HIDE DEF j
<1>7. t \in Seq(S) /\ line \in Seq(S)
  BY <1>5
<1>8. Free(line, Newline)
  <2>1. Free(t, Newline)
    BY <1>4, <1>5, FreeAppend
  <2> HIDE DEF t
  <2> QED
    BY <1>7, <2>1, FreeAppend DEF Word
<1> DEFINE a == Append(line, Newline)
<1>9. t \o x = a \o <<d>>
  <2> HIDE DEF t
  <2> QED
    BY <1>7
<1> HIDE DEF t, x
<1> HIDE DEF line
<1>11. Split(a, Newline) = Append(<<line>>, <<>>) /\ a \in Seq(S)
  BY <1>7, <1>8, SplitEnd
<1> HIDE DEF a
<1>12. Split(a \o <<d>>, Newline) = <<line>> \o <<<<d>>>>
  <2>1. Glues(S, Newline) /\ <<line>> \in Seq(Seq(S))
    BY <1>7, SplitGlues
  <2>2. Split(a \o <<d>>, Newline) = <<line>> \o Split(<<d>>, Newline)
    BY <1>1, <1>11, <2>1, Zenon DEF Glues
  <2> QED
    BY <1>3, <2>2, Zenon
<1>13. Split(Joined(fields), Newline) = <<line, <<d>>>> /\ Joined(fields) \in Seq(S)
  <2>1. <<line>> \o <<<<d>>>> = <<line, <<d>>>>
    BY Pairs, Zenon
  <2>2. a \o <<d>> \in Seq(S)
    BY <1>1, <1>11
  <2> QED
    BY <1>6, <1>9, <1>12, <2>1, <2>2, Zenon
<1>14. Split(Line(fields), Newline) = Append(<<line, <<d>>>>, <<>>)
  <2> DEFINE f == Joined(fields)
  <2>1. f \in Seq(S) /\ Split(f, Newline) = <<line, <<d>>>>
    BY <1>13
  <2> HIDE DEF f
  <2>2. Split(Append(f, Newline), Newline) = Taken(Split(f, Newline), Newline, Newline)
    BY <2>1, SplitAppend, Zenon
  <2> QED
    BY <2>1, <2>2, Zenon DEF Line, f, Taken
<1> QED
  BY <1>2, <1>7, <1>14 DEF Breaks

-----------------------------------------------------------------------------
(***************************************************************************)
(* The rows of a schema, read one by one.                                  *)
(***************************************************************************)
ColumnItem(def, c) ==
    [name |-> c, sql_type |-> def.columns[c].sql_type, nullable |-> def.columns[c].nullable,
     default_sql |-> def.columns[c].default_sql]
IndexItem(def, i) ==
    [name |-> i, column |-> def.indexes[i].column, unique |-> def.indexes[i].unique]

\* A list of all items, by different names.
Filled(list, items) == list \in Seq(items) /\ Distinct(list) /\ ToSet(list) = items

\* A table, and one of which only its own row has been read.
TableItem(t, def, columns, indexes) ==
    [name |-> t, primary_key |-> def.primary_key, key_type |-> def.key_type,
     columns |-> columns, indexes |-> indexes]
NewTable(t, def) == TableItem(t, def, <<>>, <<>>)

\* What has been read of a table when the rows done have been.
ColumnsDone(schema, t, done) ==
    {ColumnItem(schema[t], c) : c \in {k \in Columns(schema[t]) : Row("column", t, k) \in done}}
IndexesDone(schema, t, done) ==
    {IndexItem(schema[t], i) : i \in {k \in Indexes(schema[t]) : Row("index", t, k) \in done}}
TableRead(schema, done, table) ==
    /\ table = TableItem(table.name, schema[table.name], table.columns, table.indexes)
    /\ Filled(table.columns, ColumnsDone(schema, table.name, done))
    /\ Filled(table.indexes, IndexesDone(schema, table.name, done))
TablesRead(schema, done, tables) ==
    /\ \E T : tables \in Seq(T)
    /\ Distinct(tables)
    /\ \A i \in 1..Len(tables) : tables[i].name \in DOMAIN schema /\ Row("table", tables[i].name, 0) \in done
    /\ \A t \in DOMAIN schema : Row("table", t, 0) \in done => \E i \in 1..Len(tables) : tables[i].name = t
    /\ \A i \in 1..Len(tables) : TableRead(schema, done, tables[i])

LEMMA FilledNone == Filled(<<>>, {})
  BY DEF Filled, Distinct, ToSet

LEMMA FilledAppend ==
    ASSUME NEW list, NEW items, Filled(list, items), NEW x, \A item \in items : item.name # x.name
    PROVE  Filled(Append(list, x), items \cup {x})
<1> DEFINE S == items \cup {x}
           l == Append(list, x)
           n == Len(list)
<1>1. list \in Seq(items)
  BY DEF Filled
<1>2. list \in Seq(S) /\ x \in S
  BY <1>1
<1>3. n \in Nat /\ DOMAIN list = 1..n /\ \A i \in 1..n : list[i] \in items
  BY <1>1
<1>4. /\ l \in Seq(S) /\ Len(l) = n + 1 /\ DOMAIN l = 1..(n + 1) /\ l[n + 1] = x
      /\ \A i \in 1..n : l[i] = list[i]
  <2> HIDE DEF S
  <2> QED
    BY <1>2
<1>5. (\A i, j \in 1..n : list[i].name = list[j].name => i = j) /\ items = {list[i] : i \in 1..n}
  BY <1>3 DEF Filled, Distinct, ToSet
<1> HIDE DEF l, n
<1>6. ASSUME NEW i \in 1..(n + 1), NEW j \in 1..(n + 1), l[i].name = l[j].name PROVE i = j
  <2>1. CASE i \in 1..n /\ j \in 1..n
    BY <1>4, <1>5, <1>6, <2>1
  <2>2. CASE i \in 1..n /\ j = n + 1
    BY <1>3, <1>4, <1>6, <2>2
  <2>3. CASE i = n + 1 /\ j \in 1..n
    BY <1>3, <1>4, <1>6, <2>3
  <2> QED
    BY <1>3, <2>1, <2>2, <2>3
<1>7. {l[i] : i \in 1..(n + 1)} = S
  <2>1. \A i \in 1..(n + 1) : l[i] \in S
    BY <1>3, <1>4
  <2>2. \A y \in S : \E i \in 1..(n + 1) : l[i] = y
    <3> SUFFICES ASSUME NEW y \in S PROVE \E i \in 1..(n + 1) : l[i] = y
      OBVIOUS
    <3>1. CASE y = x
      <4>1. n + 1 \in 1..(n + 1)
        BY <1>3
      <4> QED
        BY <1>4, <3>1, <4>1
    <3>2. CASE y \in items
      <4>1. PICK i \in 1..n : list[i] = y
        BY <1>5, <3>2
      <4>2. i \in 1..(n + 1)
        BY <1>3
      <4> QED
        BY <1>4, <4>1, <4>2
    <3> QED
      BY <3>1, <3>2
  <2> QED
    BY <2>1, <2>2
<1>8. Distinct(l) /\ ToSet(l) = S
  BY <1>4, <1>6, <1>7 DEF Distinct, ToSet
<1> QED
  BY <1>4, <1>8 DEF Filled, l

LEMMA HolderIs ==
    ASSUME NEW tables, Len(tables) \in Nat, NEW h \in 1..Len(tables),
           \A i \in 1..Len(tables) : tables[i].name = tables[h].name => i = h
    PROVE  Holder(tables, <<tables[h].name>>) = h
<1> DEFINE I == {i \in 1..Len(tables) : <<tables[i].name>> = <<tables[h].name>>}
<1>1. Holder(tables, <<tables[h].name>>) = IF I # {} THEN Min(I) ELSE 0
  BY DEF Holder, SelectInSeq
<1>2. I = {h}
  OBVIOUS
<1>3. Min({h}) = h
  BY DEF Min
<1> QED
  BY <1>1, <1>2, <1>3

\* A column or an index comes after those read before.
PutColumn(tables, h, x) == [tables EXCEPT ![h].columns = Append(@, x)]
Taking(tables) == [ok |-> TRUE, tables |-> tables]
PutIndex(tables, h, x) == [tables EXCEPT ![h].indexes = Append(@, x)]

\* The line of such a column is read as the column.
IsRead(column) ==
    /\ column.nullable \in BOOLEAN
    /\ column.default_sql = NoDefault \/ column.default_sql \notin DOMAIN Separator

\* The fields of each kind of row.
LEMMA ReadTableFields ==
    ASSUME NEW tables, NEW t, NEW def
    PROVE  ReadRow(tables, TableFields(t, def)) =
                [ok |-> TRUE, tables |-> Append(tables,
                    NewTable(t, def))]
<1> DEFINE f == TableFields(t, def)
<1>1. /\ Len(f) = 4 /\ f[1] = <<"table">>
      /\ f[2][1] = t /\ f[3][1] = def.primary_key /\ f[4][1] = def.key_type
  BY DEF TableFields
<1> HIDE DEF f
<1>2. ReadRow(tables, f) = [ok |-> TRUE, tables |-> Append(tables,
            [name |-> f[2][1], primary_key |-> f[3][1], key_type |-> f[4][1],
             columns |-> <<>>, indexes |-> <<>>])]
  BY <1>1 DEF ReadRow
<1> QED
  BY <1>1, <1>2 DEF f, NewTable, TableItem

LEMMA ReadColumnFields ==
    ASSUME NEW tables, NEW h, h # 0, NEW t, Holder(tables, <<t>>) = h, NEW def, NEW c,
           NEW column, column = def.columns[c], IsRead(column)
    PROVE  ReadRow(tables, ColumnFields(t, c, column)) =
                Taking(PutColumn(tables, h, ColumnItem(def, c)))
<1> DEFINE f == ColumnFields(t, c, column)
           d == IF Len(f) = 6 /\ f[6] # <<>> THEN f[6][1] ELSE NoDefault
<1>1. /\ Len(f) = 6 /\ f[1] = <<"column">> /\ f[2] = <<t>> /\ f[3] = <<c>> /\ f[4] = <<column.sql_type>>
      /\ f[5] = <<Flag(column.nullable)>> /\ f[6] = DefaultText(column.default_sql)
  BY DEF ColumnFields
<1>2. d = column.default_sql
  <2>1. CASE column.default_sql = NoDefault
    BY <1>1, <2>1 DEF DefaultText, IsRead
  <2>2. CASE column.default_sql # NoDefault
    <3>1. f[6] = <<column.default_sql>>
      BY <1>1, <2>2 DEF DefaultText, IsRead
    <3>2. f[6] # <<>> /\ f[6][1] = column.default_sql
      BY <3>1
    <3> QED
      BY <1>1, <3>2
  <2> QED
    BY <2>1, <2>2
<1>3. f[5] \in Flags /\ (f[5] = <<Flag(TRUE)>>) = column.nullable
  BY <1>1 DEF Flags, Flag, IsRead
<1>4. f[1] # <<"table">> /\ f[1] # <<"index">>
  BY <1>1
<1>5. f[3][1] = c /\ f[4][1] = column.sql_type
  BY <1>1
<1> HIDE DEF f, d
<1>6. ReadRow(tables, f) = [ok |-> TRUE, tables |-> [tables EXCEPT ![h].columns = Append(@,
            [name |-> f[3][1], sql_type |-> f[4][1], nullable |-> f[5] = <<Flag(TRUE)>>, default_sql |-> d])]]
  <2>1. Len(f) \in 5..6 /\ ~(f[1] = <<"table">> /\ Len(f) \in 2..4) /\ Holder(tables, f[2]) = h
    BY <1>1, <1>4
  <2> DEFINE b == f[5] = <<Flag(TRUE)>>
  <2> HIDE DEF b
  <2>2. ReadRow(tables, f) = [ok |-> TRUE, tables |-> [tables EXCEPT ![h].columns = Append(@,
            [name |-> f[3][1], sql_type |-> f[4][1], nullable |-> b, default_sql |-> d])]]
    BY <1>1, <1>3, <1>4, <2>1 DEF ReadRow, b, d
  <2> QED
    BY <2>2 DEF b
<1> QED
  BY <1>2, <1>3, <1>5, <1>6 DEF ColumnItem, PutColumn, Taking, f

LEMMA ReadIndexFields ==
    ASSUME NEW tables, NEW h, h # 0, NEW t, Holder(tables, <<t>>) = h, NEW def, NEW i,
           NEW index, index = def.indexes[i], index.unique \in BOOLEAN
    PROVE  ReadRow(tables, IndexFields(t, i, index)) =
                Taking(PutIndex(tables, h, IndexItem(def, i)))
<1> DEFINE f == IndexFields(t, i, index)
<1>1. /\ Len(f) = 5 /\ f[1] = <<"index">> /\ f[2] = <<t>> /\ f[3] = <<i>> /\ f[4] = <<index.column>>
      /\ f[5] = <<Flag(index.unique)>>
  BY DEF IndexFields
<1>3. f[5] \in Flags /\ (f[5] = <<Flag(TRUE)>>) = index.unique
  BY <1>1 DEF Flags, Flag
<1>4. f[1] # <<"table">> /\ f[1] # <<"column">>
  BY <1>1
<1>5. f[3][1] = i /\ f[4][1] = index.column
  BY <1>1
<1> HIDE DEF f
<1>6. ReadRow(tables, f) = [ok |-> TRUE, tables |-> [tables EXCEPT ![h].indexes = Append(@,
            [name |-> f[3][1], column |-> f[4][1], unique |-> f[5] = <<Flag(TRUE)>>])]]
  BY <1>1, <1>3, <1>4 DEF ReadRow
<1> QED
  BY <1>3, <1>5, <1>6 DEF IndexItem, PutIndex, Taking, f

\* A row adds to what has been read of its own table only.
LEMMA SameRead ==
    ASSUME NEW schema, NEW done, NEW row, NEW table, TableRead(schema, done, table),
           row.table # table.name \/ row.kind = "table"
    PROVE  TableRead(schema, done \cup {row}, table)
<1> DEFINE t == table.name
<1>1. ASSUME NEW item PROVE row # Row("column", t, item) /\ row # Row("index", t, item)
  BY DEF Row
<1>2. /\ ColumnsDone(schema, t, done \cup {row}) = ColumnsDone(schema, t, done)
      /\ IndexesDone(schema, t, done \cup {row}) = IndexesDone(schema, t, done)
  BY <1>1 DEF ColumnsDone, IndexesDone
<1> QED
  BY <1>2, Zenon DEF TableRead

LEMMA ColumnIsAdded ==
    ASSUME NEW schema, NEW done, NEW table, TableRead(schema, done, table),
           NEW c \in Columns(schema[table.name]), Row("column", table.name, c) \notin done
    PROVE  TableRead(schema, done \cup {Row("column", table.name, c)},
                [table EXCEPT !.columns = Append(@, ColumnItem(schema[table.name], c))])
<1> DEFINE t == table.name
           row == Row("column", t, c)
           x == ColumnItem(schema[t], c)
           new == [table EXCEPT !.columns = Append(@, x)]
           items == ColumnsDone(schema, t, done)
<1>1. ColumnsDone(schema, t, done \cup {row}) = items \cup {x}
  BY DEF ColumnsDone, Row
<1>2. IndexesDone(schema, t, done \cup {row}) = IndexesDone(schema, t, done)
  BY DEF IndexesDone, Row
<1>3. \A item \in items : item.name # x.name
  BY DEF ColumnsDone, ColumnItem
<1>4. /\ Filled(table.columns, items) /\ Filled(table.indexes, IndexesDone(schema, t, done))
      /\ table = TableItem(t, schema[t], table.columns, table.indexes)
  BY Zenon DEF TableRead
<1> HIDE DEF items, x, row
<1>5. Filled(Append(table.columns, x), items \cup {x})
  BY <1>3, <1>4, FilledAppend
<1>6. new = TableItem(t, schema[t], Append(table.columns, x), table.indexes)
  <2> DEFINE cs == table.columns
             js == table.indexes
             def == schema[t]
             more == Append(cs, x)
  <2>1. table = TableItem(t, def, cs, js)
    BY <1>4
  <2>2. new = [table EXCEPT !.columns = more]
    OBVIOUS
  <2> HIDE DEF cs, js, def, more, new, t
  <2>3. new = TableItem(t, def, more, js)
    BY <2>1, <2>2 DEF TableItem
  <2> QED
    BY <2>3 DEF cs, js, def, more
<1> HIDE DEF t, new
<1>7. /\ new.name = t /\ new.columns = Append(table.columns, x) /\ new.indexes = table.indexes
      /\ new = TableItem(new.name, schema[new.name], new.columns, new.indexes)
  BY <1>6 DEF TableItem
<1>8. TableRead(schema, done \cup {row}, new)
  BY <1>1, <1>2, <1>4, <1>5, <1>7, Zenon DEF TableRead
<1> QED
  BY <1>8 DEF new, row, x, t

LEMMA IndexIsAdded ==
    ASSUME NEW schema, NEW done, NEW table, TableRead(schema, done, table),
           NEW i \in Indexes(schema[table.name]), Row("index", table.name, i) \notin done
    PROVE  TableRead(schema, done \cup {Row("index", table.name, i)},
                [table EXCEPT !.indexes = Append(@, IndexItem(schema[table.name], i))])
<1> DEFINE t == table.name
           row == Row("index", t, i)
           x == IndexItem(schema[t], i)
           new == [table EXCEPT !.indexes = Append(@, x)]
           items == IndexesDone(schema, t, done)
<1>1. IndexesDone(schema, t, done \cup {row}) = items \cup {x}
  BY DEF IndexesDone, Row
<1>2. ColumnsDone(schema, t, done \cup {row}) = ColumnsDone(schema, t, done)
  BY DEF ColumnsDone, Row
<1>3. \A item \in items : item.name # x.name
  BY DEF IndexesDone, IndexItem
<1>4. /\ Filled(table.indexes, items) /\ Filled(table.columns, ColumnsDone(schema, t, done))
      /\ table = TableItem(t, schema[t], table.columns, table.indexes)
  BY Zenon DEF TableRead
<1> HIDE DEF items, x, row
<1>5. Filled(Append(table.indexes, x), items \cup {x})
  BY <1>3, <1>4, FilledAppend
<1>6. new = TableItem(t, schema[t], table.columns, Append(table.indexes, x))
  <2> DEFINE cs == table.columns
             js == table.indexes
             def == schema[t]
             more == Append(js, x)
  <2>1. table = TableItem(t, def, cs, js)
    BY <1>4
  <2>2. new = [table EXCEPT !.indexes = more]
    OBVIOUS
  <2> HIDE DEF cs, js, def, more, new, t
  <2>3. new = TableItem(t, def, cs, more)
    BY <2>1, <2>2 DEF TableItem
  <2> QED
    BY <2>3 DEF cs, js, def, more
<1> HIDE DEF t, new
<1>7. /\ new.name = t /\ new.indexes = Append(table.indexes, x) /\ new.columns = table.columns
      /\ new = TableItem(new.name, schema[new.name], new.columns, new.indexes)
  BY <1>6 DEF TableItem
<1>8. TableRead(schema, done \cup {row}, new)
  BY <1>1, <1>2, <1>4, <1>5, <1>7, Zenon DEF TableRead
<1> QED
  BY <1>8 DEF new, row, x, t

\* A table takes the next row in its place.
LEMMA TableIsReplaced ==
    ASSUME NEW schema, NEW done, NEW tables, TablesRead(schema, done, tables),
           NEW h \in 1..Len(tables), NEW new, new.name = tables[h].name,
           NEW row, row.table = new.name, row.kind # "table",
           TableRead(schema, done \cup {row}, new)
    PROVE  TablesRead(schema, done \cup {row}, [tables EXCEPT ![h] = new])
<1> DEFINE more == done \cup {row}
           n == Len(tables)
           l == [tables EXCEPT ![h] = new]
<1>1. PICK T : tables \in Seq(T)
  BY DEF TablesRead
<1>2. n \in Nat /\ DOMAIN tables = 1..n
  BY <1>1
<1>3. l \in Seq(T \cup {new}) /\ Len(l) = n /\ DOMAIN l = 1..n
      /\ \A i \in 1..n : l[i] = IF i = h THEN new ELSE tables[i]
  BY <1>1
<1> HIDE DEF l, n
<1>4. \A i \in 1..n : l[i].name = tables[i].name
  BY <1>3
<1>5. \A i, j \in 1..n : tables[i].name = tables[j].name => i = j
  BY <1>2 DEF TablesRead, Distinct
<1>6. Distinct(l)
  BY <1>3, <1>4, <1>5 DEF Distinct
<1>7. \A t : Row("table", t, 0) \in more <=> Row("table", t, 0) \in done
  BY DEF Row
<1>8. ASSUME NEW i \in 1..n PROVE TableRead(schema, more, l[i])
  <2>1. CASE i = h
    BY <1>3, <2>1
  <2>2. CASE i # h
    <3>1. tables[i].name # row.table
      BY <1>5, <2>2 DEF n
    <3>2. TableRead(schema, done, tables[i])
      BY DEF TablesRead, n
    <3>3. TableRead(schema, more, tables[i])
      BY <3>1, <3>2, SameRead
    <3> QED
      BY <1>3, <2>2, <3>3
  <2> QED
    BY <2>1, <2>2
<1>9. \A i \in 1..n : l[i].name \in DOMAIN schema /\ Row("table", l[i].name, 0) \in more
  BY <1>4, <1>7 DEF TablesRead, n
<1>10. \A t \in DOMAIN schema : Row("table", t, 0) \in more => \E i \in 1..n : l[i].name = t
  BY <1>4, <1>7 DEF TablesRead, n
<1> HIDE DEF more
<1>11. TablesRead(schema, more, l)
  BY <1>3, <1>6, <1>8, <1>9, <1>10 DEF TablesRead
<1> QED
  BY <1>11 DEF l, more

\* Every row is below the row of its table.
Headed(done) == \A row \in done : Row("table", row.table, 0) \in done

LEMMA TableAdded ==
    ASSUME NEW schema, NEW done, NEW tables, TablesRead(schema, done, tables), Headed(done),
           NEW t \in DOMAIN schema, Row("table", t, 0) \notin done
    PROVE  TablesRead(schema, done \cup {Row("table", t, 0)}, Append(tables,
                NewTable(t, schema[t])))
<1> DEFINE row == Row("table", t, 0)
           more == done \cup {row}
           n == Len(tables)
           new == NewTable(t, schema[t])
           l == Append(tables, new)
<1>1. PICK T : tables \in Seq(T)
  BY DEF TablesRead
<1>2. n \in Nat /\ DOMAIN tables = 1..n
  BY <1>1
<1>3. new.name = t /\ TableRead(schema, more, new)
  <2>1. ColumnsDone(schema, t, more) = {} /\ IndexesDone(schema, t, more) = {}
    BY DEF Headed, ColumnsDone, IndexesDone, Row
  <2>2. new.columns = <<>> /\ new.indexes = <<>> /\ new.name = t
        /\ new = TableItem(new.name, schema[new.name], new.columns, new.indexes)
    BY DEF NewTable, TableItem
  <2> HIDE DEF new, more
  <2> QED
    BY <2>1, <2>2, FilledNone, Zenon DEF TableRead
<1> HIDE DEF new
<1>4. l \in Seq(T \cup {new}) /\ Len(l) = n + 1 /\ DOMAIN l = 1..(n + 1) /\ l[n + 1] = new
      /\ \A i \in 1..n : l[i] = tables[i]
  <2>1. tables \in Seq(T \cup {new})
    BY <1>1
  <2> QED
    BY <2>1
<1> HIDE DEF l, n
<1>5. \A i, j \in 1..n : tables[i].name = tables[j].name => i = j
  BY <1>2 DEF TablesRead, Distinct
<1>6. \A i \in 1..n : tables[i].name # t
  BY DEF TablesRead, n
<1>7. \A i \in 1..(n + 1) : i \in 1..n \/ i = n + 1
  BY <1>2
<1>8. Distinct(l)
  <2>1. \A i \in 1..n : l[i].name = tables[i].name
    BY <1>4
  <2>2. l[n + 1].name = t
    BY <1>3, <1>4
  <2> SUFFICES ASSUME NEW i \in 1..(n + 1), NEW j \in 1..(n + 1), l[i].name = l[j].name PROVE i = j
    BY <1>4 DEF Distinct
  <2> QED
    BY <1>5, <1>6, <1>7, <2>1, <2>2
<1>9. ASSUME NEW i \in 1..n PROVE TableRead(schema, more, l[i])
  <2>1. TableRead(schema, done, tables[i])
    BY DEF TablesRead, n
  <2>2. row.kind = "table"
    BY DEF Row
  <2> HIDE DEF row
  <2> QED
    BY <1>4, <2>1, <2>2, SameRead
<1>10. \A i \in 1..(n + 1) : TableRead(schema, more, l[i])
  BY <1>3, <1>4, <1>7, <1>9
<1>11. \A i \in 1..(n + 1) : l[i].name \in DOMAIN schema /\ Row("table", l[i].name, 0) \in more
  BY <1>3, <1>4, <1>7 DEF TablesRead, n
<1>12. ASSUME NEW u \in DOMAIN schema, Row("table", u, 0) \in more
       PROVE  \E i \in 1..(n + 1) : l[i].name = u
  <2>1. CASE u = t
    <3>1. n + 1 \in 1..(n + 1)
      BY <1>2
    <3> QED
      BY <1>3, <1>4, <2>1, <3>1
  <2>2. CASE u # t
    <3>1. Row("table", u, 0) \in done
      BY <1>12, <2>2 DEF Row
    <3>2. PICK i \in 1..n : tables[i].name = u
      BY <3>1 DEF TablesRead, n
    <3>3. i \in 1..(n + 1)
      BY <1>2
    <3> QED
      BY <1>4, <3>2, <3>3
  <2> QED
    BY <2>1, <2>2
<1> HIDE DEF more
<1>13. TablesRead(schema, more, l)
  BY <1>4, <1>8, <1>10, <1>11, <1>12 DEF TablesRead
<1> QED
  BY <1>13 DEF l, more, new, row

\* A schema of writable tables.
IsColumn(column) ==
    /\ column = [sql_type |-> column.sql_type, nullable |-> column.nullable,
                 default_sql |-> column.default_sql]
    /\ Word(column.sql_type) /\ Word(column.default_sql) /\ column.nullable \in BOOLEAN
IsIndex(index) ==
    /\ index = [column |-> index.column, unique |-> index.unique]
    /\ Word(index.column) /\ index.unique \in BOOLEAN
Storable(schema) ==
    /\ IsSchema(schema) /\ schema = [t \in DOMAIN schema |-> schema[t]]
    /\ \A t \in DOMAIN schema :
        t \in Int /\ Word(t) /\ Word(schema[t].primary_key) /\ Word(schema[t].key_type)
    /\ \A t \in DOMAIN schema : schema[t].columns = [c \in Columns(schema[t]) |-> schema[t].columns[c]]
    /\ \A t \in DOMAIN schema : \A c \in Columns(schema[t]) :
            c \in Int /\ Word(c) /\ IsColumn(schema[t].columns[c])
    /\ \A t \in DOMAIN schema : \A i \in Indexes(schema[t]) :
            i \in Int /\ Word(i) /\ IsIndex(schema[t].indexes[i])

\* A row without a separator in its default.
Sound(schema, row) == row.kind = "column" =>
    LET d == schema[row.table].columns[row.item].default_sql IN
    d = NoDefault \/ d \notin DOMAIN Separator

LEMMA RowForms ==
    ASSUME NEW schema, NEW row \in Rows(schema)
    PROVE  /\ row = Row(row.kind, row.table, row.item) /\ row.table \in DOMAIN schema
           /\ \/ row.kind = "table" /\ row.item = 0
              \/ row.kind = "column" /\ row.item \in Columns(schema[row.table])
              \/ row.kind = "index" /\ row.item \in Indexes(schema[row.table])
  BY DEF Rows, Row

LEMMA RowFields ==
    ASSUME NEW schema, NEW row
    PROVE  LET table == schema[row.table] IN
           /\ row.kind = "table" => FieldsOf(schema, row) = TableFields(row.table, table)
           /\ row.kind = "column" =>
                FieldsOf(schema, row) = ColumnFields(row.table, row.item, table.columns[row.item])
           /\ row.kind = "index" =>
                FieldsOf(schema, row) = IndexFields(row.table, row.item, table.indexes[row.item])
  BY DEF FieldsOf

LEMMA RowRead ==
    ASSUME NEW schema, Storable(schema), NEW done, NEW tables, TablesRead(schema, done, tables),
           Headed(done), NEW row \in Rows(schema), row \notin done, Sound(schema, row),
           row.kind = "table" \/ Row("table", row.table, 0) \in done
    PROVE  \E next : /\ ReadRow(tables, FieldsOf(schema, row)) = [ok |-> TRUE, tables |-> next]
                     /\ TablesRead(schema, done \cup {row}, next)
<1> DEFINE t == row.table
           def == schema[t]
<1>1. row = Row(row.kind, t, row.item) /\ t \in DOMAIN schema
  BY RowForms
<1>2. CASE row.kind = "table"
  <2>1. row = Row("table", t, 0)
    BY <1>1, <1>2, RowForms
  <2> DEFINE next == Append(tables,
                NewTable(t, def))
  <2>2. FieldsOf(schema, row) = TableFields(t, def)
    BY <1>2, RowFields
  <2>3. ReadRow(tables, TableFields(t, def)) = [ok |-> TRUE, tables |-> next]
    BY ReadTableFields
  <2> HIDE DEF t
  <2>4. TablesRead(schema, done \cup {Row("table", t, 0)}, next)
    BY <1>1, <2>1, TableAdded
  <2> HIDE DEF next
  <2> QED
    BY <2>1, <2>2, <2>3, <2>4
<1>3. ASSUME row.kind # "table"
      PROVE  \E h \in 1..Len(tables) : tables[h].name = t /\ h # 0 /\ Holder(tables, <<t>>) = h
  <2>1. PICK h \in 1..Len(tables) : tables[h].name = t
    BY <1>1, <1>3 DEF TablesRead
  <2>2. PICK T : tables \in Seq(T)
    BY DEF TablesRead
  <2>3. Len(tables) \in Nat /\ DOMAIN tables = 1..Len(tables)
    BY <2>2
  <2>4. \A i \in 1..Len(tables) : tables[i].name = tables[h].name => i = h
    BY <2>3 DEF TablesRead, Distinct
  <2>5. Holder(tables, <<tables[h].name>>) = h
    BY <2>3, <2>4, HolderIs
  <2> QED
    BY <2>1, <2>3, <2>5
<1>4. CASE row.kind = "column"
  <2> DEFINE c == row.item
             column == def.columns[c]
  <2>1. c \in Columns(def) /\ row = Row("column", t, c)
    BY <1>1, <1>4, RowForms
  <2>2. FieldsOf(schema, row) = ColumnFields(t, c, column)
    BY <1>4, RowFields
  <2>3. PICK h \in 1..Len(tables) : tables[h].name = t /\ h # 0 /\ Holder(tables, <<t>>) = h
    BY <1>3, <1>4
  <2>4. IsRead(column)
    BY <1>1, <1>4, <2>1 DEF Storable, Sound, IsColumn, IsRead
  <2> DEFINE new == [tables[h] EXCEPT !.columns = Append(@, ColumnItem(def, c))]
             next == PutColumn(tables, h, ColumnItem(def, c))
  <2>5. ReadRow(tables, ColumnFields(t, c, column)) = Taking(next)
    <3> HIDE DEF t, c, def
    <3>1. h # 0 /\ Holder(tables, <<t>>) = h /\ column = def.columns[c]
      BY <2>3
    <3> HIDE DEF column
    <3> QED
      BY <2>4, <3>1, ReadColumnFields DEF next
  <2>6. TableRead(schema, done, tables[h])
    BY DEF TablesRead
  <2>7. TableRead(schema, done \cup {row}, new) /\ new.name = t
    <3>1. TableRead(schema, done \cup {Row("column", tables[h].name, c)}, new)
      BY <2>1, <2>3, <2>6, ColumnIsAdded
    <3>2. new.name = tables[h].name
      BY <2>6 DEF TableRead
    <3> HIDE DEF new, c
    <3> QED
      BY <2>1, <2>3, <3>1, <3>2
  <2>8. next = [tables EXCEPT ![h] = new]
    BY DEF PutColumn
  <2> HIDE DEF new
  <2>9. TablesRead(schema, done \cup {row}, [tables EXCEPT ![h] = new])
    BY <1>4, <2>3, <2>7, TableIsReplaced
  <2> HIDE DEF next, column
  <2> QED
    BY <2>2, <2>5, <2>8, <2>9 DEF Taking
<1>5. CASE row.kind = "index"
  <2> DEFINE i == row.item
             index == def.indexes[i]
  <2>1. i \in Indexes(def) /\ row = Row("index", t, i)
    BY <1>1, <1>5, RowForms
  <2>2. FieldsOf(schema, row) = IndexFields(t, i, index)
    BY <1>5, RowFields
  <2>3. PICK h \in 1..Len(tables) : tables[h].name = t /\ h # 0 /\ Holder(tables, <<t>>) = h
    BY <1>3, <1>5
  <2>4. index.unique \in BOOLEAN
    BY <1>1, <2>1 DEF Storable, IsIndex
  <2> DEFINE new == [tables[h] EXCEPT !.indexes = Append(@, IndexItem(def, i))]
             next == PutIndex(tables, h, IndexItem(def, i))
  <2>5. ReadRow(tables, IndexFields(t, i, index)) = Taking(next)
    <3> HIDE DEF t, i, def
    <3>1. h # 0 /\ Holder(tables, <<t>>) = h /\ index = def.indexes[i]
      BY <2>3
    <3> HIDE DEF index
    <3> QED
      BY <2>4, <3>1, ReadIndexFields DEF next
  <2>6. TableRead(schema, done, tables[h])
    BY DEF TablesRead
  <2>7. TableRead(schema, done \cup {row}, new) /\ new.name = t
    <3>1. TableRead(schema, done \cup {Row("index", tables[h].name, i)}, new)
      BY <2>1, <2>3, <2>6, IndexIsAdded
    <3>2. new.name = tables[h].name
      BY <2>6 DEF TableRead
    <3> HIDE DEF new, i
    <3> QED
      BY <2>1, <2>3, <3>1, <3>2
  <2>8. next = [tables EXCEPT ![h] = new]
    BY DEF PutIndex
  <2> HIDE DEF new
  <2>9. TablesRead(schema, done \cup {row}, [tables EXCEPT ![h] = new])
    BY <1>5, <2>3, <2>7, TableIsReplaced
  <2> HIDE DEF next, index
  <2> QED
    BY <2>2, <2>5, <2>8, <2>9 DEF Taking
<1> QED
  BY <1>2, <1>4, <1>5, RowForms

\* When all rows are read, the tables are those of the schema.
LEMMA AllRead ==
    ASSUME NEW schema, Storable(schema), NEW tables, TablesRead(schema, Rows(schema), tables)
    PROVE  Normalized(tables) = [ok |-> TRUE, schema |-> schema]
<1> DEFINE n == Len(tables)
           Value(table) ==
            [primary_key |-> table.primary_key, key_type |-> table.key_type,
             columns |-> ByName(table.columns, LAMBDA c :
                [sql_type |-> c.sql_type, nullable |-> c.nullable, default_sql |-> c.default_sql]),
             indexes |-> ByName(table.indexes, LAMBDA i :
                [column |-> i.column, unique |-> i.unique])]
<1>1. PICK T : tables \in Seq(T)
  BY DEF TablesRead
<1>2. n \in Nat /\ DOMAIN tables = 1..n
  BY <1>1
<1>3. \A t \in DOMAIN schema :
        /\ Row("table", t, 0) \in Rows(schema)
        /\ \A c \in Columns(schema[t]) : Row("column", t, c) \in Rows(schema)
        /\ \A i \in Indexes(schema[t]) : Row("index", t, i) \in Rows(schema)
  BY DEF Rows
<1>4. ASSUME NEW t \in DOMAIN schema
      PROVE  /\ ColumnsDone(schema, t, Rows(schema)) = {ColumnItem(schema[t], c) : c \in Columns(schema[t])}
             /\ IndexesDone(schema, t, Rows(schema)) = {IndexItem(schema[t], i) : i \in Indexes(schema[t])}
  BY <1>3 DEF ColumnsDone, IndexesDone
<1>5. ASSUME NEW k \in 1..n
      PROVE  /\ Consistent(tables[k]) /\ tables[k].name \in DOMAIN schema
             /\ Value(tables[k]) = schema[tables[k].name]
  <2> DEFINE table == tables[k]
             t == table.name
             def == schema[t]
             cs == {ColumnItem(def, c) : c \in Columns(def)}
             js == {IndexItem(def, i) : i \in Indexes(def)}
  <2>1. t \in DOMAIN schema /\ TableRead(schema, Rows(schema), table)
    BY DEF TablesRead
  <2>2. /\ table.primary_key = def.primary_key /\ table.key_type = def.key_type
        /\ Distinct(table.columns) /\ ToSet(table.columns) = cs
        /\ Distinct(table.indexes) /\ ToSet(table.indexes) = js
    <3> HIDE DEF table
    <3>1. table = TableItem(t, def, table.columns, table.indexes)
      BY <2>1, Zenon DEF TableRead
    <3>2. Filled(table.columns, cs) /\ Filled(table.indexes, js)
      <4>1. /\ Filled(table.columns, ColumnsDone(schema, t, Rows(schema)))
            /\ Filled(table.indexes, IndexesDone(schema, t, Rows(schema)))
        BY <2>1, Zenon DEF TableRead
      <4> HIDE DEF cs, js, t
      <4>2. ColumnsDone(schema, t, Rows(schema)) = cs /\ IndexesDone(schema, t, Rows(schema)) = js
        BY <1>4, <2>1 DEF cs, js
      <4> QED
        BY <4>1, <4>2
    <3> HIDE DEF cs, js, t, def
    <3> QED
      BY <3>1, <3>2 DEF Filled, TableItem
  <2>3. IsDefinition(def) /\ def.columns = [c \in Columns(def) |-> def.columns[c]]
        /\ (\A c \in Columns(def) : IsColumn(def.columns[c])) /\ \A i \in Indexes(def) : IsIndex(def.indexes[i])
    <3> HIDE DEF t
    <3> QED
      BY <2>1 DEF Storable, IsSchema
  <2> HIDE DEF table, t, def
  <2>4. {c.name : c \in cs} = Columns(def) /\ {i.name : i \in js} = Indexes(def)
    <3>1. \A c : ColumnItem(def, c).name = c /\ IndexItem(def, c).name = c
      BY DEF ColumnItem, IndexItem
    <3> QED
      BY <3>1
  <2>5. Consistent(table)
    <3>1. def.primary_key \notin Columns(def)
          /\ \A i \in Indexes(def) : def.indexes[i].column \in Columns(def) \cup {def.primary_key}
      BY <2>3 DEF IsDefinition
    <3>2. \A i \in js : i.column \in Columns(def) \cup {def.primary_key}
      BY <3>1 DEF IndexItem
    <3> HIDE DEF cs, js
    <3> QED
      BY <2>2, <2>4, <3>1, <3>2 DEF Consistent
  <2>6. ASSUME NEW c \in Columns(def) PROVE (CHOOSE item \in cs : item.name = c) = ColumnItem(def, c)
    <3>1. ColumnItem(def, c) \in cs /\ \A item \in cs : (item.name = c <=> item = ColumnItem(def, c))
      BY DEF ColumnItem
    <3> HIDE DEF cs
    <3> QED
      BY <3>1
  <2>7. ASSUME NEW i \in Indexes(def) PROVE (CHOOSE item \in js : item.name = i) = IndexItem(def, i)
    <3>1. IndexItem(def, i) \in js /\ \A item \in js : (item.name = i <=> item = IndexItem(def, i))
      BY DEF IndexItem
    <3> HIDE DEF js
    <3> QED
      BY <3>1
  <2> DEFINE Col(c) == [sql_type |-> c.sql_type, nullable |-> c.nullable, default_sql |-> c.default_sql]
             Ind(i) == [column |-> i.column, unique |-> i.unique]
  <2>8. ByName(table.columns, Col) = def.columns
    <3>1. \A c \in Columns(def) : Col(ColumnItem(def, c)) = def.columns[c]
      BY <2>3 DEF ColumnItem, IsColumn
    <3>2. ByName(table.columns, Col) =
            [c \in {item.name : item \in cs} |-> Col(CHOOSE item \in cs : item.name = c)]
      BY <2>2 DEF ByName
    <3> HIDE DEF cs, Col
    <3>3. ByName(table.columns, Col) = [c \in Columns(def) |-> def.columns[c]]
      BY <2>4, <2>6, <3>1, <3>2
    <3> QED
      BY <2>3, <3>3
  <2>9. ByName(table.indexes, Ind) = def.indexes
    <3>1. \A i \in Indexes(def) : Ind(IndexItem(def, i)) = def.indexes[i]
      BY <2>3 DEF IndexItem, IsIndex
    <3>2. ByName(table.indexes, Ind) =
            [i \in {item.name : item \in js} |-> Ind(CHOOSE item \in js : item.name = i)]
      BY <2>2 DEF ByName
    <3> HIDE DEF js, Ind
    <3>3. ByName(table.indexes, Ind) = [i \in Indexes(def) |-> def.indexes[i]]
      BY <2>4, <2>7, <3>1, <3>2
    <3>4. def.indexes = [i \in Indexes(def) |-> def.indexes[i]]
      BY <2>3 DEF IsDefinition
    <3> QED
      BY <3>3, <3>4
  <2>10. Value(table) = def
    <3>1. def = [primary_key |-> def.primary_key, key_type |-> def.key_type,
                 columns |-> def.columns, indexes |-> def.indexes]
      BY <2>3 DEF IsDefinition
    <3> QED
      BY <2>2, <2>8, <2>9, <3>1
  <2> HIDE DEF Value
  <2> QED
    BY <2>1, <2>5, <2>10 DEF table, t, def
<1> HIDE DEF Value
<1>6. Distinct(tables) /\ ToSet(tables) = {tables[k] : k \in 1..n}
  BY <1>2 DEF TablesRead, ToSet
<1>7. \A table \in ToSet(tables) : Consistent(table)
  BY <1>5, <1>6
<1>8. Normalized(tables) = [ok |-> TRUE, schema |-> ByName(tables, Value)]
  BY <1>6, <1>7 DEF Normalized, Value
<1>9. ByName(tables, Value) = schema
  <2>1. {table.name : table \in ToSet(tables)} = DOMAIN schema
    <3>1. \A t \in DOMAIN schema : \E k \in 1..n : tables[k].name = t
      BY <1>3 DEF TablesRead
    <3>2. \A k \in 1..n : tables[k].name \in DOMAIN schema
      BY <1>5
    <3> QED
      BY <1>6, <3>1, <3>2
  <2>2. ASSUME NEW t \in DOMAIN schema
        PROVE  Value(CHOOSE table \in ToSet(tables) : table.name = t) = schema[t]
    <3> DEFINE chosen == CHOOSE table \in ToSet(tables) : table.name = t
    <3>1. \E table \in ToSet(tables) : table.name = t
      BY <2>1
    <3>2. chosen \in ToSet(tables) /\ chosen.name = t
      BY <3>1
    <3> HIDE DEF chosen
    <3>3. PICK k \in 1..n : chosen = tables[k]
      BY <1>6, <3>2
    <3>4. Value(chosen) = schema[t]
      BY <1>5, <3>2, <3>3
    <3> QED
      BY <3>4 DEF chosen
  <2>3. ByName(tables, Value) = [t \in DOMAIN schema |-> schema[t]]
    BY <2>1, <2>2 DEF ByName
  <2> QED
    BY <2>3 DEF Storable
<1> QED
  BY <1>8, <1>9

-----------------------------------------------------------------------------
(***************************************************************************)
(* The text of a schema, read line by line.                                *)
(***************************************************************************)
\* The tokens a schema is written with.
Tokens(schema) ==
    {Tab, Newline, "table", "column", "index", "0", "1"}
    \cup DOMAIN schema \cup {schema[t].primary_key : t \in DOMAIN schema}
    \cup {schema[t].key_type : t \in DOMAIN schema}
    \cup (UNION {Columns(schema[t]) \cup Indexes(schema[t]) : t \in DOMAIN schema})
    \cup (UNION {{schema[t].columns[c].sql_type : c \in Columns(schema[t])} : t \in DOMAIN schema})
    \cup (UNION {{schema[t].columns[c].default_sql : c \in Columns(schema[t])} : t \in DOMAIN schema})
    \cup (UNION {{schema[t].indexes[i].column : i \in Indexes(schema[t])} : t \in DOMAIN schema})

LEMMA TokensAre ==
    ASSUME NEW schema
    PROVE  /\ {Tab, Newline, "table", "column", "index", "0", "1"} \subseteq Tokens(schema)
           /\ \A t \in DOMAIN schema :
                /\ t \in Tokens(schema) /\ schema[t].primary_key \in Tokens(schema)
                /\ schema[t].key_type \in Tokens(schema)
                /\ \A c \in Columns(schema[t]) :
                    /\ c \in Tokens(schema) /\ schema[t].columns[c].sql_type \in Tokens(schema)
                    /\ schema[t].columns[c].default_sql \in Tokens(schema)
                /\ \A i \in Indexes(schema[t]) :
                    i \in Tokens(schema) /\ schema[t].indexes[i].column \in Tokens(schema)
  BY DEF Tokens

\* A field of one token.
OneWord(S, field) == field \in Seq(S) /\ Free(field, Tab) /\ Free(field, Newline)

LEMMA WordField ==
    ASSUME NEW S, NEW x \in S, Word(x)
    PROVE  OneWord(S, <<x>>)
<1>1. <<x>> \in Seq(S)
  OBVIOUS
<1>2. Free(<<x>>, Tab) /\ Free(<<x>>, Newline)
  BY SplitToken DEF Word
<1> QED
  BY <1>1, <1>2 DEF OneWord

LEMMA NoField ==
    ASSUME NEW S
    PROVE  OneWord(S, <<>>)
  BY DEF OneWord, Free

LEMMA FlagField ==
    ASSUME NEW S, "0" \in S, "1" \in S, NEW b \in BOOLEAN
    PROVE  OneWord(S, <<Flag(b)>>)
<1>1. Flag(b) \in {"0", "1"}
  BY DEF Flag
<1>2. Flag(b) \in S /\ Word(Flag(b))
  BY <1>1, SeparatorAssumption
<1> QED
  BY <1>2, WordField

\* Lists of such fields.
Fields(S, list) == list \in Seq(Seq(S)) /\ Clean(list) /\ list # <<>> /\ Len(list) # 1

LEMMA FourFields ==
    ASSUME NEW S, NEW a, NEW b, NEW c, NEW d,
           OneWord(S, a), OneWord(S, b), OneWord(S, c), OneWord(S, d)
    PROVE  Fields(S, <<a, b, c, d>>)
<1> DEFINE T == Seq(S)
           list == <<a, b, c, d>>
<1>1. a \in T /\ b \in T /\ c \in T /\ d \in T
  BY DEF OneWord
<1> HIDE DEF T
<1>2. /\ list \in Seq(T) /\ Len(list) = 4 /\ list # <<>>
      /\ list[1] = a /\ list[2] = b /\ list[3] = c /\ list[4] = d
  BY <1>1
<1> HIDE DEF list
<1>3. Clean(list)
  BY <1>2 DEF Clean, OneWord
<1>4. Fields(S, list)
  BY <1>2, <1>3 DEF Fields, T
<1> QED
  BY <1>4 DEF list

LEMMA FiveFields ==
    ASSUME NEW S, NEW a, NEW b, NEW c, NEW d, NEW e,
           OneWord(S, a), OneWord(S, b), OneWord(S, c), OneWord(S, d), OneWord(S, e)
    PROVE  Fields(S, <<a, b, c, d, e>>) /\ Len(<<a, b, c, d, e>>) = 5
<1> DEFINE T == Seq(S)
           list == <<a, b, c, d, e>>
<1>1. a \in T /\ b \in T /\ c \in T /\ d \in T /\ e \in T
  BY DEF OneWord
<1> HIDE DEF T
<1>2. /\ list \in Seq(T) /\ Len(list) = 5 /\ list # <<>>
      /\ list[1] = a /\ list[2] = b /\ list[3] = c /\ list[4] = d /\ list[5] = e
  BY <1>1
<1> HIDE DEF list
<1>3. Clean(list)
  BY <1>2 DEF Clean, OneWord
<1>4. Fields(S, list)
  BY <1>2, <1>3 DEF Fields, T
<1> QED
  BY <1>2, <1>4 DEF list

LEMMA SixFields ==
    ASSUME NEW S, NEW a, NEW b, NEW c, NEW d, NEW e, NEW f,
           OneWord(S, a), OneWord(S, b), OneWord(S, c), OneWord(S, d), OneWord(S, e), OneWord(S, f)
    PROVE  Fields(S, <<a, b, c, d, e, f>>)
<1> DEFINE T == Seq(S)
           list == <<a, b, c, d, e, f>>
<1>1. a \in T /\ b \in T /\ c \in T /\ d \in T /\ e \in T /\ f \in T
  BY DEF OneWord
<1> HIDE DEF T
<1>2. /\ list \in Seq(T) /\ Len(list) = 6 /\ list # <<>>
      /\ list[1] = a /\ list[2] = b /\ list[3] = c /\ list[4] = d /\ list[5] = e /\ list[6] = f
  BY <1>1
<1> HIDE DEF list
<1>3. Clean(list)
  BY <1>2 DEF Clean, OneWord
<1>4. Fields(S, list)
  BY <1>2, <1>3 DEF Fields, T
<1> QED
  BY <1>4 DEF list

LEMMA SixIsFiveAndOne ==
    ASSUME NEW a, NEW b, NEW c, NEW d, NEW e, NEW f
    PROVE  <<a, b, c, d, e, f>> = Append(<<a, b, c, d, e>>, f)
<1> DEFINE T == {a, b, c, d, e, f}
           l == <<a, b, c, d, e, f>>
           front == <<a, b, c, d, e>>
           r == Append(front, f)
<1>1. l \in Seq(T) /\ Len(l) = 6 /\ \A i \in 1..5 : l[i] = front[i]
  OBVIOUS
<1>2. l[6] = f
  OBVIOUS
<1>3. front \in Seq(T) /\ f \in T
  OBVIOUS
<1>4. Len(front) = 5
  OBVIOUS
<1> HIDE DEF front, l, T
<1>5. r \in Seq(T) /\ Len(r) = Len(front) + 1 /\ r[Len(front) + 1] = f /\ \A i \in 1..Len(front) : r[i] = front[i]
  BY <1>3
<1> HIDE DEF r
<1>6. Len(l) = Len(r) /\ \A i \in 1..Len(l) : l[i] = r[i]
  BY <1>1, <1>2, <1>5, <1>4
<1>7. l = r
  BY <1>1, <1>5, <1>6, SeqEqual, Zenon
<1> QED
  BY <1>7 DEF l, r, front

LEMMA SoundFields ==
    ASSUME NEW schema, Storable(schema), NEW row \in Rows(schema), Sound(schema, row)
    PROVE  Fields(Tokens(schema), FieldsOf(schema, row))
<1> DEFINE S == Tokens(schema)
           t == row.table
           def == schema[t]
<1>1. t \in DOMAIN schema
  BY RowForms
<1>2. /\ "table" \in S /\ "column" \in S /\ "index" \in S /\ "0" \in S /\ "1" \in S
      /\ t \in S /\ def.primary_key \in S /\ def.key_type \in S
      /\ \A c \in Columns(def) : c \in S /\ def.columns[c].sql_type \in S /\ def.columns[c].default_sql \in S
      /\ \A i \in Indexes(def) : i \in S /\ def.indexes[i].column \in S
  BY <1>1, TokensAre
<1>3. /\ Word("table") /\ Word("column") /\ Word("index")
      /\ Word(t) /\ Word(def.primary_key) /\ Word(def.key_type)
      /\ \A c \in Columns(def) : Word(c) /\ IsColumn(def.columns[c])
      /\ \A i \in Indexes(def) : Word(i) /\ IsIndex(def.indexes[i])
  BY <1>1, SeparatorAssumption DEF Storable
<1> HIDE DEF S
<1>4. OneWord(S, <<t>>)
  BY <1>2, <1>3, WordField
<1>5. CASE row.kind = "table"
  <2>1. OneWord(S, <<"table">>) /\ OneWord(S, <<def.primary_key>>) /\ OneWord(S, <<def.key_type>>)
    BY <1>2, <1>3, WordField
  <2>2. FieldsOf(schema, row) = <<<<"table">>, <<t>>, <<def.primary_key>>, <<def.key_type>>>>
    BY <1>5, RowFields DEF TableFields
  <2> HIDE DEF t, def
  <2>3. Fields(S, <<<<"table">>, <<t>>, <<def.primary_key>>, <<def.key_type>>>>)
    BY <1>4, <2>1, FourFields
  <2> QED
    BY <2>2, <2>3 DEF S
<1>6. CASE row.kind = "column"
  <2> DEFINE c == row.item
             column == def.columns[c]
  <2>1. c \in Columns(def)
    BY <1>6, RowForms
  <2>2. OneWord(S, <<"column">>) /\ OneWord(S, <<c>>) /\ OneWord(S, <<column.sql_type>>)
    BY <1>2, <1>3, <2>1, WordField DEF IsColumn
  <2>3. OneWord(S, <<Flag(column.nullable)>>)
    BY <1>2, <1>3, <2>1, FlagField DEF IsColumn
  <2>4. OneWord(S, DefaultText(column.default_sql))
    <3>1. Word(column.default_sql) /\ column.default_sql \in S
      BY <1>2, <1>3, <2>1 DEF IsColumn
    <3>2. column.default_sql = NoDefault \/ column.default_sql \notin DOMAIN Separator
      BY <1>6 DEF Sound
    <3> HIDE DEF column
    <3>3. DefaultText(column.default_sql) \in {<<>>, <<column.default_sql>>}
      BY <3>2 DEF DefaultText
    <3> QED
      BY <3>1, <3>3, WordField, NoField
  <2>5. FieldsOf(schema, row) = <<<<"column">>, <<t>>, <<c>>, <<column.sql_type>>,
            <<Flag(column.nullable)>>, DefaultText(column.default_sql)>>
    BY <1>6, RowFields DEF ColumnFields
  <2> HIDE DEF t, def, c, column
  <2>6. Fields(S, <<<<"column">>, <<t>>, <<c>>, <<column.sql_type>>,
            <<Flag(column.nullable)>>, DefaultText(column.default_sql)>>)
    BY <1>4, <2>2, <2>3, <2>4, SixFields
  <2> QED
    BY <2>5, <2>6 DEF S
<1>7. CASE row.kind = "index"
  <2> DEFINE i == row.item
             index == def.indexes[i]
  <2>1. i \in Indexes(def)
    BY <1>7, RowForms
  <2>2. OneWord(S, <<"index">>) /\ OneWord(S, <<i>>) /\ OneWord(S, <<index.column>>)
    BY <1>2, <1>3, <2>1, WordField DEF IsIndex
  <2>3. OneWord(S, <<Flag(index.unique)>>)
    BY <1>2, <1>3, <2>1, FlagField DEF IsIndex
  <2>4. FieldsOf(schema, row) = <<<<"index">>, <<t>>, <<i>>, <<index.column>>, <<Flag(index.unique)>>>>
    BY <1>7, RowFields DEF IndexFields
  <2> HIDE DEF t, def, i, index
  <2>5. Fields(S, <<<<"index">>, <<t>>, <<i>>, <<index.column>>, <<Flag(index.unique)>>>>)
    BY <1>4, <2>2, <2>3, FiveFields
  <2> QED
    BY <2>4, <2>5 DEF S
<1> QED
  BY <1>5, <1>6, <1>7, RowForms

\* The fields of a column whose default holds a separator.
LEMMA UnsoundFields ==
    ASSUME NEW schema, Storable(schema), NEW row \in Rows(schema), ~Sound(schema, row)
    PROVE  \E front, d, s :
                /\ Fields(Tokens(schema), front) /\ Len(front) = 5
                /\ d \in Tokens(schema) /\ Word(d) /\ s \in {Tab, Newline}
                /\ FieldsOf(schema, row) = Append(front, <<d, s, d>>)
                /\ d \in Defaults(schema) \cap DOMAIN Separator
<1> DEFINE S == Tokens(schema)
           t == row.table
           def == schema[t]
           c == row.item
           column == def.columns[c]
           d == column.default_sql
<1>1. row.kind = "column" /\ d # NoDefault /\ d \in DOMAIN Separator
  BY DEF Sound
<1>2. t \in DOMAIN schema /\ c \in Columns(def)
  BY <1>1, RowForms
<1>3. /\ "column" \in S /\ "0" \in S /\ "1" \in S /\ t \in S /\ c \in S
      /\ column.sql_type \in S /\ d \in S
  BY <1>2, TokensAre
<1>4. Word("column") /\ Word(t) /\ Word(c) /\ Word(column.sql_type) /\ Word(d) /\ column.nullable \in BOOLEAN
  BY <1>2, SeparatorAssumption DEF Storable, IsColumn
<1>5. Separator[d] \in {Tab, Newline}
  BY <1>1, SeparatorAssumption
<1>6. d \in Defaults(schema)
  BY <1>2 DEF Defaults
<1>7. FieldsOf(schema, row) = <<<<"column">>, <<t>>, <<c>>, <<column.sql_type>>,
            <<Flag(column.nullable)>>, DefaultText(d)>>
  BY <1>1, RowFields DEF ColumnFields
<1>8. DefaultText(d) = <<d, Separator[d], d>>
  BY <1>1 DEF DefaultText
<1> HIDE DEF S, t, def, c, column, d
<1> DEFINE front == <<<<"column">>, <<t>>, <<c>>, <<column.sql_type>>, <<Flag(column.nullable)>>>>
<1>9. Fields(S, front) /\ Len(front) = 5
  <2>1. OneWord(S, <<"column">>) /\ OneWord(S, <<t>>) /\ OneWord(S, <<c>>) /\ OneWord(S, <<column.sql_type>>)
    BY <1>3, <1>4, WordField
  <2>2. OneWord(S, <<Flag(column.nullable)>>)
    BY <1>3, <1>4, FlagField
  <2> QED
    BY <2>1, <2>2, FiveFields
<1>10. FieldsOf(schema, row) = Append(front, <<d, Separator[d], d>>)
  BY <1>7, <1>8, SixIsFiveAndOne
<1> HIDE DEF front
<1> QED
  BY <1>1, <1>3, <1>4, <1>5, <1>6, <1>9, <1>10 DEF S

\* What a row makes of what was read so far.
RowAfter(before, fields) == IF before.ok THEN ReadRow(before.tables, fields) ELSE before

\* The line of a row, after other lines: the row, or the end of the reading.
LineRead(schema, row, ls) ==
    /\ ls \in Seq(Seq(Tokens(schema)))
    /\ Line(FieldsOf(schema, row)) \in Seq(Tokens(schema))
    /\ Split(Line(FieldsOf(schema, row)), Newline) = Append(ls, <<>>)
    /\ \A prior \in Seq(Seq(Tokens(schema))) :
        /\ Sound(schema, row) =>
            ReadLines(prior \o ls) = RowAfter(ReadLines(prior), FieldsOf(schema, row))
        /\ ~Sound(schema, row) => ~ReadLines(prior \o ls).ok

LEMMA ReadOneMore ==
    ASSUME NEW T, NEW prior \in Seq(T), NEW line \in T
    PROVE  ReadLines(prior \o <<line>>) = ReadLine(ReadLines(prior), line)
<1>1. prior \o <<line>> = Append(prior, line)
  BY AppendIsConcat, Zenon
<1> QED
  BY <1>1, ReadAppend

LEMMA ReadTwoMore ==
    ASSUME NEW T, NEW prior \in Seq(T), NEW line \in T, NEW word \in T
    PROVE  ReadLines(prior \o <<line, word>>) = ReadLine(ReadLine(ReadLines(prior), line), word)
<1> DEFINE a == Append(prior, line)
<1>1. a \in Seq(T) /\ prior \o <<line>> = a /\ <<line>> \in Seq(T)
  <2>1. <<line>> \in Seq(T) /\ a \in Seq(T)
    OBVIOUS
  <2> QED
    BY <2>1, AppendIsConcat, Zenon
<1>2. prior \o Append(<<line>>, word) = Append(prior \o <<line>>, word)
  <2> DEFINE w == <<line>>
  <2>1. w \in Seq(T)
    BY <1>1
  <2> HIDE DEF w
  <2>2. prior \o Append(w, word) = Append(prior \o w, word)
    BY <2>1, AppendAfter
  <2> QED
    BY <2>2 DEF w
<1>3. Append(<<line>>, word) = <<line, word>>
  BY Pairs, Zenon
<1>4. prior \o <<line, word>> = Append(a, word)
  BY <1>1, <1>2, <1>3, Zenon
<1>5. ReadLines(a) = ReadLine(ReadLines(prior), line)
  BY ReadAppend
<1> HIDE DEF a
<1>6. ReadLines(Append(a, word)) = ReadLine(ReadLines(a), word)
  BY <1>1, ReadAppend
<1> QED
  BY <1>4, <1>5, <1>6

\* Lines end with a newline, and their tokens are those of their fields.
LEMMA LineType ==
    ASSUME NEW S, Tab \in S, Newline \in S, NEW fields \in Seq(Seq(S))
    PROVE  Line(fields) \in Seq(S)
<1>1. Joined(fields) \in Seq(S)
  BY JoinedType
<1> DEFINE j == Joined(fields)
<1> HIDE DEF j
<1>2. j \in Seq(S)
  BY <1>1 DEF j
<1>3. Append(j, Newline) \in Seq(S)
  BY <1>2
<1> QED
  BY <1>3 DEF Line, j

LEMMA SoundLine ==
    ASSUME NEW schema, Storable(schema), NEW row \in Rows(schema), Sound(schema, row)
    PROVE  \E ls : LineRead(schema, row, ls)
<1> DEFINE S == Tokens(schema)
           T == Seq(S)
           fs == FieldsOf(schema, row)
           j == Joined(fs)
           ls == <<j>>
<1>1. Tab \in S /\ Newline \in S
  BY TokensAre
<1>2. fs \in Seq(T) /\ Clean(fs) /\ fs # <<>> /\ Len(fs) # 1
  BY SoundFields DEF Fields
<1> HIDE DEF fs, S
<1>3. j \in T /\ j # <<>> /\ Split(j, Tab) = fs /\ Split(Line(fs), Newline) = Append(ls, <<>>)
  BY <1>1, <1>2, CleanLine
<1>4. Line(fs) \in Seq(S)
  BY <1>1, <1>2, LineType
<1> HIDE DEF j, T
<1>5. ls \in Seq(T)
  BY <1>3
<1>6. ASSUME NEW prior \in Seq(T) PROVE ReadLines(prior \o ls) = RowAfter(ReadLines(prior), fs)
  <2>1. ReadLines(prior \o ls) = ReadLine(ReadLines(prior), j)
    BY <1>3, ReadOneMore
  <2> QED
    BY <1>3, <2>1 DEF ReadLine, RowAfter
<1> HIDE DEF ls
<1>7. LineRead(schema, row, ls)
  BY <1>3, <1>4, <1>5, <1>6 DEF LineRead, fs, S, T
<1> QED
  BY <1>7

LEMMA UnsoundLine ==
    ASSUME NEW schema, Storable(schema), NEW row \in Rows(schema), ~Sound(schema, row)
    PROVE  \E ls : LineRead(schema, row, ls)
<1> DEFINE S == Tokens(schema)
           T == Seq(S)
           fs == FieldsOf(schema, row)
           j == Joined(fs)
<1>1. Tab \in S /\ Newline \in S
  BY TokensAre
<1>2. PICK front, d, s :
            /\ Fields(S, front) /\ Len(front) = 5
            /\ d \in S /\ Word(d) /\ s \in {Tab, Newline}
            /\ fs = Append(front, <<d, s, d>>)
  BY UnsoundFields
<1>3. front \in Seq(T) /\ Clean(front) /\ front # <<>>
  BY <1>2 DEF Fields
<1> HIDE DEF fs, S
<1>4. <<d, s, d>> \in T /\ <<d>> \in T
  BY <1>1, <1>2
<1> HIDE DEF T
<1>5. fs \in Seq(T)
  BY <1>2, <1>3, <1>4
<1>6. Line(fs) \in Seq(S)
  BY <1>1, <1>5, LineType DEF T
<1>7. CASE s = Tab
  <2> DEFINE ls == <<j>>
  <2>1. j \in T /\ j # <<>> /\ Len(Split(j, Tab)) = 7 /\ Split(Line(fs), Newline) = Append(ls, <<>>)
    <3>1. fs = Append(front, <<d, Tab, d>>)
      BY <1>2, <1>7
    <3> QED
      BY <1>1, <1>2, <1>3, <3>1, TabLine DEF T
  <2> HIDE DEF j
  <2>2. ls \in Seq(T)
    BY <2>1
  <2>3. ASSUME NEW prior \in Seq(T) PROVE ~ReadLines(prior \o ls).ok
    <3>1. ReadLines(prior \o ls) = ReadLine(ReadLines(prior), j)
      BY <2>1, ReadOneMore
    <3>2. Len(Split(j, Tab)) \in Nat \ (2..6)
      BY <2>1
    <3> QED
      BY <2>1, <3>1, <3>2, BrokenLine
  <2> HIDE DEF ls
  <2>4. LineRead(schema, row, ls)
    BY <1>6, <2>1, <2>2, <2>3 DEF LineRead, fs, S, T
  <2> QED
    BY <2>4
<1>8. CASE s = Newline
  <2>1. fs = Append(front, <<d, Newline, d>>)
    BY <1>2, <1>8
  <2>2. /\ Split(<<d>>, Tab) = <<<<d>>>>
        /\ Breaks(S, fs, d)
    <3>1. front \in Seq(Seq(S)) /\ front # <<>> /\ Clean(front) /\ d \in S /\ Word(d)
      BY <1>2, <1>3 DEF T
    <3> QED
      BY <1>1, <2>1, <3>1, NewlineLine
  <2>3. PICK line \in T : Split(Line(fs), Newline) = Append(<<line, <<d>>>>, <<>>)
    BY <2>2 DEF T, Breaks
  <2> DEFINE word == <<d>>
             ls == <<line, word>>
  <2>4. word \in T /\ word # <<>> /\ Len(Split(word, Tab)) \in Nat \ (2..6)
    <3>1. Len(<<word>>) = 1 /\ 1 \in Nat \ (2..6)
      OBVIOUS
    <3>2. Len(Split(word, Tab)) = Len(<<word>>)
      BY <2>2, Zenon
    <3>3. word \in T /\ word # <<>>
      BY <1>4
    <3> QED
      BY <3>1, <3>2, <3>3, Zenon
  <2> HIDE DEF word
  <2>5. ls \in Seq(T)
    BY <2>4
  <2>6. Split(Line(fs), Newline) = Append(ls, <<>>)
    BY <2>3 DEF word
  <2>7. ASSUME NEW prior \in Seq(T) PROVE ~ReadLines(prior \o ls).ok
    <3>1. ReadLines(prior \o ls) = ReadLine(ReadLine(ReadLines(prior), line), word)
      BY <2>4, ReadTwoMore
    <3> QED
      BY <2>4, <3>1, BrokenLine
  <2> HIDE DEF ls
  <2>8. LineRead(schema, row, ls)
    BY <1>6, <2>5, <2>6, <2>7 DEF LineRead, fs, S, T
  <2> QED
    BY <2>8
<1> QED
  BY <1>2, <1>7, <1>8

LEMMA LineIsRead ==
    ASSUME NEW schema, Storable(schema), NEW row \in Rows(schema)
    PROVE  \E ls : LineRead(schema, row, ls)
  BY SoundLine, UnsoundLine

-----------------------------------------------------------------------------
(***************************************************************************)
(* The rows in their order.                                                *)
(***************************************************************************)
LEMMA FiniteRows ==
    ASSUME NEW schema, IsSchema(schema)
    PROVE  IsFiniteSet(Rows(schema))
<1> DEFINE D == DOMAIN schema
           head == [t \in D |-> Row("table", t, 0)]
           column(t) == [c \in Columns(schema[t]) |-> Row("column", t, c)]
           index(t) == [i \in Indexes(schema[t]) |-> Row("index", t, i)]
           columns == [t \in D |-> {Row("column", t, c) : c \in Columns(schema[t])}]
           indexes == [t \in D |-> {Row("index", t, i) : i \in Indexes(schema[t])}]
           Heads == {head[t] : t \in D}
           AllColumns == {columns[t] : t \in D}
           AllIndexes == {indexes[t] : t \in D}
<1>1. IsFiniteSet(D) /\ \A t \in D : IsFiniteSet(Columns(schema[t])) /\ IsFiniteSet(Indexes(schema[t]))
  BY DEF IsSchema, IsDefinition
<1>2. Rows(schema) = Heads \cup (UNION AllColumns) \cup (UNION AllIndexes)
  BY DEF Rows
<1>3. ASSUME NEW t \in D PROVE IsFiniteSet(columns[t]) /\ IsFiniteSet(indexes[t])
  <2>1. /\ columns[t] = {column(t)[c] : c \in Columns(schema[t])}
        /\ indexes[t] = {index(t)[i] : i \in Indexes(schema[t])}
    OBVIOUS
  <2>2. /\ column(t) = [c \in Columns(schema[t]) |-> column(t)[c]]
        /\ index(t) = [i \in Indexes(schema[t]) |-> index(t)[i]]
    OBVIOUS
  <2> DEFINE f == column(t)
             g == index(t)
  <2>3. f = [c \in Columns(schema[t]) |-> f[c]] /\ g = [i \in Indexes(schema[t]) |-> g[i]]
    BY <2>2
  <2>4. columns[t] = {f[c] : c \in Columns(schema[t])} /\ indexes[t] = {g[i] : i \in Indexes(schema[t])}
    BY <2>1
  <2> HIDE DEF f, g, columns, indexes
  <2> QED
    BY <1>1, <2>3, <2>4, FiniteImage
<1>4. IsFiniteSet(Heads) /\ IsFiniteSet(AllColumns) /\ IsFiniteSet(AllIndexes)
  <2>1. head = [t \in D |-> head[t]] /\ columns = [t \in D |-> columns[t]] /\ indexes = [t \in D |-> indexes[t]]
    OBVIOUS
  <2> HIDE DEF head, columns, indexes, D
  <2> QED
    BY <1>1, <2>1, FiniteImage
<1>5. (\A T \in AllColumns : IsFiniteSet(T)) /\ \A T \in AllIndexes : IsFiniteSet(T)
  BY <1>3
<1> HIDE DEF Heads, AllColumns, AllIndexes
<1>6. IsFiniteSet(UNION AllColumns) /\ IsFiniteSet(UNION AllIndexes)
  BY <1>4, <1>5, FS_UNION
<1>7. IsFiniteSet(Heads \cup (UNION AllColumns))
  BY <1>4, <1>6, FS_Union
<1>8. IsFiniteSet((Heads \cup (UNION AllColumns)) \cup (UNION AllIndexes))
  BY <1>6, <1>7, FS_Union
<1> QED
  BY <1>2, <1>8

RowOrder(schema) == {p \in Rows(schema) \X Rows(schema) : Above(p[1], p[2])}

LEMMA RowsInOrder ==
    ASSUME NEW schema, Storable(schema)
    PROVE  /\ Orders(RowOrder(schema), Rows(schema))
           /\ \A t \in DOMAIN schema : Row("table", t, 0) \in Rows(schema)
           /\ \A row \in Rows(schema) : row.kind # "table" =>
                <<Row("table", row.table, 0), row>> \in RowOrder(schema)
<1> DEFINE D == Rows(schema)
           R == RowOrder(schema)
           p == [row \in D |-> Place[row.kind]]
<1>1. ASSUME NEW a \in D
      PROVE  /\ a.table \in Int /\ a.item \in Int /\ p[a] \in Int
             /\ a = Row(a.kind, a.table, a.item)
             /\ (a.kind = "table" <=> p[a] = 0) /\ (a.kind = "column" <=> p[a] = 1)
             /\ (a.kind = "index" <=> p[a] = 2) /\ p[a] \in 0..2
  <2>1. a = Row(a.kind, a.table, a.item) /\ a.table \in DOMAIN schema
    BY RowForms
  <2>2. a.kind \in {"table", "column", "index"} /\ a.item \in Int
    BY <2>1, RowForms DEF Storable
  <2>3. a.table \in Int
    BY <2>1 DEF Storable
  <2>4. p[a] = Place[a.kind] /\ Place["table"] = 0 /\ Place["column"] = 1 /\ Place["index"] = 2
    BY DEF Place
  <2> HIDE DEF D, p
  <2> QED
    BY <2>1, <2>2, <2>3, <2>4
<1>2. ASSUME NEW a \in D, NEW b \in D
      PROVE  <<a, b>> \in R <=>
                \/ a.table < b.table
                \/ a.table = b.table /\ p[a] < p[b]
                \/ a.table = b.table /\ p[a] = p[b] /\ a.item < b.item
  <2>1. <<a, b>> \in R <=> Above(a, b)
    BY DEF RowOrder
  <2>2. a.kind = b.kind <=> p[a] = p[b]
    <3> HIDE DEF D, p
    <3> QED
      BY <1>1
  <2>3. Place[a.kind] = p[a] /\ Place[b.kind] = p[b]
    OBVIOUS
  <2> HIDE DEF D, R, p
  <2> QED
    BY <2>1, <2>2, <2>3 DEF Above
<1>3. ASSUME NEW a \in D, NEW b \in D, a.table = b.table, p[a] = p[b], a.item = b.item PROVE a = b
  <2>1. a = Row(a.kind, a.table, a.item) /\ b = Row(b.kind, b.table, b.item)
    BY <1>1
  <2>2. a.kind = b.kind
    <3> HIDE DEF D, p
    <3> QED
      BY <1>1, <1>3
  <2> QED
    BY <1>3, <2>1, <2>2
<1>4. ASSUME NEW t \in DOMAIN schema PROVE Row("table", t, 0) \in D
  BY DEF Rows
<1>5. ASSUME NEW row \in D, row.kind # "table" PROVE <<Row("table", row.table, 0), row>> \in R
  <2> DEFINE h == Row("table", row.table, 0)
  <2>1. h \in D
    BY <1>4, RowForms
  <2>2. h.table = row.table /\ h.kind = "table"
    BY DEF Row
  <2> HIDE DEF h, D, R, p
  <2>3. p[h] = 0 /\ p[row] \in 0..2 /\ p[row] # 0
    BY <1>1, <1>5, <2>1, <2>2
  <2>4. <<h, row>> \in R
    BY <1>1, <1>2, <2>1, <2>2, <2>3
  <2> QED
    BY <2>4 DEF h, R
<1> HIDE DEF D, R, p
<1>6. \A x \in D : <<x, x>> \notin R
  BY <1>1, <1>2
<1>7. \A x, y \in D : x # y => <<x, y>> \in R \/ <<y, x>> \in R
  BY <1>1, <1>2, <1>3
<1>8. \A x, y, z \in D : <<x, y>> \in R /\ <<y, z>> \in R => <<x, z>> \in R
  BY <1>1, <1>2
<1>9. Orders(R, D)
  BY <1>6, <1>7, <1>8 DEF Orders
<1> QED
  BY <1>4, <1>5, <1>9 DEF R, D

\* The rows of a schema as the text lists them.
RowList(schema) == Ranked(Rows(schema), RowOrder(schema))
TextUpTo(schema, n) == FlattenSeq([k \in 1..n |-> Line(FieldsOf(schema, RowList(schema)[k]))])

LEMMA CanonicalIs ==
    ASSUME NEW schema, Storable(schema)
    PROVE  /\ Lists(RowList(schema), Rows(schema), RowOrder(schema))
           /\ CanonicalString(schema) = TextUpTo(schema, Len(RowList(schema)))
<1> DEFINE D == Rows(schema)
           R == RowOrder(schema)
           list == RowList(schema)
           at(k) == CHOOSE row \in D : Cardinality({r \in D : Above(r, row)}) = k - 1
<1>1. Lists(list, D, R)
  BY FiniteRows, RowsInOrder, RankedLists DEF Storable, RowList
<1>2. \A row \in D : {r \in D : Above(r, row)} = Below(D, R, row)
  BY DEF Below, RowOrder
<1>3. ASSUME NEW k \in 1..Cardinality(D) PROVE list[k] = at(k)
  <2>1. list[k] = CHOOSE row \in D : Cardinality(Below(D, R, row)) = k - 1
    BY DEF RowList, Ranked
  <2>2. \A row \in D : Cardinality({r \in D : Above(r, row)}) = Cardinality(Below(D, R, row))
    BY <1>2
  <2> QED
    BY <2>1, <2>2
<1>4. Len(list) = Cardinality(D)
  BY <1>1 DEF Lists
<1>5. CanonicalString(schema) = FlattenSeq([k \in 1..Cardinality(D) |-> Line(FieldsOf(schema, at(k)))])
  BY DEF CanonicalString
<1>6. TextUpTo(schema, Len(list)) = FlattenSeq([k \in 1..Len(list) |-> Line(FieldsOf(schema, list[k]))])
  BY DEF TextUpTo
<1> HIDE DEF D, R, list, at
<1>7. [k \in 1..Cardinality(D) |-> Line(FieldsOf(schema, at(k)))] = [k \in 1..Len(list) |-> Line(FieldsOf(schema, list[k]))]
  BY <1>3, <1>4
<1> QED
  BY <1>1, <1>5, <1>6, <1>7 DEF D, R, list

LEMMA TextGrows ==
    ASSUME NEW schema, NEW S, NEW n \in Nat \ {0},
           \A k \in 1..n : Line(FieldsOf(schema, RowList(schema)[k])) \in Seq(S)
    PROVE  /\ TextUpTo(schema, n - 1) \in Seq(S)
           /\ TextUpTo(schema, n) = TextUpTo(schema, n - 1) \o Line(FieldsOf(schema, RowList(schema)[n]))
<1> DEFINE T == Seq(S)
           at(k) == Line(FieldsOf(schema, RowList(schema)[k]))
           a == [k \in 1..(n - 1) |-> at(k)]
           b == [k \in 1..n |-> at(k)]
<1>1. \A k \in 1..n : at(k) \in T
  OBVIOUS
<1> HIDE DEF T, at
<1>2. a \in Seq(T) /\ Len(a) = n - 1 /\ \A k \in 1..(n - 1) : a[k] = at(k)
  BY <1>1
<1>3. b \in Seq(T) /\ Len(b) = n /\ \A k \in 1..n : b[k] = at(k)
  BY <1>1
<1>4. at(n) \in T /\ n - 1 \in Nat
  BY <1>1
<1> HIDE DEF a, b
<1>5. b = Append(a, at(n))
  <2> DEFINE c == Append(a, at(n))
  <2>1. c \in Seq(T) /\ Len(c) = Len(a) + 1 /\ c[Len(a) + 1] = at(n) /\ \A k \in 1..Len(a) : c[k] = a[k]
    BY <1>2, <1>4, AppendProperties
  <2> HIDE DEF c
  <2>2. Len(b) = Len(c) /\ Len(b) = n
    BY <1>2, <1>3, <2>1
  <2>3. ASSUME NEW k \in 1..n PROVE b[k] = c[k]
    <3>1. b[k] = at(k)
      BY <1>3
    <3>2. CASE k = n
      BY <1>2, <2>1, <3>1, <3>2
    <3>3. CASE k \in 1..(n - 1)
      BY <1>2, <2>1, <3>1, <3>3
    <3> QED
      BY <3>2, <3>3
  <2>4. b = c
    BY <1>3, <2>1, <2>2, <2>3, SeqEqual
  <2> QED
    BY <2>4 DEF c
<1>6. FlattenSeq(a) \in Seq(S) /\ FlattenSeq(Append(a, at(n))) = FlattenSeq(a) \o at(n)
  <2>1. a \in Seq(Seq(S)) /\ at(n) \in Seq(S)
    BY <1>2, <1>4 DEF T
  <2> QED
    BY <2>1, FlattenType, FlattenAppend, Zenon
<1> QED
  BY <1>5, <1>6 DEF TextUpTo, a, b, at

-----------------------------------------------------------------------------
(***************************************************************************)
(* A schema is read back from its text, or the text is not read.           *)
(***************************************************************************)
RowsUpTo(schema, n) == {RowList(schema)[k] : k \in 1..n}
TextReadAs(schema, n, ls) ==
    /\ ls \in Seq(Seq(Tokens(schema)))
    /\ Split(TextUpTo(schema, n), Newline) = Append(ls, <<>>)
    /\ (\A row \in RowsUpTo(schema, n) : Sound(schema, row)) =>
            \E tables : ReadLines(ls) = Taking(tables) /\ TablesRead(schema, RowsUpTo(schema, n), tables)
    /\ (\E row \in RowsUpTo(schema, n) : ~Sound(schema, row)) => ~ReadLines(ls).ok
TextRead(schema, n) == \E ls : TextReadAs(schema, n, ls)

\* The rows above a row do not have it, and they have the row of its table.
LEMMA RowsGoOn ==
    ASSUME NEW schema, Storable(schema), NEW n \in 1..Len(RowList(schema))
    PROVE  LET row == RowList(schema)[n]
               done == RowsUpTo(schema, n - 1)
           IN  /\ row \in Rows(schema) /\ row \notin done
               /\ RowsUpTo(schema, n) = done \cup {row}
               /\ Headed(done)
               /\ row.kind = "table" \/ Row("table", row.table, 0) \in done
<1> DEFINE list == RowList(schema)
           D == Rows(schema)
           R == RowOrder(schema)
           done == RowsUpTo(schema, n - 1)
<1>1. Lists(list, D, R)
  BY CanonicalIs
<1>2. /\ \A t \in DOMAIN schema : Row("table", t, 0) \in D
      /\ \A row \in D : row.kind # "table" => <<Row("table", row.table, 0), row>> \in R
  BY RowsInOrder
<1>3. done = {list[k] : k \in 1..(n - 1)} /\ RowsUpTo(schema, n) = {list[k] : k \in 1..n}
  BY DEF RowsUpTo
<1>4. n \in 1..Len(list) /\ Len(list) \in Nat
  BY <1>1 DEF Lists
<1> HIDE DEF list, D, R, done
<1>5. ASSUME NEW k \in 1..Len(list), list[k].kind # "table"
      PROVE  \E j \in 1..(k - 1) : list[j] = Row("table", list[k].table, 0)
  <2> DEFINE h == Row("table", list[k].table, 0)
  <2>1. list[k] \in D
    BY <1>1 DEF Lists
  <2>2. <<h, list[k]>> \in R /\ h \in D
    BY <1>2, <1>5, <2>1, RowForms DEF D
  <2> HIDE DEF h
  <2>3. \E j \in 1..(k - 1) : list[j] = h
    BY <1>1, <2>2 DEF Lists
  <2> QED
    BY <2>3 DEF h
<1>6. ASSUME NEW k \in 1..Len(list), list[k].kind = "table"
      PROVE  list[k] = Row("table", list[k].table, 0)
  <2>1. list[k] \in D
    BY <1>1 DEF Lists
  <2> QED
    BY <1>6, <2>1, RowForms DEF D
<1>7. list[n] \in D /\ list[n] \notin done
  BY <1>1, <1>3, <1>4 DEF Lists
<1>8. RowsUpTo(schema, n) = done \cup {list[n]}
  <2>1. \A k : k \in 1..n <=> k \in 1..(n - 1) \/ k = n
    BY <1>4
  <2> QED
    BY <1>3, <2>1
<1>9. Headed(done)
  <2> SUFFICES ASSUME NEW k \in 1..(n - 1)
               PROVE  Row("table", list[k].table, 0) \in done
    BY <1>3 DEF Headed
  <2>1. k \in 1..Len(list) /\ \A j \in 1..(k - 1) : j \in 1..(n - 1)
    BY <1>4
  <2>2. CASE list[k].kind = "table"
    BY <1>3, <1>6, <2>1, <2>2
  <2>3. CASE list[k].kind # "table"
    BY <1>3, <1>5, <2>1, <2>3
  <2> QED
    BY <2>2, <2>3
<1>10. list[n].kind = "table" \/ Row("table", list[n].table, 0) \in done
  BY <1>3, <1>4, <1>5
<1> QED
  BY <1>7, <1>8, <1>9, <1>10 DEF list, D, done

LEMMA NoTablesRead ==
    ASSUME NEW schema
    PROVE  TablesRead(schema, {}, <<>>)
<1>1. <<>> \in Seq({}) /\ Len(<<>>) = 0
  OBVIOUS
<1>2. Distinct(<<>>)
  BY DEF Distinct
<1> QED
  BY <1>1, <1>2 DEF TablesRead

LEMMA TextStarts ==
    ASSUME NEW schema
    PROVE  TextReadAs(schema, 0, <<>>)
<1>1. TextUpTo(schema, 0) = <<>>
  <2> DEFINE at(k) == Line(FieldsOf(schema, RowList(schema)[k]))
  <2>1. TextUpTo(schema, 0) = FlattenSeq([k \in 1..0 |-> at(k)])
    BY DEF TextUpTo
  <2> HIDE DEF at
  <2>2. [k \in 1..0 |-> at(k)] = <<>>
    OBVIOUS
  <2>3. FlattenSeq(<<>>) = <<>>
    BY DEF FlattenSeq
  <2> QED
    BY <2>1, <2>2, <2>3
<1>2. Split(TextUpTo(schema, 0), Newline) = Append(<<>>, <<>>)
  <2>1. Append(<<>>, <<>>) = <<<<>>>>
    OBVIOUS
  <2> QED
    BY <1>1, <2>1, SplitEmpty
<1>3. RowsUpTo(schema, 0) = {}
  BY DEF RowsUpTo
<1>4. TablesRead(schema, {}, <<>>)
  BY NoTablesRead
<1>5. ReadLines(<<>>) = Taking(<<>>)
  BY ReadNone DEF Taking
<1>6. <<>> \in Seq(Seq(Tokens(schema)))
  OBVIOUS
<1> QED
  BY <1>2, <1>3, <1>4, <1>5, <1>6, Zenon DEF TextReadAs

LEMMA TextGoesOn ==
    ASSUME NEW schema, Storable(schema), NEW n \in 1..Len(RowList(schema)), TextRead(schema, n - 1)
    PROVE  TextRead(schema, n)
<1> DEFINE S == Tokens(schema)
           row == RowList(schema)[n]
           done == RowsUpTo(schema, n - 1)
           line == Line(FieldsOf(schema, row))
           text == TextUpTo(schema, n - 1)
<1>1. /\ row \in Rows(schema) /\ row \notin done
      /\ RowsUpTo(schema, n) = done \cup {row}
      /\ Headed(done)
      /\ row.kind = "table" \/ Row("table", row.table, 0) \in done
  BY RowsGoOn
<1>2. PICK prior : TextReadAs(schema, n - 1, prior)
  BY DEF TextRead
<1>3. PICK ls : LineRead(schema, row, ls)
  BY <1>1, LineIsRead
<1>4. text \in Seq(S) /\ TextUpTo(schema, n) = text \o line
  <2>1. Lists(RowList(schema), Rows(schema), RowOrder(schema))
    BY CanonicalIs
  <2>2. /\ n \in Nat \ {0} /\ \A k \in 1..n : RowList(schema)[k] \in Rows(schema)
    BY <2>1 DEF Lists
  <2>3. ASSUME NEW k \in 1..n PROVE Line(FieldsOf(schema, RowList(schema)[k])) \in Seq(S)
    BY <2>2, LineIsRead DEF LineRead
  <2> HIDE DEF S
  <2> QED
    BY <2>2, <2>3, TextGrows
<1>5. /\ prior \in Seq(Seq(S)) /\ Split(text, Newline) = Append(prior, <<>>)
      /\ (\A r \in done : Sound(schema, r)) =>
            \E tables : ReadLines(prior) = Taking(tables) /\ TablesRead(schema, done, tables)
      /\ (\E r \in done : ~Sound(schema, r)) => ~ReadLines(prior).ok
  BY <1>2 DEF TextReadAs
<1>6. /\ ls \in Seq(Seq(S)) /\ line \in Seq(S) /\ Split(line, Newline) = Append(ls, <<>>)
      /\ Sound(schema, row) => ReadLines(prior \o ls) = RowAfter(ReadLines(prior), FieldsOf(schema, row))
      /\ ~Sound(schema, row) => ~ReadLines(prior \o ls).ok
  BY <1>3, <1>5 DEF LineRead
<1> HIDE DEF S, row, done, line, text
<1>7. Split(text \o line, Newline) = Append(prior \o ls, <<>>) /\ prior \o ls \in Seq(Seq(S))
  <2>1. Glues(S, Newline)
    BY SplitGlues
  <2>2. Split(text \o line, Newline) = prior \o Split(line, Newline)
    BY <1>4, <1>5, <1>6, <2>1, Zenon DEF Glues
  <2>3. <<>> \in Seq(S)
    OBVIOUS
  <2> DEFINE T == Seq(S)
             empty == <<>>
  <2>4. prior \in Seq(T) /\ ls \in Seq(T) /\ empty \in T
    BY <1>5, <1>6, <2>3
  <2> HIDE DEF T, empty
  <2>5. prior \o Append(ls, empty) = Append(prior \o ls, empty) /\ prior \o ls \in Seq(T)
    BY <2>4, AppendAfter
  <2> QED
    BY <1>6, <2>2, <2>5 DEF T, empty
<1> DEFINE more == prior \o ls
<1>8. ASSUME \A r \in done \cup {row} : Sound(schema, r)
      PROVE  \E tables : ReadLines(more) = Taking(tables) /\ TablesRead(schema, done \cup {row}, tables)
  <2>1. PICK tables : ReadLines(prior) = Taking(tables) /\ TablesRead(schema, done, tables)
    BY <1>5, <1>8
  <2>2. PICK next : /\ ReadRow(tables, FieldsOf(schema, row)) = [ok |-> TRUE, tables |-> next]
                    /\ TablesRead(schema, done \cup {row}, next)
    BY <1>1, <1>8, <2>1, RowRead
  <2>3. RowAfter(Taking(tables), FieldsOf(schema, row)) = Taking(next)
    BY <2>2 DEF RowAfter, Taking
  <2> QED
    BY <1>6, <1>8, <2>1, <2>2, <2>3
<1>9. ASSUME NEW r \in done \cup {row}, ~Sound(schema, r)
      PROVE  ~ReadLines(more).ok
  <2>1. CASE ~Sound(schema, row)
    BY <1>6, <2>1
  <2>2. CASE Sound(schema, row)
    <3>1. ~ReadLines(prior).ok
      BY <1>5, <1>9, <2>2
    <3>2. ReadLines(more) = ReadLines(prior)
      BY <1>6, <2>2, <3>1 DEF RowAfter
    <3> QED
      BY <3>1, <3>2
  <2> QED
    BY <2>1, <2>2
<1>10. TextUpTo(schema, n) = text \o line /\ RowsUpTo(schema, n) = done \cup {row}
  BY <1>1, <1>4
<1> HIDE DEF more
<1>11. TextReadAs(schema, n, more)
  <2>1. Split(TextUpTo(schema, n), Newline) = Append(more, <<>>) /\ more \in Seq(Seq(Tokens(schema)))
    BY <1>7, <1>10 DEF more, S
  <2> QED
    BY <1>8, <1>9, <1>10, <2>1, Zenon DEF TextReadAs
<1> QED
  BY <1>11 DEF TextRead

LEMMA WholeTextIsRead ==
    ASSUME NEW schema, Storable(schema)
    PROVE  \E ls : /\ ls \in Seq(Seq(Tokens(schema)))
                   /\ Split(CanonicalString(schema), Newline) = Append(ls, <<>>)
                   /\ (\A row \in Rows(schema) : Sound(schema, row)) =>
                        \E tables : ReadLines(ls) = Taking(tables) /\ TablesRead(schema, Rows(schema), tables)
                   /\ (\E row \in Rows(schema) : ~Sound(schema, row)) => ~ReadLines(ls).ok
<1> DEFINE n == Len(RowList(schema))
           G == {k \in 0..n : TextRead(schema, k)}
<1>1. /\ Lists(RowList(schema), Rows(schema), RowOrder(schema))
      /\ CanonicalString(schema) = TextUpTo(schema, n)
  BY CanonicalIs
<1>2. n \in Nat /\ RowsUpTo(schema, n) = Rows(schema)
  BY <1>1 DEF Lists, RowsUpTo
<1>3. 0 \in G
  BY <1>2, TextStarts DEF TextRead
<1>4. \A k \in 1..n : k - 1 \in G => k \in G
  BY <1>2, TextGoesOn
<1> HIDE DEF n
<1>5. n \in G
  <2> HIDE DEF G
  <2>1. \A k \in 0..n : k \in G
    BY <1>2, <1>3, <1>4, Counting
  <2> QED
    BY <1>2, <2>1
<1>6. PICK ls : TextReadAs(schema, n, ls)
  BY <1>5 DEF TextRead
<1> QED
  BY <1>1, <1>2, <1>6, Zenon DEF TextReadAs

\* A schema is read back from its text, or the text cannot be read, as when a
\* default holds a separator and only then.
LEMMA CanonicalReads ==
    ASSUME NEW schema, Storable(schema)
    PROVE  LET read == FromCanonical(CanonicalString(schema)) IN
           /\ read.ok => read.schema = schema
           /\ Defaults(schema) \cap DOMAIN Separator = {} => read.ok
<1> DEFINE read == FromCanonical(CanonicalString(schema))
<1>1. PICK ls : /\ ls \in Seq(Seq(Tokens(schema)))
                /\ Split(CanonicalString(schema), Newline) = Append(ls, <<>>)
                /\ (\A row \in Rows(schema) : Sound(schema, row)) =>
                     \E tables : ReadLines(ls) = Taking(tables) /\ TablesRead(schema, Rows(schema), tables)
                /\ (\E row \in Rows(schema) : ~Sound(schema, row)) => ~ReadLines(ls).ok
  BY WholeTextIsRead
<1>2. ReadLines(Append(ls, <<>>)) = ReadLines(ls)
  <2>1. <<>> \in Seq(Tokens(schema))
    OBVIOUS
  <2>2. ReadLines(Append(ls, <<>>)) = ReadLine(ReadLines(ls), <<>>)
    BY <1>1, <2>1, ReadAppend
  <2> QED
    BY <2>2 DEF ReadLine
<1>3. read = IF ReadLines(ls).ok THEN Normalized(ReadLines(ls).tables) ELSE Invalid
  BY <1>1, <1>2 DEF FromCanonical
<1>4. CASE \A row \in Rows(schema) : Sound(schema, row)
  <2>1. PICK tables : ReadLines(ls) = Taking(tables) /\ TablesRead(schema, Rows(schema), tables)
    BY <1>1, <1>4
  <2>2. read = Normalized(tables)
    BY <1>3, <2>1 DEF Taking
  <2>3. Normalized(tables) = [ok |-> TRUE, schema |-> schema]
    BY <2>1, AllRead
  <2> QED
    BY <2>2, <2>3
<1>5. CASE \E row \in Rows(schema) : ~Sound(schema, row)
  <2>1. ~read.ok
    BY <1>1, <1>3, <1>5 DEF Invalid
  <2>2. Defaults(schema) \cap DOMAIN Separator # {}
    BY <1>5, UnsoundFields
  <2> QED
    BY <2>1, <2>2
<1> QED
  BY <1>4, <1>5

LEMMA NothingIsRead == FromCanonical(<<>>) = [ok |-> TRUE, schema |-> <<>>]
<1>1. DOMAIN <<>> = {} /\ <<>> = [t \in DOMAIN <<>> |-> <<>>[t]]
  OBVIOUS
<1>2. Storable(<<>>)
  <2>1. IsFiniteSet({})
    BY FS_EmptySet
  <2> QED
    BY <1>1, <2>1 DEF Storable, IsSchema
<1>3. Rows(<<>>) = {}
  BY <1>1 DEF Rows
<1>4. Normalized(<<>>) = [ok |-> TRUE, schema |-> <<>>]
  BY <1>2, <1>3, NoTablesRead, AllRead
<1>5. Split(<<>>, Newline) = Append(<<>>, <<>>)
  <2>1. Append(<<>>, <<>>) = <<<<>>>>
    OBVIOUS
  <2> QED
    BY <2>1, SplitEmpty
<1>6. ReadLines(Append(<<>>, <<>>)) = ReadLine(ReadLines(<<>>), <<>>)
  <2>1. <<>> \in Seq({<<>>})
    OBVIOUS
  <2> QED
    BY <2>1, ReadAppend
<1>7. ReadLine(ReadLines(<<>>), <<>>) = [ok |-> TRUE, tables |-> <<>>]
  BY ReadNone DEF ReadLine
<1> DEFINE read == ReadLines(Split(<<>>, Newline))
<1>8. read = [ok |-> TRUE, tables |-> <<>>]
  BY <1>5, <1>6, <1>7, Zenon
<1>9. FromCanonical(<<>>) = IF read.ok THEN Normalized(read.tables) ELSE Invalid
  BY Zenon DEF FromCanonical
<1> HIDE DEF read
<1>10. read.ok /\ read.tables = <<>>
  BY <1>8
<1> QED
  BY <1>4, <1>9, <1>10, Zenon

\* What SchemaBuilder makes of models can be stored.
LEMMA NormalizedIsStorable ==
    ASSUME NEW models \in Target, Normalized(models).ok
    PROVE  Storable(Normalized(models).schema)
<1> DEFINE Named(items, n) == CHOOSE item \in ToSet(items) : item.name = n
           Names(items) == {item.name : item \in ToSet(items)}
           ColumnOf(c) == [sql_type |-> c.sql_type, nullable |-> c.nullable, default_sql |-> c.default_sql]
           IndexOf(i) == [column |-> i.column, unique |-> i.unique]
           Def(table) ==
                [primary_key |-> table.primary_key, key_type |-> table.key_type,
                 columns |-> [n \in Names(table.columns) |-> ColumnOf(Named(table.columns, n))],
                 indexes |-> [n \in Names(table.indexes) |-> IndexOf(Named(table.indexes, n))]]
           schema == Normalized(models).schema
<1>1. schema = [n \in Names(models) |-> Def(Named(models, n))]
  BY DEF Normalized, ByName, Invalid
<1>2. /\ IsFiniteSet(ToSet(models))
      /\ \A table \in ToSet(models) : /\ Writable(table)
            /\ IsFiniteSet(ToSet(table.columns)) /\ IsFiniteSet(ToSet(table.indexes))
  BY SchemaAssumption
<1>3. IsSchema(schema)
  BY <1>2, NormalizedIsSchema
<1>4. ASSUME NEW items, NEW n \in Names(items)
      PROVE  Named(items, n) \in ToSet(items) /\ Named(items, n).name = n
  OBVIOUS
<1>5. ASSUME NEW table \in ToSet(models)
      PROVE  LET def == Def(table) IN
             /\ table.name \in Int /\ Word(table.name)
             /\ Word(def.primary_key) /\ Word(def.key_type)
             /\ def.columns = [c \in Columns(def) |-> def.columns[c]]
             /\ \A c \in Columns(def) : c \in Int /\ Word(c) /\ IsColumn(def.columns[c])
             /\ \A i \in Indexes(def) : i \in Int /\ Word(i) /\ IsIndex(def.indexes[i])
  <2> DEFINE def == Def(table)
  <2>1. Writable(table)
    BY <1>2
  <2>2. /\ def.primary_key = table.primary_key /\ def.key_type = table.key_type
        /\ Columns(def) = Names(table.columns) /\ Indexes(def) = Names(table.indexes)
        /\ def.columns = [c \in Columns(def) |-> def.columns[c]]
        /\ \A c \in Columns(def) : def.columns[c] = ColumnOf(Named(table.columns, c))
        /\ \A i \in Indexes(def) : def.indexes[i] = IndexOf(Named(table.indexes, i))
    BY DEF Columns, Indexes
  <2>3. ASSUME NEW c \in ToSet(table.columns) PROVE c.name \in Int /\ Word(c.name) /\ IsColumn(ColumnOf(c))
    BY <2>1 DEF Writable, IsColumn
  <2>4. ASSUME NEW i \in ToSet(table.indexes) PROVE i.name \in Int /\ Word(i.name) /\ IsIndex(IndexOf(i))
    BY <2>1 DEF Writable, IsIndex
  <2>5. /\ table.name \in Int /\ Word(table.name)
        /\ Word(table.primary_key) /\ Word(table.key_type)
    BY <2>1, SeparatorAssumption DEF Writable
  <2> HIDE DEF def, Def, Named, Names, ColumnOf, IndexOf
  <2>6. \A c \in Columns(def) : c \in Int /\ Word(c) /\ IsColumn(def.columns[c])
    BY <1>4, <2>2, <2>3
  <2>7. \A i \in Indexes(def) : i \in Int /\ Word(i) /\ IsIndex(def.indexes[i])
    BY <1>4, <2>2, <2>4
  <2> QED
    BY <2>2, <2>5, <2>6, <2>7 DEF def
<1> HIDE DEF Def, Named, Names
<1>6. DOMAIN schema = Names(models) /\ schema = [t \in DOMAIN schema |-> schema[t]]
  BY <1>1
<1>7. ASSUME NEW t \in DOMAIN schema
      PROVE  \E table \in ToSet(models) : table.name = t /\ schema[t] = Def(table)
  BY <1>1, <1>4, <1>6
<1> HIDE DEF schema
<1>8. ASSUME NEW t \in DOMAIN schema
      PROVE  /\ t \in Int /\ Word(t) /\ Word(schema[t].primary_key) /\ Word(schema[t].key_type)
             /\ schema[t].columns = [c \in Columns(schema[t]) |-> schema[t].columns[c]]
             /\ \A c \in Columns(schema[t]) :
                    c \in Int /\ Word(c) /\ IsColumn(schema[t].columns[c])
             /\ \A i \in Indexes(schema[t]) :
                    i \in Int /\ Word(i) /\ IsIndex(schema[t].indexes[i])
  <2>1. PICK table \in ToSet(models) : table.name = t /\ schema[t] = Def(table)
    BY <1>7
  <2> QED
    BY <1>5, <2>1
<1> QED
  BY <1>3, <1>6, <1>8 DEF Storable, schema

\* Every plan leads to a schema of models, and the history is the text of one.
Wanted(schema) == \E desired \in Desired : desired.ok /\ schema = desired.schema
HistoryInv ==
    /\ \A c \in Client : plan[c] # NoPlan => Wanted(plan[c].target)
    /\ \/ history = <<>> /\ latest = <<>>
       \/ history = CanonicalString(latest) /\ Wanted(latest)

LEMMA HistoryStep == SchemaInv /\ HistoryInv /\ [Next]_vars => HistoryInv'
<1> SUFFICES ASSUME SchemaInv, HistoryInv, [Next]_vars PROVE HistoryInv'
  OBVIOUS
<1>1. ASSUME UNCHANGED <<history, plan, latest>> PROVE HistoryInv'
  BY <1>1 DEF HistoryInv
<1>2. ASSUME NEW c \in Client, BuildPlan(c, Desired) PROVE HistoryInv'
  <2>1. UNCHANGED <<history, latest>>
    BY <1>2 DEF BuildPlan
  <2>2. UNCHANGED plan \/ \E p : Wanted(p.target) /\ plan' = [plan EXCEPT ![c] = p]
    <3> SUFFICES ASSUME plan' # plan
                 PROVE  \E p : Wanted(p.target) /\ plan' = [plan EXCEPT ![c] = p]
      OBVIOUS
    <3>1. PICK last \in {LastTarget}, desired \in Desired :
            LET target == desired.schema
                actual == Introspect(ManagedScope(target, last.schema))
            IN  /\ desired.ok
                /\ plan' = [plan EXCEPT ![c] =
                    [source |-> Definitions(actual), target |-> target,
                     ops |-> PlanOps(target, actual), blockers |-> Blockers(target, actual)]]
      BY <1>2 DEF BuildPlan
    <3> QED
      BY <3>1 DEF Wanted
  <2>3. DOMAIN plan = Client
    BY DEF SchemaInv, ControlInv
  <2> QED
    BY <2>1, <2>2, <2>3 DEF HistoryInv
<1>3. ASSUME NEW c \in Client, NEW mode, Check(c, mode) \/ Refuse(c, mode)
      PROVE  HistoryInv'
  BY <1>1, <1>3 DEF Check, Refuse
<1>4. ASSUME NEW c \in Client, Apply(c) PROVE HistoryInv'
  <2>1. /\ plan' = plan /\ plan[c] # NoPlan
        /\ latest' = plan[c].target /\ history' = CanonicalString(latest')
    BY <1>4 DEF Apply, Finish, SchemaInv, ApplyInv, ApplyOf
  <2> QED
    BY <2>1 DEF HistoryInv
<1>5. ASSUME NEW c \in Client, ApplyRejected(c) \/ ApplyFails(c) PROVE HistoryInv'
  BY <1>1, <1>5 DEF ApplyRejected, ApplyFails, Finish
<1>6. InsertRow => HistoryInv'
  BY <1>1 DEF InsertRow
<1>7. UNCHANGED vars => HistoryInv'
  BY <1>1 DEF vars
<1> QED
  BY <1>2, <1>3, <1>4, <1>5, <1>6, <1>7 DEF Next, Step

LEMMA HistoryReads == HistoryInv => HistoryReadsBack
<1>1. ASSUME history = <<>>, latest = <<>> PROVE HistoryReadsBack
  BY <1>1, NothingIsRead DEF HistoryReadsBack, LastTarget
<1>2. ASSUME history = CanonicalString(latest), Wanted(latest) PROVE HistoryReadsBack
  <2>1. Storable(latest)
    BY <1>2, NormalizedIsStorable DEF Wanted, Desired
  <2> QED
    BY <1>2, <2>1, CanonicalReads DEF HistoryReadsBack, LastTarget
<1> QED
  BY <1>1, <1>2 DEF HistoryInv

LEMMA HistoryAlways == Spec => []HistoryInv
<1>1. Init => HistoryInv
  BY DEF Init, HistoryInv
<1> QED
  BY <1>1, HistoryStep, SchemaAlways, PTL DEF Spec

\* Whatever was planned and applied, by threads of one process or by processes
\* that share the file, the text in the history is read back as the schema that
\* was applied last, or it cannot be read, if no default holds more than one tab
\* or newline; and it can be read if no default of that schema holds any.
THEOREM HistoryAlwaysReadsBack == Spec => []HistoryReadsBack
  BY HistoryAlways, HistoryReads, PTL

-----------------------------------------------------------------------------
(***************************************************************************)
(* What an apply leaves alone.                                             *)
(***************************************************************************)
\* The tables a plan may drop are managed.
ManagedInv ==
    /\ DOMAIN latest \subseteq managed
    /\ \A c \in Client : plan[c] # NoPlan =>
        DOMAIN plan[c].source \subseteq DOMAIN plan[c].target \cup managed

LEMMA ManagedStep ==
    ASSUME SchemaInv, HistoryInv, ManagedInv, [Next]_vars
    PROVE  ManagedInv'
<1>1. ASSUME UNCHANGED <<plan, latest, managed>> PROVE ManagedInv'
  BY <1>1 DEF ManagedInv
<1>2. ASSUME NEW c \in Client, BuildPlan(c, Desired) PROVE ManagedInv'
  <2>1. UNCHANGED <<latest, managed>>
    BY <1>2 DEF BuildPlan
  <2>2. \/ UNCHANGED plan
        \/ \E p : /\ DOMAIN p.source \subseteq DOMAIN p.target \cup managed
                  /\ plan' = [plan EXCEPT ![c] = p]
    <3> SUFFICES ASSUME plan' # plan
                 PROVE  \E p : /\ DOMAIN p.source \subseteq DOMAIN p.target \cup managed
                               /\ plan' = [plan EXCEPT ![c] = p]
      OBVIOUS
    <3>1. PICK last \in {LastTarget}, desired \in Desired :
            LET target == desired.schema
                actual == Introspect(ManagedScope(target, last.schema))
            IN  /\ desired.ok /\ last.ok
                /\ plan' = [plan EXCEPT ![c] =
                    [source |-> Definitions(actual), target |-> target,
                     ops |-> PlanOps(target, actual), blockers |-> Blockers(target, actual)]]
      BY <1>2 DEF BuildPlan
    <3> DEFINE target == desired.schema
               actual == Introspect(ManagedScope(target, last.schema))
               p == [source |-> Definitions(actual), target |-> target,
                     ops |-> PlanOps(target, actual), blockers |-> Blockers(target, actual)]
    <3>2. /\ plan' = [plan EXCEPT ![c] = p] /\ p.target = target
          /\ p.source = Definitions(actual)
      BY <3>1
    <3>3. DOMAIN p.source \subseteq DOMAIN target \cup DOMAIN last.schema
      BY <3>2 DEF Definitions, Introspect, ManagedScope
    <3>4. DOMAIN last.schema \subseteq managed
      BY <3>1, HistoryReads DEF HistoryReadsBack, ManagedInv
    <3> HIDE DEF p
    <3> QED
      BY <3>2, <3>3, <3>4
  <2>3. DOMAIN plan = Client
    BY DEF SchemaInv, ControlInv
  <2> QED
    BY <2>1, <2>2, <2>3 DEF ManagedInv
<1>3. ASSUME NEW c \in Client, NEW mode, Check(c, mode) \/ Refuse(c, mode)
      PROVE  ManagedInv'
  BY <1>1, <1>3 DEF Check, Refuse
<1>4. ASSUME NEW c \in Client, Apply(c) PROVE ManagedInv'
  <2>1. plan' = plan /\ managed' = managed \cup DOMAIN latest'
    BY <1>4 DEF Apply, Finish
  <2> QED
    BY <2>1 DEF ManagedInv
<1>5. ASSUME NEW c \in Client, ApplyRejected(c) \/ ApplyFails(c) PROVE ManagedInv'
  BY <1>1, <1>5 DEF ApplyRejected, ApplyFails, Finish
<1>6. InsertRow => ManagedInv'
  BY <1>1 DEF InsertRow
<1>7. UNCHANGED vars => ManagedInv'
  BY <1>1 DEF vars
<1> QED
  BY <1>2, <1>3, <1>4, <1>5, <1>6, <1>7 DEF Next, Step

\* In one process an apply changes no table that its plan does not name, and
\* drops only tables of a target applied before: what the history says was
\* applied last is what was applied.
THEOREM OthersAreLeftAlone ==
    ASSUME OneProcess
    PROVE  Spec => OnlyManagedTablesChange
<1> DEFINE Left(c) ==
                \A t \in DOMAIN db :
                    \/ t \in DOMAIN plan[c].target
                    \/ t \in DOMAIN db' /\ db'[t] = db[t]
                    \/ t \in managed /\ t \notin DOMAIN db'
<1>1. Init => ManagedInv
  BY DEF Init, ManagedInv
<1>2. SchemaInv /\ HistoryInv /\ ManagedInv /\ [Next]_vars => ManagedInv'
  BY ManagedStep
<1>3. ASSUME SchemaInv, ManagedInv, [Next]_vars, NEW c \in Client, Commits(c)
      PROVE  Left(c)
  <2> DEFINE target == plan[c].target
             a == Seen(db, PlanScope(plan[c]))
             D == DiffOps(target, a)
  <2>1. /\ Compared(c, db) /\ IsSchema(target) /\ IsDatabase(db')
        /\ OnTheWay(target, a, db, db', D) /\ plan[c] # NoPlan
    BY <1>3, CommitIsApply, ApplyGoesAllTheWay DEF Commits, SchemaInv, ApplyInv, ApplyOf
  <2>2. Definitions(a) = plan[c].source /\ Blockers(target, a) = {}
    BY <2>1 DEF Compared
  <2>3. DOMAIN a \subseteq DOMAIN target \cup managed
    BY <1>3, <2>1, <2>2 DEF ManagedInv, Definitions
  <2> SUFFICES ASSUME NEW t \in DOMAIN db \ DOMAIN target
               PROVE  \/ t \in DOMAIN db' /\ db'[t] = db[t]
                      \/ t \in managed /\ t \notin DOMAIN db'
    OBVIOUS
  <2> HIDE DEF target, a
  <2>4. CASE t \in DOMAIN a
    <3>1. t \notin DOMAIN db'
      BY <2>1, <2>2, <2>4, ReachedEnds DEF OnTheWay
    <3> QED
      BY <2>3, <2>4, <3>1
  <2>5. CASE t \notin DOMAIN a
    <3>1. ~Touched(t, D)
      BY <2>5, OpsOfTable DEF Touched
    <3> QED
      BY <2>1, <3>1 DEF OnTheWay
  <2> QED
    BY <2>4, <2>5
<1>4. SchemaInv /\ ManagedInv /\ [Next]_vars => [\A c \in Client : Commits(c) => Left(c)]_vars
  <2> HIDE DEF Left
  <2> QED
    BY <1>3
<1> QED
  BY <1>1, <1>2, <1>4, SchemaAlways, HistoryAlways, PTL DEF Spec, OnlyManagedTablesChange
=============================================================================
