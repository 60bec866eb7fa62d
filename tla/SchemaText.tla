----------------------------- MODULE SchemaText -----------------------------
(***************************************************************************)
(* How a schema comes to be and how it is kept: the tables the models      *)
(* register (src/src/schema/desired.rs), their normal form, the text the   *)
(* history and the fingerprints are made of, and its reading back          *)
(* (src/src/schema/types.rs).                                              *)
(*                                                                         *)
(* Text is a sequence of tokens: a name, a type, a flag or a default is one *)
(* token, a tab and a newline are tokens too.  A DEFAULT clause, a literal  *)
(* in quotes, may hold one of them: it is rendered as it stands, in three   *)
(* tokens.  One that holds several, and so rows of its own, is left out.    *)
(***************************************************************************)
EXTENDS SchemaDiff

CONSTANTS
    Tab, Newline,
    Separator,      \* defaults whose text holds a tab or a newline, and which
    DefaultKey      \* the name "id", of a key whose name is not written

\* A token that is no separator.
Word(x) == x \notin {Tab, Newline}

ASSUME SeparatorAssumption ==
    /\ Tab # Newline
    /\ \A word \in {"table", "column", "index", "0", "1", "INTEGER"} : Word(word)
    /\ \A d \in DOMAIN Separator : Separator[d] \in {Tab, Newline}

(***************************************************************************)
(* SchemaBuilder: tables, columns and indexes are lists, as registered.    *)
(***************************************************************************)
\* Names and types are tokens of their own, names with an order; a default is
\* one too, whatever its text holds.  The type of every kind of key there is is
\* INTEGER (SqlField::SQL_TYPE of the types with PrimaryKeyField).
Writable(table) ==
    /\ table.name \in Int /\ Word(table.name)
    /\ Word(table.primary_key) /\ table.key_type = "INTEGER"
    /\ \A c \in ToSet(table.columns) :
        /\ c.name \in Int /\ Word(c.name) /\ Word(c.sql_type) /\ Word(c.default_sql)
        /\ c.nullable \in BOOLEAN
    /\ \A i \in ToSet(table.indexes) :
        i.name \in Int /\ Word(i.name) /\ Word(i.column) /\ i.unique \in BOOLEAN

Distinct(items) == \A i, j \in DOMAIN items : items[i].name = items[j].name => i = j

Consistent(table) ==
    LET columns == {column.name : column \in ToSet(table.columns)} IN
    /\ Distinct(table.columns) /\ Distinct(table.indexes)
    /\ table.primary_key \notin columns
    /\ \A index \in ToSet(table.indexes) : index.column \in columns \cup {table.primary_key}

\* Sorted by name, a list of distinct names is a function of them.
ByName(items, Value(_)) ==
    [n \in {item.name : item \in ToSet(items)} |->
        Value(CHOOSE item \in ToSet(items) : item.name = n)]

Invalid == [ok |-> FALSE, schema |-> <<>>]
Normalized(tables) ==
    IF Distinct(tables) /\ \A table \in ToSet(tables) : Consistent(table)
    THEN [ok |-> TRUE, schema |-> ByName(tables, LAMBDA table :
            [primary_key |-> table.primary_key, key_type |-> table.key_type,
             columns |-> ByName(table.columns, LAMBDA c :
                [sql_type |-> c.sql_type, nullable |-> c.nullable, default_sql |-> c.default_sql]),
             indexes |-> ByName(table.indexes, LAMBDA i :
                [column |-> i.column, unique |-> i.unique])])]
    ELSE Invalid

(***************************************************************************)
(* The canonical text of a normalized schema: a row for every table, and   *)
(* below it one for every column and every index, in the order of names.   *)
(***************************************************************************)
Row(kind, table, item) == [kind |-> kind, table |-> table, item |-> item]
Rows(schema) ==
    {Row("table", t, 0) : t \in DOMAIN schema}
    \cup (UNION {{Row("column", t, c) : c \in Columns(schema[t])} : t \in DOMAIN schema})
    \cup (UNION {{Row("index", t, i) : i \in Indexes(schema[t])} : t \in DOMAIN schema})

Place == [table |-> 0, column |-> 1, index |-> 2]
Above(a, b) ==
    \/ a.table < b.table
    \/ /\ a.table = b.table
       /\ \/ Place[a.kind] < Place[b.kind]
          \/ a.kind = b.kind /\ a.item < b.item

Flag(b) == IF b THEN "1" ELSE "0"
DefaultText(d) ==
    CASE d = NoDefault -> <<>>
      [] d # NoDefault /\ d \in DOMAIN Separator -> <<d, Separator[d], d>>
      [] OTHER -> <<d>>

TableFields(t, table) == <<<<"table">>, <<t>>, <<table.primary_key>>, <<table.key_type>>>>
ColumnFields(t, c, column) ==
    <<<<"column">>, <<t>>, <<c>>, <<column.sql_type>>, <<Flag(column.nullable)>>,
      DefaultText(column.default_sql)>>
\* Mutant: the flag of an index is left at its default.
IndexFields_NotUnique(t, i, index) ==
    <<<<"index">>, <<t>>, <<i>>, <<index.column>>, <<Flag(FALSE)>>>>
IndexFields(t, i, index) ==
    <<<<"index">>, <<t>>, <<i>>, <<index.column>>, <<Flag(index.unique)>>>>
FieldsOf(schema, row) ==
    LET table == schema[row.table] IN
    CASE row.kind = "table" -> TableFields(row.table, table)
      [] row.kind = "column" -> ColumnFields(row.table, row.item, table.columns[row.item])
      [] row.kind = "index" -> IndexFields(row.table, row.item, table.indexes[row.item])

\* A line: its fields with tabs between them.
Joined(fields) ==
    FlattenSeq([k \in DOMAIN fields |-> IF k = 1 THEN fields[k] ELSE <<Tab>> \o fields[k]])
Line(fields) == Append(Joined(fields), Newline)

CanonicalString(schema) ==
    LET rows == Rows(schema) IN
    FlattenSeq([k \in 1..Cardinality(rows) |-> Line(FieldsOf(schema,
        CHOOSE row \in rows : Cardinality({r \in rows : Above(r, row)}) = k - 1))])

(***************************************************************************)
(* Its reading back, line by line.                                         *)
(***************************************************************************)
Split(text, separator) ==
    LET parts[n \in 0..Len(text)] ==
            IF n = 0 THEN <<<<>>>>
            ELSE LET before == parts[n - 1] IN
                 IF text[n] = separator THEN Append(before, <<>>)
                 ELSE [before EXCEPT ![Len(before)] = Append(@, text[n])]
    IN  parts[Len(text)]

Flags == {<<Flag(b)>> : b \in BOOLEAN}

\* The first of the tables read so far that has the name.
Holder(tables, word) == SelectInSeq(tables, LAMBDA table : <<table.name>> = word)

\* One row of the text, added to the tables read so far: "table", whose key may
\* be left out, "column" of a table above, or "index" of one, each with its
\* fields and no more.
ReadRow(tables, field) ==
    LET Value(k) == field[k][1]
        Given(k, otherwise) == IF Len(field) < k THEN otherwise ELSE Value(k)
        Bool(k) == field[k] = <<Flag(TRUE)>>
        holder == Holder(tables, field[2])
        default == IF Len(field) = 6 /\ field[6] # <<>> THEN Value(6) ELSE NoDefault
    IN  CASE field[1] = <<"table">> /\ Len(field) \in 2..4 ->
                [ok |-> TRUE, tables |-> Append(tables,
                    [name |-> Value(2), primary_key |-> Given(3, DefaultKey),
                     key_type |-> Given(4, "INTEGER"), columns |-> <<>>, indexes |-> <<>>])]
          [] field[1] = <<"column">> /\ Len(field) \in 5..6 /\ field[5] \in Flags /\ holder # 0 ->
                [ok |-> TRUE, tables |-> [tables EXCEPT ![holder].columns = Append(@,
                    [name |-> Value(3), sql_type |-> Value(4), nullable |-> Bool(5),
                     default_sql |-> default])]]
          [] field[1] = <<"index">> /\ Len(field) = 5 /\ field[5] \in Flags /\ holder # 0 ->
                [ok |-> TRUE, tables |-> [tables EXCEPT ![holder].indexes = Append(@,
                    [name |-> Value(3), column |-> Value(4), unique |-> Bool(5)])]]
          [] OTHER -> [ok |-> FALSE, tables |-> tables]

\* Empty lines are skipped, and the first that is no row ends the reading.
ReadLine(before, line) ==
    IF before.ok /\ line # <<>> THEN ReadRow(before.tables, Split(line, Tab)) ELSE before
ReadLines(lines) ==
    LET read[n \in 0..Len(lines)] ==
            IF n = 0 THEN [ok |-> TRUE, tables |-> <<>>] ELSE ReadLine(read[n - 1], lines[n])
    IN  read[Len(lines)]

FromCanonical(text) ==
    LET read == ReadLines(Split(text, Newline))
    IN  IF read.ok THEN Normalized(read.tables) ELSE Invalid
=============================================================================
