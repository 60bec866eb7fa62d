--------------------------- MODULE MCSchemaApply ---------------------------
(* Instances of SchemaApply for TLC.  Tables are 1 and 2, columns 1 and 2, *)
(* primary keys 3 and 4, indexes 1 and 2.                                  *)
EXTENDS SchemaApply, TLC

None == <<>>
Column(type, nullable, default) ==
    [sql_type |-> type, nullable |-> nullable, default_sql |-> default]
Table(pk, columns, indexes) ==
    [primary_key |-> pk, key_type |-> "INTEGER", columns |-> columns, indexes |-> indexes]
Index(column, unique) == [column |-> column, unique |-> unique]

AnyColumn == {Column(ty, n, d) : ty \in {"INT", "INTEGER", "TEXT"}, n \in BOOLEAN, d \in {NoDefault, "zero"}}
Text == Column("TEXT", TRUE, NoDefault)

\* The table a model registers, its columns and indexes in the order given.
Model(name, def) ==
    LET Items(f) == LET names == SetToSeq(DOMAIN f) IN
            [k \in DOMAIN names |-> [name |-> names[k]] @@ f[names[k]]]
    IN  [name |-> name, primary_key |-> def.primary_key, key_type |-> def.key_type,
         columns |-> Items(def.columns), indexes |-> Items(def.indexes)]

Live(def, handmade, unsupported, dependents) ==
    [def |-> def, rows |-> {}, listed |-> Listed(def), handmade |-> handmade,
     unsupported |-> unsupported, dependents |-> dependents]

\* One table, whose column 1 is of any kind and column 2 comes and goes.
OneTableDefs ==
    {Table(3, 1 :> c, i) : c \in AnyColumn, i \in {None, 1 :> Index(1, FALSE), 1 :> Index(1, TRUE)}}
    \cup {Table(3, 1 :> c @@ 2 :> Text, None) : c \in AnyColumn}
    \cup {Table(4, 2 :> Text, None), Table(3, 2 :> Text, 1 :> Index(2, TRUE)),
          Table(3, 1 :> Text @@ 2 :> Text, 1 :> Index(2, FALSE))}
BadDefs ==
    {Table(3, 1 :> Text, 1 :> Index(2, FALSE)), Table(1, 1 :> Text, None)}
OneTableTarget == {<<Model(1, d)>> : d \in OneTableDefs \cup BadDefs}
OneTableDb ==
    {1 :> Live(d, h, FALSE, FALSE) : d \in OneTableDefs, h \in {{}, {3}}}
    \cup {1 :> Live(Table(3, 1 :> Text @@ 2 :> Text, None), {2}, u, v) : u, v \in BOOLEAN}
    \cup {1 :> Live([Table(3, 1 :> Text, None) EXCEPT !.key_type = k], {3}, FALSE, FALSE) :
            k \in {"integer", "INT"}}

\* Two tables, their indexes on the one column, made by hand or not.
Plain == Table(3, 1 :> Text, None)
Wide == Table(3, 1 :> Text @@ 2 :> Text, None)
Tabbed == Table(3, 1 :> Column("TEXT", TRUE, "tabbed"), 1 :> Index(1, TRUE))
Indexed(i) == Table(3, 1 :> Text, i :> Index(1, FALSE))
TwoTableTarget ==
    {<<>>, <<Model(1, Plain)>>, <<Model(1, Wide)>>, <<Model(2, Plain)>>,
     <<Model(2, Wide), Model(1, Plain)>>, <<Model(1, Plain), Model(1, Wide)>>,
     <<Model(1, Tabbed)>>}
\* Its columns are not in the order of their names.
Reversed == [Live(Wide, {1}, FALSE, FALSE) EXCEPT !.listed.columns = <<2, 1>>]
TwoTableDb == {None, 1 :> Live(Plain, {}, FALSE, FALSE), 2 :> Reversed}

IndexTarget ==
    {<<Model(1, Indexed(1))>>, <<Model(2, Indexed(1))>>, <<Model(1, Plain), Model(2, Indexed(1))>>}
IndexDb == {None}

Separators == "tabbed" :> Tab

\* Two texts of the number 1, which is written as the first.
Numbers == "'1'" :> "1" @@ "'01'" :> "1"
Texts == "1" :> "'1'"
=============================================================================
