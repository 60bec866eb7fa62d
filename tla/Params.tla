------------------------------- MODULE Params -------------------------------
(***************************************************************************)
(* A model's params from form entries to the stored row and back:          *)
(* src/src/model/params.rs builds a tree of the entries' bracketed keys,   *)
(* the generated Deserialize takes each field out of it and reads it as    *)
(* the field's type, a new record is built from what was sent, and         *)
(* src/src/model/sql_field.rs turns its values into SQLite's and back.     *)
(*                                                                         *)
(* A key is a sequence of names and brackets, a segment of a key a sequence *)
(* of these (a malformed key is one segment, a [] the empty one).  Raw text *)
(* is abstract: what it parses as are the tables of the reference below.   *)
(* One field of the model is followed, of any type.                        *)
(***************************************************************************)
EXTENDS Integers, Sequences, SequencesExt

CONSTANTS
    Entries,        \* the entries a form may have: [key, value]
    Types,          \* the types the field may have
    Number,         \* what raw text parses as a number, [raw -> Int]
    Truthy, Falsy,  \* the raw words of a checkbox
    SingleChar,     \* raw text of one character
    Blank,          \* the empty text
    Variants,       \* raw text that names a variant
    Bits,           \* the bits of an i64
    None,           \* no value
    MaxEntries      \* bound: entries of a form

ASSUME ParamsAssumption == Bits \in Nat \ {0, 1} /\ MaxEntries \in Nat
\* Keys are sequences.
ASSUME EntriesAssumption == \A entry \in Entries : entry.key \in Seq(ToSet(entry.key))

\* A type that has another inside: [kind, of].  Bound: two around a plain one.
Wrapping(t) == t.kind \in {"Option", "newtype", "Vec", "struct"}
ASSUME TypesAssumption == \A t \in Types : Wrapping(t) /\ Wrapping(t.of) => ~Wrapping(t.of.of)

VARIABLES
    form,       \* the entries so far
    values,     \* the ParamValue tree they have built
    phase,
    type,       \* the field's type
    sent,       \* the value params hold for it
    stored      \* the SQL value of its column

vars == <<form, values, phase, type, sent, stored>>

(***************************************************************************)
(* ParamValue                                                              *)
(***************************************************************************)
Null == [kind |-> "Null"]
Scalar(raw) == [kind |-> "Scalar", raw |-> raw]
List(items) == [kind |-> "List", items |-> items]
Map(entries) == [kind |-> "Map", entries |-> entries]
NoEntries == [segment \in {} |-> Null]

\* The segments of a key: a name, then any number of names in brackets.  The
\* k-th pair of brackets opens at opens[k], which is past the end after the last.
ParamKeySegments(key) ==
    LET brackets == {i \in DOMAIN key : key[i] = "["}
        closes(from) == {i \in from..Len(key) : key[i] = "]"}
        Least(S) == CHOOSE i \in S : \A j \in S : i <= j
        opens[k \in 1..(Len(key) + 1)] ==
            IF k = 1 THEN Least(brackets)
            ELSE IF closes(opens[k - 1]) = {} THEN Len(key) + 1
            ELSE Least(closes(opens[k - 1])) + 1
        pairs == {k \in DOMAIN key : opens[k] <= Len(key)}
    IN  IF \/ brackets = {} \/ opens[1] = 1
           \/ \E k \in pairs : key[opens[k]] # "[" \/ closes(opens[k]) = {}
        THEN <<key>>
        ELSE <<SubSeq(key, 1, opens[1] - 1)>>
             \o [k \in 1..Cardinality(pairs) |-> SubSeq(key, opens[k] + 1, opens[k + 1] - 2)]

AsList(v) == IF v.kind = "List" THEN v.items ELSE <<>>
AsMap(v) == IF v.kind = "Map" THEN v.entries ELSE NoEntries
With(entries, segment, v) ==
    [name \in DOMAIN entries \cup {segment} |-> IF name = segment THEN v ELSE entries[name]]
ContainerFor(segments) == IF segments[1] = <<>> THEN List(<<>>) ELSE Map(NoEntries)

\* The path ends at a name its map does not have yet, or at a [] of a list.
CanInsertPath(v, segments) ==
    LET at[i \in DOMAIN segments] ==
            IF i = 1 THEN v ELSE AsMap(at[i - 1])[segments[i - 1]]
    IN  \E i \in DOMAIN segments :
            /\ \A j \in 1..(i - 1) : segments[j] # <<>> /\ segments[j] \in DOMAIN AsMap(at[j])
            /\ IF segments[i] = <<>> THEN at[i].kind = "List"
               ELSE at[i].kind = "Map" /\ segments[i] \notin DOMAIN at[i].entries

\* Mutant: a child starts a new element only after one that is no map.
OpenElement_AnyMap(items, rest) ==
    /\ items # <<>> /\ rest # <<>>
    /\ CanInsertPath(Last(items), rest) \/ Last(items).kind = "Map"

\* The last element of a list is still being filled.
OpenElement(items, rest) == items # <<>> /\ CanInsertPath(Last(items), rest)

\* What a segment leads to, from v and before the rest of its path.
Child(v, segment, rest) ==
    CASE segment = <<>> /\ OpenElement(AsList(v), rest) -> Last(AsList(v))
      [] segment # <<>> /\ segment \in DOMAIN AsMap(v) -> AsMap(v)[segment]
      [] OTHER -> ContainerFor(rest)

\* v, made the container that the segment asks for, with a child in its place.
Holding(v, segment, rest, child) ==
    CASE segment # <<>> -> Map(With(AsMap(v), segment, child))
      [] segment = <<>> /\ OpenElement(AsList(v), rest) -> List(Append(Front(AsList(v)), child))
      [] OTHER -> List(Append(AsList(v), child))

\* Down the path and, with the value at its end, back up.
InsertPath(v, segments, value) ==
    LET n == Len(segments)
        rest(i) == SubSeq(segments, i + 1, n)
        at[i \in 1..n] == IF i = 1 THEN v ELSE Child(at[i - 1], segments[i - 1], rest(i - 1))
        with[i \in 1..(n + 1)] ==
            IF i = n + 1 THEN value ELSE Holding(at[i], segments[i], rest(i), with[i + 1])
    IN  with[1]

\* take_path of a root and a field; <<>> is None.
TakePath(v, root, field) ==
    LET under == AsMap(v) IN
    IF root \in DOMAIN under /\ field \in DOMAIN AsMap(under[root])
    THEN <<AsMap(under[root])[field]>> ELSE <<>>

(***************************************************************************)
(* Reading a ParamValue as a type.                                         *)
(***************************************************************************)
Ok(v) == [ok |-> TRUE, value |-> v]
Failed == [ok |-> FALSE, value |-> None]

PowersOfTwo[n \in Nat] == IF n = 0 THEN 1 ELSE 2 * PowersOfTwo[n - 1]

Signed(bits) == (-PowersOfTwo[bits - 1])..(PowersOfTwo[bits - 1] - 1)
Unsigned(bits) == 0..(PowersOfTwo[bits] - 1)

\* The integers of this width; the others are narrower.
IntegersOf(t) ==
    CASE t.kind = "i64" -> Signed(Bits)
      [] t.kind \in {"u64", "BelongsTo"} -> Unsigned(Bits)
      [] t.kind = "u8" -> Unsigned(Bits - 2)

ReadBool(raw) ==
    IF raw \in Truthy THEN Ok(TRUE) ELSE IF raw \in Falsy THEN Ok(FALSE) ELSE Failed
ParseScalar(t, raw) ==
    IF raw \in DOMAIN Number /\ Number[raw] \in IntegersOf(t) THEN Ok(Number[raw]) ELSE Failed
ReadText(t, raw) ==
    IF CASE t.kind = "String" -> TRUE
         [] t.kind = "char" -> raw \in SingleChar
         [] t.kind = "enum" -> raw \in Variants
    THEN Ok(raw) ELSE Failed
ReadUnit(v) == IF v = Null \/ v = Scalar(Blank) THEN Ok(None) ELSE Failed

All(results) ==
    IF \A i \in DOMAIN results : results[i].ok
    THEN Ok([i \in DOMAIN results |-> results[i].value]) ELSE Failed

\* What a struct takes of a map or a list, in the order of its fields: a map
\* may have more names, a list more items.
FieldValues(names, v) ==
    CASE v.kind = "Map" /\ ToSet(names) \subseteq DOMAIN v.entries ->
            [i \in DOMAIN names |-> v.entries[names[i]]]
      [] v.kind = "List" /\ Len(v.items) >= Len(names) -> SubSeq(v.items, 1, Len(names))
      [] OTHER -> <<>>

ReadScalar(t, v) ==
    IF v.kind # "Scalar" THEN Failed
    ELSE CASE t.kind = "bool" -> ReadBool(v.raw)
           [] t.kind \in {"String", "char", "enum"} -> ReadText(t, v.raw)
           [] OTHER -> ParseScalar(t, v.raw)

\* A type and a value, and how the type inside it reads.
ReadAs(t, v, ReadOf(_, _)) ==
    CASE t.kind = "Option" -> IF v = Null THEN Ok(None) ELSE ReadOf(t.of, v)
      [] t.kind = "newtype" -> ReadOf(t.of, v)
      [] t.kind = "()" -> ReadUnit(v)
      [] t.kind = "Vec" ->
            IF v.kind = "List" THEN All([i \in DOMAIN v.items |-> ReadOf(t.of, v.items[i])]) ELSE Failed
      [] t.kind = "struct" ->
            LET given == FieldValues(t.names, v) IN
            IF given = <<>> THEN Failed ELSE All([i \in DOMAIN given |-> ReadOf(t.of, given[i])])
      [] OTHER -> ReadScalar(t, v)

\* Types nest two deep at most (TypesAssumption).
ReadPlain(t, v) == ReadAs(t, v, LAMBDA of, item : Failed)
ReadElement(t, v) == ReadAs(t, v, ReadPlain)
Read(t, v) == ReadAs(t, v, ReadElement)

(***************************************************************************)
(* SqlField                                                                *)
(***************************************************************************)
\* `as i64`, and `as u64` on the way back.
AsI64(n) == ((n + PowersOfTwo[Bits - 1]) % PowersOfTwo[Bits]) - PowersOfTwo[Bits - 1]
AsU64(n) == n % PowersOfTwo[Bits]

Columns == {"bool", "i64", "u64", "u8", "BelongsTo", "String"}
ColumnType(t) == t.kind \in Columns \/ (t.kind = "Option" /\ t.of.kind \in Columns)
Inner(t) == IF t.kind = "Option" THEN t.of ELSE t

ToSqlValue(t, v) ==
    IF t.kind = "Option" /\ v = None THEN [sql |-> "NULL"]
    ELSE CASE Inner(t).kind = "bool" -> [sql |-> "INTEGER", value |-> IF v THEN 1 ELSE 0]
           [] Inner(t).kind = "String" -> [sql |-> "TEXT", value |-> v]
           [] OTHER -> [sql |-> "INTEGER", value |-> AsI64(v)]

\* u64::try_from of the stored number.
AssociationId(n) == IF n >= 0 THEN Ok(n) ELSE Failed

Checked(t, n) == IF n \in IntegersOf(t) THEN Ok(n) ELSE Failed

\* Mutant: a u64 is read without the cast back.
FromNumber_Unsigned(t, n) ==
    CASE t.kind = "bool" -> Ok(n # 0)
      [] t.kind = "BelongsTo" -> AssociationId(n)
      [] OTHER -> Checked(t, n)

FromNumber(t, n) ==
    CASE t.kind = "bool" -> Ok(n # 0)
      [] t.kind = "u64" -> Ok(AsU64(n))
      [] t.kind = "BelongsTo" -> AssociationId(n)
      [] OTHER -> Checked(t, n)

FromSqlRow(t, cell) ==
    CASE cell.sql = "NULL" -> IF t.kind = "Option" THEN Ok(None) ELSE Failed
      [] cell.sql = "TEXT" -> Ok(cell.value)
      [] cell.sql = "INTEGER" -> FromNumber(Inner(t), cell.value)

(***************************************************************************)
(* A request.                                                              *)
(***************************************************************************)
Root == <<"p">>
Field == <<"v">>
NoName == <<>>
NoType == [kind |-> "none"]

Init ==
    /\ form = <<>> /\ values = Map(NoEntries) /\ phase = "receiving"
    /\ type = NoType /\ sent = <<>> /\ stored = [sql |-> "none"]

\* An entry of the form, or of a deserialized map.
InsertEntry ==
    /\ phase = "receiving" /\ Len(form) < MaxEntries
    /\ \E entry \in Entries :
        /\ form' = Append(form, entry)
        /\ values' = InsertPath(values, ParamKeySegments(entry.key), entry.value)
    /\ UNCHANGED <<phase, type, sent, stored>>

Received == form' = <<>> /\ values' = Map(NoEntries)

\* The field of a model's params, if it was sent and reads as its type.
Deserialize ==
    /\ phase = "receiving"
    /\ type' \in Types
    /\ LET taken == TakePath(values, Root, Field) IN
        IF taken = <<>> THEN phase' = "params" /\ sent' = <<>>
        ELSE LET read == Read(type', taken[1]) IN
             IF read.ok THEN phase' = "params" /\ sent' = <<read.value>>
             ELSE phase' = "InvalidParams" /\ sent' = <<>>
    /\ Received /\ UNCHANGED stored

\* What a new record takes for a field its params do not hold: None or false,
\* and neither false nor a required value for a column allow() left out.
Omitted(allowed) ==
    IF type.kind = "Option" THEN <<None>>
    ELSE IF type.kind = "bool" /\ allowed THEN <<FALSE>> ELSE <<>>

\* A new record of the allowed params, inserted.
Create ==
    /\ phase = "params" /\ ColumnType(type)
    /\ \E allowed \in BOOLEAN :
        LET given == IF allowed /\ sent # <<>> THEN sent ELSE Omitted(allowed)
        IN  IF given = <<>> THEN phase' = "MissingField" /\ UNCHANGED <<sent, stored>>
            ELSE /\ phase' = "stored" /\ sent' = given
                 /\ stored' = ToSqlValue(type, given[1])
    /\ UNCHANGED <<form, values, type>>

Next == InsertEntry \/ Deserialize \/ Create
Spec == Init /\ [][Next]_vars

-----------------------------------------------------------------------------
(***************************************************************************)
(* Properties.                                                             *)
(***************************************************************************)
\* What a form says of the field, entry by entry and without the tree.  Below
\* the field's name a whole value replaces what was there, [] adds an element to
\* its list, a name sets a key of its map, and names below [] fill the last
\* element until one would repeat.  A value for the root replaces all of it, a
\* [] in place of a name leaves nothing of what it stands in.
Update(taken, below, value) ==
    LET old == IF taken = <<>> THEN Null ELSE taken[1]
        items == AsList(old)
        open == IF items = <<>> THEN Null ELSE Last(items)
        Filled(element) == List(Append(Front(items), element))
        Added(element) == List(Append(items, element))
    IN  CASE below = <<>> -> value
          [] below = <<NoName>> -> Added(value)
          [] below = <<NoName, NoName>> ->
                IF open.kind = "List" THEN Filled(List(Append(open.items, value)))
                ELSE Added(List(<<value>>))
          [] Len(below) = 2 /\ below[1] = NoName /\ below[2] # NoName ->
                IF open.kind = "Map" /\ below[2] \notin DOMAIN open.entries
                THEN Filled(Map(With(open.entries, below[2], value)))
                ELSE Added(Map(With(NoEntries, below[2], value)))
          [] Len(below) = 1 /\ below[1] # NoName -> Map(With(AsMap(old), below[1], value))

\* What has been said of a field, after one more entry and after the whole form.
SaidNext(field, taken, entry) ==
    LET key == ParamKeySegments(entry.key) IN
    CASE key = <<Root>> -> TakePath(Map(With(NoEntries, Root, entry.value)), Root, field)
      [] key[1] = NoName \/ (Len(key) > 1 /\ key[1] = Root /\ key[2] = NoName) -> <<>>
      [] Len(key) > 1 /\ key[1] = Root /\ key[2] = field ->
            <<Update(taken, SubSeq(key, 3, Len(key)), entry.value)>>
      [] OTHER -> taken
Said(field) ==
    LET said[n \in 0..Len(form)] ==
            IF n = 0 THEN <<>> ELSE SaidNext(field, said[n - 1], form[n])
    IN  said[Len(form)]

\* The tree holds for a field what the form's entries say of it, whatever other
\* entries, keys and shapes come between them (ParamValue::insert_entry).
ReadsWhatWasSent ==
    phase = "receiving" => TakePath(values, Root, Field) = Said(Field)

\* What a record is saved with is what the next read of its row gives; only the
\* id of a belongs_to above the largest i64 is refused (SqlField).
StoredValuesReadBack ==
    phase = "stored" =>
        LET read == FromSqlRow(type, stored) IN
        \/ read = Ok(sent[1])
        \/ ~read.ok /\ Inner(type).kind = "BelongsTo" /\ sent[1] \notin Signed(Bits)
=============================================================================
