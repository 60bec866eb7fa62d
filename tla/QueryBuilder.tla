---------------------------- MODULE QueryBuilder ----------------------------
(***************************************************************************)
(* Queries from the first call of the builder to the last page: the fluent *)
(* calls of src/src/model/query.rs and query/eager.rs, the expression tree *)
(* they grow (query/expression.rs, comparison.rs), the queries of a HasMany *)
(* association, which are scoped to its parent (association/has_many.rs),  *)
(* the WHERE clause written from the tree and what SQLite makes of it, and *)
(* then the iterator of Paging over the rows it selects.                   *)
(*                                                                         *)
(* A query is a value, a call consumes it and its argument.  There are two *)
(* under construction: one to be run and one to be the argument of and and *)
(* or.  The clause is a sequence of tokens, a comparison being one.  Beside *)
(* each query stands what its calls have asked for, as a set of rows.      *)
(***************************************************************************)
EXTENDS Paging

CONSTANTS
    None,           \* no level, no column
    Null,           \* None, and SQL's NULL
    Predicate,      \* arguments of q: [column, operator, operand]
    OrderTerm,      \* arguments of order: [column, direction]
    Eager,          \* the query is not wrapped by lazy or chunked
    Parent,         \* the key of the association's parent
    Stored,         \* the rows of the table when a query is run
    MaxCalls        \* bound: calls after the first

ASSUME QueryAssumption ==
    /\ Stored \subseteq Row /\ IsFiniteSet(Stored) /\ Cardinality(Stored) <= MaxRows
    /\ MaxCalls \in Nat /\ Parent # Null /\ Eager \notin Nat

Comparing == {"Eq", "Ne", "Gt", "Gte", "Lt", "Lte"}
ASSUME PredicateAssumption ==
    \A p \in Predicate :
        /\ p.operator \in Comparing \cup {"In", "IsNull", "IsNotNull"}
        /\ p.operator = "In" => p.operand \in Seq(ToSet(p.operand))

VARIABLES
    root,       \* what the query started from: a model, an association, an unbound one
    query,      \* [scope, filters]: HasManyQuery; without filters, a Query
    asked,      \* what its calls have asked for
    other,      \* a second Query
    otherAsked,
    wrapper,    \* Eager, Lazy (0) or the chunk size
    calls,
    phase

builder == <<root, query, asked, other, otherAsked, wrapper, calls>>
allVars == <<vars, builder, phase>>

(***************************************************************************)
(* The reference: the rows a predicate, a conjunction or a disjunction is  *)
(* about, and whether it may be asked at all.                              *)
(***************************************************************************)
Ordering == {"Gt", "Gte", "Lt", "Lte"}

Relates(operator, cell, value) ==
    CASE operator = "Eq"  -> cell = value
      [] operator = "Ne"  -> cell # value
      [] operator = "Gt"  -> cell > value
      [] operator = "Gte" -> cell >= value
      [] operator = "Lt"  -> cell < value
      [] operator = "Lte" -> cell <= value

Matches(p, row) ==
    LET cell == row[p.column] IN
    CASE p.operator = "IsNull"    -> cell = Null
      [] p.operator = "IsNotNull" -> cell # Null
      [] p.operator = "In"        -> cell # Null /\ cell \in ToSet(p.operand)
      [] p.operator \in Comparing /\ p.operand = Null -> (cell = Null) = (p.operator = "Eq")
      [] p.operator \in Comparing /\ p.operand # Null ->
            cell # Null /\ Relates(p.operator, cell, p.operand)

Everything == [given |-> FALSE, rows |-> Row, valid |-> TRUE, limit |-> NoLimit, offset |-> 0]
Asks(p) ==
    LET valid == ~(p.operator \in Ordering /\ p.operand = Null)
    IN  [Everything EXCEPT !.given = TRUE, !.valid = valid,
                           !.rows = IF valid THEN {row \in Row : Matches(p, row)} ELSE {}]
Both(a, b) == [a EXCEPT !.given = a.given \/ b.given, !.valid = a.valid /\ b.valid,
                        !.rows = a.rows \cap b.rows]
\* A query no predicate was given to is nobody's alternative.
Either(a, b) ==
    [Both(a, b) EXCEPT !.rows = IF ~a.given THEN b.rows ELSE IF ~b.given THEN a.rows
                                ELSE a.rows \cup b.rows]

(***************************************************************************)
(* Query and QueryExpression.                                              *)
(***************************************************************************)
Empty == [kind |-> "Empty"]
Root == [expression |-> Empty, ordering |-> <<>>, limit |-> NoLimit, offset |-> 0]
New(p) == [Root EXCEPT !.expression = [kind |-> "Predicate", comparison |-> p]]
\* The association's own query, Child::q(column, Eq(parent_id)).
OwnedByParent == [column |-> "owner", operator |-> "Eq", operand |-> Parent]

Combine(kind, self, argument) ==
    [self EXCEPT !.expression = [kind |-> kind, left |-> @, right |-> argument.expression]]

\* The placeholders of some values after n others are numbered from n + 1 on.
PushPlaceholders(n, values) == [k \in DOMAIN values |-> n + k]

\* An IN list is written without the NULLs that Comparison::In drops.
Operands(p) ==
    LET kept[k \in 0..Len(p.operand)] ==
            IF k = 0 THEN <<>>
            ELSE IF p.operand[k] = Null THEN kept[k - 1] ELSE Append(kept[k - 1], p.operand[k])
    IN  IF p.operator = "In" THEN kept[Len(p.operand)] ELSE <<p.operand>>

Written(p) ==
    CASE p.operator = "IsNull" \/ (p.operator = "Eq" /\ p.operand = Null) -> "IS NULL"
      [] p.operator = "IsNotNull" \/ (p.operator = "Ne" /\ p.operand = Null) -> "IS NOT NULL"
      [] p.operator = "In" /\ Operands(p) = <<>> -> "0 = 1"
      [] OTHER -> p.operator

\* A comparison's part of a clause that has n parameters so far, and the
\* parameters it adds.
PredicateClause(p, n) ==
    LET operands == IF Written(p) = p.operator THEN Operands(p) ELSE <<>>
    IN  [valid |-> ~(p.operator \in Ordering /\ p.operand = Null),
         clause |-> <<[kind |-> Written(p), column |-> p.column,
                       marks |-> PushPlaceholders(n, operands)]>>,
         params |-> operands]

Token(kind) == <<[kind |-> kind, column |-> None, marks |-> <<>>]>>
InParentheses(clause) == Token("(") \o clause \o Token(")")

\* Mutant: no parentheses.
CombineClauses_Bare(left, right, kind) ==
    IF left = <<>> THEN right ELSE IF right = <<>> THEN left
    ELSE left \o Token(kind) \o right

CombineClauses(left, right, kind) ==
    IF left = <<>> THEN right ELSE IF right = <<>> THEN left
    ELSE InParentheses(left) \o Token(kind) \o InParentheses(right)

\* Expressions of at most so many calls, one inside the other.
Expression[depth \in Nat] ==
    LET inner == Expression[depth - 1] IN
    {Empty} \cup [kind : {"Predicate"}, comparison : Predicate \cup {OwnedByParent}]
    \cup IF depth = 0 THEN {} ELSE [kind : {"AND", "OR"}, left : inner, right : inner]

\* What an expression writes after n parameters, with what its operands write.
Write(e, n, inner) ==
    CASE e.kind = "Empty"     -> [valid |-> TRUE, clause |-> <<>>, params |-> <<>>]
      [] e.kind = "Predicate" -> PredicateClause(e.comparison, n)
      [] e.kind \in {"AND", "OR"} ->
            LET left == inner[e.left][n]
                right == inner[e.right][n + Len(left.params)]
            IN  [valid |-> left.valid /\ right.valid,
                 clause |-> CombineClauses(left.clause, right.clause, e.kind),
                 params |-> left.params \o right.params]

IntoClause[depth \in Nat] ==
    [e \in Expression[depth] |-> [n \in Nat |-> Write(e, n, IntoClause[depth - 1])]]

IntoQueryPlan(from, q) ==
    LET whole == IF q.filters = <<>> THEN q.scope ELSE Combine("AND", q.scope, q.filters[1])
        built == IntoClause[MaxCalls + 1][whole.expression][0]
    IN  [valid |-> built.valid /\ from # "unbound",
         clause |-> built.clause, params |-> built.params,
         ordering |-> whole.ordering, limit |-> whole.limit, offset |-> whole.offset]

(***************************************************************************)
(* SQLite: OR binds weaker than AND, AND weaker than a comparison; a       *)
(* comparison with NULL selects nothing; rows come sorted by the first     *)
(* ORDER BY term, then the second, NULL first, equal ones as they lie.     *)
(***************************************************************************)
Truth(token, params, row) ==
    LET cell == row[token.column]
        value(k) == params[token.marks[k]]
    IN  CASE token.kind = "0 = 1"       -> FALSE
          [] token.kind = "IS NULL"     -> cell = Null
          [] token.kind = "IS NOT NULL" -> cell # Null
          [] token.kind = "In"          -> \E k \in DOMAIN token.marks : cell # Null /\ cell = value(k)
          [] token.kind \in Comparing   -> cell # Null /\ Relates(token.kind, cell, value(1))

\* A level of parentheses, read from the left: whether an alternative before
\* held, whether the one being read holds so far, and the level around it.
Open(outer) == [before |-> FALSE, holds |-> TRUE, outer |-> outer]
Value(level) == level.before \/ level.holds
Conjoin(level, b) == [level EXCEPT !.holds = @ /\ b]

Read(level, token, params, row) ==
    CASE token.kind = "("   -> Open(level)
      [] token.kind = ")"   -> Conjoin(level.outer, Value(level))
      [] token.kind = "AND" -> level
      [] token.kind = "OR"  -> [level EXCEPT !.before = Value(level), !.holds = TRUE]
      [] OTHER -> Conjoin(level, Truth(token, params, row))

Holds(clause, params, row) ==
    LET level[i \in 0..Len(clause)] ==
            IF i = 0 THEN Open(None) ELSE Read(level[i - 1], clause[i], params, row)
    IN  Value(level[Len(clause)])

Selected(built, table) ==
    {row \in table : built.clause = <<>> \/ Holds(built.clause, built.params, row)}

SortKey(row, column) == IF row[column] = Null THEN 0 ELSE row[column]
ComesBefore(ordering, a, b) ==
    LET terms == Append(ordering, [column |-> "id", direction |-> "Asc"])
        apart == {i \in DOMAIN terms : SortKey(a, terms[i].column) # SortKey(b, terms[i].column)}
        term == terms[Min(apart)]
        ahead == SortKey(a, term.column) < SortKey(b, term.column)
    IN  apart # {} /\ (ahead <=> term.direction = "Asc")

\* The rows of a set in that order.
InOrder(set, ordering) ==
    {list \in [1..Cardinality(set) -> set] :
        \A i \in 2..Len(list) : ComesBefore(ordering, list[i - 1], list[i])}

(***************************************************************************)
(* The calls.                                                              *)
(***************************************************************************)
Building == phase = "building" /\ calls < MaxCalls

\* Model::query, q and the other entries; the same of an association.
ModelRoot ==
    /\ root = "model"
    /\ \/ query = [scope |-> Root, filters |-> <<>>] /\ asked = Everything
       \/ \E p \in Predicate : query = [scope |-> New(p), filters |-> <<>>] /\ asked = Asks(p)

AssociationRoot ==
    /\ root \in {"association", "unbound"}
    /\ query = [scope |-> New(OwnedByParent), filters |-> <<>>] /\ asked = Everything

QueryInit ==
    /\ rows = <<>> /\ plan = [limit |-> NoLimit, offset |-> 0, chunk_size |-> 0]
    /\ consumed = 0 /\ done = FALSE /\ pages = <<>> /\ failed = FALSE /\ shifted = FALSE
    /\ calls = 0 /\ phase = "building"
    /\ ModelRoot \/ AssociationRoot
    /\ wrapper \in IF asked.given THEN {Eager} ELSE {Eager} \cup 0..MaxChunk
    /\ \/ other = Root /\ otherAsked = Everything
       \/ \E p \in Predicate : other = New(p) /\ otherAsked = Asks(p)

\* Mutant: the alternative is put beside the parent's constraint.
CombineInto_Scope(kind, q, argument) ==
    IF root = "model" \/ kind = "OR"
    THEN [q EXCEPT !.scope = Combine(kind, @, argument)]
    ELSE [q EXCEPT !.filters = IF @ = <<>> THEN <<argument>> ELSE <<Combine(kind, @[1], argument)>>]

CombineInto(kind, q, argument) ==
    IF root = "model"
    THEN [q EXCEPT !.scope = Combine(kind, @, argument)]
    ELSE [q EXCEPT !.filters = IF @ = <<>> THEN <<argument>> ELSE <<Combine(kind, @[1], argument)>>]

Means(kind, a, b) == IF kind = "AND" THEN Both(a, b) ELSE Either(a, b)

\* and, or with the second query; q is and with a new one.
CombineQuery ==
    /\ Building
    /\ \E kind \in {"AND", "OR"} :
        /\ query' = CombineInto(kind, query, other)
        /\ asked' = Means(kind, asked, otherAsked)
    /\ other' = Root /\ otherAsked' = Everything
    /\ UNCHANGED root

Q ==
    /\ Building
    /\ \E p \in Predicate : query' = CombineInto("AND", query, New(p)) /\ asked' = Both(asked, Asks(p))
    /\ UNCHANGED <<root, other, otherAsked>>

CombineOther ==
    /\ Building
    /\ \E p \in Predicate, kind \in {"AND", "OR"} :
        /\ other' = Combine(kind, other, New(p))
        /\ otherAsked' = Means(kind, otherAsked, Asks(p))
    /\ UNCHANGED <<root, query, asked>>

OrderQuery ==
    /\ Building
    /\ \E term \in OrderTerm : query' = [query EXCEPT !.scope.ordering = Append(@, term)]
    /\ UNCHANGED <<root, asked, other, otherAsked>>

Limit ==
    /\ Building
    /\ \E n \in 0..MaxLimit :
        \/ /\ query' = [query EXCEPT !.scope.limit = n] /\ asked' = [asked EXCEPT !.limit = n]
           /\ UNCHANGED <<other, otherAsked>>
        \/ /\ other' = [other EXCEPT !.limit = n] /\ otherAsked' = [otherAsked EXCEPT !.limit = n]
           /\ UNCHANGED <<query, asked>>
    /\ UNCHANGED root

Offset ==
    /\ Building
    /\ \E n \in 0..MaxOffset :
        query' = [query EXCEPT !.scope.offset = n] /\ asked' = [asked EXCEPT !.offset = n]
    /\ UNCHANGED <<root, other, otherAsked>>

\* A lazy or chunked query passes every call on to the query it wraps.
PassOn ==
    /\ CombineQuery \/ Q \/ CombineOther \/ OrderQuery \/ Limit \/ Offset
    /\ UNCHANGED wrapper

\* lazy and chunked rewrap; a chunk size of 0 panics.
Rewrap ==
    /\ Building
    /\ wrapper' \in 0..MaxChunk
    /\ UNCHANGED <<root, query, asked, other, otherAsked>>

BuilderCall ==
    /\ PassOn \/ Rewrap
    /\ calls' = calls + 1
    /\ UNCHANGED <<vars, phase>>

\* The queries are gone once one has been run.
Consumed ==
    /\ query' = [scope |-> Root, filters |-> <<>>] /\ asked' = Everything
    /\ other' = Root /\ otherAsked' = Everything /\ calls' = 0
    /\ root' = "model" /\ wrapper' = Eager

\* What the query's plan selects at first.
Run(built, chunk_size) ==
    /\ rows' \in InOrder(Selected(built, Stored), built.ordering)
    /\ plan' = [limit |-> built.limit, offset |-> built.offset, chunk_size |-> chunk_size]
    /\ UNCHANGED <<consumed, pages, failed, shifted>>

\* all, first, count or exists, of a query wrapped or not: what they return are
\* Paging's operators, and there is no iterator.
Answer(built) == Run(built, 0) /\ phase' = "answered" /\ done' = TRUE

TryIter(built) ==
    wrapper # Eager /\ Run(built, wrapper) /\ phase' = "iterating" /\ UNCHANGED done

\* InvalidQuery, or InvalidAssociation of an unbound association.
RunFails == phase' = "refused" /\ UNCHANGED vars

RunQuery ==
    LET built == IntoQueryPlan(root, query) IN
    /\ phase = "building"
    /\ IF built.valid THEN Answer(built) \/ TryIter(built) ELSE RunFails
    /\ Consumed

Iterate(step) == phase = "iterating" /\ step /\ UNCHANGED <<builder, phase>>

QueryNext == BuilderCall \/ RunQuery \/ Iterate(Next)
QuerySpec == QueryInit /\ [][QueryNext]_allVars /\ WF_allVars(Iterate(Fetch))

-----------------------------------------------------------------------------
(***************************************************************************)
(* Properties.                                                             *)
(***************************************************************************)
InScope == IF root = "association" THEN {row \in Row : row.owner = Parent} ELSE Row

Marks(clause) == FlattenSeq([i \in DOMAIN clause |-> clause[i].marks])

\* The SQL of a query selects the rows its calls asked for, and it is refused
\* exactly when they asked to order against NULL (or of a parent that is not
\* saved): calls grouped the way they were made, whatever AND and OR bind, each
\* parameter bound to the one placeholder written for it, and limits and offsets
\* those of the query itself and not of its arguments (QueryDsl,
\* src/src/model/query.rs:291).
PlanMeansTheCalls ==
    LET built == IntoQueryPlan(root, query)
    IN  /\ built.valid <=> (asked.valid /\ root # "unbound")
        /\ Marks(built.clause) = [i \in DOMAIN built.params |-> i]
        /\ built.valid => Selected(built, Row) = asked.rows \cap InScope
        /\ built.limit = asked.limit /\ built.offset = asked.offset

\* A query of an association returns the parent's rows only, "keeping the
\* association's parent constraint applied to every execution", or's included
\* (src/src/model/association/has_many.rs:306).
AssociationStaysScoped ==
    [][(phase' \in {"answered", "iterating"} /\ root = "association") =>
        \A row \in ToSet(rows') : row.owner = Parent]_allVars
=============================================================================
