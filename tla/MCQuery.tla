------------------------------ MODULE MCQuery ------------------------------
(* An instance of QueryBuilder for TLC: three rows of the parent, without an *)
(* age, of 1 and of 2, and one of another; comparisons of every operator,    *)
(* with a value and without.                                                 *)
EXTENDS QueryBuilder, TLC

Rows == {[id |-> 1, owner |-> 1, age |-> 1], [id |-> 2, owner |-> 1, age |-> Null],
         [id |-> 3, owner |-> 1, age |-> 2], [id |-> 4, owner |-> 2, age |-> 1]}
FirstRows == {row \in Rows : row.id # 3}

OnAge(operator, operand) == [column |-> "age", operator |-> operator, operand |-> operand]
Predicates ==
    {OnAge(operator, 1) : operator \in {"Eq", "Ne", "Gt", "Lte"}}
        \cup {OnAge(operator, Null) : operator \in {"Eq", "Ne", "Lt", "IsNull", "IsNotNull"}}
        \cup {OnAge("Gte", 2), OnAge("In", <<Null>>), OnAge("In", <<Null, 1, 2>>)}

Terms == {[column |-> "age", direction |-> "Desc"], [column |-> "owner", direction |-> "Asc"]}
=============================================================================
