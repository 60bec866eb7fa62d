------------------------------ MODULE MCSchema ------------------------------
(* Both instances in one run: one client and one plan over a table with     *)
(* rows, or two clients with two plans each over two tables without.        *)
EXTENDS MCSchemaApply

VARIABLE instance

AnyTarget == OneTableTarget \cup TwoTableTarget
AnyDb == OneTableDb \cup TwoTableDb
OneTableDesired == {Normalized(models) : models \in OneTableTarget}
TwoTableDesired == {Normalized(models) : models \in TwoTableTarget}

MCInit ==
    /\ Init
    /\ \/ instance = "one table" /\ db \in OneTableDb
       \/ instance = "two tables" /\ db \in TwoTableDb

MCNext ==
    /\ UNCHANGED instance
    /\ \/ /\ instance = "one table"
          /\ \E c \in Client :
                /\ \A d \in Client \ {c} : plans[d] = 0
                /\ Step({c}, IF plans[c] = 0 THEN OneTableDesired ELSE {})
          \* Fewer rows: the cells of column 2 are of one text.
          /\ \A r \in db'[1].rows : 2 \in DOMAIN r.cells => r.cells[2] # "'01'"
       \/ /\ instance = "two tables"
          /\ Step(Client, TwoTableDesired)
          /\ \A t \in DOMAIN db' : db'[t].rows = {}

ClientSymmetry == Permutations(Client)

MCSpec == MCInit /\ [][MCNext]_<<vars, instance>>
=============================================================================
