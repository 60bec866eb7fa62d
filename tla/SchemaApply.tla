---------------------------- MODULE SchemaApply ----------------------------
(***************************************************************************)
(* Planning and applying schema changes: Plan::build of src/src/schema/    *)
(* plan.rs, apply of src/src/schema/apply.rs and the history table.  A     *)
(* client builds a plan, keeps it for review, and applies it later.  apply *)
(* introspects and compares before BEGIN IMMEDIATE, then runs every        *)
(* operation in one transaction.                                           *)
(*                                                                         *)
(* The clients are threads of one process, where with_exclusive_write keeps *)
(* everybody else out from the comparison to the commit, or processes that *)
(* share the file, where only the transaction does.                        *)
(***************************************************************************)
EXTENDS SchemaText

CONSTANTS
    Client,
    Target,         \* the lists of model tables clients want
    InitialDb,      \* the databases to start from
    NoPlan,
    OneProcess,     \* are the clients threads of one process
    MaxPlans,       \* bound: plans per client
    MaxRows         \* bound: rows per table

ASSUME SchemaAssumption ==
    /\ OneProcess \in BOOLEAN
    /\ MaxPlans \in Nat /\ MaxRows \in Nat
    /\ \A d \in InitialDb : IsDatabase(d)
    /\ \A models \in Target : IsFiniteSet(ToSet(models)) /\ \A table \in ToSet(models) :
            /\ Writable(table)
            /\ IsFiniteSet(ToSet(table.columns)) /\ IsFiniteSet(ToSet(table.indexes))

VARIABLES
    db,         \* the live database
    history,    \* the last target in the history table, as text
    plan,       \* plan[c]: the plan c holds
    stage,      \* stage[c]: "idle", or the mode of an apply that has compared
    todo,       \* todo[c]: the operations apply is about to run
    outcome,    \* outcome[c]: how its last apply ended
    plans,      \* plans[c]: plans built so far
    latest,     \* the last target applied
    managed     \* the tables of every target applied so far

vars == <<db, history, plan, stage, todo, outcome, plans, latest, managed>>

Init ==
    /\ db \in InitialDb
    /\ history = <<>> /\ latest = <<>> /\ managed = {}
    /\ plan = [c \in Client |-> NoPlan]
    /\ stage = [c \in Client |-> "idle"]
    /\ todo = [c \in Client |-> <<>>]
    /\ outcome = [c \in Client |-> "none"]
    /\ plans = [c \in Client |-> 0]

\* with_exclusive_write holds the gate from the comparison to the commit.
GateFree == OneProcess => \A c \in Client : stage[c] = "idle"

\* introspect_managed
Introspect(scope) == [t \in DOMAIN db \cap scope |-> db[t]]

\* Mutant: the scope of a plan is every table there is.
ManagedScope_All(target, last) == DOMAIN target \cup DOMAIN last \cup DOMAIN db
\* The tables of the target and of the last target applied.
ManagedScope(target, last) == DOMAIN target \cup DOMAIN last

\* load_latest_target_schema
LastTarget == FromCanonical(history)

\* SchemaBuilder::build
Desired == {Normalized(models) : models \in Target}

\* SchemaBuilder::plan: the models' tables are no schema, or the history is not
\* one, or there is a plan.
BuildPlan(c, wanted) ==
    /\ stage[c] = "idle" /\ GateFree /\ plans[c] < MaxPlans
    /\ \E last \in {LastTarget}, desired \in wanted :
        LET target == desired.schema
            actual == Introspect(ManagedScope(target, last.schema))
        IN  \/ /\ desired.ok /\ last.ok
               /\ plan' = [plan EXCEPT ![c] =
                    [source |-> Definitions(actual), target |-> target,
                     ops |-> PlanOps(target, actual), blockers |-> Blockers(target, actual)]]
               /\ outcome' = [outcome EXCEPT ![c] = "none"]
            \/ /\ ~desired.ok \/ ~last.ok
               /\ outcome' = [outcome EXCEPT ![c] = "invalid_schema"]
               /\ UNCHANGED plan
    /\ plans' = [plans EXCEPT ![c] = @ + 1]
    /\ UNCHANGED <<db, history, stage, todo, latest, managed>>

\* plan_scope
PlanScope(p) == DOMAIN p.source \cup DOMAIN p.target

\* The answers of apply before its transaction begins.
Drifted(p) == Definitions(Introspect(PlanScope(p))) # p.source
\* Both lists are sorted, so they differ if their sets do: also when a table to
\* rebuild or drop has the same definition but is listed in another order.
Replanned(p) == DiffOps(p.target, Introspect(PlanScope(p))) # ToSet(p.ops)
Refused(p, mode) ==
    \/ Blockers(p.target, Introspect(PlanScope(p))) # {}
    \/ mode = "SafeOnly" /\ \E k \in DOMAIN p.ops : IsDestructive(p.ops[k])

\* A rebuild replays the hand-made indexes introspection found.
Replay(ops) ==
    [k \in DOMAIN ops |->
        IF ops[k].kind = "RebuildTable" THEN With(ops[k], "replay", db[ops[k].table].handmade)
        ELSE ops[k]]

\* A plan may be applied again, also after it was refused or applied.
CanApply(c) == stage[c] = "idle" /\ plan[c] # NoPlan /\ GateFree

\* Mutant: the fingerprint of the live schema is not compared.
Check_NoFingerprint(c, mode) ==
    /\ CanApply(c)
    /\ ~Refused(plan[c], mode)
    /\ stage' = [stage EXCEPT ![c] = mode]
    /\ todo' = [todo EXCEPT ![c] = Replay(plan[c].ops)]
    /\ outcome' = [outcome EXCEPT ![c] = "none"]
    /\ UNCHANGED <<db, history, plan, plans, latest, managed>>

Check(c, mode) ==
    /\ CanApply(c)
    /\ ~Drifted(plan[c]) /\ ~Replanned(plan[c]) /\ ~Refused(plan[c], mode)
    /\ stage' = [stage EXCEPT ![c] = mode]
    /\ todo' = [todo EXCEPT ![c] = Replay(plan[c].ops)]
    /\ outcome' = [outcome EXCEPT ![c] = "none"]
    /\ UNCHANGED <<db, history, plan, plans, latest, managed>>

Refuse(c, mode) ==
    /\ CanApply(c)
    /\ \/ Drifted(plan[c]) /\ outcome' = [outcome EXCEPT ![c] = "drift"]
       \/ /\ ~Drifted(plan[c])
          /\ Replanned(plan[c]) \/ Refused(plan[c], mode)
          /\ outcome' = [outcome EXCEPT ![c] = "blocked"]
    /\ UNCHANGED <<db, history, plan, stage, todo, plans, latest, managed>>

Finish(c, how) ==
    /\ outcome' = [outcome EXCEPT ![c] = how]
    /\ stage' = [stage EXCEPT ![c] = "idle"]
    /\ todo' = [todo EXCEPT ![c] = <<>>]
    /\ UNCHANGED <<plan, plans>>

\* The transaction commits; PRAGMA optimize, outside it, may still fail.
Apply(c) ==
    /\ stage[c] # "idle"
    /\ LET run == PerformAll(db, todo[c]) IN run.ok /\ db' = run.db
    /\ latest' = plan[c].target /\ history' = CanonicalString(latest')
    /\ managed' = managed \cup DOMAIN latest'
    /\ \E how \in {"applied", "optimize_failed"} : Finish(c, how)

\* Mutant: the operations before the one that is refused are kept.
ApplyRejected_KeepsHalf(c) ==
    /\ stage[c] # "idle"
    /\ LET run == PerformAll(db, todo[c]) IN ~run.ok /\ db' = run.db
    /\ Finish(c, "rejected")
    /\ UNCHANGED <<history, latest, managed>>
\* An operation is refused: everything is rolled back.
ApplyRejected(c) ==
    /\ stage[c] # "idle"
    /\ ~PerformAll(db, todo[c]).ok
    /\ Finish(c, "rejected")
    /\ UNCHANGED <<db, history, latest, managed>>

\* The transaction fails for a reason outside the schema: the file is locked
\* or full, or integrity_check complains.
ApplyFails(c) ==
    /\ stage[c] # "idle"
    /\ Finish(c, "failed")
    /\ UNCHANGED <<db, history, latest, managed>>

\* The rest of the program goes on writing rows.
Cells == {"null"} \cup DOMAIN NumberOf
InsertRow ==
    /\ GateFree
    /\ \E t \in DOMAIN db, key \in 1..MaxRows :
        /\ {r.key : r \in db[t].rows} = 1..(key - 1)
        /\ \E cells \in [Columns(db[t].def) -> Cells] :
            LET def == db[t].def
                row == [key |-> key, cells |-> [x \in Columns(def) |->
                            Stored(def.columns[x].sql_type, cells[x])]]
                rows == db[t].rows \cup {row}
            IN  /\ NullsAllowed(def, rows)
                /\ \A i \in Indexes(def) : UniqueHolds(def, rows, i)
                /\ db' = [db EXCEPT ![t].rows = rows]
    /\ UNCHANGED <<history, plan, stage, todo, outcome, plans, latest, managed>>

\* A step of some of the clients, who want some of the schemas.
Step(clients, wanted) ==
    \/ \E c \in clients :
        \/ BuildPlan(c, wanted)
        \/ \E mode \in {"SafeOnly", "AllowDestructive"} : Check(c, mode) \/ Refuse(c, mode)
        \/ Apply(c) \/ ApplyRejected(c) \/ ApplyFails(c)
    \/ InsertRow

Next == Step(Client, Desired)
Spec == Init /\ [][Next]_vars

-----------------------------------------------------------------------------
(***************************************************************************)
(* Properties.                                                             *)
(***************************************************************************)
Commits(c) == stage[c] # "idle" /\ outcome'[c] \in {"applied", "optimize_failed"}

\* The database is one SQLite could hold and a model could read, whatever was
\* applied to it: every row has a key of its own and the table's columns, NOT
\* NULL and UNIQUE hold, an index has a column and a name of its own.
TypeOK ==
    /\ IsDatabase(db)
    /\ \A c \in Client :
        /\ stage[c] \in {"idle", "SafeOnly", "AllowDestructive"}
        /\ stage[c] # "idle" => plan[c] # NoPlan /\ Len(todo[c]) = Len(plan[c].ops)

\* The defaults of a schema.
Defaults(schema) ==
    UNION {{schema[t].columns[c].default_sql : c \in Columns(schema[t])} : t \in DOMAIN schema}

\* The history never reads back as another schema than the last one applied, if
\* no default holds more than one of its separators, and it can be read unless
\* one does hold one: then every later plan fails (SchemaDef::from_canonical of
\* SchemaDef::canonical_string).
HistoryReadsBack ==
    LET read == LastTarget IN
    /\ read.ok => read.schema = latest
    /\ Defaults(latest) \cap DOMAIN Separator = {} => read.ok

\* What diff compares of two definitions: declared types count by affinity.
Matches(def, wanted) ==
    /\ def.primary_key = wanted.primary_key /\ def.key_type = wanted.key_type
    /\ def.indexes = wanted.indexes
    /\ Columns(def) = Columns(wanted)
    /\ \A c \in Columns(def) :
        /\ Affinity(def.columns[c].sql_type) = Affinity(wanted.columns[c].sql_type)
        /\ def.columns[c].nullable = wanted.columns[c].nullable
        /\ def.columns[c].default_sql = wanted.columns[c].default_sql

\* All or nothing.  A plan that was applied has reached its target, whatever the
\* tables, their rows and their hand-made indexes were before: every table of the
\* target is there as wanted, every other table of the plan is gone.  An apply
\* that fails, also half way, leaves the schema its plan was made for
\* (immediate_transaction, src/src/schema/apply.rs:101).
ApplyReachesTarget ==
    [][\A c \in Client : (stage[c] # "idle" /\ stage'[c] = "idle") =>
        IF Commits(c)
        THEN /\ \A t \in DOMAIN plan[c].target :
                t \in DOMAIN db' /\ Matches(db'[t].def, plan[c].target[t])
             /\ DOMAIN db' \cap PlanScope(plan[c]) = DOMAIN plan[c].target
        ELSE Definitions(Introspect(PlanScope(plan[c])))' = plan[c].source]_vars

SameKeys(old, new) == {r.key : r \in old.rows} = {r.key : r \in new.rows}

Keeps(old, new) ==
    /\ SameKeys(old, new)
    /\ \A r \in old.rows, s \in new.rows : r.key = s.key =>
        \A x \in Columns(old.def) \cap Columns(new.def) : r.cells[x] = s.cells[x]

\* ApplyMode::SafeOnly loses nothing: no table, no row, no column, no cell, no
\* hand-made index.
SafeApplyLosesNothing ==
    [][\A c \in Client : (Commits(c) /\ stage[c] = "SafeOnly") =>
        \A t \in DOMAIN db :
            /\ t \in DOMAIN db' /\ Columns(db[t].def) \subseteq Columns(db'[t].def)
            /\ Keeps(db[t], db'[t])
            /\ db[t].handmade = db'[t].handmade]_vars

\* What a value stands for, whether it is stored as an integer or as its text.
Meaning(value) == IF value \in DOMAIN NumberOf THEN NumberOf[value] ELSE value
SameAffinity(old, new, x) ==
    Affinity(old.def.columns[x].sql_type) = Affinity(new.def.columns[x].sql_type)

\* A cell is what it was, but for its representation where the affinity of its
\* column changed: 007 as a text is 7 as an integer and stays 7 as a text.
KeepsMeaning(old, new) ==
    /\ SameKeys(old, new)
    /\ \A r \in old.rows, s \in new.rows : r.key = s.key =>
        \A x \in Columns(old.def) \cap Columns(new.def) :
            /\ SameAffinity(old, new, x) => r.cells[x] = s.cells[x]
            /\ Meaning(r.cells[x]) = Meaning(s.cells[x])

\* A table that is in the target keeps its rows, with their primary keys, and of
\* every column it had and still has the cells, also through a rebuild; where
\* the rebuild changes the column's affinity, what the cells stand for.
TargetTablesKeepTheirRows ==
    [][\A c \in Client : Commits(c) =>
        \A t \in DOMAIN db \cap DOMAIN plan[c].target :
            t \in DOMAIN db' /\ KeepsMeaning(db[t], db'[t])
            /\ db[t].handmade = db'[t].handmade]_vars

\* An apply changes only tables it was asked for, and drops only tables of the
\* target applied before: tables made by hand are left alone.
OnlyManagedTablesChange ==
    [][\A c \in Client : Commits(c) =>
        \A t \in DOMAIN db :
            \/ t \in DOMAIN plan[c].target
            \/ t \in DOMAIN db' /\ db'[t] = db[t]
            \/ t \in managed /\ t \notin DOMAIN db']_vars

\* The operations run on the schema the plan was made for and reviewed against,
\* not on what somebody made of it since ("The live schema drifted from the
\* source schema used to build a plan", src/src/error.rs:30).
RunsOnPlannedSource ==
    [][\A c \in Client : Commits(c) =>
        Definitions(Introspect(PlanScope(plan[c]))) = plan[c].source]_vars

\* "Allow both safe and destructive operations, as long as no blockers remain"
\* (src/src/schema/plan.rs:16): SQLite refuses no operation of a plan that apply
\* let through, at least while there are no rows and no hand-made indexes.
UnblockedPlansApply ==
    [][\A c \in Client :
        (stage[c] # "idle" /\ \A t \in DOMAIN db : db[t].rows = {} /\ db[t].handmade = {}) =>
            outcome'[c] # "rejected"]_vars
=============================================================================
