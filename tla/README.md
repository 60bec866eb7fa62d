# A TLA+ verification of seekwel

seekwel is a small ORM for SQLite in Rust: a `#[seekwel::model]` macro turns structs into models
whose values know in their type whether they are new, persisted or invalid; a process-wide
connection manager runs every statement; queries, associations and schema plans are built on it.
This directory models the parts that keep state, checks them on small instances with TLC, and
proves with TLAPS, for any instance, all the safety properties those checks are about: of the
connection manager and the store it promises, associations, records, query builder, iterators, params,
schema plans and the schema history. Liveness is left to TLC.

## The system

| Component | State it keeps | Operations | Talks to |
|---|---|---|---|
| Connection manager (`src/src/connection.rs`) | a gate (`RwLock`), one writer connection (`Mutex`), a pool of reader connections (`Mutex` + `Condvar`), the thread-local `TX_STATE` with a raw pointer to the writer | `transaction` (nested: savepoints), reads, writes, `with_exclusive_write` | SQLite; called by everything |
| Associations (`model/association/`) | one cache per field, behind a mutex | `load`, `append`, `clear_cache`, `Clone` | records, connection manager |
| Records (`model/mod.rs`, generated code) | values of the caller; typestate | `save`, `find`, `reload`, `delete`, `create_or_update_by`, validation | connection manager |
| Query builder (`model/query.rs`, `query/expression.rs`, `comparison.rs`) | a query value that each call consumes | `q`, `and`, `or`, `order`, `limit`, `offset`, on models and associations, wrapped by `lazy` and `chunked` | SQL text |
| Query iteration (`model/query/`) | an immutable plan; iterators keep `consumed` and `done` | `all`, `first`, `count`, `exists`, iterators | connection manager |
| Params (`model/params.rs`, `model/sql_field.rs`) | a tree of the form's entries, one value per field | `insert_entry`, the generated `Deserialize`, `from_param_value`, `create`, conversion to and from SQLite's values | records |
| Schema (`schema/`) | the history table; plans kept by the caller | `Plan::build`, `apply`, introspection, diff | connection manager (`with_read`, `with_exclusive_write`) |
| Macro (`seekwel-macros`) | none at run time | generates the code of models | - |

What is hard in it:

- **The connection manager** takes up to four locks per call in orders that depend on the call, keeps
  a thread's locks through a user closure that makes further calls, and unwinds through errors and
  panics. What makes it correct: mutual exclusion of the writer connection and of schema operations,
  no reader connection lost, no deadlock or lost wakeup, all-or-nothing transactions at every nesting
  depth, no transaction left open behind anybody's back, reads that see committed data only.
- **Association caches** are read, filled and extended in separate critical sections around
  statements, and know nothing of transactions. Correct means: what `load` returns could have been
  read by the caller, and a loaded cache holds each appended child once.
- **Schema apply** runs a reviewed list of operations later than it was reviewed. Correct means: it
  runs on the schema it was made for, reaches the target, loses nothing it was not allowed to lose,
  and leaves tables it does not manage alone.
- **The query builder** grows a tree of predicates by calls in any order, writes it as text with
  parentheses and numbered placeholders, and must keep an association's queries within its parent.
  Correct means: the rows selected are those the calls asked for.
- **Params** guess from the order of a form's entries which element of a list each belongs to. Correct
  means: no entry moves a value to another element or field, and what is stored reads back.
- **The schema history** is text split at tabs and newlines. Correct means: it reads back as what was
  applied.
- **Lazy and chunked queries** page by `OFFSET` through rows that change under them.
- **Records** find and then write in separate statements, write every column, and are held by callers
  while others change or delete their rows. Correct means: an Ok is true, nothing invalid is stored,
  nothing deleted comes back, and a transaction around a read and a write protects both.

## Modules

`Connection.tla` models `src/src/connection.rs`. Threads make calls; a call goes through the stages
of its code: check a reader out (or wait on the condition variable), lock the gate, lock the writer,
begin, run, unlock, return the reader. One action is one lock operation, one statement or one
return. The database is abstracted to a set of effects, one per write statement, and SQLite's
transaction state on the writer connection to a stack of savepoints with the image each would go
back to. `TX_STATE` is `tx` (depth and next savepoint number), the stack of running closures is
`names`. Errors, panics, failing `BEGIN`, `COMMIT`, `SAVEPOINT` and statements are actions; with
`AutoRollback` a failing statement takes the whole transaction with it, as SQLite's `INSERT OR
ROLLBACK` or a full disk does; the savepoint of a nested closure is then gone, and its `RELEASE` fails
after an Ok (`NestedReleaseFails`). A waiting exclusive locker may hold back shared ones
(`WriterPreference`), since `std::sync::RwLock` leaves that to the platform.

`TransactionalStore.tla` is what the manager promises: a serial store with nested transactions, no
locks and no savepoints, in which what a call or a nested closure reports is tied to what became of
its writes: success keeps them, a failure drops exactly them. `Connection` implements it by the
mapping at its end, which reads the nested frames off the differences between consecutive savepoint
images and the reports off `result`.

`HasManyCache.tla` models `HasMany` over the store `TransactionalStore` promises: one open
transaction, reads elsewhere see the committed rows. `load` is three steps (look at the cache, query,
store) and `append` two (insert, push), because the code lets the cache's mutex go in between. The
rows a query returns come in any order, since it has no `ORDER BY`.
`AppendRejected` is the insert whose primary key is refused afterwards: the row stays, the call
fails. `Clone` makes an unloaded cache, which is the initial one.

`BelongsToCache.tla` puts a `BelongsTo` value that the threads share beside it, over the same open
transaction, which may now hold children or changes to the parent. Its `load` is three steps as well
(look, find, keep); other threads clear, assign a key or a record, save and delete the parent. `current` is history: the versions the field may
still show since the last clear.

`Paging.tla` models the iterators of `lazy.rs` and `chunked.rs` over `QueryPlan`, with rows inserted
and deleted anywhere between two pages, and the eager forms over the same plan.

`QueryBuilder.tla` is how such a query comes to be: `Q`, `CombineQuery`, `OrderQuery`, `Limit`,
`Offset` and the wrappers are one action per fluent call, on a model's, an association's or an unbound
query; `CombineOther` builds the argument of `and` and `or`. `IntoClause` writes the tree as tokens the
way `combine_clauses` and `Comparison::into_clause` do, `Holds` reads them back with SQLite's precedence
and three-valued logic (`Expression[d]` are the trees of depth `d`, and the functions over them are indexed
by it), and `Asks`, `Both` and `Either` say what the calls meant, as sets of rows. Running
the query hands it to `Paging`.

`Params.tla` follows one field of a model from the entries of a form (`InsertEntry`: key segments,
`insert_path`) over the typed reading (`Deserialize`: the `Deserializer` of `ParamValue`) and the new
record of the allowed columns (`Create`) to the cell it is stored in (`ToSqlValue`) and back
(`FromSqlRow`). Names and raw text are tokens; what a text parses as is a constant. `Said` is the
reference: what the entries say of the field, one by one, without the tree.

`Records.tla` models what the methods of `model/mod.rs` and the code generated by `codegen.rs` do with
records of one model: a thread holds one value (new, persisted, or invalid in one of two ways), builds
it from a builder or params, assigns fields, and saves, finds, reloads or deletes it. Each call is one
statement and one action, except `create_or_update_by`, which is two (`UpsertFind`, `UpsertSave`).
Transactions are again those of `TransactionalStore`. The two columns stand for a field a validator may
refuse and a bool with a default, the two kinds that assignment treats differently. `birth` numbers the
rows that were ever inserted, since keys are given out again after a delete; `fresh` and `touched` are
history for the property about transactions.

`SchemaDiff.tla` holds the pure part of the schema component as operators: which operations and
blockers `diff` finds, their order (`plan_op_sort_key`; `PlanOps` gives every operation the place after
those that precede it), and what the statements of each operation do
to a table, its rows, its managed and its hand-made indexes, or when SQLite refuses them; `IsDatabase`
is what SQLite can hold. A cell holds an integer, a text or NULL. `Stored` is the column affinity of
SQLite, by which a rebuild's `INSERT ... SELECT` converts what it copies (`Copied`): a text that spells an
integer becomes it in an `INTEGER` column, an integer its text in a `TEXT` column; `NumberOf` and `TextOf`
say which texts and integers those are. Two texts can so become one integer, and `UNIQUE` refuse the
rebuild. A key's type is compared by its spelling, and only `INTEGER`, in any case, is one a rebuild takes
(`IsExactKey`). A table also has the order SQLite lists its columns and indexes in (`listed`), since the
operations carry the table as it was listed. `InsertRow` gives the next free key, as rows come without one.
`SchemaText.tla` adds how a schema comes to be and how it is recorded: the lists of tables models
register and their normal form, the canonical text (a sequence of tokens, tabs and newlines among them,
so that a default can hold one), and its reading back row by row. `Rows` are the rows of a schema with
the text each is written as, and their order, `ReadRow` adds a row's fields to the tables read so far
(`Holder` is the table it belongs to) and fills in a key that is left out, `Writable` is what names,
types and defaults may be.
`SchemaApply.tla` is the state machine around both: clients build plans, keep them, and apply them;
`Check` is `apply` up to `BEGIN IMMEDIATE` (introspection, fingerprint, operations, blockers, mode). The
fingerprint is of sorted definitions, the operations carry the live order of columns: `Replanned` can refuse
what `Drifted` lets pass, a table that was made anew with its columns in another order. `Apply`, `ApplyRejected` and `ApplyFails` are the transaction. With `OneProcess` the clients are
threads and the gate keeps everybody out from the comparison to the commit; without it they are
processes that share the file. Columns are compared as the code does, declared types by affinity.

`MCConnection`, `MCHasManyCache`, `MCAssociations`, `MCRecords`, `MCQuery`, `MCParams` and `MCSchemaApply`
give TLC their instances; `MCSchema` has two of `MCSchemaApply` in one run. The theorems are in
`ConnectionProofs`, `RecordsProofs`, `AssociationProofs`, `PagingProofs`, `QueryProofs` (on top of
`PagingProofs`), `ParamsProofs` and `SchemaProofs`; `FiniteLemmas` has what the last four share. Definitions
whose comment says "Mutant" are not part of the model: each is a faulty variant of the definition that
follows it, kept to show that the properties notice it.

## Runs

| Run | Question | Result |
|---|---|---|
| `conn_file` | three threads, one reader connection: are schema operations exclusive, is the pool conserved, are wakeups kept, does every call return? | holds |
| `conn_memory` | in-memory database, statements that may roll back the transaction: is the writer connection owned, left clean, and never read uncommitted? | holds |
| `conn_nested` | three nested transactions under two competing threads: do savepoints follow the closures, does failure leave nothing, is it the serial store? | holds |
| `conn_error_after_rollback` | does an error always take a transaction back? | violated: finding |
| `associations` | two threads, a `HasMany` value each and one `BelongsTo` value for both: are caches coherent, are loads committed, does a cleared parent stay cleared? | holds |
| `hasmany_shared_append` | the same with one value shared | violated: finding |
| `records` | two threads with records of one table, in transactions or not: is an Ok true, is what is stored valid, does nothing come back, what does a transaction protect? | holds |
| `params` | every form of up to four of 21 entries, read as every type, created and stored: is the field what the form said, does the cell read back? | holds |
| `schema_plans` | every change of one table between 51 definitions, with rows and hand-made indexes: does an apply reach its target or leave its source, does it keep what it should? Two threads that plan and apply over two tables, some made by hand; does the history read back? | holds |
| `schema_two_processes` | two tables from two processes | violated: finding |
| `schema_index_names` | does every plan without blockers apply, at least without rows? | violated: finding |
| `paging` | any query of two calls, of a model or an association, run and paged through with any limit up to 3, offset up to 1, chunk up to 2, over up to three changing rows: are its rows those asked for, are the pages the window, does a loop end? | holds |

Bounds. *Connection*: three threads are the fewest for which one holds a lock, one waits for it and one
holds what the first needs next, and for which two wait on the pool of one; two calls per thread, in
`conn_memory`, let a call meet what an earlier one left behind; three nested transactions are one more
than needed for a failing one between an outer and an inner one; the number of writes lets each nesting
level have one. Two threads suffice where the property is about a pair. *HasManyCache*: two children, so
that one is in the database before the other is appended; both stages of both calls of two threads cross
in every order. *Associations*: two versions of the parent and its deletion, so that a found one can be
outdated twice. *Records*: two threads for a race, one valid name so that two upserts look for the same
row, two keys a record can have and a third row whose key is refused; a key comes back after a delete
with three inserts. *Schema*: the one-table definitions vary one column through all combinations of two
integer spellings, text, nullability and default, plus the arrival and removal of a second column, the
renaming of the key, and an index that comes, goes, moves and changes uniqueness; two rows are the
fewest for a uniqueness conflict. A cell holds NULL or one of two texts of the integer 1, which an
`INTEGER` column stores as that integer; column 2 never holds the second of them, which keeps the run
within its time and leaves the conversions to column 1. Tables whose key is declared `integer` or `INT`
are rebuilt or blocked; one whose columns are listed in reverse has another order after it is made anew. A default with a tab makes the history unreadable, a table
registered twice, an index of an unknown column and a column named as the key make no schema. Two tables suffice for operations on one to disturb the other.
*Paging*: three rows with offset 1, limits 0 to 3 and chunks of 2 contain an empty window, a full chunk,
a short one, a limit inside a chunk and at its end. *QueryBuilder*: two calls after the first, each with an
argument of up to two predicates, nest AND in OR and OR in AND on both sides; the predicates have every
operator, with a value, with NULL and with a list that holds NULL; four rows are of the parent or not and
have an age, another or none. *Params*: four entries open an element, fill it, repeat a name and put
something between; three bits make integers that fit every type, only the unsigned one, or none.

`CHECK_DEADLOCK FALSE` is said for the schema runs, whose clients stop when their plans are used up, and
for `paging` and `params`, whose query or request ends. `records` always has a step. `Connection` says itself where it may
stop (`Terminating`), and deadlock is checked there.

Fairness. `conn_file` assumes that a thread that can take a step of the library or of its closure
eventually takes one, weakly: the scheduler runs threads, a closure does not run forever. Nothing is
assumed of who wins a contended lock or a wakeup; the number of calls is bounded, so that nobody can be
overtaken forever, which the code does not prevent either. `paging` assumes the loop goes on asking
for pages once it has begun (`WF` on `Iterate(Fetch)`); nobody has to run a query.

## Findings

1. `conn_error_after_rollback`: a closure that goes on after a statement rolled the transaction back
   writes in autocommit mode, and the error it returns takes nothing back (`README.md:35` says it does).
   `FailureLeavesNothing` and `ImplementsStore` are therefore checked without such statements.
2. `hasmany_shared_append`: threads that share one `HasMany` value can leave its cache without a child
   whose `append` returned, or with the child twice.
3. `schema_two_processes`: `apply` compares the live schema before `BEGIN IMMEDIATE`; another process
   can change it in between.
4. `schema_index_names`: operations run creates before drops, and generated index names can coincide
   between tables; a plan that replaces one such table by another has no blockers and always fails.

Four observations that contradict no promise of the repository are in the models as they are: a
`belongs_to` id above the largest i64 is written and can no longer be read (`StoredValuesReadBack`); a
default that holds a tab or a newline makes the history unreadable, and with it every later plan
(`HistoryReadsBack`); a rebuild that turns a `TEXT` column into an `INTEGER` one, since a field changed
its type, takes the leading zeros of `'007'` with it, which no blocker says (`TargetTablesKeepTheirRows`
promises what the cells stand for, not how they were written); an entry with an empty name makes a list of the map it stands in and discards what
that held (`Said`).

## Proofs

`ConnectionProofs.tla` proves of `Spec`, for every set of threads and readers and all bounds, from
`ConnectionAssumption` alone (finitely many threads and readers, the two markers are not a thread and not
a connection, bounds are natural numbers, switches are booleans):

- `TypeCorrectness`: `[]TypeOK`;
- `ExclusiveExclusion`: `[]ExclusiveRunsAlone`;
- `WriterOwnership`: `[]WriterConnectionIsOwned`, also for the raw pointer in `TX_STATE`;
- `PoolConservation`: `[]PoolConserved`;
- `NoLeak`: `[]NoTransactionLeaks`, with statements that roll back the transaction included;
- `WakeupSafety`: `[]NoLostWakeup`, a thread waits only while every free connection has a thread on its way;
- `CommittedReads`: `ReadsAreCommitted`, an action property, from the invariant at its start.

The exclusion properties are not inductive: that nobody else is inside says nothing about who holds
which lock. `IInv` adds that. `LockInv` ties each lock to the stage and the call of its holder, in both
directions (so that a lock has one holder at most because a variable has one value), and says that
transaction state exists only inside a transaction closure. `ClosureInv` ties the depth in `TX_STATE` to
the closures on the stack. `SqlInv` says that SQLite has a transaction open only while some closure
runs, that without one the writer's view is the committed database, and that the bottom savepoint's
image is the committed database. The proof goes part by part (`StepControlType` and `StepSqlType`,
`StepLockInv`, `StepClosureInv`, `StepSqlInv`, `StepPool`), each by a case per action, over lemmas on
what each SQLite statement does to the savepoint stack (`PositionRange`, `Cut`, the `Sql...Type` and
`Sql...Quiet` lemmas); `SpecIInv` combines them and each theorem follows from `IInv`. `NoLostWakeup` is
inductive beside the types: `StepWakeup` compares the free connections with the threads awake for one,
by the cardinality theorems for finite sets (`WakeupsKept` for the many steps that disturb neither).
`ReadsAreCommitted` uses that a reader who is not inside a closure holds either a connection of the pool,
which shows the committed database, or the writer, which by `SqlInv` has no transaction open then.

Its second half goes on from `IInv`, under the hypothesis `~AutoRollback`: a statement that takes
the whole transaction with it falsifies all four theorems, as `conn_error_after_rollback` shows.

- `SavepointsAgree`: `[]SavepointsMatchClosures`;
- `FailuresLeaveNothing`: `[]FailureLeavesNothing`; `ErrorsRollBack`: the sentence of `src/README.md:35`;
- `ImplementsSerialStore`: `Spec => ImplementsStore`, the refinement of `TransactionalStore`.

`TxInv` adds three parts to `IInv`. `StackInv`: a thread's savepoint names ascend and are those SQLite has
open, in the same order above `BEGIN`; that the newest agree, which is what `SavepointsMatchClosures`
says, would not survive a release. `ImageInv`: each savepoint's image is part of the next one's, so that
going back to one undoes all that came after. `EffectInv`: every effect has its writer, nothing is
uncommitted but writes of the thread in the closure, nothing of a call is committed before it reports.
For the refinement `FramesAre` reads the store's nested frames off the savepoints, the lemmas `BeginOpens`,
`WriteWrites`, `WriteCommits`, `SavepointNests`, `NestedKeeps`, `NestedDrops` and `ClosureEnds` map the
statements to the store's actions, and every other step stutters (`StepStore`).

`RecordsProofs.tla`, for any threads, bounds, names and validator: `RecordsTypeOK`, `RowsStayValid`,
`NothingResurrects`, `SavesAreStored`, `NoUpdateIsLost`, `UpsertsDecideOnce`, the invariants and action
properties of the run `records`. `RecordsInv` needs more than types: `DatabaseInv` that rows and births
match in the table and in the open transaction; `HandInv` that a record has a key exactly when its type
says so; `FreshInv` that, in its transaction, a thread's record differs from its row only where it
assigned; `UpsertInv` that between the two statements of `create_or_update_by` the table matches what the
first found. The last two hold because `OthersWait`: while a transaction is open nobody else writes.

`AssociationProofs.tla`, over `AssociationsSpec`: `AssociationsAreTyped`; `ClearsAreLasting`
(`[]ClearedParentIsReread`), where `ParentInv` says that what the parent's cache holds, what a load has
found and what one could find next all date from after the last clear; and under `IsInjective(FieldOf)`
`LoadedCachesAreCoherent`, `LoadsShowNoOthersTransaction` and `CachedChildrenKeepTheirPlaces`. The
hypothesis is that every thread has its own `HasMany` value; `hasmany_shared_append` shows what becomes
of a shared one. `FieldInv` speaks of the calls in flight: a load that has not stored finds the cache
still empty, a pushed child is not yet in it, and what was appended and can be seen is in the cache or in
the rows a load is about to store.

`PagingProofs.tla`, of `Paging`'s own `Spec`, for every limit, offset and chunk size: `PagingTypeOK`,
`WindowIsKept`, `ChunksAreFull`, `EagerFormsAlwaysAgree` and `IterationsEndWithAll`. That only the last page may be short
is not inductive; `FullInv` adds that an iterator that goes on has full pages so far.

`QueryProofs.tla`, of `QueryBuilder`'s `QuerySpec`, for any rows, predicates and numbers of calls:

- `PlansMeanTheCalls` (`[]PlanMeansTheCalls`): the query is refused exactly when a call was invalid or it
  has no source, its placeholders are numbered through, and its rows are those the calls asked for;
- `AssociationsStayScoped` (`AssociationStaysScoped`);
- `QueriesPage` and `QueriesEndWithAll`: what `PagingProofs` shows of pages holds of any built query.

There is no induction over trees in it. What `Holds` does with a clause is told by where it starts and
ends: `Judges` says that a clause, between any parentheses and with the parameters its marks point to,
leads from an open level to one that is true exactly when it should be. `Writes` says that of the clause of a
tree written after `n` parameters, for every `n`, since the tree may later stand on the right of another;
`Grows` says it at every depth from some number of calls on; `Tracks` says it of the query and, for an
association, that its own filters stay beside the parent's predicate. Each call keeps it (`QueryInv`),
as AND, OR and the comparisons do (`Both`, `Either`, `Asks`). `QueryPagingInv` adds to the invariant of
`PagingProofs` that nothing has been paged while the query is built.

`ParamsProofs.tla`, for any entries, types, words and width of integers:

- `ValuesReadBack` (`[]StoredValuesReadBack`): `FieldInv` says that a record is saved with a value of the
  field's type and that the cell is its conversion; `AsU64` undoes `AsI64` by the arithmetic of powers of
  two, whatever the width;
- `FormsAreRead` (`[]ReadsWhatWasSent`): `InsertPath` is two recursions, down the path and up again
  (`PathIs`), of which `FirstSteps` takes as many steps as the field needs; `RootTaken` and
  `BelowRootTaken` say what a path that ends above, beside or at the field does to what is taken there, and
  `AddsToField` that the rest of the path does to it what the reference says. The hypothesis is that the
  field's own keys reach no deeper than a list of lists or of maps: below that the reference says nothing,
  since the entry-by-entry reading would be `insert_path` itself. Keys of other fields are of any depth.

`SchemaProofs.tla`, for any models, databases and numbers of clients:

- `SchemaTypeOK`: `[]TypeOK`: whatever is applied, rows keep keys of their own and their table's columns,
  cells are as their column's type stores them, `NOT NULL` and `UNIQUE` hold, index names are unique, and what runs is the plan, operation by operation;
- `SafePlansLoseNothing`: `SafeApplyLosesNothing`, with several processes too;
- with `OneProcess`: `PlansRunOnTheirSource` (`RunsOnPlannedSource`), `TargetTablesKeepRows`
  (`TargetTablesKeepTheirRows`: rows, keys and hand-made indexes, the cells of a column whose affinity
  stays, of another what they stand for) and `PlansReachTheirTarget` (`ApplyReachesTarget`: an apply
  reaches the target, or fails and leaves the source). A second process can
  change the schema between the comparison and the transaction (`schema_two_processes`), which falsifies
  each of them;
- with `OneProcess` and an `owner` that gives every index name its one table, in the databases to start
  from and in all models together: `PlansAreAccepted` (`UnblockedPlansApply`). The code does not see to
  such an owner (`schema_index_names`); the databases and models of the run `schema_plans` have one;
- `HistoryAlwaysReadsBack` (`[]HistoryReadsBack`), with several processes too: a text of the history that
  can be read is read as the schema applied last, and it can be read if none of its defaults holds a tab
  or a newline;
- with `OneProcess`: `OthersAreLeftAlone` (`OnlyManagedTablesChange`), which needs the history to be right.

`Runs` turns a list that SQLite accepts into the databases on its way (`Passes`), one lemma per kind of
operation shows that it leads from database to database (`CreateTableKeeps` ... `RebuildKeeps`), and
`StepHolds` that it keeps the rows of a table (`Holds`: each of its columns has the type it had or, after
the one rebuild a plan has for it, the type that gives it; `StoredMeansTheSame` says that what is stored
stands for what was there). `SchemaInv` ties an apply in flight to what it compared
(`ApplyInv`): some database had the plan's source, its difference to the target was the plan's
operations, without blockers, and in one process it is the live one, since only one apply is in flight
(`AloneInv`) and nobody else passes the gate. A plan reaches its target because each of its operations
runs once (`OpsOnce`: as many places in the list as operations), each changes its own table only
(`OwnTable`, where index names being unique matters for `DROP INDEX`) and `Between` says which part of
the way a table has come; their order is not needed for it, since SQLite accepts a `CREATE INDEX` only
after the `DROP INDEX` of its name.

That SQLite does accept it is `PlansAreAccepted`, and there the order matters. `PlanOrder` shows that
`PlanOps`, which picks for each place the operation with so many before it, is a list in which every
operation comes after all that precede it: `Precedes` is a strict total order of the operations
(`PrecedesIsOrder`), and a list that ranks a finite set by such an order has each element once and in
order (`RankedLists` of `FiniteLemmas`).
`OnTheWay` adds to `Reached` that a table no operation has come to is as it was, so that a table is there
to be rebuilt or dropped and not there to be created (`AloneIsAccepted`), and on a table that is only
altered an index finds its column added and its old namesake dropped (`PlainIsAccepted`). Every index on
the way is one its table had or will have (`WayIsOwned`), so two tables never meet in a name;
`OwnedInv` carries that from apply to apply.

For the history, `SplitGlues` says that text is split at newlines line by line, `LineIsRead` that the line
of a row is read as that row, or refused when a separator in a default breaks it up, and
`RankedLists` that the rows come in the order of the code, a table before its columns and indexes.
`TablesRead` is what has been read after some of the rows: those tables, with those columns and indexes.
`NormalizedIsStorable` says that what the models' normal form gives can be written so, and `HistoryInv`
that the history is the text of the last target applied. For `OthersAreLeftAlone`, `ManagedInv` says that
the tables a plan has seen are in its target or managed, since the last target was.

Recursion. No induction theorem of the library can be used, since they take an operator as a parameter.
`FiniteLemmas` has what the proofs need instead: the least element of a set of naturals (`Smallest`), a
count that reaches its end (`Counting`), that a recursive function over an interval or over `Nat` exists and is
unique (`UnfoldsUpTo`, `UnfoldsAgree`, `UnfoldsOnNat`), and with them the lemmas on `FlattenSeq` and on
what is folded over a sequence (`FoldExists`, `FoldSteps`, `FoldAppend`).

What the proofs changed in the models. A query without `ORDER BY` may return its rows in any order, and
`HasMany`'s load now does; `saved` was missing from the variables of `Records` that a stutter keeps;
`TypeOK` of the schema runs did not say that keys are unique, without which "keeps its rows" means
little, and now covers everything a table must satisfy (`IsDatabase`), which is also the assumption on
the databases to start from. Recursion over trees, keys and texts became functions, as the provers take
no `RECURSIVE` operator, and sorting and selecting became a choice by rank.

Only model-checked: liveness (`EveryCallReturns`, `LimitedIterationEnds`), which the prover does not reach,
and what the four runs that expect a violation show.

## Not modelled

- `Connection`: opening the global manager and the query log; row closures that call back into the
  library; more than one error kind.
- Records: primary keys the caller gives, `create_table`, `unique` columns other than as a statement
  that fails. A record whose key was given out again after a delete is taken for the new row by `save`
  and `delete`; the code promises nothing else.
- Params: floats, bytes, raw SQL values and fields whose `SqlField` is the user's; types that nest more
  than two deep around a plain one; in the reference, keys of the field below a list of lists or of maps.
- The registry is a linker section read once. The macro runs at compile time; the SQL text is modelled by
  what it does. FNV-1a is taken to have no collisions.
- Schema: the SQL text that tells whether a view or trigger depends on a table (a flag of the table
  here), names and types with tabs or newlines, defaults with more than one tab or newline (the text of one
  could spell rows of its own) and carriage returns, triggers replayed by a rebuild, the temporary table, a plan read in several statements while
  another process writes.
- Schema: the affinities `BLOB`, `REAL` and `NUMERIC`, to and from which numbers are converted by other
  rules; a key that is no integer (models have none, and a rebuild of such a table is blocked); the
  rollback of a failing apply, statement by statement (SQLite's, one step of the model).
- SQLite itself: only what the library relies on, in the definitions marked external in `PROJECT.json`.
  In `Paging`, offsets stay below what SQLite can read, and equal rows keep one order between queries.

## Plan

1. `Connection` with its store, runs and invariant proofs: done.
2. `HasManyCache` and `BelongsToCache`, `SchemaDiff`, `SchemaText` and `SchemaApply`, `Paging` and
   `QueryBuilder`, `Records`, `Params`: done.
3. `Records`: given primary keys, `create_table`.
4. `Connection`: initialisation and the query log, row closures that call back.
5. Proofs of the transactions and the refinement, of `Records`, the associations, `Paging`, `QueryBuilder`,
   `Params`, the schema plans and the schema history: done.
6. `PlansAreAccepted` for tables with rows: which columns and rows make a unique index or a `NOT NULL`
   column fail that diff did not see.
