----------------------------- MODULE Migrations -----------------------------
(***************************************************************************)
(* The database part of New in a rolling deploy: several boots bring one   *)
(* SQL database up to the schema (Migrate) or check that it is             *)
(* (CheckSchema) while the application writes to it, crash at any point    *)
(* and are started again.                                                  *)
(*                                                                         *)
(* The database is the set of the objects it has: tables, columns, unique  *)
(* constraints and indexes, plain indexes, foreign keys and composite      *)
(* constraints.  A batch of DDL is one step on PostgreSQL and SQLite,      *)
(* where it is a transaction; on MySQL every statement is one.  Reading    *)
(* the columns of a table is a step of its own, and so is the question     *)
(* whether it has a constraint, which the code answers with yes when the   *)
(* query fails.                                                            *)
(***************************************************************************)
EXTENDS Naturals, Sequences, FiniteSets, SequencesExt

CONSTANTS
  Boots,         \* processes that call New
  Verifiers,     \* those with DisableAutoMigrate and VerifySchema
  Dialects,      \* engines, of {"postgres", "mysql", "sqlite"}
  Tables,        \* the tables of the schema, in registration order
  Fields,        \* table -> its fields but "id", in order
  Unique, Index, References,   \* fields so declared, as <<table, field>>
  Composite,     \* table -> the columns of its composite constraint, or {}
  Before,        \* engine -> databases a deploy may find, sets of objects
  MaxCrashes, MaxTimeouts, MaxDuplicates   \* bounds

Object(kind, t, f) == [kind |-> kind, table |-> t, field |-> f]
Table(t) == Object("table", t, "")
Column(t, f) == Object("column", t, f)
CompositeOn(t) == Object("composite", t, "")

FieldsOf(t) == Range(Fields[t])

\* The fields of t that are in F, in order.
FieldsIn(t, F) ==
  LET at == {i \in DOMAIN Fields[t] : Fields[t][i] \in F}
  IN  [k \in 1 .. Cardinality(at) |->
         Fields[t][CHOOSE i \in at : Cardinality({j \in at : j < i}) = k - 1]]

ASSUME MigrationsAssumption ==
  /\ Verifiers \subseteq Boots /\ "free" \notin Boots
  /\ Dialects \subseteq {"postgres", "mysql", "sqlite"}
  /\ {MaxCrashes, MaxTimeouts, MaxDuplicates} \subseteq Nat

\* A schema has tables, a table names a field once, and a field that is unique on
\* its own is not part of the composite constraint as well.
ASSUME SchemaAssumption ==
  /\ Tables \in Seq(Range(Tables)) /\ Tables # <<>>
  /\ \A t \in Range(Tables) : Fields[t] \in Seq(FieldsOf(t)) /\ IsInjective(Fields[t])
  /\ \A p \in Unique : /\ p[1] \in Range(Tables) /\ p[2] \in FieldsOf(p[1]) \ Composite[p[1]]
                       /\ p = <<p[1], p[2]>>

\* The databases that Migrate gets through, duplicates aside: on MySQL an index or a
\* foreign key is of a column that is there, and on PostgreSQL a table that exists
\* has the columns that pass one indexes.
LeftBehind(engine, d) ==
  /\ engine = "mysql" =>
       \A o \in d : o.kind \in {"index", "fk"} => Column(o.table, o.field) \in d
  /\ engine = "postgres" =>
       \A t \in Range(Tables) : Table(t) \in d =>
         \A f \in FieldsOf(t) : <<t, f>> \in Index \ Unique => Column(t, f) \in d

ASSUME BeforeAssumption == \A e \in Dialects : \A d \in Before[e] : LeftBehind(e, d)

VARIABLES
  dialect,
  found,     \* the objects the database had before the deploy
  db,        \* the objects the database has
  dups,      \* constraints that rows of the database do not satisfy
  lock,      \* the boot that holds the advisory lock, or "free"
  boot,      \* what each boot is doing
  crashes, timeouts, duplicates   \* crashes, lock timeouts, duplicates written so far

migrationsVars == <<dialect, found, db, dups, lock, boot, crashes, timeouts, duplicates>>
counters == <<crashes, timeouts, duplicates>>

\* Everything the schema declares.
Declared ==
  UNION {{Table(t)} \cup {Column(t, f) : f \in FieldsOf(t)} : t \in Range(Tables)}
Constraints ==
  {Object("unique", p[1], p[2]) : p \in Unique}
  \cup {CompositeOn(t) : t \in {u \in Range(Tables) : Composite[u] # {}}}

-----------------------------------------------------------------------------
(* DDL: a statement is its operation and the object it is about *)

Stmt(op, t, f) == [op |-> op, table |-> t, field |-> f]
Each(op, t, fs) == [i \in DOMAIN fs |-> Stmt(op, t, fs[i])]

\* CreateTableSQL: IF NOT EXISTS, with every constraint inline; the indexes
\* only on MySQL.
CreatedWith(engine, t) ==
  {Table(t)} \cup {Column(t, f) : f \in FieldsOf(t)}
  \cup {Object("unique", t, f) : f \in {g \in FieldsOf(t) : <<t, g>> \in Unique}}
  \cup {Object("fk", t, f) : f \in {g \in FieldsOf(t) : <<t, g>> \in References}}
  \cup (IF Composite[t] # {} THEN {CompositeOn(t)} ELSE {})
  \cup (IF engine # "mysql" THEN {}
        ELSE {Object("index", t, f) : f \in {g \in FieldsOf(t) : <<t, g>> \in Index \ Unique}})

\* CreateIndexSQL: none on MySQL.
CreateIndexSQL(t) ==
  IF dialect = "mysql" THEN <<>>
  ELSE Each("indexIfNotExists", t,
            FieldsIn(t, {f \in FieldsOf(t) : <<t, f>> \in Index \ Unique}))

\* addIndexSQL: MySQL has no IF NOT EXISTS.
addIndexSQL(t, f) == Stmt(IF dialect = "mysql" THEN "index" ELSE "indexIfNotExists", t, f)

\* AddColumnSQL: the column, the foreign key apart on MySQL, the unique index
\* apart on SQLite, the plain index.
AddColumnSQL(t, f) ==
  <<Stmt("addColumn", t, f)>>
  \o (IF <<t, f>> \in References /\ dialect = "mysql" THEN <<Stmt("addForeignKey", t, f)>> ELSE <<>>)
  \o (IF <<t, f>> \in Unique /\ dialect = "sqlite" THEN <<Stmt("uniqueIfNotExists", t, f)>>
      ELSE IF <<t, f>> \in Index /\ <<t, f>> \notin Unique THEN <<addIndexSQL(t, f)>> ELSE <<>>)

\* uniqueIndexSQL: SQLite only.
uniqueIndexSQL(t) ==
  IF dialect # "sqlite" THEN <<>>
  ELSE Each("uniqueIfNotExists", t, FieldsIn(t, {f \in FieldsOf(t) : <<t, f>> \in Unique}))

\* The object a statement makes, and what it makes.
Target(s) ==
  CASE s.op = "createTable" -> Table(s.table)
    [] s.op = "addColumn" -> Column(s.table, s.field)
    [] s.op = "addForeignKey" -> Object("fk", s.table, s.field)
    [] s.op \in {"index", "indexIfNotExists"} -> Object("index", s.table, s.field)
    [] s.op = "uniqueIfNotExists" -> Object("unique", s.table, s.field)
    [] s.op \in {"composite", "compositeIfNotExists"} -> CompositeOn(s.table)

Makes(engine, s) ==
  CASE s.op = "createTable" -> CreatedWith(engine, s.table)
    [] s.op = "addColumn" ->
         {Target(s)}
         \cup (IF <<s.table, s.field>> \in Unique /\ engine # "sqlite"
               THEN {Object("unique", s.table, s.field)} ELSE {})
         \cup (IF <<s.table, s.field>> \in References /\ engine # "mysql"
               THEN {Object("fk", s.table, s.field)} ELSE {})
    [] OTHER -> {Target(s)}

Idempotent(s) ==
  s.op \in {"createTable", "indexIfNotExists", "uniqueIfNotExists",
            "compositeIfNotExists"}

\* How the database answers a statement on the objects d: "exists" when it is
\* there and the statement does not say IF NOT EXISTS, "missing" when its column
\* is not there, "duplicates" when rows contradict it.
Answer(d, s) ==
  CASE Target(s) \in d -> IF Idempotent(s) THEN "ok" ELSE "exists"
    [] Target(s) \notin d /\ Target(s) \in dups -> "duplicates"
    [] Target(s) \notin d /\ Target(s) \notin dups ->
         IF s.op \in {"index", "indexIfNotExists", "uniqueIfNotExists", "addForeignKey"}
            /\ Column(s.table, s.field) \notin d
         THEN "missing" ELSE "ok"

After(engine, d, s) == IF Target(s) \in d THEN d ELSE d \cup Makes(engine, s)

\* A batch: the objects there are before it and after each of its statements; its
\* answer is the first that is not "ok".
BatchStates(engine, d, stmts) ==
  LET states[i \in 0 .. Len(stmts)] == IF i = 0 THEN d ELSE After(engine, states[i - 1], stmts[i])
  IN  states
BatchAfter(engine, d, stmts) == BatchStates(engine, d, stmts)[Len(stmts)]
BatchAnswer(d, stmts) ==
  LET states == BatchStates(dialect, d, stmts)
      answer(i) == Answer(states[i - 1], stmts[i])
      bad == {i \in DOMAIN stmts : answer(i) # "ok"}
  IN  IF bad = {} THEN "ok" ELSE answer(CHOOSE i \in bad : \A j \in bad : i <= j)

-----------------------------------------------------------------------------
(* Boots *)

\* pass 0: not begun; 1 to 4: the pass of Migrate and the table it is at; todo:
\* the batches of DDL left before the next look at the schema; trusted: the constraints
\* that are not there and that it took to be, when asking for them failed.  A boot
\* ends "ready" or "failed", with the answer that failed it.
AtRest == [state |-> "idle", pass |-> 0, at |-> 1, looked |-> FALSE, todo |-> <<>>,
           trusted |-> {}, why |-> "ok"]

Migrating(b) == boot[b].state = "migrating"
At(b) == Tables[boot[b].at]

\* Mutant: the lock is given back only when Migrate succeeds.
FinishLocked(b, state, why, trusted) ==
  /\ boot' = [boot EXCEPT ![b] =
                [AtRest EXCEPT !.state = state, !.why = why, !.trusted = trusted]]
  /\ lock' = IF lock = b /\ state = "ready" THEN "free" ELSE lock

\* The end of Migrate, with the deferred unlock.
Finish(b, state, why, trusted) ==
  /\ boot' = [boot EXCEPT ![b] =
                [AtRest EXCEPT !.state = state, !.why = why, !.trusted = trusted]]
  /\ lock' = IF lock = b THEN "free" ELSE lock

\* Mutant: MySQL and PostgreSQL are not locked either.
LockForMigrationNone(b) ==
  /\ boot[b].state = "idle" /\ b \notin Verifiers
  /\ boot' = [boot EXCEPT ![b].state = "migrating", ![b].pass = 1]
  /\ UNCHANGED <<dialect, found, db, dups, lock, counters>>

\* lockForMigration: an advisory lock; none on SQLite.
lockForMigration(b) ==
  /\ boot[b].state = "idle" /\ b \notin Verifiers
  /\ IF dialect = "sqlite" THEN UNCHANGED lock ELSE lock = "free" /\ lock' = b
  /\ boot' = [boot EXCEPT ![b].state = "migrating", ![b].pass = 1]
  /\ UNCHANGED <<dialect, found, db, dups, counters>>

\* GET_LOCK gives up after 60 seconds.
LockTimeout(b) ==
  /\ timeouts < MaxTimeouts
  /\ dialect = "mysql" /\ boot[b].state = "idle" /\ b \notin Verifiers /\ lock # "free"
  /\ timeouts' = timeouts + 1
  /\ Finish(b, "failed", "timeout", {})
  /\ UNCHANGED <<dialect, found, db, dups, crashes, duplicates>>

\* The next table of the pass, the next pass, or the end of Migrate.
Advance(b) ==
  IF boot[b].at < Len(Tables)
  THEN /\ boot' = [boot EXCEPT ![b].at = @ + 1, ![b].looked = FALSE]
       /\ UNCHANGED lock
  ELSE IF boot[b].pass < 4
  THEN /\ boot' = [boot EXCEPT ![b].at = 1, ![b].looked = FALSE, ![b].pass = @ + 1]
       /\ UNCHANGED lock
  ELSE Finish(b, "ready", "ok", boot[b].trusted)

\* eachMissing: the declared columns the table lacks, in order.
eachMissing(t) == FieldsIn(t, {f \in FieldsOf(t) : Column(t, f) \notin db})

\* A unique index, or the one behind an inline constraint, has exactly the
\* columns of the composite constraint; or a query of the check has failed.
compositeUniqueIndexPresent(t, failed) == CompositeOn(t) \in db \cup failed

compositeUniqueIndexSQL(t) ==
  Stmt(IF dialect = "mysql" THEN "composite" ELSE "compositeIfNotExists", t, "")

\* ensureCompositeUniques, for one table: PostgreSQL is not asked.
ensureCompositeUniques(t, failed) ==
  IF Composite[t] = {} \/ (dialect \in {"sqlite", "mysql"} /\ compositeUniqueIndexPresent(t, failed))
  THEN <<>>
  ELSE <<<<compositeUniqueIndexSQL(t)>>>>

\* Mutant: no pass re-issues the unique indexes.
BatchesNoUniquePass(b, failed) ==
  LET t == At(b) IN
  CASE boot[b].pass = 1 -> <<(<<Stmt("createTable", t, "")>> \o CreateIndexSQL(t))>>
    [] boot[b].pass = 2 ->
         [i \in DOMAIN eachMissing(t) |-> AddColumnSQL(t, eachMissing(t)[i])]
    [] boot[b].pass = 3 -> <<>>
    [] boot[b].pass = 4 -> ensureCompositeUniques(t, failed)

\* What a pass does with a table, from what it reads of the database: create it
\* and its indexes; add the missing columns, a batch each; re-issue the unique
\* indexes; add the composite constraint, unless the check for it failed.
Batches(b, failed) ==
  LET t == At(b) IN
  CASE boot[b].pass = 1 -> <<(<<Stmt("createTable", t, "")>> \o CreateIndexSQL(t))>>
    [] boot[b].pass = 2 ->
         [i \in DOMAIN eachMissing(t) |-> AddColumnSQL(t, eachMissing(t)[i])]
    [] boot[b].pass = 3 -> IF uniqueIndexSQL(t) = <<>> THEN <<>> ELSE <<uniqueIndexSQL(t)>>
    [] boot[b].pass = 4 -> ensureCompositeUniques(t, failed)

\* The constraints that a failed check makes the pass take to be there.
Asked(b) ==
  {c \in Constraints \ db : /\ boot[b].pass = 4 /\ dialect \in {"sqlite", "mysql"}
                            /\ c = CompositeOn(At(b))}

\* One look at the database.
Look(b) ==
  /\ Migrating(b) /\ ~boot[b].looked
  /\ \E failed \in SUBSET Asked(b) :
       boot' = [boot EXCEPT ![b].looked = TRUE, ![b].todo = Batches(b, failed),
                            ![b].trusted = @ \cup failed]
  /\ UNCHANGED <<dialect, found, db, dups, lock, counters>>

\* applyTableDDL: a batch in a transaction.
ApplyBatch(b) ==
  /\ Migrating(b) /\ boot[b].looked /\ boot[b].todo # <<>>
  /\ dialect # "mysql"
  /\ LET batch == Head(boot[b].todo) IN
     IF BatchAnswer(db, batch) = "ok"
     THEN /\ db' = BatchAfter(dialect, db, batch)
          /\ boot' = [boot EXCEPT ![b].todo = Tail(@)]
          /\ UNCHANGED lock
     ELSE UNCHANGED db /\ Finish(b, "failed", BatchAnswer(db, batch), {})
  /\ UNCHANGED <<dialect, found, dups, counters>>

\* applyTableDDL on MySQL: statement by statement.
ApplyStatement(b) ==
  /\ Migrating(b) /\ boot[b].looked /\ boot[b].todo # <<>>
  /\ dialect = "mysql"
  /\ LET batch == Head(boot[b].todo)
         rest == IF Len(batch) = 1 THEN Tail(boot[b].todo)
                 ELSE <<Tail(batch)>> \o Tail(boot[b].todo)
     IN  IF Answer(db, Head(batch)) = "ok"
         THEN /\ db' = After(dialect, db, Head(batch))
              /\ boot' = [boot EXCEPT ![b].todo = rest]
              /\ UNCHANGED lock
         ELSE UNCHANGED db /\ Finish(b, "failed", Answer(db, Head(batch)), {})
  /\ UNCHANGED <<dialect, found, dups, counters>>

\* The table is done with.
NextTable(b) ==
  /\ Migrating(b) /\ boot[b].looked /\ boot[b].todo = <<>>
  /\ Advance(b)
  /\ UNCHANGED <<dialect, found, db, dups, counters>>

\* sqliteUniqueIndexPresent: some unique index has the column, or a query failed.
UniqueIndexPresent(t, f, failed) ==
  \/ Object("unique", t, f) \in db \cup failed
  \/ CompositeOn(t) \in db /\ f \in Composite[t]

\* Inspect: SchemaDrift.Empty.  Constraints are looked at on SQLite only.
NoDrift(failed) ==
  /\ Declared \subseteq db
  /\ dialect = "sqlite" =>
       /\ \A p \in Unique : UniqueIndexPresent(p[1], p[2], failed)
       /\ \A t \in Range(Tables) : Composite[t] # {} => compositeUniqueIndexPresent(t, failed)

\* CheckSchema.
CheckSchema(b) ==
  /\ boot[b].state = "idle" /\ b \in Verifiers
  /\ \E failed \in SUBSET (IF dialect = "sqlite" THEN Constraints \ db ELSE {}) :
       IF NoDrift(failed) THEN Finish(b, "ready", "ok", failed)
       ELSE Finish(b, "failed", "drift", {})
  /\ UNCHANGED <<dialect, found, db, dups, counters>>

\* The process dies: its session goes, and with it the lock.
Crash(b) ==
  /\ crashes < MaxCrashes
  /\ Migrating(b)
  /\ crashes' = crashes + 1
  /\ boot' = [boot EXCEPT ![b] = AtRest]
  /\ lock' = IF lock = b THEN "free" ELSE lock
  /\ UNCHANGED <<dialect, found, db, dups, timeouts, duplicates>>

\* A boot that failed is tried again, once rows that kept it from adding a
\* constraint have been removed (DuplicateRowsError).
Retry(b) ==
  /\ boot[b].state = "failed"
  /\ boot' = [boot EXCEPT ![b] = AtRest]
  /\ dups' = IF boot[b].why = "duplicates" THEN {} ELSE dups
  /\ UNCHANGED <<dialect, found, db, lock, counters>>

\* The application writes rows that a constraint would refuse, where it is not
\* in the database yet.
WriteDuplicate(c) ==
  /\ duplicates < MaxDuplicates
  /\ c \notin db /\ Table(c.table) \in db
  /\ c.kind = "unique" => Column(c.table, c.field) \in db
  /\ c.kind = "composite" => \A f \in Composite[c.table] : Column(c.table, f) \in db
  /\ dups' = dups \cup {c} /\ duplicates' = duplicates + 1
  /\ UNCHANGED <<dialect, found, db, lock, boot, crashes, timeouts>>

-----------------------------------------------------------------------------
MigrationsInit ==
  /\ dialect \in Dialects
  /\ db \in Before[dialect] /\ found = db /\ dups = {}
  /\ lock = "free" /\ boot = [b \in Boots |-> AtRest]
  /\ crashes = 0 /\ timeouts = 0 /\ duplicates = 0

Step(b) ==
  \/ lockForMigration(b) \/ Look(b) \/ ApplyBatch(b) \/ ApplyStatement(b) \/ NextTable(b)
  \/ CheckSchema(b)

MigrationsNext ==
  \/ \E b \in Boots : Step(b) \/ LockTimeout(b) \/ Crash(b) \/ Retry(b)
  \/ \E c \in Constraints : WriteDuplicate(c)

\* A running Migrate goes on, one that waits for the lock gets it when it is
\* free time and again, and a supervisor starts a failed boot again.
MigrationsFairness ==
  \A b \in Boots : /\ SF_migrationsVars(lockForMigration(b))
                   /\ WF_migrationsVars(Step(b)) /\ WF_migrationsVars(Retry(b))

MigrationsSpec == MigrationsInit /\ [][MigrationsNext]_migrationsVars /\ MigrationsFairness

-----------------------------------------------------------------------------
(* Properties *)

\* No migration makes these: PostgreSQL and MySQL get a unique constraint with its
\* column, in one statement, so that a column which was there without its own stays so.
NeverMade ==
  IF dialect = "sqlite" THEN {}
  ELSE {Object("unique", p[1], p[2]) : p \in {q \in Unique : Column(q[1], q[2]) \in found}} \ found

\* "Fail startup on schema drift rather than at the first query": once New has
\* returned in any process, every declared table and column is there, and after
\* a Migrate, or a check on SQLite, every unique constraint that a migration
\* can make, but those the boot itself could not ask for, although earlier
\* migrations were cut off and other boots ran beside this one.
ReadyMeansComplete ==
  \A b \in Boots : boot[b].state = "ready" =>
    /\ Declared \subseteq db
    /\ b \notin Verifiers \/ dialect = "sqlite" =>
         Constraints \subseteq db \cup boot[b].trusted \cup NeverMade

\* "Serialise concurrent migrations (rolling deploy) so two boots do not both
\* run ADD COLUMN": on the engines with an advisory lock no boot fails over an
\* object that another boot has made in the meantime.
BootsDoNotCollide ==
  dialect # "sqlite" => \A b \in Boots : boot[b].why \notin {"exists", "missing"}

\* "The lock dies with the session": with failed boots started again and
\* duplicate rows removed, every boot comes to serve, on every engine, whatever
\* crashes, lock timeouts and duplicates there were on the way; but a check keeps
\* failing where the migrations are over and one of them could not ask for a
\* constraint.
MigrationConverges ==
  LET leftOut == {c \in Constraints \ db : \E b \in Boots : c \in boot[b].trusted}
  IN  <>(\A b \in Boots : boot[b].state = "ready" \/ (b \in Verifiers /\ leftOut # {}))
=============================================================================
