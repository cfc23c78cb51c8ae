----------------------------- MODULE Migration -----------------------------
(***************************************************************************)
(* Versioned SQL migrations: operators run cmd/migrate (up, down, version, *)
(* force) against one database, at once and from builds that know          *)
(* different versions, and services that boot call AutoMigrateIfNeeded     *)
(* (internal/database/migrator.go) on the same tables.                     *)
(*                                                                         *)
(* golang-migrate keeps the version and a dirty flag in the database.  It  *)
(* holds a session lock while it works, marks the version it is going to   *)
(* as dirty, runs the body of the migration, and clears the flag.  A body  *)
(* is one transaction on postgres; on mysql every statement commits by     *)
(* itself, and its CREATE INDEX and DROP INDEX have no IF [NOT] EXISTS.    *)
(* The repository has migration 1; every later one is given its shape: a   *)
(* table and two indexes.                                                  *)
(***************************************************************************)
EXTENDS Naturals, Sequences

CONSTANTS
  Clis,         \* processes of cmd/migrate that may run at once
  NoCli,        \* nobody
  Latest,       \* the newest version any build knows
  Known,        \* Known[c]: the newest version embedded in the build of c
  Deployments   \* the DB_DRIVER and APP_ENV the processes may share

ASSUME MigrationAssumption ==
  /\ Latest \in Nat \ {0}
  /\ Known \in [Clis -> 1..Latest]
  /\ NoCli \notin Clis
  /\ Deployments \subseteq {"postgres", "mysql", "sqlite"} \X {"dev", "prod"}
  /\ <<"sqlite", "prod">> \notin Deployments  \* config.Validate

VARIABLES
  driver,   \* DB_DRIVER
  env,      \* APP_ENV
  schema,   \* the objects in the database, <<version, part>>
  version,  \* schema_migrations.version, 0 for none
  dirty,    \* schema_migrations.dirty
  lock,     \* who holds golang-migrate's lock
  pc,       \* pc[c]: the call c is at
  cmd,      \* cmd[c]: its command
  at,       \* at[c]: the next statement of the body it runs
  result,   \* result[c]: how its last command ended
  misled,   \* a force named a version the schema was not at
  drifted   \* an AutoMigrate changed a schema that is under versions

database == <<schema, version, dirty>>
settings == <<driver, env>>
vars == <<driver, env, schema, version, dirty, lock, pc, cmd, at, result, misled, drifted>>

\* In the order of 000001_create_tasks.up.sql; the down file goes backwards.
Statements == <<"table", "deleted_at", "done">>
Parts == {"table", "deleted_at", "done"}
Objects == (1..Latest) \X Parts
SchemaOf(v) == (1..v) \X Parts

\* The objects of the versions before v and what is there of v when the
\* statements for it stop early.
Partial == {{}, {"table"}, {"table", "deleted_at"}, Parts}
UpTo(v, p) == SchemaOf(v - 1) \cup ({v} \X p)

\* force takes any number: one the build has no file for is Latest + 1.
\* Arguments that are no command make the command "usage".
Command == [op : {"up", "down", "version", "usage"}, to : {0}]
             \cup [op : {"force"}, to : 0..Latest + 1]
NoCommand == [op |-> "none", to |-> 0]

Working == {"read", "run", "clear", "force", "unlock"}
Stages == {"idle", "open", "report", "lock"} \cup Working
Results == {"done", "failed", "no migration"}

TypeOK ==
  /\ settings \in Deployments
  /\ schema \subseteq Objects
  /\ version \in 0..Latest + 1
  /\ dirty \in BOOLEAN
  /\ lock \in Clis \cup {NoCli}
  /\ pc \in [Clis -> Stages]
  /\ cmd \in [Clis -> Command \cup {NoCommand}]
  /\ at \in [Clis -> {1, 2, 3}]
  /\ result \in [Clis -> Results]
  /\ misled \in BOOLEAN /\ drifted \in BOOLEAN

Init ==
  /\ \E d \in Deployments : driver = d[1] /\ env = d[2]
  /\ schema = {} /\ version = 0 /\ dirty = FALSE
  /\ lock = NoCli
  /\ pc = [c \in Clis |-> "idle"]
  /\ cmd = [c \in Clis |-> NoCommand]
  /\ at = [c \in Clis |-> 1]
  /\ result = [c \in Clis |-> "done"]
  /\ misled = FALSE /\ drifted = FALSE

-----------------------------------------------------------------------------
Goto(c, s) == pc' = [pc EXCEPT ![c] = s]

\* The process returns r; the lock it may hold goes with its session.
Exit(c, r) ==
  /\ Goto(c, "idle")
  /\ result' = [result EXCEPT ![c] = r]
  /\ cmd' = [cmd EXCEPT ![c] = NoCommand]
  /\ at' = [at EXCEPT ![c] = 1]

FreeLock(c) == lock' = IF lock = c THEN NoCli ELSE lock

\* Up, Steps and Force release the lock whatever r they return.
Leave(c, r) ==
  /\ Goto(c, "unlock")
  /\ result' = [result EXCEPT ![c] = r]

Start(c) ==
  /\ pc[c] = "idle"
  /\ driver # "sqlite"
  /\ \E k \in Command : cmd' = [cmd EXCEPT ![c] = k]
  /\ result' = [result EXCEPT ![c] = "done"]
  /\ Goto(c, "open")
  /\ UNCHANGED <<settings, database, lock, at, misled, drifted>>

\* run refuses before it opens anything: there are no migrations of sqlite,
\* and a key-value DSN of postgres, which the service takes, is no URL.
Refuse(c) ==
  /\ pc[c] = "idle"
  /\ driver \in {"sqlite", "postgres"}
  /\ Exit(c, "failed")
  /\ UNCHANGED <<settings, database, lock, misled, drifted>>

\* NewWithSourceInstance takes the lock to make sure of its version table
\* and gives it back.
Open(c) ==
  /\ pc[c] = "open"
  /\ lock = NoCli
  /\ Goto(c, IF cmd[c].op \in {"version", "usage"} THEN "report" ELSE "lock")
  /\ UNCHANGED <<settings, database, lock, cmd, at, result, misled, drifted>>

\* Version takes no lock; without a version it is ErrNilVersion.
Report(c) ==
  /\ pc[c] = "report" /\ cmd[c].op = "version"
  /\ Exit(c, IF version = 0 THEN "no migration" ELSE "done")
  /\ UNCHANGED <<settings, database, lock, misled, drifted>>

\* The arguments are read with the database open.
Usage(c) ==
  /\ pc[c] = "report" /\ cmd[c].op = "usage"
  /\ Exit(c, "failed")
  /\ UNCHANGED <<settings, database, lock, misled, drifted>>

Lock(c) ==
  /\ pc[c] = "lock"
  /\ lock = NoCli
  /\ lock' = c
  /\ Goto(c, IF cmd[c].op = "force" THEN "force" ELSE "read")
  /\ UNCHANGED <<settings, database, cmd, at, result, misled, drifted>>

\* Mutated: a dirty version is run again.
Blocked_DirtyToo(c) ==
  \/ version > Known[c]
  \/ cmd[c].op = "down" /\ version = 0

\* ErrDirty; a version without a file in this build; down without a version.
Blocked(c) ==
  \/ dirty
  \/ version > Known[c]
  \/ cmd[c].op = "down" /\ version = 0

\* Mutated: every error of Up and Steps passes for ErrNoChange.
ReadBlocked_NoChange(c) ==
  /\ pc[c] = "read"
  /\ Blocked(c)
  /\ Leave(c, "done")
  /\ UNCHANGED <<settings, database, lock, cmd, at, misled, drifted>>


ReadBlocked(c) ==
  /\ pc[c] = "read"
  /\ Blocked(c)
  /\ Leave(c, "failed")
  /\ UNCHANGED <<settings, database, lock, cmd, at, misled, drifted>>

\* The last version is reached; that nothing had to be done is no error.
ReadLatest(c) ==
  /\ pc[c] = "read"
  /\ ~Blocked(c)
  /\ cmd[c].op = "up" /\ version = Known[c]
  /\ Leave(c, "done")
  /\ UNCHANGED <<settings, database, lock, cmd, at, misled, drifted>>

\* SetVersion(target, true).
Mark(c) ==
  /\ pc[c] = "read"
  /\ ~Blocked(c)
  /\ \/ cmd[c].op = "up" /\ version # Known[c] /\ version' = version + 1
     \/ cmd[c].op = "down" /\ version' = version - 1
  /\ dirty' = TRUE
  /\ Goto(c, "run")
  /\ UNCHANGED <<settings, schema, lock, cmd, at, result, misled, drifted>>

\* The version whose file c runs: marked is where it leads to.
Running(c) == IF cmd[c].op = "up" THEN version ELSE version + 1

Part(c) == IF cmd[c].op = "up" THEN Statements[at[c]]
           ELSE Statements[Len(Statements) + 1 - at[c]]

\* mysql has no IF [NOT] EXISTS for an index.
StatementFails(c) ==
  /\ driver = "mysql"
  /\ Part(c) # "table"
  /\ (cmd[c].op = "up") <=> (<<Running(c), Part(c)>> \in schema)

\* A dropped table takes its indexes along.
Apply(c, parts) ==
  IF cmd[c].op = "up" THEN schema \cup ({Running(c)} \X parts)
  ELSE schema \ ({Running(c)} \X IF "table" \in parts THEN Parts ELSE parts)

RunBody(c) ==
  /\ pc[c] = "run"
  /\ driver = "postgres"
  /\ schema' = Apply(c, Parts)
  /\ Goto(c, "clear")
  /\ UNCHANGED <<settings, version, dirty, lock, cmd, at, result, misled, drifted>>

\* Mutated: the next body starts where this one ended.
RunStatement_NoReset(c) ==
  /\ pc[c] = "run"
  /\ driver = "mysql"
  /\ ~StatementFails(c)
  /\ schema' = Apply(c, {Part(c)})
  /\ IF at[c] = Len(Statements) THEN Goto(c, "clear") ELSE pc' = pc
  /\ at' = [at EXCEPT ![c] = at[c] + 1]
  /\ UNCHANGED <<settings, version, dirty, lock, cmd, result, misled, drifted>>


RunStatement(c) ==
  /\ pc[c] = "run"
  /\ driver = "mysql"
  /\ ~StatementFails(c)
  /\ schema' = Apply(c, {Part(c)})
  /\ IF at[c] = Len(Statements)
     THEN Goto(c, "clear") /\ at' = [at EXCEPT ![c] = 1]
     ELSE pc' = pc /\ at' = [at EXCEPT ![c] = at[c] + 1]
  /\ UNCHANGED <<settings, version, dirty, lock, cmd, result, misled, drifted>>

RunFails(c) ==
  /\ pc[c] = "run"
  /\ StatementFails(c)
  /\ Leave(c, "failed")
  /\ UNCHANGED <<settings, database, lock, cmd, at, misled, drifted>>

\* SetVersion(target, false); up goes on to the next version.
Clear(c) ==
  /\ pc[c] = "clear"
  /\ dirty' = FALSE
  /\ IF cmd[c].op = "up" THEN Goto(c, "read") /\ result' = result ELSE Leave(c, "done")
  /\ UNCHANGED <<settings, schema, version, lock, cmd, at, misled, drifted>>

\* Force believes what it is told.
ForceVersion(c) ==
  /\ pc[c] = "force"
  /\ version' = cmd[c].to
  /\ dirty' = FALSE
  /\ misled' = (misled \/ schema # SchemaOf(cmd[c].to))
  /\ Leave(c, "done")
  /\ UNCHANGED <<settings, schema, lock, cmd, at, drifted>>

\* An error of the unlock joins the result.
Unlock(c) ==
  /\ pc[c] = "unlock"
  /\ FreeLock(c)
  /\ \E r \in {result[c], "failed"} : Exit(c, r)
  /\ UNCHANGED <<settings, database, misled, drifted>>

\* A statement fails, or mysql gives up waiting for the lock.
Fail(c) ==
  /\ pc[c] \notin {"idle", "unlock"}
  /\ IF pc[c] \in Working THEN Leave(c, "failed") /\ UNCHANGED <<cmd, at>>
     ELSE Exit(c, "failed")
  /\ UNCHANGED <<settings, database, lock, misled, drifted>>

\* Mutated: the lock is a row in a table, which outlives the session.
Crash_KeepsLock(c) ==
  /\ pc[c] # "idle"
  /\ Exit(c, "failed")
  /\ UNCHANGED <<settings, database, lock, misled, drifted>>

\* The process or its connection dies, at any point.
Crash(c) ==
  /\ pc[c] # "idle"
  /\ FreeLock(c)
  /\ Exit(c, "failed")
  /\ UNCHANGED <<settings, database, misled, drifted>>

\* Mutated: allowed in prod.
AutoMigrateIfNeeded_Everywhere ==
  /\ \E v \in 1..Latest, p \in Partial : schema' = schema \cup UpTo(v, p)
  /\ drifted' = (drifted \/ schema' # schema)
  /\ UNCHANGED <<settings, version, dirty, lock, pc, cmd, at, result, misled>>

\* A service boots with DB_AUTO_MIGRATE: GORM adds what its build misses,
\* the table before its indexes, and may fail after any of it.
AutoMigrateIfNeeded ==
  /\ driver = "sqlite" \/ env # "prod"
  /\ \E v \in 1..Latest, p \in Partial : schema' = schema \cup UpTo(v, p)
  /\ drifted' = (drifted \/ schema' # schema)
  /\ UNCHANGED <<settings, version, dirty, lock, pc, cmd, at, result, misled>>

Step(c) ==
  \/ Start(c) \/ Refuse(c) \/ Open(c) \/ Report(c) \/ Usage(c) \/ Lock(c)
  \/ ReadBlocked(c) \/ ReadLatest(c) \/ Mark(c)
  \/ RunBody(c) \/ RunStatement(c) \/ RunFails(c) \/ Clear(c)
  \/ ForceVersion(c) \/ Unlock(c) \/ Fail(c) \/ Crash(c)

Next ==
  \/ \E c \in Clis : Step(c)
  \/ AutoMigrateIfNeeded

Spec == Init /\ [][Next]_vars

-----------------------------------------------------------------------------
\* Nobody vouched wrongly for the schema, nobody changed it past the
\* versions.  In prod no AutoMigrate may have.
Honest == ~misled /\ (env = "prod" \/ ~drifted)

\* Whoever reads, runs and writes versions holds the lock, so what it read
\* still holds when it writes; and the lock belongs to somebody who will give
\* it back, also after a failure or a crash: nobody waits for a dead migrate.
LockOfTheWorker == \A c \in Clis : pc[c] \in Working <=> lock = c

\* version and dirty tell what is in the database: clean, exactly the objects
\* of the version; dirty, something between the version and a neighbour, and
\* on postgres one of the two exactly, so that a truthful force exists.  It is
\* what an operator relies on after a crash half way through a migration.
VersionTellsSchema ==
  Honest =>
    IF dirty
    THEN \E v \in {version, version + 1} \ {0}, p \in Partial :
           /\ schema = UpTo(v, p)
           /\ driver = "postgres" => p \in {{}, Parts}
    ELSE schema = SchemaOf(version)

\* When migrate up ends well, which the compose file waits for before it
\* starts the service, the database is clean and at the version of that
\* build, with its objects, whatever other operators and crashes came before.
UpDone ==
  [][\A c \in Clis :
       pc[c] # "idle" /\ cmd[c].op = "up" /\ pc'[c] = "idle" /\ result'[c] = "done" =>
         /\ version = Known[c] /\ ~dirty
         /\ Honest => schema = SchemaOf(Known[c])]_vars

\* README.md:246: version shows the version and the dirty state.  So "no
\* migration" should be said of a clean database only.
VersionShowsDirty ==
  [][\A c \in Clis : pc[c] = "report" /\ result'[c] = "no migration" => ~dirty]_vars

-----------------------------------------------------------------------------
(***************************************************************************)
(* A migration is under way while the holder of the lock is between its    *)
(* two SetVersion calls.                                                   *)
(***************************************************************************)
Migrating(c) == pc[c] \in {"run", "clear"}

Body == IF lock # NoCli /\ Migrating(lock) THEN cmd[lock].op ELSE "none"

History == INSTANCE SchemaHistory WITH body <- Body, trusted <- Honest

\* Whatever operators, builds, services, failures and crashes meet, the
\* database goes through one migration after the other, none starts on a dirty
\* database, none touches the objects of another version, and none ends clean
\* with half its objects (main.go:74-98, migrator.go:21-33).
ImplementsHistory == History!Spec

=============================================================================
