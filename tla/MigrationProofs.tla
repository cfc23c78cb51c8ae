-------------------------- MODULE MigrationProofs --------------------------
(***************************************************************************)
(* Proofs about Migration: whatever builds and operators there are, the    *)
(* version and the dirty flag tell what is in the database unless a force  *)
(* did not, and a successful up means what it says.                        *)
(***************************************************************************)
EXTENDS Migration, TLAPS

USE MigrationAssumption

-----------------------------------------------------------------------------
(* Schemas.                                                                *)

\* The statements come in the order table, deleted_at, done.
LEMMA StatementOrder ==
  /\ Len(Statements) = 3
  /\ Statements[1] = "table" /\ Statements[2] = "deleted_at" /\ Statements[3] = "done"
BY DEF Statements

\* A whole migration leads from one version to the next.
LEMMA WholeMigration ==
  ASSUME NEW v \in Nat \ {0}
  PROVE  UpTo(v, {}) = SchemaOf(v - 1) /\ UpTo(v, Parts) = SchemaOf(v)
<1>1. UpTo(v, {}) = SchemaOf(v - 1)
  BY DEF UpTo
<1>2. 1..v = (1..(v - 1)) \cup {v}
  OBVIOUS
<1>3. UpTo(v, Parts) = SchemaOf(v)
  BY <1>2 DEF UpTo, SchemaOf
<1> QED BY <1>1, <1>3

\* A DROP takes its part away and leaves the other versions alone.
LEMMA DropPart ==
  ASSUME NEW v \in Nat, NEW p \in SUBSET Parts, NEW q \in SUBSET Parts
  PROVE  UpTo(v, p) \ ({v} \X q) = UpTo(v, p \ q)
<1>1. \A e \in SchemaOf(v - 1) : e \notin {v} \X q
  BY DEF SchemaOf
<1> QED BY <1>1 DEF UpTo

\* A whole body creates and drops all of its version.
LEMMA WholeBody ==
  ASSUME NEW v \in Nat
  PROVE  /\ UpTo(v, {}) \cup ({v} \X Parts) = UpTo(v, Parts)
         /\ UpTo(v, Parts) \ ({v} \X Parts) = UpTo(v, {})
<1>1. UpTo(v, {}) \cup ({v} \X Parts) = UpTo(v, Parts)
  BY DEF UpTo
<1>2. \A e \in SchemaOf(v - 1) : e \notin {v} \X Parts
  BY DEF SchemaOf
<1> QED BY <1>1, <1>2 DEF UpTo

\* The migrations of the known versions create known objects only.
LEMMA KnownObjects ==
  ASSUME NEW v \in 1..Latest, NEW p \in SUBSET Parts
  PROVE  {v} \X p \subseteq Objects /\ UpTo(v, p) \subseteq Objects
BY DEF Objects, UpTo, SchemaOf

-----------------------------------------------------------------------------
(* The invariant.                                                          *)

\* The statement counter is off its start only inside a body of mysql.
AtStart == \A c \in Clis : pc[c] \notin {"run", "unlock"} \/ driver # "mysql" => at[c] = 1

StageOfCommand == \A c \in Clis :
  /\ pc[c] = "open" => cmd[c] \in Command
  /\ pc[c] = "lock" => cmd[c].op \in {"up", "down", "force"}
  /\ pc[c] \in {"read", "run", "clear"} => cmd[c].op \in {"up", "down"}
  /\ pc[c] = "force" => cmd[c].op = "force"

\* A body runs for a known version that is marked.
Marked == \A c \in Clis : pc[c] \in {"run", "clear"} =>
  /\ dirty
  /\ Running(c) \in 1..Latest

\* The parts of a version there are after the first n CREATEs.
FirstParts(n) ==
  IF n = 0 THEN {} ELSE IF n = 1 THEN {"table"}
  ELSE IF n = 2 THEN {"table", "deleted_at"} ELSE Parts

Created(c) == IF cmd[c].op = "up" THEN FirstParts(at[c] - 1) ELSE FirstParts(4 - at[c])

\* While a body runs, the schema is as far as its statements.
Progress == Honest => \A c \in Clis :
  /\ pc[c] = "run" => schema = UpTo(Running(c), Created(c))
  /\ pc[c] = "clear" => schema = SchemaOf(version)

\* An up that is about to end well.
Finished == \A c \in Clis :
  pc[c] = "unlock" /\ cmd[c].op = "up" /\ result[c] = "done" => version = Known[c] /\ ~dirty

NoDriftInProd == env = "prod" => ~drifted

IInv ==
  /\ TypeOK /\ LockOfTheWorker /\ AtStart /\ StageOfCommand /\ Marked
  /\ Finished /\ NoDriftInProd /\ Progress /\ VersionTellsSchema

LEMMA InitIInv == Init => IInv
<1> SUFFICES ASSUME Init PROVE IInv
  OBVIOUS
<1>1. SchemaOf(0) = {}
  BY DEF SchemaOf
<1>2. TypeOK
  <2>1. settings \in Deployments
    <3>1. PICK d \in Deployments : driver = d[1] /\ env = d[2]
      BY DEF Init
    <3>2. d = <<d[1], d[2]>>
      OBVIOUS
    <3> QED BY <3>1, <3>2 DEF settings
  <2>2. schema \subseteq Objects /\ version \in 0..Latest + 1
    BY DEF Init
  <2>3. /\ dirty \in BOOLEAN /\ misled \in BOOLEAN /\ drifted \in BOOLEAN
        /\ lock \in Clis \cup {NoCli} /\ pc \in [Clis -> Stages]
        /\ at \in [Clis -> {1, 2, 3}] /\ result \in [Clis -> Results]
    BY DEF Init, Stages, Results
  <2>4. cmd \in [Clis -> Command \cup {NoCommand}]
    BY DEF Init
  <2> QED BY <2>1, <2>2, <2>3, <2>4 DEF TypeOK
<1>3. LockOfTheWorker /\ AtStart /\ StageOfCommand /\ Marked /\ Finished /\ NoDriftInProd /\ Progress
  BY DEF Init, LockOfTheWorker, AtStart, StageOfCommand, Marked, Finished, NoDriftInProd, Progress, Working
<1>4. VersionTellsSchema
  BY <1>1 DEF Init, VersionTellsSchema
<1> QED BY <1>2, <1>3, <1>4 DEF IInv

\* What the actions are made of.
USE DEF settings, database, Goto, Exit, Leave, FreeLock

LEMMA PartIsPart == ASSUME TypeOK, NEW c \in Clis PROVE Part(c) \in Parts
<1>1. at[c] \in {1, 2, 3}
  BY DEF TypeOK
<1> QED BY <1>1, StatementOrder DEF Part, Parts

LEMMA CommandTarget == \A k \in Command \cup {NoCommand} : k.to \in 0..Latest + 1
BY DEF Command, NoCommand

LEMMA TypeStep == ASSUME IInv, Next PROVE TypeOK'
<1> USE DEF TypeOK, NoCommand, Working, Stages, Results
<1>0. TypeOK
  BY DEF IInv
<1>1. CASE AutoMigrateIfNeeded
  <2>1. \A v \in 1..Latest, p \in Partial : UpTo(v, p) \subseteq Objects
    BY KnownObjects DEF Partial, Parts
  <2> QED BY <1>0, <1>1, <2>1 DEF AutoMigrateIfNeeded
<1>2. ASSUME NEW c \in Clis, Step(c) PROVE TypeOK'
  <2>1. CASE Start(c)
    <3>1. PICK k \in Command : cmd' = [cmd EXCEPT ![c] = k]
      BY <2>1 DEF Start
    <3>2. cmd' \in [Clis -> Command \cup {NoCommand}]
      BY <1>0, <3>1
    <3> QED BY <1>0, <2>1, <3>2 DEF Start
  <2>2. CASE Refuse(c)
    BY <1>0, <2>2 DEF Refuse
  <2>3. CASE Open(c) \/ Lock(c)
    BY <1>0, <2>3 DEF Open, Lock
  <2>4. CASE Report(c)
    BY <1>0, <2>4 DEF Report
  <2>5. CASE Usage(c)
    BY <1>0, <2>5 DEF Usage
  <2>6. CASE ReadBlocked(c) \/ ReadLatest(c) \/ RunFails(c)
    BY <1>0, <2>6 DEF ReadBlocked, ReadLatest, RunFails
  <2>7. CASE Mark(c)
    <3>0. Known[c] \in 1..Latest /\ version <= Known[c] /\ version \in Nat
      <4>1. Known[c] \in 1..Latest /\ version \in 0..Latest + 1
        BY <1>0
      <4>2. ~(version > Known[c])
        BY <2>7 DEF Mark, Blocked
      <4> QED BY <4>1, <4>2
    <3>1. version' \in 0..Latest + 1
      <4>1. CASE version' = version + 1
        BY <3>0, <4>1
      <4>2. CASE cmd[c].op = "down" /\ version' = version - 1
        BY <3>0, <2>7, <4>2 DEF Mark, Blocked
      <4> QED BY <2>7, <4>1, <4>2 DEF Mark
    <3> QED BY <1>0, <2>7, <3>1 DEF Mark
  <2>8. CASE RunBody(c)
    <3>1. Running(c) \in 1..Latest
      BY <2>8 DEF RunBody, Marked, IInv
    <3>2. {Running(c)} \X Parts \subseteq Objects
      BY <3>1, KnownObjects
    <3>3. Apply(c, Parts) \subseteq Objects
      BY <1>0, <3>2 DEF Apply
    <3> QED BY <1>0, <2>8, <3>3 DEF RunBody
  <2>9. CASE RunStatement(c)
    <3>1. Running(c) \in 1..Latest
      BY <2>9 DEF RunStatement, Marked, IInv
    <3>2. {Part(c)} \in SUBSET Parts
      BY <1>0, PartIsPart
    <3>3. {Running(c)} \X {Part(c)} \subseteq Objects
      BY <3>1, <3>2, KnownObjects
    <3>4. Apply(c, {Part(c)}) \subseteq Objects
      BY <1>0, <3>3 DEF Apply
    <3>5. at' \in [Clis -> {1, 2, 3}]
      <4>1. at[c] \in {1, 2, 3}
        BY <1>0
      <4>2. at[c] # 3 => at[c] + 1 \in {1, 2, 3}
        BY <4>1
      <4>3. CASE at[c] = 3
        <5>1. at' = [at EXCEPT ![c] = 1]
          BY <2>9, <4>3, StatementOrder DEF RunStatement
        <5> QED BY <1>0, <5>1
      <4>4. CASE at[c] # 3
        <5>1. at' = [at EXCEPT ![c] = at[c] + 1]
          BY <2>9, <4>4, StatementOrder DEF RunStatement
        <5> DEFINE next == at[c] + 1
        <5>2. next \in {1, 2, 3}
          BY <4>2, <4>4
        <5>3. at' = [at EXCEPT ![c] = next]
          BY <5>1
        <5> HIDE DEF next
        <5> QED BY <1>0, <5>2, <5>3
      <4> QED BY <4>3, <4>4
    <3> QED BY <1>0, <2>9, <3>4, <3>5 DEF RunStatement
  <2>10. CASE Clear(c)
    BY <1>0, <2>10 DEF Clear
  <2>11. CASE ForceVersion(c)
    <3>1. cmd[c].to \in 0..Latest + 1
      BY <1>0, CommandTarget
    <3> QED BY <1>0, <2>11, <3>1 DEF ForceVersion
  <2>12. CASE Unlock(c)
    <3>1. PICK r \in {result[c], "failed"} : Exit(c, r)
      BY <2>12 DEF Unlock
    <3>2. r \in Results
      BY <1>0, <3>1
    <3> QED BY <1>0, <2>12, <3>1, <3>2 DEF Unlock
  <2>13. CASE Fail(c)
    BY <1>0, <2>13 DEF Fail
  <2>14. CASE Crash(c)
    BY <1>0, <2>14 DEF Crash
  <2> QED BY <1>2, <2>1, <2>2, <2>3, <2>4, <2>5, <2>6, <2>7, <2>8, <2>9, <2>10,
             <2>11, <2>12, <2>13, <2>14 DEF Step
<1> QED BY <1>1, <1>2 DEF Next

-----------------------------------------------------------------------------
(* A step of one process leaves the others alone.                          *)

LEMMA Frame ==
  ASSUME TypeOK, NEW c \in Clis, Step(c), NEW d \in Clis, d # c
  PROVE  pc'[d] = pc[d] /\ cmd'[d] = cmd[d] /\ at'[d] = at[d] /\ result'[d] = result[d]
<1> USE DEF TypeOK
<1>1. CASE Start(c) \/ Refuse(c) \/ Open(c) \/ Report(c) \/ Usage(c) \/ Lock(c)
  BY <1>1 DEF Start, Refuse, Open, Report, Usage, Lock
<1>2. CASE ReadBlocked(c) \/ ReadLatest(c) \/ Mark(c)
  BY <1>2 DEF ReadBlocked, ReadLatest, Mark
<1>3. CASE RunBody(c) \/ RunStatement(c) \/ RunFails(c) \/ Clear(c)
  BY <1>3 DEF RunBody, RunStatement, RunFails, Clear
<1>4. CASE ForceVersion(c) \/ Unlock(c) \/ Fail(c) \/ Crash(c)
  BY <1>4 DEF ForceVersion, Unlock, Fail, Crash
<1> QED BY <1>1, <1>2, <1>3, <1>4 DEF Step

\* Only the holder of the lock changes the database.
LEMMA Writers ==
  ASSUME TypeOK, LockOfTheWorker, NEW c \in Clis, Step(c)
  PROVE  /\ UNCHANGED <<schema, version, dirty, misled>> \/ lock = c
         /\ UNCHANGED <<driver, env, drifted>>
<1> USE DEF LockOfTheWorker, Working
<1>1. CASE Start(c) \/ Refuse(c) \/ Open(c) \/ Report(c) \/ Usage(c) \/ Lock(c)
  BY <1>1 DEF Start, Refuse, Open, Report, Usage, Lock
<1>2. CASE ReadBlocked(c) \/ ReadLatest(c) \/ Mark(c)
  BY <1>2 DEF ReadBlocked, ReadLatest, Mark
<1>3. CASE RunBody(c) \/ RunStatement(c) \/ RunFails(c) \/ Clear(c)
  BY <1>3 DEF RunBody, RunStatement, RunFails, Clear
<1>4. CASE ForceVersion(c) \/ Unlock(c) \/ Fail(c) \/ Crash(c)
  BY <1>4 DEF ForceVersion, Unlock, Fail, Crash
<1> QED BY <1>1, <1>2, <1>3, <1>4 DEF Step

\* Every command that is none of version and usage is of the migrator.
LEMMA CommandOps == \A k \in Command : k.op \in {"up", "down", "version", "usage", "force"}
BY DEF Command

\* Taking and giving back the lock.
LEMMA OwnLock ==
  ASSUME TypeOK, LockOfTheWorker, StageOfCommand, NEW c \in Clis, Step(c)
  PROVE  /\ pc'[c] \in Working <=> lock' = c
         /\ lock' # c => lock' = lock \/ (lock = c /\ lock' = NoCli)
         /\ lock' = c => lock = c \/ lock = NoCli
<1>0. /\ pc \in [Clis -> Stages]
      /\ c # NoCli
      /\ pc[c] \in Working <=> lock = c
  BY DEF TypeOK, LockOfTheWorker
<1> USE <1>0 DEF Working
<1>1. CASE Start(c)
  <2>1. pc[c] = "idle" /\ pc'[c] = "open" /\ lock' = lock
    BY <1>1 DEF Start
  <2> QED BY <2>1
<1>2. CASE Refuse(c) \/ Report(c) \/ Usage(c)
  <2>1. pc[c] \in {"idle", "report"} /\ pc'[c] = "idle" /\ lock' = lock
    BY <1>2 DEF Refuse, Report, Usage
  <2> QED BY <2>1
<1>3. CASE Open(c)
  BY <1>3 DEF Open
<1>4. CASE Lock(c)
  BY <1>4 DEF Lock
<1>5. CASE ReadBlocked(c) \/ ReadLatest(c) \/ Mark(c)
  BY <1>5 DEF ReadBlocked, ReadLatest, Mark
<1>6. CASE RunBody(c) \/ RunFails(c) \/ RunStatement(c)
  BY <1>6 DEF RunBody, RunFails, RunStatement
<1>7. CASE Clear(c) \/ ForceVersion(c)
  BY <1>7 DEF Clear, ForceVersion
<1>8. CASE Unlock(c)
  BY <1>8 DEF Unlock
<1>9. CASE Fail(c)
  <2>1. pc'[c] = (IF pc[c] \in Working THEN "unlock" ELSE "idle") /\ lock' = lock
    BY <1>9 DEF Fail
  <2> QED BY <2>1
<1>10. CASE Crash(c)
  <2>1. pc'[c] = "idle" /\ lock' = IF lock = c THEN NoCli ELSE lock
    BY <1>10 DEF Crash
  <2> QED BY <2>1
<1> QED BY <1>1, <1>2, <1>3, <1>4, <1>5, <1>6, <1>7, <1>8, <1>9, <1>10 DEF Step

\* The counter of statements.
LEMMA OwnAt ==
  ASSUME TypeOK, AtStart, NEW c \in Clis, Step(c)
  PROVE  pc'[c] \notin {"run", "unlock"} \/ driver' # "mysql" => at'[c] = 1
<1>0. /\ pc \in [Clis -> Stages] /\ at \in [Clis -> {1, 2, 3}]
      /\ pc[c] \notin {"run", "unlock"} \/ driver # "mysql" => at[c] = 1
  BY DEF TypeOK, AtStart
<1> USE <1>0 DEF Working
<1>1. CASE Start(c)
  BY <1>1 DEF Start
<1>2. CASE Refuse(c) \/ Report(c) \/ Usage(c)
  BY <1>2 DEF Refuse, Report, Usage
<1>3. CASE Open(c)
  BY <1>3 DEF Open
<1>4. CASE Lock(c)
  BY <1>4 DEF Lock
<1>5. CASE ReadBlocked(c) \/ ReadLatest(c) \/ Mark(c)
  BY <1>5 DEF ReadBlocked, ReadLatest, Mark
<1>6. CASE RunBody(c) \/ RunFails(c)
  BY <1>6 DEF RunBody, RunFails
<1>7. CASE RunStatement(c)
  BY <1>7, StatementOrder DEF RunStatement
<1>8. CASE Clear(c) \/ ForceVersion(c)
  BY <1>8 DEF Clear, ForceVersion
<1>9. CASE Unlock(c)
  BY <1>9 DEF Unlock
<1>10. CASE Fail(c)
  BY <1>10 DEF Fail
<1>11. CASE Crash(c)
  BY <1>11 DEF Crash
<1> QED BY <1>1, <1>2, <1>3, <1>4, <1>5, <1>6, <1>7, <1>8, <1>9, <1>10, <1>11 DEF Step

\* A process is where its command leads.
LEMMA OwnStage ==
  ASSUME TypeOK, StageOfCommand, NEW c \in Clis, Step(c)
  PROVE  /\ pc'[c] = "open" => cmd'[c] \in Command
         /\ pc'[c] = "lock" => cmd'[c].op \in {"up", "down", "force"}
         /\ pc'[c] \in {"read", "run", "clear"} => cmd'[c].op \in {"up", "down"}
         /\ pc'[c] = "force" => cmd'[c].op = "force"
<1>0. /\ pc \in [Clis -> Stages] /\ cmd \in [Clis -> Command \cup {NoCommand}]
      /\ pc[c] = "open" => cmd[c] \in Command
      /\ pc[c] = "lock" => cmd[c].op \in {"up", "down", "force"}
      /\ pc[c] \in {"read", "run", "clear"} => cmd[c].op \in {"up", "down"}
      /\ pc[c] = "force" => cmd[c].op = "force"
  BY DEF TypeOK, StageOfCommand
<1> USE <1>0 DEF Working
<1>1. CASE Start(c)
  BY <1>1 DEF Start
<1>2. CASE Refuse(c) \/ Report(c) \/ Usage(c)
  BY <1>2 DEF Refuse, Report, Usage
<1>3. CASE Open(c)
  BY <1>3, CommandOps DEF Open
<1>4. CASE Lock(c)
  BY <1>4 DEF Lock
<1>5. CASE ReadBlocked(c) \/ ReadLatest(c) \/ Mark(c)
  BY <1>5 DEF ReadBlocked, ReadLatest, Mark
<1>6. CASE RunBody(c) \/ RunFails(c) \/ RunStatement(c)
  BY <1>6 DEF RunBody, RunFails, RunStatement
<1>7. CASE Clear(c) \/ ForceVersion(c)
  BY <1>7 DEF Clear, ForceVersion
<1>8. CASE Unlock(c)
  BY <1>8 DEF Unlock
<1>9. CASE Fail(c)
  BY <1>9 DEF Fail
<1>10. CASE Crash(c)
  BY <1>10 DEF Crash
<1> QED BY <1>1, <1>2, <1>3, <1>4, <1>5, <1>6, <1>7, <1>8, <1>9, <1>10 DEF Step

-----------------------------------------------------------------------------
(* The parts of the invariant that are about the processes.                *)

\* The lock changes hands from the worker to the worker.
LEMMA LockStep == ASSUME IInv, Next PROVE LockOfTheWorker'
<1>0. TypeOK /\ LockOfTheWorker /\ StageOfCommand
  BY DEF IInv
<1>1. CASE AutoMigrateIfNeeded
  BY <1>0, <1>1 DEF AutoMigrateIfNeeded, LockOfTheWorker, Working
<1>2. ASSUME NEW c \in Clis, Step(c), NEW d \in Clis
      PROVE  pc'[d] \in Working <=> lock' = d
  <2>1. CASE d = c
    BY <1>0, <1>2, <2>1, OwnLock
  <2>2. CASE d # c
    <3>1. pc'[d] = pc[d]
      BY <1>0, <1>2, <2>2, Frame
    <3>2. lock' = d <=> lock = d
      BY <1>0, <1>2, <2>2, OwnLock
    <3> QED BY <1>0, <3>1, <3>2 DEF LockOfTheWorker
  <2> QED BY <2>1, <2>2
<1>3. ASSUME NEW c \in Clis, Step(c) PROVE LockOfTheWorker'
  BY <1>2, <1>3 DEF LockOfTheWorker, Working
<1> QED BY <1>1, <1>3 DEF Next

\* The counter is off its start where it was.
LEMMA AtStep == ASSUME IInv, Next PROVE AtStart'
<1>0. TypeOK /\ LockOfTheWorker /\ AtStart
  BY DEF IInv
<1>1. CASE AutoMigrateIfNeeded
  BY <1>0, <1>1 DEF AutoMigrateIfNeeded, AtStart
<1>2. ASSUME NEW c \in Clis, Step(c), NEW d \in Clis
      PROVE  pc'[d] \notin {"run", "unlock"} \/ driver' # "mysql" => at'[d] = 1
  <2>1. CASE d = c
    BY <1>0, <1>2, <2>1, OwnAt
  <2>2. CASE d # c
    <3>1. pc'[d] = pc[d] /\ at'[d] = at[d] /\ driver' = driver
      BY <1>0, <1>2, <2>2, Frame, Writers
    <3> QED BY <1>0, <3>1 DEF AtStart
  <2> QED BY <2>1, <2>2
<1>3. ASSUME NEW c \in Clis, Step(c) PROVE AtStart'
  BY <1>2, <1>3 DEF AtStart
<1> QED BY <1>1, <1>3 DEF Next

\* Everybody stays where his command leads.
LEMMA StageStep == ASSUME IInv, Next PROVE StageOfCommand'
<1>0. TypeOK /\ StageOfCommand
  BY DEF IInv
<1>1. CASE AutoMigrateIfNeeded
  BY <1>0, <1>1 DEF AutoMigrateIfNeeded, StageOfCommand
<1>2. ASSUME NEW c \in Clis, Step(c), NEW d \in Clis
      PROVE  /\ pc'[d] = "open" => cmd'[d] \in Command
             /\ pc'[d] = "lock" => cmd'[d].op \in {"up", "down", "force"}
             /\ pc'[d] \in {"read", "run", "clear"} => cmd'[d].op \in {"up", "down"}
             /\ pc'[d] = "force" => cmd'[d].op = "force"
  <2>1. CASE d = c
    BY <1>0, <1>2, <2>1, OwnStage
  <2>2. CASE d # c
    <3>1. pc'[d] = pc[d] /\ cmd'[d] = cmd[d]
      BY <1>0, <1>2, <2>2, Frame
    <3> QED BY <1>0, <3>1 DEF StageOfCommand
  <2> QED BY <2>1, <2>2
<1>3. ASSUME NEW c \in Clis, Step(c) PROVE StageOfCommand'
  BY <1>2, <1>3 DEF StageOfCommand
<1> QED BY <1>1, <1>3 DEF Next

\* Nobody migrates automatically in prod.
LEMMA DriftStep == ASSUME IInv, Next PROVE NoDriftInProd'
<1>0. TypeOK /\ LockOfTheWorker /\ NoDriftInProd
  BY DEF IInv
<1>1. CASE AutoMigrateIfNeeded
  <2>1. env # "prod"
    BY <1>0, <1>1 DEF AutoMigrateIfNeeded, TypeOK
  <2> QED BY <1>1, <2>1 DEF AutoMigrateIfNeeded, NoDriftInProd
<1>2. ASSUME NEW c \in Clis, Step(c) PROVE NoDriftInProd'
  BY <1>0, <1>2, Writers DEF NoDriftInProd
<1> QED BY <1>1, <1>2 DEF Next

\* While d works or has worked, nobody else writes.
LEMMA OthersWait ==
  ASSUME TypeOK, LockOfTheWorker, NEW c \in Clis, Step(c),
         NEW d \in Clis, d # c, pc[d] \in Working
  PROVE  /\ UNCHANGED <<schema, version, dirty, misled, driver, env, drifted>>
         /\ pc'[d] = pc[d] /\ cmd'[d] = cmd[d] /\ at'[d] = at[d] /\ result'[d] = result[d]
<1>1. lock # c
  BY DEF LockOfTheWorker
<1> QED BY <1>1, Frame, Writers

\* A body runs for a version its build knows.
LEMMA MarkedStep == ASSUME IInv, Next PROVE Marked'
<1>0. TypeOK /\ LockOfTheWorker /\ StageOfCommand /\ Marked
  BY DEF IInv
<1>1. CASE AutoMigrateIfNeeded
  BY <1>0, <1>1 DEF AutoMigrateIfNeeded, Marked, Running
<1>2. ASSUME NEW c \in Clis, Step(c), pc'[c] \in {"run", "clear"}
      PROVE  dirty' /\ Running(c)' \in 1..Latest
  <2>0. /\ pc \in [Clis -> Stages]
        /\ pc[c] \in {"run", "clear"} => dirty /\ Running(c) \in 1..Latest
    BY <1>0 DEF TypeOK, Marked
  <2>1. CASE Start(c) \/ Refuse(c) \/ Report(c) \/ Usage(c) \/ Open(c) \/ Lock(c)
    BY <1>2, <2>0, <2>1 DEF Start, Refuse, Report, Usage, Open, Lock
  <2>2. CASE ReadBlocked(c) \/ ReadLatest(c) \/ RunFails(c) \/ Clear(c)
    BY <1>2, <2>0, <2>2 DEF ReadBlocked, ReadLatest, RunFails, Clear
  <2>3. CASE ForceVersion(c) \/ Unlock(c) \/ Crash(c)
    BY <1>2, <2>0, <2>3 DEF ForceVersion, Unlock, Crash
  <2>4. CASE Fail(c)
    BY <1>2, <2>0, <2>4 DEF Fail
  <2>5. CASE RunBody(c) \/ RunStatement(c)
    BY <2>0, <2>5 DEF RunBody, RunStatement, Running
  <2>6. CASE Mark(c)
    <3>1. /\ Known[c] \in 1..Latest /\ version \in Nat /\ Latest \in Nat
          /\ version <= Known[c]
          /\ cmd[c].op = "down" => version # 0
      <4>1. Known[c] \in 1..Latest /\ version \in 0..Latest + 1
        BY <1>0 DEF TypeOK
      <4>2. ~(version > Known[c]) /\ (cmd[c].op = "down" => version # 0)
        BY <2>6 DEF Mark, Blocked
      <4> QED BY <4>1, <4>2
    <3>2. dirty' /\ cmd' = cmd
      BY <2>6 DEF Mark
    <3>3. CASE cmd[c].op = "up" /\ version # Known[c] /\ version' = version + 1
      <4>1. Running(c)' = version + 1
        BY <3>2, <3>3 DEF Running
      <4> QED BY <3>1, <3>2, <3>3, <4>1
    <3>4. CASE cmd[c].op = "down" /\ version' = version - 1
      <4>1. Running(c)' = (version - 1) + 1
        BY <3>2, <3>4 DEF Running
      <4> QED BY <3>1, <3>2, <3>4, <4>1
    <3> QED BY <2>6, <3>3, <3>4 DEF Mark
  <2> QED BY <1>2, <2>1, <2>2, <2>3, <2>4, <2>5, <2>6 DEF Step
<1>3. ASSUME NEW c \in Clis, Step(c), NEW d \in Clis, pc'[d] \in {"run", "clear"}
      PROVE  dirty' /\ Running(d)' \in 1..Latest
  <2>1. CASE d = c
    BY <1>2, <1>3, <2>1
  <2>2. CASE d # c
    <3>1. pc[d] \in {"run", "clear"}
      BY <1>0, <1>3, <2>2, Frame
    <3>2. dirty' = dirty /\ version' = version /\ cmd'[d] = cmd[d]
      BY <1>0, <1>3, <2>2, <3>1, OthersWait DEF Working
    <3> QED BY <1>0, <3>1, <3>2 DEF Marked, Running
  <2> QED BY <2>1, <2>2
<1>4. ASSUME NEW c \in Clis, Step(c) PROVE Marked'
  BY <1>3, <1>4 DEF Marked
<1> QED BY <1>1, <1>4 DEF Next

\* Only an up that read a clean database at the last version ends well.
LEMMA FinishedStep == ASSUME IInv, Next PROVE Finished'
<1>0. TypeOK /\ LockOfTheWorker /\ StageOfCommand /\ Finished
  BY DEF IInv
<1>1. CASE AutoMigrateIfNeeded
  BY <1>0, <1>1 DEF AutoMigrateIfNeeded, Finished
<1>2. ASSUME NEW c \in Clis, Step(c), pc'[c] = "unlock", cmd'[c].op = "up", result'[c] = "done"
      PROVE  version' = Known[c] /\ ~dirty'
  <2>0. /\ pc \in [Clis -> Stages] /\ result \in [Clis -> Results]
        /\ pc[c] = "force" => cmd[c].op = "force"
    BY <1>0 DEF TypeOK, StageOfCommand
  <2>1. CASE Start(c) \/ Refuse(c) \/ Report(c) \/ Usage(c) \/ Open(c) \/ Lock(c)
    BY <1>2, <2>0, <2>1 DEF Start, Refuse, Report, Usage, Open, Lock
  <2>2. CASE ReadBlocked(c) \/ RunFails(c) \/ Clear(c)
    BY <1>2, <2>0, <2>2 DEF ReadBlocked, RunFails, Clear
  <2>3. CASE ReadLatest(c)
    BY <2>3 DEF ReadLatest, Blocked
  <2>4. CASE ForceVersion(c) \/ Unlock(c) \/ Crash(c)
    BY <1>2, <2>0, <2>4 DEF ForceVersion, Unlock, Crash
  <2>5. CASE Fail(c)
    BY <1>2, <2>0, <2>5 DEF Fail
  <2>6. CASE Mark(c) \/ RunBody(c) \/ RunStatement(c)
    BY <1>2, <2>0, <2>6 DEF Mark, RunBody, RunStatement
  <2> QED BY <1>2, <2>1, <2>2, <2>3, <2>4, <2>5, <2>6 DEF Step
<1>3. ASSUME NEW c \in Clis, Step(c), NEW d \in Clis,
             pc'[d] = "unlock", cmd'[d].op = "up", result'[d] = "done"
      PROVE  version' = Known[d] /\ ~dirty'
  <2>1. CASE d = c
    BY <1>2, <1>3, <2>1
  <2>2. CASE d # c
    <3>1. pc[d] = "unlock" /\ cmd[d].op = "up" /\ result[d] = "done"
      BY <1>0, <1>3, <2>2, Frame
    <3>2. dirty' = dirty /\ version' = version
      BY <1>0, <1>3, <2>2, <3>1, OthersWait DEF Working
    <3> QED BY <1>0, <3>1, <3>2 DEF Finished
  <2> QED BY <2>1, <2>2
<1>4. ASSUME NEW c \in Clis, Step(c) PROVE Finished'
  BY <1>3, <1>4 DEF Finished
<1> QED BY <1>1, <1>4 DEF Next

-----------------------------------------------------------------------------
(* The schema and its version.                                             *)

\* A sqlite in prod is refused by the configuration, so an AutoMigrate that
\* nobody need know of cannot have changed anything.
LEMMA AutoMigrateHonest ==
  ASSUME TypeOK, AutoMigrateIfNeeded, Honest'
  PROVE  Honest /\ schema' = schema
<1>1. env # "prod"
  BY DEF AutoMigrateIfNeeded, TypeOK
<1> QED BY <1>1 DEF AutoMigrateIfNeeded, Honest

\* What is vouched for now was vouched for before.
LEMMA StepHonest ==
  ASSUME TypeOK, LockOfTheWorker, NEW c \in Clis, Step(c), Honest'
  PROVE  Honest
<1>1. driver' = driver /\ env' = env /\ drifted' = drifted
  BY Writers
<1>2. misled \in BOOLEAN
  BY DEF TypeOK
<1>3. misled => misled'
  <2>1. CASE ForceVersion(c)
    BY <1>2, <2>1 DEF ForceVersion
  <2>2. CASE Start(c) \/ Refuse(c) \/ Report(c) \/ Usage(c) \/ Open(c) \/ Lock(c)
    BY <1>2, <2>2 DEF Start, Refuse, Report, Usage, Open, Lock
  <2>3. CASE ReadBlocked(c) \/ ReadLatest(c) \/ Mark(c) \/ RunFails(c) \/ Clear(c)
    BY <1>2, <2>3 DEF ReadBlocked, ReadLatest, Mark, RunFails, Clear
  <2>4. CASE RunBody(c) \/ RunStatement(c)
    BY <1>2, <2>4 DEF RunBody, RunStatement
  <2>5. CASE Unlock(c)
    BY <1>2, <2>5 DEF Unlock
  <2>6. CASE Fail(c) \/ Crash(c)
    BY <1>2, <2>6 DEF Fail, Crash
  <2> QED BY <2>1, <2>2, <2>3, <2>4, <2>5, <2>6 DEF Step
<1> QED BY <1>1, <1>3 DEF Honest

\* A body on its way is a known version that is partly there.
LEMMA CreatedIsPartial ==
  ASSUME TypeOK, NEW c \in Clis
  PROVE  Created(c) \in Partial
<1>1. at[c] \in {1, 2, 3}
  BY DEF TypeOK
<1> QED BY <1>1 DEF Created, FirstParts, Partial, Parts

\* Marking starts a body at its first statement.
LEMMA MarkProgress ==
  ASSUME IInv, NEW c \in Clis, Mark(c), Honest
  PROVE  schema' = UpTo(Running(c)', Created(c)')
<1>1. /\ version \in Nat /\ at[c] = 1
      /\ schema = SchemaOf(version) /\ schema' = schema
      /\ cmd' = cmd /\ at' = at
  <2>1. version \in Nat /\ at[c] = 1
    BY DEF IInv, TypeOK, AtStart, Mark
  <2>2. ~dirty
    BY DEF Mark, Blocked
  <2> QED BY <2>1, <2>2 DEF IInv, VersionTellsSchema, Mark
<1>2. CASE cmd[c].op = "up" /\ version' = version + 1
  <2>1. Running(c)' = version + 1 /\ Created(c)' = {}
    BY <1>1, <1>2 DEF Running, Created, FirstParts
  <2>2. version + 1 \in Nat \ {0} /\ (version + 1) - 1 = version
    BY <1>1
  <2>3. UpTo(version + 1, {}) = SchemaOf(version)
    BY <2>2, WholeMigration
  <2> QED BY <1>1, <2>1, <2>3
<1>3. CASE cmd[c].op = "down" /\ version # 0 /\ version' = version - 1
  <2>1. Running(c)' = version
    BY <1>1, <1>3 DEF Running
  <2>2. Created(c)' = Parts
    BY <1>1, <1>3 DEF Created, FirstParts
  <2>3. UpTo(version, Parts) = SchemaOf(version)
    BY <1>1, <1>3, WholeMigration
  <2> QED BY <1>1, <2>1, <2>2, <2>3
<1> QED BY <1>2, <1>3 DEF Mark, Blocked

\* The body of postgres runs a whole migration.
LEMMA BodyProgress ==
  ASSUME IInv, NEW c \in Clis, RunBody(c), Honest
  PROVE  /\ schema' = SchemaOf(version)
         /\ schema' = UpTo(Running(c), IF cmd[c].op = "up" THEN Parts ELSE {})
<1>1. /\ schema = UpTo(Running(c), Created(c)) /\ at[c] = 1
      /\ Running(c) \in 1..Latest /\ version \in Nat
      /\ cmd[c].op \in {"up", "down"}
  BY DEF IInv, TypeOK, AtStart, Marked, Progress, StageOfCommand, RunBody
<1>2. Running(c) \in Nat \ {0}
  BY <1>1
<1>3. CASE cmd[c].op = "up"
  <2>1. Running(c) = version /\ Created(c) = {}
    BY <1>1, <1>3 DEF Running, Created, FirstParts
  <2>2. schema' = UpTo(version, {}) \cup ({version} \X Parts)
    BY <1>1, <1>3, <2>1 DEF RunBody, Apply
  <2>3. schema' = UpTo(version, Parts)
    BY <1>1, <2>2, WholeBody
  <2> QED BY <1>2, <1>3, <2>1, <2>3, WholeMigration
<1>4. CASE cmd[c].op = "down"
  <2>1. Running(c) = version + 1 /\ Created(c) = Parts
    BY <1>1, <1>4 DEF Running, Created, FirstParts
  <2>2. "table" \in Parts
    BY DEF Parts
  <2>3. schema' = UpTo(Running(c), Parts) \ ({Running(c)} \X Parts)
    BY <1>1, <1>4, <2>1, <2>2 DEF RunBody, Apply
  <2>4. schema' = UpTo(Running(c), {})
    BY <1>2, <2>3, WholeBody
  <2>5. UpTo(Running(c), {}) = SchemaOf(Running(c) - 1) /\ Running(c) - 1 = version
    BY <1>1, <1>2, <2>1, WholeMigration
  <2> QED BY <1>4, <2>4, <2>5
<1> QED BY <1>1, <1>3, <1>4

\* One more CREATE, one more DROP.
LEMMA NextParts ==
  ASSUME NEW a \in {1, 2, 3}
  PROVE  /\ FirstParts(a - 1) \cup {Statements[a]} = FirstParts(a)
         /\ FirstParts(4 - a) \ (IF Statements[4 - a] = "table" THEN Parts ELSE {Statements[4 - a]})
              = FirstParts(3 - a)
<1>1. CASE a = 1
  BY <1>1, StatementOrder DEF FirstParts, Parts
<1>2. CASE a = 2
  BY <1>2, StatementOrder DEF FirstParts, Parts
<1>3. CASE a = 3
  BY <1>3, StatementOrder DEF FirstParts, Parts
<1> QED BY <1>1, <1>2, <1>3

\* There are only so many parts.
LEMMA PartsThere ==
  ASSUME NEW n \in 0..3
  PROVE  FirstParts(n) \in Partial /\ FirstParts(n) \in SUBSET Parts
BY DEF FirstParts, Partial, Parts

\* A statement of mysql leaves the schema at the next one, or at the version.
LEMMA StatementProgress ==
  ASSUME IInv, NEW c \in Clis, RunStatement(c), Honest
  PROVE  /\ pc'[c] = "run" => schema' = UpTo(Running(c), Created(c)')
         /\ pc'[c] = "clear" => schema' = SchemaOf(version)
         /\ \E p \in Partial : schema' = UpTo(Running(c), p)
<1> DEFINE a == at[c]
           R == Running(c)
           there == IF cmd[c].op = "up" THEN FirstParts(a) ELSE FirstParts(3 - a)
<1>1. /\ schema = UpTo(R, Created(c)) /\ a \in {1, 2, 3}
      /\ R \in 1..Latest /\ version \in Nat
      /\ cmd[c].op \in {"up", "down"}
      /\ pc \in [Clis -> Stages] /\ at \in [Clis -> {1, 2, 3}] /\ pc[c] = "run"
  BY DEF IInv, TypeOK, Marked, Progress, StageOfCommand, RunStatement
<1>2. R \in Nat \ {0} /\ R - 1 \in Nat
  BY <1>1
<1>3. schema' = UpTo(R, there)
  <2>1. CASE cmd[c].op = "up"
    <3> DEFINE made == {Statements[a]}
               before == FirstParts(a - 1)
    <3>1. schema = UpTo(R, before) /\ Part(c) = Statements[a]
      BY <1>1, <2>1 DEF Created, Part
    <3>2. schema' = UpTo(R, before) \cup ({R} \X made)
      BY <2>1, <3>1 DEF RunStatement, Apply
    <3>3. before \in SUBSET Parts /\ made \in SUBSET Parts
      BY <1>1, StatementOrder DEF FirstParts, Parts
    <3>4. before \cup made = FirstParts(a)
      BY <1>1, NextParts
    <3>5. UpTo(R, before) \cup ({R} \X made) = UpTo(R, before \cup made)
      <4> HIDE DEF made, before, R
      <4> QED BY DEF UpTo
    <3>6. schema' = UpTo(R, FirstParts(a))
      <4> HIDE DEF made, before, R
      <4> QED BY <3>2, <3>4, <3>5
    <3> QED BY <2>1, <3>6
  <2>2. CASE cmd[c].op = "down"
    <3> DEFINE s == Statements[4 - a]
               gone == IF s = "table" THEN Parts ELSE {s}
    <3>1. schema = UpTo(R, FirstParts(4 - a))
      BY <1>1, <2>2 DEF Created
    <3>2. Part(c) = s
      BY <1>1, <2>2, StatementOrder DEF Part
    <3>3. schema' = Apply(c, {s})
      BY <3>2 DEF RunStatement
    <3>4. s \in Parts
      BY <1>1, StatementOrder DEF Parts
    <3>5. FirstParts(4 - a) \in SUBSET Parts /\ gone \in SUBSET Parts
      BY <1>1, <3>4 DEF FirstParts, Parts
    <3>6. schema' = UpTo(R, FirstParts(4 - a)) \ ({R} \X gone)
      BY <2>2, <3>1, <3>3 DEF Apply
    <3>7. schema' = UpTo(R, FirstParts(4 - a) \ gone)
      <4> HIDE DEF gone
      <4> QED BY <1>2, <3>5, <3>6, DropPart
    <3>8. FirstParts(4 - a) \ gone = FirstParts(3 - a)
      BY <1>1, NextParts
    <3> QED BY <2>2, <3>7, <3>8
  <2> QED BY <1>1, <2>1, <2>2
<1>4. there \in Partial
  BY <1>1, PartsThere
<1>5. CASE a # 3
  <2>1. pc'[c] = "run" /\ cmd' = cmd
    BY <1>1, <1>5, StatementOrder DEF RunStatement
  <2>2. at'[c] = a + 1
    BY <1>1, <1>5, StatementOrder DEF RunStatement
  <2>3. Created(c)' = there
    BY <1>1, <2>1, <2>2 DEF Created
  <2> HIDE DEF there, R
  <2> QED BY <1>3, <1>4, <2>1, <2>3 DEF R
<1>6. CASE a = 3
  <2>1. pc'[c] = "clear"
    BY <1>1, <1>6, StatementOrder DEF RunStatement
  <2>2. CASE cmd[c].op = "up"
    <3>1. there = Parts /\ R = version
      BY <1>6, <2>2 DEF FirstParts, Running
    <3> QED BY <1>2, <1>3, <1>4, <2>1, <3>1, WholeMigration
  <2>3. CASE cmd[c].op = "down"
    <3>1. there = {} /\ R = version + 1
      BY <1>6, <2>3 DEF FirstParts, Running
    <3>2. UpTo(R, {}) = SchemaOf(R - 1) /\ R - 1 = version
      BY <1>1, <1>2, <3>1, WholeMigration
    <3> QED BY <1>3, <1>4, <2>1, <3>1, <3>2
  <2> QED BY <1>1, <2>2, <2>3
<1> QED BY <1>5, <1>6

\* While a body runs nobody else touches the schema.
LEMMA ProgressStep == ASSUME IInv, Next PROVE Progress'
<1>0. TypeOK /\ LockOfTheWorker /\ Progress
  BY DEF IInv
<1>1. CASE AutoMigrateIfNeeded
  <2>1. Honest' => Honest /\ schema' = schema
    BY <1>0, <1>1, AutoMigrateHonest
  <2>2. pc' = pc /\ cmd' = cmd /\ at' = at /\ version' = version
    BY <1>1 DEF AutoMigrateIfNeeded
  <2> QED BY <1>0, <2>1, <2>2 DEF Progress, Running, Created
<1>2. ASSUME NEW c \in Clis, Step(c), Honest'
      PROVE  /\ pc'[c] = "run" => schema' = UpTo(Running(c)', Created(c)')
             /\ pc'[c] = "clear" => schema' = SchemaOf(version')
  <2>0. pc \in [Clis -> Stages] /\ Honest
    BY <1>0, <1>2, StepHonest DEF TypeOK
  <2>1. CASE Start(c) \/ Refuse(c) \/ Report(c) \/ Usage(c) \/ Open(c) \/ Lock(c)
    BY <2>0, <2>1 DEF Start, Refuse, Report, Usage, Open, Lock
  <2>2. CASE ReadBlocked(c) \/ ReadLatest(c) \/ RunFails(c) \/ Clear(c)
    BY <2>0, <2>2 DEF ReadBlocked, ReadLatest, RunFails, Clear
  <2>3. CASE ForceVersion(c) \/ Unlock(c) \/ Crash(c)
    BY <2>0, <2>3 DEF ForceVersion, Unlock, Crash
  <2>4. CASE Fail(c)
    BY <2>0, <2>4 DEF Fail
  <2>5. CASE Mark(c)
    <3>1. pc'[c] = "run"
      BY <2>0, <2>5 DEF Mark
    <3> QED BY <2>0, <2>5, <3>1, MarkProgress
  <2>6. CASE RunBody(c)
    <3>1. pc'[c] = "clear" /\ version' = version
      BY <2>0, <2>6 DEF RunBody
    <3> QED BY <2>0, <2>6, <3>1, BodyProgress
  <2>7. CASE RunStatement(c)
    <3>1. version' = version /\ Running(c)' = Running(c)
      BY <2>7 DEF RunStatement, Running
    <3> QED BY <2>0, <2>7, <3>1, StatementProgress
  <2> QED BY <1>2, <2>1, <2>2, <2>3, <2>4, <2>5, <2>6, <2>7 DEF Step
<1>3. ASSUME NEW c \in Clis, Step(c), Honest', NEW d \in Clis
      PROVE  /\ pc'[d] = "run" => schema' = UpTo(Running(d)', Created(d)')
             /\ pc'[d] = "clear" => schema' = SchemaOf(version')
  <2>1. CASE d = c
    BY <1>2, <1>3, <2>1
  <2>2. CASE d # c /\ pc'[d] \in {"run", "clear"}
    <3>1. pc[d] \in {"run", "clear"}
      BY <1>0, <1>3, <2>2, Frame
    <3>2. /\ schema' = schema /\ version' = version
          /\ pc'[d] = pc[d] /\ cmd'[d] = cmd[d] /\ at'[d] = at[d]
      BY <1>0, <1>3, <2>2, <3>1, OthersWait DEF Working
    <3>3. Running(d)' = Running(d) /\ Created(d)' = Created(d)
      BY <3>2 DEF Running, Created
    <3>4. Honest
      BY <1>0, <1>3, StepHonest
    <3> QED BY <1>0, <3>2, <3>3, <3>4 DEF Progress
  <2> QED BY <2>1, <2>2
<1>4. ASSUME NEW c \in Clis, Step(c) PROVE Progress'
  BY <1>3, <1>4 DEF Progress
<1> QED BY <1>1, <1>4 DEF Next

\* A body that runs is between the version and a neighbour.
LEMMA DirtyTells ==
  ASSUME TypeOK, NEW c \in Clis, Running(c) \in 1..Latest
  PROVE  Running(c) \in {version, version + 1} \ {0}
BY DEF Running

\* The version tells the schema after a step of c.
LEMMA VersionStep == ASSUME IInv, Next PROVE VersionTellsSchema'
<1>0. TypeOK /\ LockOfTheWorker /\ VersionTellsSchema
  BY DEF IInv
<1>1. CASE AutoMigrateIfNeeded
  <2>1. Honest' => Honest /\ schema' = schema
    BY <1>0, <1>1, AutoMigrateHonest
  <2>2. dirty' = dirty /\ version' = version /\ driver' = driver
    BY <1>1 DEF AutoMigrateIfNeeded
  <2> QED BY <1>0, <2>1, <2>2 DEF VersionTellsSchema
<1>2. ASSUME NEW c \in Clis, Step(c), Honest', schema' = schema, version' = version, dirty' = dirty
      PROVE  VersionTellsSchema'
  <2>1. Honest /\ driver' = driver
    BY <1>0, <1>2, StepHonest, Writers
  <2> QED BY <1>0, <1>2, <2>1 DEF VersionTellsSchema
<1>3. ASSUME NEW c \in Clis, Step(c), Honest' PROVE VersionTellsSchema'
  <2>0. Honest /\ driver' = driver
    BY <1>0, <1>3, StepHonest, Writers
  <2>1. CASE Start(c) \/ Refuse(c) \/ Report(c) \/ Usage(c) \/ Open(c) \/ Lock(c)
    BY <1>2, <1>3, <2>1 DEF Start, Refuse, Report, Usage, Open, Lock
  <2>2. CASE ReadBlocked(c) \/ ReadLatest(c) \/ RunFails(c)
    BY <1>2, <1>3, <2>2 DEF ReadBlocked, ReadLatest, RunFails
  <2>3. CASE Unlock(c) \/ Crash(c) \/ Fail(c)
    BY <1>2, <1>3, <2>3 DEF Unlock, Crash, Fail
  <2>4. CASE Clear(c)
    <3>1. schema = SchemaOf(version)
      BY <2>0, <2>4 DEF Clear, IInv, Progress
    <3>2. ~dirty' /\ schema' = schema /\ version' = version
      BY <2>4 DEF Clear
    <3> QED BY <3>1, <3>2 DEF VersionTellsSchema
  <2>5. CASE ForceVersion(c)
    <3>1. ~misled'
      BY <1>3 DEF Honest
    <3>2. schema = SchemaOf(cmd[c].to) /\ ~dirty' /\ schema' = schema /\ version' = cmd[c].to
      BY <2>5, <3>1 DEF ForceVersion
    <3> QED BY <3>2 DEF VersionTellsSchema
  <2>6. CASE Mark(c)
    <3>1. schema' = schema /\ schema = SchemaOf(version) /\ dirty' = TRUE /\ version \in Nat
      <4>1. ~dirty
        BY <2>6 DEF Mark, Blocked
      <4> QED BY <1>0, <2>0, <2>6, <4>1 DEF Mark, VersionTellsSchema, TypeOK
    <3>2. {} \in Partial /\ Parts \in Partial
      BY DEF Partial
    <3>3. CASE version' = version + 1
      <4>1. version + 1 \in Nat \ {0} /\ (version + 1) - 1 = version
        BY <3>1
      <4>2. UpTo(version', {}) = SchemaOf(version)
        BY <3>3, <4>1, WholeMigration
      <4>3. version' \in {version', version' + 1} \ {0}
        BY <3>3, <4>1
      <4>4. schema' = UpTo(version', {})
        BY <3>1, <4>2
      <4> QED BY <3>1, <3>2, <4>3, <4>4 DEF VersionTellsSchema
    <3>4. CASE version # 0 /\ version' = version - 1
      <4>1. version' + 1 = version /\ version \in Nat \ {0}
        BY <3>1, <3>4
      <4>2. UpTo(version, Parts) = SchemaOf(version)
        BY <4>1, WholeMigration
      <4>3. version' + 1 \in {version', version' + 1} \ {0}
        BY <4>1
      <4>4. schema' = UpTo(version' + 1, Parts)
        BY <3>1, <4>1, <4>2
      <4> DEFINE v == version' + 1
      <4>5. \E w \in {version', version' + 1} \ {0}, p \in Partial :
              /\ schema' = UpTo(w, p)
              /\ driver' = "postgres" => p \in {{}, Parts}
        <5>1. schema' = UpTo(v, Parts) /\ v \in {version', version' + 1} \ {0}
          BY <4>3, <4>4
        <5> HIDE DEF v
        <5> QED BY <3>2, <5>1
      <4> QED BY <3>1, <4>5 DEF VersionTellsSchema
    <3> QED BY <2>6, <3>3, <3>4 DEF Mark, Blocked
  <2>7. CASE RunBody(c) \/ RunStatement(c)
    <3>1. /\ dirty /\ Running(c) \in 1..Latest
          /\ version' = version /\ dirty' = dirty
      BY <2>7 DEF RunBody, RunStatement, IInv, Marked
    <3>2. Running(c) \in {version', version' + 1} \ {0}
      BY <1>0, <3>1, DirtyTells
    <3> DEFINE v == Running(c)
    <3>3. \E p \in Partial : schema' = UpTo(v, p) /\ (driver = "postgres" => p \in {{}, Parts})
      <4>1. CASE RunBody(c)
        <5>1. {} \in Partial /\ Parts \in Partial
          BY DEF Partial
        <5> QED BY <2>0, <4>1, <5>1, BodyProgress
      <4>2. CASE RunStatement(c)
        <5>1. driver # "postgres"
          BY <4>2 DEF RunStatement
        <5> QED BY <2>0, <4>2, <5>1, StatementProgress
      <4> QED BY <2>7, <4>1, <4>2
    <3>4. \E w \in {version', version' + 1} \ {0}, p \in Partial :
            /\ schema' = UpTo(w, p)
            /\ driver' = "postgres" => p \in {{}, Parts}
      <4>1. v \in {version', version' + 1} \ {0} /\ driver' = driver
        BY <2>0, <3>2
      <4> HIDE DEF v
      <4> QED BY <3>3, <4>1
    <3> QED BY <3>1, <3>4 DEF VersionTellsSchema
  <2> QED BY <1>3, <2>1, <2>2, <2>3, <2>4, <2>5, <2>6, <2>7 DEF Step
<1>4. ASSUME NEW c \in Clis, Step(c) PROVE VersionTellsSchema'
  BY <1>3, <1>4 DEF VersionTellsSchema
<1> QED BY <1>1, <1>4 DEF Next

-----------------------------------------------------------------------------
(* The theorems.                                                           *)

\* The invariant is inductive.
LEMMA StepIInv == ASSUME IInv, [Next]_vars PROVE IInv'
<1>1. CASE Next
  BY <1>1, TypeStep, LockStep, AtStep, StageStep, MarkedStep, FinishedStep, DriftStep,
     ProgressStep, VersionStep DEF IInv
<1>2. CASE UNCHANGED vars
  <2>1. TypeOK' /\ LockOfTheWorker' /\ AtStart' /\ StageOfCommand'
    BY <1>2 DEF vars, IInv, TypeOK, LockOfTheWorker, AtStart, StageOfCommand
  <2>2. Marked' /\ Finished' /\ NoDriftInProd'
    BY <1>2 DEF vars, IInv, Marked, Running, Finished, NoDriftInProd
  <2>3. Progress' /\ VersionTellsSchema'
    BY <1>2 DEF vars, IInv, Progress, Running, Created, VersionTellsSchema, Honest
  <2> QED BY <2>1, <2>2, <2>3 DEF IInv
<1> QED BY <1>1, <1>2

\* It holds in every state operators and services can reach.
THEOREM Invariant == Spec => []IInv
BY InitIInv, StepIInv, PTL DEF Spec

\* The variables of cmd/migrate and its database have their types.
THEOREM TypeCorrectness == Spec => []TypeOK
<1>1. IInv => TypeOK
  BY DEF IInv
<1> QED BY <1>1, Invariant, PTL

\* Who works on the versions holds the lock of golang-migrate, and nobody
\* else holds it: for any number of operators, failures and crashes.
THEOREM WorkersHoldTheLock == Spec => []LockOfTheWorker
<1>1. IInv => LockOfTheWorker
  BY DEF IInv
<1> QED BY <1>1, Invariant, PTL

\* Unless a force said otherwise, or a service out of prod went past the
\* versions, version and dirty tell what objects the database has.
THEOREM VersionIsHonest == Spec => []VersionTellsSchema
<1>1. IInv => VersionTellsSchema
  BY DEF IInv
<1> QED BY <1>1, Invariant, PTL

\* On postgres, where a body is one transaction, the schema is always that of a
\* version there can be files for (0 is the empty database), at most one away
\* from the recorded one: whatever was cut short, there is a number an operator can force without a lie
\* (cmd/migrate/main.go:86-94).
THEOREM ATruthfulForceExists ==
  Spec => [](driver = "postgres" /\ Honest =>
               \E n \in {version - 1, version, version + 1} \cap 0..Latest :
                 schema = SchemaOf(n))
<1>1. ASSUME IInv, driver = "postgres", Honest
      PROVE  \E n \in {version - 1, version, version + 1} \cap 0..Latest :
               schema = SchemaOf(n)
  <2>1. version \in 0..Latest + 1 /\ schema \subseteq Objects /\ Latest \in Nat
    BY <1>1, MigrationAssumption DEF IInv, TypeOK
  \* No version beyond the newest has all its objects in the database.
  <2>2. ASSUME NEW n \in Nat, schema = SchemaOf(n) PROVE n \in 0..Latest
    <3>1. n # 0 => <<n, "table">> \in schema
      BY <2>2 DEF SchemaOf, Parts
    <3>2. n # 0 => n \in 1..Latest
      BY <2>1, <3>1 DEF Objects
    <3> QED BY <2>1, <3>2
  <2>3. CASE ~dirty
    <3>1. schema = SchemaOf(version) /\ version \in Nat
      BY <1>1, <2>1, <2>3 DEF IInv, VersionTellsSchema
    <3> QED BY <2>2, <3>1
  <2>4. CASE dirty
    <3>1. PICK v \in {version, version + 1} \ {0}, p \in {{}, Parts} : schema = UpTo(v, p)
      BY <1>1, <2>4 DEF IInv, VersionTellsSchema
    <3>2. v \in Nat /\ v - 1 \in Nat
      BY <2>1, <3>1
    <3>3. CASE p = {}
      <4>1. schema = SchemaOf(v - 1)
        BY <3>1, <3>3 DEF UpTo
      <4>2. v - 1 \in {version - 1, version}
        BY <2>1, <3>1
      <4> QED BY <2>2, <3>2, <4>1, <4>2
    <3>4. CASE p = Parts
      <4>1. 1..v = (1..(v - 1)) \cup {v}
        BY <3>2
      <4>2. schema = SchemaOf(v)
        BY <3>1, <3>4, <4>1 DEF UpTo, SchemaOf
      <4> QED BY <2>2, <3>1, <3>2, <4>2
    <3> QED BY <3>1, <3>3, <3>4
  <2> QED BY <2>3, <2>4
<1> QED BY <1>1, Invariant, PTL

\* A migrate up that ends well leaves the database clean and at the version
\* of its build.
THEOREM UpIsDone == Spec => UpDone
<1>1. ASSUME IInv, [Next]_vars, NEW c \in Clis,
             pc[c] # "idle", cmd[c].op = "up", pc'[c] = "idle", result'[c] = "done"
      PROVE  version = Known[c] /\ ~dirty /\ (Honest => schema = SchemaOf(Known[c]))
  <2>0. TypeOK /\ pc \in [Clis -> Stages] /\ result \in [Clis -> Results]
    BY <1>1 DEF IInv, TypeOK
  <2>1. Step(c)
    <3>1. pc' # pc
      BY <1>1
    <3>2. \E d \in Clis : Step(d)
      BY <1>1, <3>1 DEF Next, vars, AutoMigrateIfNeeded
    <3> QED BY <1>1, <2>0, <3>2, Frame
  <2>2. pc[c] = "unlock" /\ result[c] = "done"
    <3>1. CASE Start(c) \/ Refuse(c) \/ Report(c) \/ Usage(c) \/ Open(c) \/ Lock(c)
      BY <1>1, <2>0, <3>1 DEF Start, Refuse, Report, Usage, Open, Lock
    <3>2. CASE ReadBlocked(c) \/ ReadLatest(c) \/ RunFails(c) \/ Clear(c) \/ ForceVersion(c)
      BY <1>1, <2>0, <3>2 DEF ReadBlocked, ReadLatest, RunFails, Clear, ForceVersion
    <3>3. CASE Mark(c) \/ RunBody(c) \/ RunStatement(c)
      BY <1>1, <2>0, <3>3 DEF Mark, RunBody, RunStatement
    <3>4. CASE Unlock(c)
      BY <1>1, <2>0, <3>4 DEF Unlock
    <3>5. CASE Fail(c)
      BY <1>1, <2>0, <3>5 DEF Fail
    <3>6. CASE Crash(c)
      BY <1>1, <2>0, <3>6 DEF Crash
    <3> QED BY <2>1, <3>1, <3>2, <3>3, <3>4, <3>5, <3>6 DEF Step
  <2>3. version = Known[c] /\ ~dirty
    BY <1>1, <2>2 DEF IInv, Finished
  <2> QED BY <1>1, <2>3 DEF IInv, VersionTellsSchema
<1>2. ASSUME IInv, [Next]_vars
      PROVE  [\A c \in Clis :
                pc[c] # "idle" /\ cmd[c].op = "up" /\ pc'[c] = "idle" /\ result'[c] = "done" =>
                  /\ version = Known[c] /\ ~dirty
                  /\ Honest => schema = SchemaOf(Known[c])]_vars
  BY <1>1, <1>2
<1> QED BY <1>2, Invariant, PTL DEF Spec, UpDone

-----------------------------------------------------------------------------
(***************************************************************************)
(* Migration implements SchemaHistory: with the lock, what the processes   *)
(* do to the database is one migration after the other.                    *)
(***************************************************************************)
LEMMA SameSchemas == \A v : History!SchemaOf(v) = SchemaOf(v)
BY DEF SchemaOf, History!SchemaOf

\* The migration under way is that of the process that is in a body.
LEMMA BodyIsOfTheWorker ==
  ASSUME IInv, NEW c \in Clis, Migrating(c)
  PROVE  /\ lock = c /\ dirty /\ Running(c) \in 1..Latest
         /\ cmd[c].op \in {"up", "down"} /\ Body = cmd[c].op
<1>1. lock = c
  BY DEF IInv, LockOfTheWorker, Working, Migrating
<1>2. dirty /\ Running(c) \in 1..Latest /\ cmd[c].op \in {"up", "down"}
  BY DEF IInv, Marked, StageOfCommand, Migrating
<1> QED BY <1>1, <1>2 DEF Body

\* How a step of c changes it.
LEMMA BodyStep ==
  ASSUME IInv, IInv', NEW c \in Clis, Step(c)
  PROVE  /\ Migrating(c)' => Body' = cmd'[c].op
         /\ Migrating(c) /\ ~Migrating(c)' => Body' = "none"
         /\ ~Migrating(c) /\ ~Migrating(c)' => Body' = Body
<1>0. /\ TypeOK /\ LockOfTheWorker /\ StageOfCommand
      /\ lock \in Clis \cup {NoCli} /\ c # NoCli
  BY DEF IInv, TypeOK
<1>1. Migrating(c)' => lock' = c
  BY DEF IInv, LockOfTheWorker, Working, Migrating
<1>2. Migrating(c) => lock = c
  BY <1>0 DEF LockOfTheWorker, Working, Migrating
<1>3. /\ lock' # c => lock' = lock \/ (lock = c /\ lock' = NoCli)
      /\ lock' = c => lock = c \/ lock = NoCli
  BY <1>0, OwnLock
<1>4. \A d \in Clis : d # c => pc'[d] = pc[d] /\ cmd'[d] = cmd[d]
  BY <1>0, Frame
<1>5. Migrating(c)' => Body' = cmd'[c].op
  BY <1>0, <1>1 DEF Body
<1>6. Migrating(c) /\ ~Migrating(c)' => Body' = "none"
  BY <1>2, <1>3 DEF Body
<1>7. ASSUME ~Migrating(c), ~Migrating(c)'
      PROVE  Body' = Body
  <2>1. CASE lock' = c
    BY <1>3, <1>7, <2>1 DEF Body
  <2>2. CASE lock = c /\ lock' = NoCli
    BY <1>7, <2>2 DEF Body
  <2>3. CASE lock' = lock /\ lock # c
    <3>1. lock # NoCli => pc'[lock] = pc[lock] /\ cmd'[lock] = cmd[lock]
      BY <1>0, <1>4, <2>3
    <3> QED BY <2>3, <3>1 DEF Body, Migrating
  <2> QED BY <1>3, <2>1, <2>2, <2>3
<1> QED BY <1>5, <1>6, <1>7

\* Nobody but a force and an AutoMigrate changes what one may trust.
LEMMA SameTrust ==
  ASSUME UNCHANGED <<misled, env, drifted>>
  PROVE  Honest' = Honest
BY DEF Honest

LEMMA InitMaps == ASSUME Init PROVE History!Init
<1>1. env \in {"dev", "prod"}
  BY DEF Init
<1>2. Body = "none"
  BY DEF Init, Body
<1>3. Honest = TRUE
  BY DEF Init, Honest
<1> QED BY <1>1, <1>2, <1>3 DEF Init, History!Init

\* Reading, waiting and ending change nothing one sees from outside.
LEMMA QuietMaps ==
  ASSUME IInv, IInv', NEW c \in Clis, Step(c),
         ~Migrating(c), ~Migrating(c)', UNCHANGED <<schema, version, dirty, misled>>
  PROVE  UNCHANGED History!vars
<1>1. Body' = Body
  BY BodyStep
<1>2. env' = env /\ drifted' = drifted
  BY Writers DEF IInv
<1> QED BY <1>1, <1>2, SameTrust DEF History!vars

\* A body that is left leaves the dirty flag.
LEMMA AbandonMaps ==
  ASSUME IInv, IInv', NEW c \in Clis, Step(c),
         Migrating(c), ~Migrating(c)', UNCHANGED <<schema, version, dirty, misled>>
  PROVE  History!Abandon
<1>1. Body # "none" /\ Body' = "none"
  BY BodyIsOfTheWorker, BodyStep
<1>2. env' = env /\ drifted' = drifted
  BY Writers DEF IInv
<1> QED BY <1>1, <1>2, SameTrust DEF History!Abandon

LEMMA MarkMaps ==
  ASSUME IInv, IInv', NEW c \in Clis, Mark(c)
  PROVE  History!Begin
<1>1. /\ pc \in [Clis -> Stages] /\ Known[c] \in 1..Latest /\ version \in 0..Latest + 1
      /\ pc[c] = "read" /\ Step(c)
  BY DEF IInv, TypeOK, Mark, Step
<1>2. /\ ~dirty /\ ~(version > Known[c]) /\ (cmd[c].op = "down" => version # 0)
      /\ dirty' = TRUE /\ cmd' = cmd
      /\ UNCHANGED <<env, schema, misled, drifted>>
  BY DEF Mark, Blocked
<1>3. pc'[c] = "run"
  BY <1>1 DEF Mark
<1>4. Body = "none"
  <2>1. lock = c
    BY <1>1 DEF IInv, LockOfTheWorker, Working
  <2> QED BY <1>1, <2>1 DEF Body, Migrating
<1>5. Body' = cmd[c].op
  BY <1>1, <1>2, <1>3, BodyStep DEF Migrating
<1>6. \/ Body' = "up" /\ version < Latest /\ version' = version + 1
      \/ Body' = "down" /\ version \in 1..Latest /\ version' = version - 1
  <2>1. CASE cmd[c].op = "up" /\ version # Known[c] /\ version' = version + 1
    BY <1>1, <1>2, <1>5, <2>1
  <2>2. CASE cmd[c].op = "down" /\ version' = version - 1
    BY <1>1, <1>2, <1>5, <2>2
  <2> QED BY <2>1, <2>2 DEF Mark
<1> QED BY <1>2, <1>4, <1>6, SameTrust DEF History!Begin

\* A statement, or a whole body, only touches the objects of its version.
LEMMA ApplyOwn ==
  ASSUME NEW c \in Clis, NEW p \in SUBSET Parts,
         cmd[c].op \in {"up", "down"}, schema' = Apply(c, p)
  PROVE  IF cmd[c].op = "up"
         THEN schema \subseteq schema' /\ schema' \subseteq schema \cup ({Running(c)} \X Parts)
         ELSE schema \ ({Running(c)} \X Parts) \subseteq schema' /\ schema' \subseteq schema
<1> DEFINE R == Running(c)
<1>1. CASE cmd[c].op = "up"
  <2>1. schema' = schema \cup ({R} \X p)
    BY <1>1 DEF Apply
  <2>2. {R} \X p \subseteq {R} \X Parts
    OBVIOUS
  <2> HIDE DEF R
  <2> QED BY <1>1, <2>1, <2>2 DEF R
<1>2. CASE cmd[c].op = "down"
  <2> DEFINE q == IF "table" \in p THEN Parts ELSE p
  <2>1. schema' = schema \ ({R} \X q)
    BY <1>2 DEF Apply
  <2>2. {R} \X q \subseteq {R} \X Parts
    OBVIOUS
  <2> HIDE DEF R, q
  <2> QED BY <1>2, <2>1, <2>2 DEF R
<1> QED BY <1>1, <1>2

LEMMA RunMaps ==
  ASSUME IInv, IInv', NEW c \in Clis, RunBody(c) \/ RunStatement(c)
  PROVE  History!Statements
<1>1. /\ pc \in [Clis -> Stages] /\ Migrating(c) /\ Step(c)
      /\ UNCHANGED <<env, version, dirty, cmd, misled, drifted>>
  BY DEF IInv, TypeOK, RunBody, RunStatement, Step, Migrating
<1>2. Migrating(c)'
  BY <1>1 DEF RunBody, RunStatement, Migrating
<1>3. /\ cmd[c].op \in {"up", "down"} /\ Body = cmd[c].op /\ Body' = Body
  BY <1>1, <1>2, BodyIsOfTheWorker, BodyStep
<1>4. PICK p \in SUBSET Parts : schema' = Apply(c, p)
  <2>1. {Part(c)} \in SUBSET Parts
    BY PartIsPart DEF IInv
  <2> QED BY <2>1 DEF RunBody, RunStatement
<1>5. History!Own = {Running(c)} \X Parts
  BY <1>3 DEF History!Own, Running
<1>6. Honest' = Honest
  BY <1>1, SameTrust
<1>7. IF Body = "up"
      THEN schema \subseteq schema' /\ schema' \subseteq schema \cup History!Own
      ELSE schema \ History!Own \subseteq schema' /\ schema' \subseteq schema
  BY <1>3, <1>4, <1>5, ApplyOwn
<1>8. Body # "none"
  BY <1>3
<1> QED BY <1>1, <1>3, <1>6, <1>7, <1>8 DEF History!Statements

LEMMA ClearMaps ==
  ASSUME IInv, IInv', NEW c \in Clis, Clear(c)
  PROVE  History!Complete
<1>1. /\ pc \in [Clis -> Stages] /\ pc[c] = "clear" /\ Step(c)
      /\ dirty' = FALSE
      /\ UNCHANGED <<env, schema, version, misled, drifted>>
  BY DEF IInv, TypeOK, Clear, Step
<1>2. Migrating(c) /\ ~Migrating(c)'
  BY <1>1 DEF Clear, Migrating
<1>3. Body # "none" /\ Body' = "none"
  BY <1>1, <1>2, BodyIsOfTheWorker, BodyStep
<1>4. Honest => schema = History!SchemaOf(version)
  BY <1>1, SameSchemas DEF IInv, Progress
<1>5. Honest' = Honest
  BY <1>1, SameTrust
<1> QED BY <1>1, <1>3, <1>4, <1>5 DEF History!Complete

LEMMA ForceMaps ==
  ASSUME IInv, IInv', NEW c \in Clis, ForceVersion(c)
  PROVE  History!Force
<1>1. /\ pc \in [Clis -> Stages] /\ pc[c] = "force" /\ Step(c)
      /\ version' = cmd[c].to /\ dirty' = FALSE
      /\ misled' = (misled \/ schema # SchemaOf(cmd[c].to))
      /\ UNCHANGED <<env, schema, drifted>>
  BY DEF IInv, TypeOK, ForceVersion, Step
<1>2. ~Migrating(c) /\ ~Migrating(c)'
  BY <1>1 DEF ForceVersion, Migrating
<1>3. Body = "none" /\ Body' = "none"
  <2>1. lock = c
    BY <1>1 DEF IInv, LockOfTheWorker, Working
  <2>2. Body = "none"
    BY <1>2, <2>1 DEF Body
  <2> QED BY <1>1, <1>2, <2>2, BodyStep
<1>4. version' \in 0..Latest + 1
  BY <1>1, CommandTarget DEF IInv, TypeOK
<1>5. Honest' = (Honest /\ schema = History!SchemaOf(version'))
  BY <1>1, SameSchemas DEF Honest
<1> QED BY <1>1, <1>3, <1>4, <1>5 DEF History!Force

LEMMA AutoMigrateMaps ==
  ASSUME IInv, IInv', AutoMigrateIfNeeded
  PROVE  History!Drift \/ UNCHANGED History!vars
<1>1. /\ env # "prod"
      /\ UNCHANGED <<env, version, dirty, lock, pc, cmd, misled>>
      /\ drifted' = (drifted \/ schema' # schema)
      /\ schema \subseteq schema'
  BY DEF AutoMigrateIfNeeded, IInv, TypeOK
<1>2. Body' = Body
  BY <1>1 DEF Body, Migrating
<1>3. CASE schema' # schema
  <2>1. Honest' = FALSE
    BY <1>1, <1>3 DEF Honest
  <2> QED BY <1>1, <1>2, <2>1 DEF History!Drift
<1>4. CASE schema' = schema
  <2>1. drifted' = drifted
    BY <1>1, <1>4 DEF IInv, TypeOK
  <2>2. Honest' = Honest
    BY <1>1, <2>1, SameTrust
  <2> QED BY <1>1, <1>2, <1>4, <2>2 DEF History!vars
<1> QED BY <1>3, <1>4

\* Every step maps to one of the history, or to none.
LEMMA StepMaps ==
  ASSUME IInv, IInv', [Next]_vars
  PROVE  [History!Next]_(History!vars)
<1>0. pc \in [Clis -> Stages]
  BY DEF IInv, TypeOK
<1>1. CASE UNCHANGED vars
  <2>1. Body' = Body
    BY <1>1 DEF vars, Body, Migrating
  <2>2. Honest' = Honest
    BY <1>1 DEF vars, Honest
  <2> QED BY <1>1, <2>1, <2>2 DEF vars, History!vars
<1>2. CASE AutoMigrateIfNeeded
  BY <1>2, AutoMigrateMaps DEF History!Next
<1>3. ASSUME NEW c \in Clis, Step(c)
      PROVE  [History!Next]_(History!vars)
  <2>1. CASE Start(c) \/ Refuse(c) \/ Open(c) \/ Report(c) \/ Usage(c) \/ Lock(c)
    <3>1. ~Migrating(c) /\ ~Migrating(c)' /\ UNCHANGED <<schema, version, dirty, misled>>
      BY <1>0, <2>1 DEF Start, Refuse, Open, Report, Usage, Lock, Migrating
    <3> QED BY <1>3, <3>1, QuietMaps
  <2>2. CASE ReadBlocked(c) \/ ReadLatest(c) \/ Unlock(c)
    <3>1. ~Migrating(c) /\ ~Migrating(c)' /\ UNCHANGED <<schema, version, dirty, misled>>
      BY <1>0, <2>2 DEF ReadBlocked, ReadLatest, Unlock, Migrating
    <3> QED BY <1>3, <3>1, QuietMaps
  <2>3. CASE RunFails(c) \/ Fail(c) \/ Crash(c)
    <3>1. ~Migrating(c)' /\ UNCHANGED <<schema, version, dirty, misled>>
      BY <1>0, <2>3 DEF RunFails, Fail, Crash, Migrating
    <3> QED BY <1>3, <3>1, QuietMaps, AbandonMaps DEF History!Next
  <2>4. CASE Mark(c)
    BY <2>4, MarkMaps DEF History!Next
  <2>5. CASE RunBody(c) \/ RunStatement(c)
    BY <2>5, RunMaps DEF History!Next
  <2>6. CASE Clear(c)
    BY <2>6, ClearMaps DEF History!Next
  <2>7. CASE ForceVersion(c)
    BY <2>7, ForceMaps DEF History!Next
  <2> QED BY <1>3, <2>1, <2>2, <2>3, <2>4, <2>5, <2>6, <2>7 DEF Step
<1> QED BY <1>1, <1>2, <1>3 DEF Next

\* However many operators, builds, failures, crashes and booting services
\* there are, the database goes through one migration after the other.
THEOREM MigrationsAreSerial == Spec => ImplementsHistory
<1>1. Init => History!Init
  BY InitMaps
<1>2. IInv /\ IInv' /\ [Next]_vars => [History!Next]_(History!vars)
  BY StepMaps
<1> QED BY <1>1, <1>2, Invariant, PTL DEF Spec, ImplementsHistory, History!Spec

=============================================================================
