--------------------------- MODULE TaskRepository ---------------------------
(***************************************************************************)
(* The task module over a database: every request runs handler -> service  *)
(* -> gormRepository (internal/modules/task) in a goroutine of one         *)
(* application instance, takes its connections from that instance's pool   *)
(* (internal/database/database.go), and its statements meet the locks of   *)
(* the other requests, of all instances, in the database.                  *)
(*                                                                         *)
(* Reads are autocommit statements that see committed rows.  GORM runs     *)
(* every single write, and Update its read and its write, in a             *)
(* transaction: the write is staged until the commit makes it visible.     *)
(* RowLocks says which of the two locking schemes of applyRowLock is in    *)
(* force: row locks taken by SELECT ... FOR UPDATE and by writes (postgres *)
(* and mysql), or the locks of the one file sqlite keeps (no FOR UPDATE).  *)
(*                                                                         *)
(* sqlite's file locks: a transaction that read holds SHARED until it      *)
(* ends, one that wrote holds RESERVED, and a commit needs every other     *)
(* SHARED gone and keeps new ones out meanwhile.  The writer keeps them    *)
(* out from its write on: a read that squeezed in between the write and    *)
(* the commit sees what it would have seen just before the write.          *)
(***************************************************************************)
EXTENDS TaskData, FiniteSets

CONSTANTS
  Procs,         \* requests that may be in flight at once
  Instances,     \* application processes
  Home,          \* the instance a request runs in
  MaxOpenConns,  \* DB_MAX_OPEN_CONNS of each instance
  RowLocks,      \* TRUE: postgres or mysql; FALSE: sqlite
  NoProc         \* nobody

ASSUME RepositoryAssumption ==
  /\ Home \in [Procs -> Instances]
  /\ MaxOpenConns \in Nat \ {0}
  /\ RowLocks \in BOOLEAN
  /\ NoProc \notin Procs

VARIABLES
  tasks,     \* the tasks table as committed: id -> row
  nextId,    \* the id the next insert gets
  pc,        \* pc[p]: the statement p is at
  req,       \* req[p]: the request p serves
  seen,      \* seen[p]: Update's local t, as First returned it
  staged,    \* staged[p]: the write of p's open transaction
  resp,      \* resp[p]: the reply, or the part of it computed so far
  rowLock,   \* rowLock[id]: who holds the row lock (RowLocks)
  shared,    \* who holds SHARED on the file      (sqlite)
  reserved   \* who holds RESERVED on the file    (sqlite)

locks == <<rowLock, shared, reserved>>
vars == <<tasks, nextId, pc, req, seen, staged, resp, rowLock, shared, reserved>>

\* conn and conn2 wait for a connection of the pool; exec, find, save and
\* commit hold one.
Stages == {"idle", "conn", "exec", "conn2", "find", "save", "commit", "reply"}
InDatabase == {"exec", "find", "save", "commit"}

Staged == [id : Ids \cup {0}, row : Row]
NoWrite == [id |-> 0, row |-> NoRow]

TypeOK ==
  /\ tasks \in [Ids -> Row]
  /\ nextId \in 1..(MaxId + 1)
  /\ pc \in [Procs -> Stages]
  /\ req \in [Procs -> Requests \cup {NoRequest}]
  /\ seen \in [Procs -> Task \cup {NoTask}]
  /\ staged \in [Procs -> Staged]
  /\ resp \in [Procs -> Reply]
  /\ rowLock \in [Ids -> Procs \cup {NoProc}]
  /\ shared \in SUBSET Procs
  /\ reserved \in Procs \cup {NoProc}

Init ==
  /\ tasks = [id \in Ids |-> NoRow]
  /\ nextId = 1
  /\ pc = [p \in Procs |-> "idle"]
  /\ req = [p \in Procs |-> NoRequest]
  /\ seen = [p \in Procs |-> NoTask]
  /\ staged = [p \in Procs |-> NoWrite]
  /\ resp = [p \in Procs |-> NoReply]
  /\ rowLock = [id \in Ids |-> NoProc]
  /\ shared = {}
  /\ reserved = NoProc

\* Mutated: an Unscoped() query that sees soft-deleted rows.
Live_Unscoped(id) == tasks[id].state # "none"

\* deleted_at IS NULL: what every query of the repository can see.
Live(id) == tasks[id].state = "live"
LiveIds == {id \in Ids : Live(id)}

-----------------------------------------------------------------------------
(***************************************************************************)
(* The handlers.                                                           *)
(***************************************************************************)
Accept(p) ==
  /\ pc[p] = "idle"
  /\ \E r \in Requests : req' = [req EXCEPT ![p] = r]
  /\ pc' = [pc EXCEPT ![p] = "conn"]
  /\ UNCHANGED <<tasks, nextId, seen, staged, resp, locks>>

\* parseID or Bind().Body() refuses the request.
Refuse(p) ==
  /\ pc[p] = "idle"
  /\ pc' = [pc EXCEPT ![p] = "reply"]
  /\ \E status \in {400, 422} : resp' = [resp EXCEPT ![p] = Answer(status)]
  /\ UNCHANGED <<tasks, nextId, req, seen, staged, locks>>

Return(p) ==
  /\ pc[p] = "reply"
  /\ pc' = [pc EXCEPT ![p] = "idle"]
  /\ req' = [req EXCEPT ![p] = NoRequest]
  /\ resp' = [resp EXCEPT ![p] = NoReply]
  /\ UNCHANGED <<tasks, nextId, seen, staged, locks>>

-----------------------------------------------------------------------------
(***************************************************************************)
(* Connections and locks.                                                  *)
(***************************************************************************)
InUse(i) == {p \in Procs : Home[p] = i /\ pc[p] \in InDatabase}

HasIdleConn(i) == Cardinality(InUse(i)) < MaxOpenConns

GetConn(p) ==
  /\ pc[p] \in {"conn", "conn2"}
  /\ HasIdleConn(Home[p])
  /\ pc' = [pc EXCEPT ![p] = IF pc[p] = "conn" THEN "exec" ELSE "find"]
  /\ UNCHANGED <<tasks, nextId, req, seen, staged, resp, locks>>

\* Mutated: no FOR UPDATE.
applyRowLock_None(p, id) == UNCHANGED locks

\* The lock a read of an Update transaction takes.
applyRowLock(p, id) ==
  IF RowLocks
  THEN /\ rowLock[id] = NoProc
       /\ rowLock' = [rowLock EXCEPT ![id] = p]
       /\ UNCHANGED <<shared, reserved>>
  ELSE /\ reserved = NoProc
       /\ shared' = shared \cup {p}
       /\ UNCHANGED <<rowLock, reserved>>

\* The lock a write takes.
WriteLock(p, id) ==
  IF RowLocks
  THEN /\ rowLock[id] \in {NoProc, p}
       /\ rowLock' = [rowLock EXCEPT ![id] = p]
       /\ UNCHANGED <<shared, reserved>>
  ELSE /\ reserved = NoProc
       /\ reserved' = p
       /\ UNCHANGED <<rowLock, shared>>

\* A plain read needs no lock of a row; on sqlite it waits for a writer.
CanRead == RowLocks \/ reserved = NoProc

\* Mutated: a transaction left open by an early return.
Release_Leaks(S) == UNCHANGED locks

\* The transactions of the processes in S end.
Release(S) ==
  /\ rowLock' = [id \in Ids |-> IF rowLock[id] \in S THEN NoProc ELSE rowLock[id]]
  /\ shared' = shared \ S
  /\ reserved' = IF reserved \in S THEN NoProc ELSE reserved

\* p's transaction, if any, ends, its connection returns to the pool and the
\* handler returns r.
Finish(p, r) ==
  /\ pc' = [pc EXCEPT ![p] = "reply"]
  /\ resp' = [resp EXCEPT ![p] = r]
  /\ seen' = [seen EXCEPT ![p] = NoTask]
  /\ staged' = [staged EXCEPT ![p] = NoWrite]
  /\ Release({p})
  /\ UNCHANGED req

Executes(p, op) == pc[p] = "exec" /\ req[p].op = op

\* A write waits in its transaction for the commit.
Stage(p, id, row) ==
  /\ staged' = [staged EXCEPT ![p] = [id |-> id, row |-> row]]
  /\ pc' = [pc EXCEPT ![p] = "commit"]
  /\ UNCHANGED <<tasks, req, resp>>

-----------------------------------------------------------------------------
(***************************************************************************)
(* The statements of the repository.                                       *)
(***************************************************************************)
\* Mutated: the id is read from the table, max(id) + 1, and not taken.
Insert_KeepsId(p) ==
  /\ Executes(p, "create")
  /\ nextId \in Ids
  /\ WriteLock(p, nextId)
  /\ Stage(p, nextId, LiveRow(req[p].draft))
  /\ UNCHANGED <<nextId, seen>>

\* Create: the sequence hands out the id at the insert and does not take it
\* back when the transaction fails.  sqlite's does: see Commit.
Insert(p) ==
  /\ Executes(p, "create")
  /\ nextId \in Ids
  /\ WriteLock(p, nextId)
  /\ Stage(p, nextId, LiveRow(req[p].draft))
  /\ nextId' = IF RowLocks THEN nextId + 1 ELSE nextId
  /\ UNCHANGED seen

\* Create with no id left: the insert fails.
InsertExhausted(p) ==
  /\ Executes(p, "create")
  /\ nextId \notin Ids
  /\ Finish(p, Answer(500))
  /\ UNCHANGED <<tasks, nextId>>

FindByID(p) ==
  /\ Executes(p, "get")
  /\ CanRead
  /\ LET id == req[p].id IN
       Finish(p, IF Live(id) THEN Answered(200, id, tasks[id].body)
                             ELSE Answer(404))
  /\ UNCHANGED <<tasks, nextId>>

\* List: COUNT(*) and SELECT are two statements, each on a connection of its
\* own, with no transaction around them.
Count(p) ==
  /\ Executes(p, "list")
  /\ CanRead
  /\ resp' = [resp EXCEPT ![p].total = Cardinality(LiveIds)]
  /\ pc' = [pc EXCEPT ![p] = "conn2"]
  /\ UNCHANGED <<tasks, nextId, req, seen, staged, locks>>

Find(p) ==
  /\ pc[p] = "find"
  /\ CanRead
  /\ Finish(p, [resp[p] EXCEPT !.status = 200, !.items = LiveIds])
  /\ UNCHANGED <<tasks, nextId>>

\* Update: the locked First of the transaction ...
First(p) ==
  /\ Executes(p, "update")
  /\ Live(req[p].id)
  /\ applyRowLock(p, req[p].id)
  /\ seen' = [seen EXCEPT ![p] = tasks[req[p].id].body]
  /\ pc' = [pc EXCEPT ![p] = "save"]
  /\ UNCHANGED <<tasks, nextId, req, staged, resp>>

FirstNotFound(p) ==
  /\ Executes(p, "update")
  /\ ~Live(req[p].id)
  /\ CanRead
  /\ Finish(p, Answer(404))
  /\ UNCHANGED <<tasks, nextId>>

\* Mutated: Save on r.db instead of tx takes a second connection.
Save_SecondConn(p) ==
  /\ pc[p] = "save"
  /\ HasIdleConn(Home[p])
  /\ WriteLock(p, req[p].id)
  /\ Stage(p, req[p].id, LiveRow(Mutate(seen[p], req[p].patch)))
  /\ UNCHANGED <<nextId, seen>>

\* ... mutate, and Save: GORM updates every column of the visible row and,
\* when no row was affected, inserts it over whatever is there, deleted_at
\* included.  Either way the row becomes a live row with p's columns.
Save(p) ==
  /\ pc[p] = "save"
  /\ WriteLock(p, req[p].id)
  /\ Stage(p, req[p].id, LiveRow(Mutate(seen[p], req[p].patch)))
  /\ UNCHANGED <<nextId, seen>>

\* sqlite refuses at once to let a second reader of the file write
\* (SQLITE_BUSY): waiting would deadlock.
SaveBusy(p) ==
  /\ pc[p] = "save"
  /\ ~RowLocks
  /\ reserved # NoProc
  /\ Finish(p, Answer(500))
  /\ UNCHANGED <<tasks, nextId>>

Delete(p) ==
  /\ Executes(p, "delete")
  /\ Live(req[p].id)
  /\ WriteLock(p, req[p].id)
  /\ Stage(p, req[p].id, SoftDeleted(tasks[req[p].id]))
  /\ UNCHANGED <<nextId, seen>>

\* Mutated: RowsAffected is not looked at.
DeleteNotFound_NoContent(p) ==
  /\ Executes(p, "delete")
  /\ ~Live(req[p].id)
  /\ CanRead
  /\ Finish(p, Answer(204))
  /\ UNCHANGED <<tasks, nextId>>

\* RowsAffected == 0.
DeleteNotFound(p) ==
  /\ Executes(p, "delete")
  /\ ~Live(req[p].id)
  /\ CanRead
  /\ Finish(p, Answer(404))
  /\ UNCHANGED <<tasks, nextId>>

\* Mutated: the model itself instead of its Response DTO.
Success_Model(p) == Answered(200, staged[p].id, staged[p].row)

\* What the handler answers when the commit of p's write succeeds.
Success(p) ==
  LET w == staged[p] IN
  CASE req[p].op = "create" -> Answered(201, w.id, w.row.body)
    [] req[p].op = "update" -> Answered(200, w.id, w.row.body)
    [] OTHER                -> Answer(204)

\* Mutated: the error of the commit is dropped and nothing is written.
Commit_Dropped(p) ==
  /\ pc[p] = "commit"
  /\ Finish(p, Success(p))
  /\ UNCHANGED <<tasks, nextId>>

\* Mutated: a commit that does not wait for the readers of the file.
Commit_NoWait(p) ==
  /\ pc[p] = "commit"
  /\ tasks' = [tasks EXCEPT ![staged[p].id] = staged[p].row]
  /\ nextId' = IF ~RowLocks /\ req[p].op = "create" THEN nextId + 1 ELSE nextId
  /\ Finish(p, Success(p)) \/ Finish(p, Answer(500))

\* The commit becomes durable.  If the connection breaks before the database
\* says so, the handler gets an error and answers 500.
Commit(p) ==
  /\ pc[p] = "commit"
  /\ shared \subseteq {p}
  /\ tasks' = [tasks EXCEPT ![staged[p].id] = staged[p].row]
  /\ nextId' = IF ~RowLocks /\ req[p].op = "create" THEN nextId + 1 ELSE nextId
  /\ Finish(p, Success(p)) \/ Finish(p, Answer(500))

\* Any statement may fail - lock wait timeout, SQLITE_BUSY, a broken
\* connection: the transaction rolls back.
Fail(p) ==
  /\ pc[p] \in InDatabase \cup {"conn", "conn2"}
  /\ Finish(p, Answer(500))
  /\ UNCHANGED <<tasks, nextId>>

\* An instance dies; the database rolls its open transactions back.
Crash(i) ==
  LET S == {p \in Procs : Home[p] = i} IN
  /\ pc' = [p \in Procs |-> IF p \in S THEN "idle" ELSE pc[p]]
  /\ req' = [p \in Procs |-> IF p \in S THEN NoRequest ELSE req[p]]
  /\ resp' = [p \in Procs |-> IF p \in S THEN NoReply ELSE resp[p]]
  /\ seen' = [p \in Procs |-> IF p \in S THEN NoTask ELSE seen[p]]
  /\ staged' = [p \in Procs |-> IF p \in S THEN NoWrite ELSE staged[p]]
  /\ Release(S)
  /\ UNCHANGED <<tasks, nextId>>

-----------------------------------------------------------------------------
\* What p does on its own once it is accepted.
Step(p) ==
  \/ Insert(p) \/ InsertExhausted(p) \/ FindByID(p) \/ Count(p) \/ Find(p)
  \/ First(p) \/ FirstNotFound(p) \/ Save(p) \/ SaveBusy(p)
  \/ Delete(p) \/ DeleteNotFound(p) \/ Commit(p) \/ Return(p)

Next ==
  \/ \E p \in Procs : Accept(p) \/ Refuse(p) \/ GetConn(p) \/ Step(p) \/ Fail(p)
  \/ \E i \in Instances : Crash(i)

Spec == Init /\ [][Next]_vars

(***************************************************************************)
(* Fairness of the row-locking drivers.  Goroutines are scheduled and the  *)
(* database answers: a step that stays possible is taken.  postgres and    *)
(* mysql queue the waiters of a row lock, and database/sql hands a         *)
(* returned connection to a waiter: whoever can go on again and again does *)
(* not wait forever.  Nothing makes clients call, instances die or         *)
(* statements fail.                                                        *)
(***************************************************************************)
FairRequest(p) == SF_vars(GetConn(p) \/ Step(p))
Fairness == \A p \in Procs : FairRequest(p)

FairSpec == Spec /\ Fairness

-----------------------------------------------------------------------------
(***************************************************************************)
(* Properties.                                                             *)
(***************************************************************************)
Updating(p) == pc[p] = "save"

Inserting(p) == pc[p] = "commit" /\ req[p].op = "create"

\* Between the locked read of an Update and its Save nobody else changes or
\* deletes the row: the t that Save writes back in full still is the committed
\* row (repository.go:70-78).
SnapshotFresh ==
  \A p \in Procs : Updating(p) =>
    /\ req[p].op = "update"
    /\ Live(req[p].id)
    /\ seen[p] = tasks[req[p].id].body

\* What a transaction is about to commit still is what its request asks for,
\* applied to the table as committed: a create finds its id unused, an update
\* assigns the sent fields to the row as it is now - Save overwrites no
\* concurrent PATCH and its insert-over-conflict never brings a deleted task
\* back - and a delete hides the row as it is now (repository.go:25-27, 67-99).
StagedWrites ==
  \A p \in Procs : pc[p] = "commit" =>
    LET id == staged[p].id  row == staged[p].row IN
    /\ id \in Ids
    /\ \/ /\ req[p].op = "create"
          /\ tasks[id].state = "none" /\ row = LiveRow(req[p].draft)
       \/ /\ req[p].op = "update" /\ id = req[p].id
          /\ Live(id) /\ row = LiveRow(Mutate(tasks[id].body, req[p].patch))
       \/ /\ req[p].op = "delete" /\ id = req[p].id
          /\ Live(id) /\ row = SoftDeleted(tasks[id])

\* Open transactions and locks match one to one: whoever is about to commit,
\* or read a row to update it, holds the lock that covers the row, and no lock
\* outlives its transaction - after a 404, an error, a commit or the crash of
\* an instance (repository.go:58-83, 90-98).
LocksOfOpenTransactions ==
  /\ \A p \in Procs :
       /\ Updating(p) =>
            IF RowLocks THEN rowLock[req[p].id] = p ELSE p \in shared
       /\ pc[p] = "commit" =>
            IF RowLocks THEN rowLock[staged[p].id] = p ELSE reserved = p
  /\ \A id \in Ids : rowLock[id] # NoProc =>
       LET p == rowLock[id] IN
         \/ Updating(p) /\ req[p].id = id
         \/ pc[p] = "commit" /\ staged[p].id = id
  /\ \A p \in shared : Updating(p) \/ pc[p] = "commit"
  /\ reserved # NoProc => pc[reserved] = "commit"

\* No row lies beyond the sequence, and an id handed to an insert that has not
\* committed is out of the sequence's reach (on sqlite: the writer's alone)
\* and belongs to no other insert (repository.go:25-27).
FreshIds ==
  /\ \A id \in Ids : id >= nextId => tasks[id].state = "none"
  /\ \A p \in Procs : Inserting(p) =>
       /\ IF RowLocks THEN staged[p].id < nextId ELSE staged[p].id = nextId
       /\ \A q \in Procs : Inserting(q) /\ staged[q].id = staged[p].id => p = q

\* A PATCH changes the fields it sent and no other, whatever ran meanwhile:
\* a live task changes only by the commit of an update of that task, to the
\* result of its mutate on the task as it was at the commit
\* (repository.go:65-66, service.go:55-72).
NoLostUpdate ==
  [][\A id \in Ids :
       Live(id) /\ Live(id)' /\ tasks'[id] # tasks[id] =>
         \E p \in Procs :
           /\ pc[p] = "commit" /\ pc'[p] # "commit"
           /\ req[p].op = "update" /\ req[p].id = id
           /\ tasks'[id].body = Mutate(tasks[id].body, req[p].patch)]_vars

\* A deleted task never comes back and its row never changes: neither Save's
\* upsert nor a create that reuses the id touches it (repository.go:78,
\* model.go:17).
DeletedForever ==
  [][\A id \in Ids :
       tasks[id].state = "deleted" => tasks'[id] = tasks[id]]_vars

\* The rows whose lock p's statement takes.
RowsNeeded(p) ==
  IF Executes(p, "create") THEN {nextId} \cap Ids
  ELSE IF Executes(p, "update") \/ Executes(p, "delete") THEN {req[p].id} \cap LiveIds
  ELSE IF pc[p] = "save" THEN {req[p].id} ELSE {}

\* p's statement waits for the writer of the file.  A refused insert does not.
FileNeeded(p) ==
  pc[p] \in {"exec", "find"} /\ ~(Executes(p, "create") /\ nextId \notin Ids)

\* Whom p waits for: the holders of its instance's connections, of a row lock,
\* of the file.
Blockers(p) ==
  (IF pc[p] \in {"conn", "conn2"} /\ ~HasIdleConn(Home[p])
   THEN InUse(Home[p]) ELSE {})
  \cup (IF RowLocks THEN {rowLock[id] : id \in RowsNeeded(p)} \ {NoProc, p} ELSE {})
  \cup (IF ~RowLocks /\ FileNeeded(p) THEN {reserved} \ {NoProc} ELSE {})
  \cup (IF pc[p] = "commit" THEN shared \ {p} ELSE {})

\* How much a request at a stage may still have to wait for.
Depth(stage) ==
  CASE stage \in {"conn", "conn2"} -> 3
    [] stage \in {"exec", "find"}  -> 2
    [] stage = "commit"            -> 1
    [] OTHER                       -> 0

\* Nobody waits in a circle, through the pool, the rows and the file together:
\* whoever waits, waits for requests that are in the database and further
\* along than it is.  Nobody who holds a row or the file waits for a
\* connection, and a transaction that read a row waits for no other
\* (database.go:56, repository.go:67-83).
NoCircularWait ==
  \A p \in Procs : \A q \in Blockers(p) :
    pc[q] \in InDatabase /\ Depth(pc[q]) < Depth(pc[p])

\* A request waits for its Blockers and for nothing else: without them its
\* next step is possible, with them none is (database.go:56,
\* repository.go:58-83).
BlockersBlock ==
  \A p \in Procs : pc[p] # "idle" =>
    (Blockers(p) = {} <=> ENABLED <<GetConn(p) \/ Step(p)>>_vars)

\* Every request the pool and the locks make wait is answered, unless its
\* instance dies (database.go:56, repository.go:67-83).
RequestAnswered ==
  \A p \in Procs : pc[p] = "conn" ~> pc[p] \in {"reply", "idle"}

-----------------------------------------------------------------------------
(***************************************************************************)
(* Every operation takes effect at one instant: reads when they read,      *)
(* writes when they commit, 404 when the statement finds no row.           *)
(***************************************************************************)
PhaseOf(stage) ==
  CASE stage = "idle"               -> "idle"
    [] stage \in {"conn2", "find"}  -> "counted"
    [] stage = "reply"              -> "answered"
    [] OTHER                        -> "pending"

Phase == [p \in Procs |-> PhaseOf(pc[p])]

Store == INSTANCE TaskStore WITH phase <- Phase

\* The GORM repository implements the Repository interface of service.go:14-20
\* as TaskStore states it, with its pool, locks, failures and crashes.
ImplementsTaskStore == Store!Spec

\* What the store promises of answers holds of the repository's: a 201, 200 or
\* 204 is durable when it is sent (repository.go:25-27, 81-99).
AnswersAreDurable == Store!AnswersHold

=============================================================================
