------------------------ MODULE TaskRepositoryProofs ------------------------
(***************************************************************************)
(* Proofs about TaskRepository, for any number of requests, instances,     *)
(* connections, tasks and values, under both locking schemes.              *)
(***************************************************************************)
EXTENDS TaskRepository, FiniteSetTheorems, TLAPS

-----------------------------------------------------------------------------
(***************************************************************************)
(* The data.                                                               *)
(***************************************************************************)
\* Assigning the sent fields of a PATCH to a task gives a task
\* (service.go:57-72).
LEMMA MutateType ==
  ASSUME NEW t \in Task, NEW patch \in UpdateRequest
  PROVE  Mutate(t, patch) \in Task
BY DEF Mutate, Task, UpdateRequest

\* What the requests of the clients carry (handler.go:23-87).
LEMMA RequestTypes ==
  ASSUME NEW r \in Requests \cup {NoRequest}
  PROVE  /\ r.op \in {"get", "update", "delete"} => r.id \in Ids
         /\ r.op = "update" => r.patch \in UpdateRequest
         /\ r.op = "create" => r.draft \in Task
<1>1. CASE r = NoRequest
  BY <1>1 DEF NoRequest, Plain
<1>2. CASE r \in Requests
  BY <1>2, DataAssumption DEF Request, CreateRequest, Plain
<1>3. QED
  BY <1>1, <1>2

\* The rows writes stage are rows, and the replies are replies.
LEMMA RowTypes ==
  /\ NoRow \in Row
  /\ \A t \in Task : LiveRow(t) \in Row
  /\ \A r \in Row : r.state = "live" => r.body \in Task /\ SoftDeleted(r) \in Row
BY DEF NoRow, Row, LiveRow, SoftDeleted

LEMMA ReplyTypes ==
  /\ NoReply \in Reply
  /\ \A s \in {200, 201, 204, 400, 404, 422, 500} : Answer(s) \in Reply
  /\ \A s \in {200, 201}, id \in Ids \cup {0}, t \in Task \cup {NoTask} :
       Answered(s, id, t) \in Reply
<1>1. NoReply \in Reply
  BY DEF NoReply, Reply
<1>2. ASSUME NEW s \in {200, 201, 204, 400, 404, 422, 500}
      PROVE  Answer(s) \in Reply
  BY <1>1 DEF Answer, Reply
<1>3. ASSUME NEW s \in {200, 201}, NEW id \in Ids \cup {0}, NEW t \in Task \cup {NoTask}
      PROVE  Answered(s, id, t) \in Reply
  BY DEF Answered, Reply, NoReply
<1>4. QED
  BY <1>1, <1>2, <1>3

\* Count and Find fill in a reply (repository.go:45-53).
LEMMA ListReplyTypes ==
  ASSUME NEW r \in Reply, NEW total \in Nat, NEW items \in SUBSET Ids
  PROVE  /\ [r EXCEPT !.total = total] \in Reply
         /\ [r EXCEPT !.status = 200, !.items = items] \in Reply
<1>1. [r EXCEPT !.total = total] \in Reply
  BY DEF Reply
<1>2. \A s \in Reply : [s EXCEPT !.items = items] \in Reply
  BY DEF Reply
<1>3. [r EXCEPT !.status = 200] \in Reply
  BY DEF Reply
<1>4. QED
  BY <1>1, <1>2, <1>3

\* The count of a List is a number.
LEMMA CountType == Cardinality(LiveIds) \in Nat
<1>1. IsFiniteSet(Ids)
  BY DataAssumption, FS_Interval DEF Ids
<1>2. IsFiniteSet(LiveIds)
  BY <1>1, FS_Subset DEF LiveIds
<1>3. QED
  BY <1>2, FS_CardinalityType

-----------------------------------------------------------------------------
(***************************************************************************)
(* The inductive invariant: the types and the four safety invariants the   *)
(* runs check.  None of the four is inductive alone.                       *)
(***************************************************************************)
IInv ==
  /\ TypeOK
  /\ SnapshotFresh
  /\ StagedWrites
  /\ LocksOfOpenTransactions
  /\ FreshIds

\* The empty database and idle processes satisfy it.
LEMMA InitIInv == Init => IInv
<1> SUFFICES ASSUME Init PROVE IInv
  OBVIOUS
<1> USE DEF Init
<1>1. TypeOK
  BY DataAssumption, RowTypes, ReplyTypes
  DEF TypeOK, Stages, Staged, NoWrite
<1>2. SnapshotFresh /\ StagedWrites
  BY DEF SnapshotFresh, StagedWrites, Updating
<1>3. LocksOfOpenTransactions
  BY DEF LocksOfOpenTransactions, Updating
<1>4. FreshIds
  BY DEF FreshIds, Inserting, NoRow
<1>5. QED
  BY <1>1, <1>2, <1>3, <1>4 DEF IInv

\* A step of p that neither leaves nor enters a transaction, and touches
\* neither the table nor a lock, keeps it.
LEMMA OutsideTransaction ==
  ASSUME IInv, NEW p \in Procs, NEW stage \in Stages \ {"save", "commit"},
         pc[p] \notin {"save", "commit"},
         pc' = [pc EXCEPT ![p] = stage],
         req' \in [Procs -> Requests \cup {NoRequest}],
         \A q \in Procs \ {p} : req'[q] = req[q],
         resp' \in [Procs -> Reply],
         UNCHANGED <<tasks, nextId, seen, staged, locks>>
  PROVE  IInv'
<1> USE DEF locks
<1>1. TypeOK'
  BY DEF IInv, TypeOK
<1>2. \A q \in Procs : pc'[q] \in {"save", "commit"} =>
          pc'[q] = pc[q] /\ req'[q] = req[q]
  BY DEF IInv, TypeOK
<1>3. \A q \in Procs : pc[q] \in {"save", "commit"} =>
          pc'[q] = pc[q] /\ req'[q] = req[q]
  BY DEF IInv, TypeOK
<1>4. SnapshotFresh'
  BY <1>2 DEF IInv, SnapshotFresh, Updating, Live
<1>5. StagedWrites'
  BY <1>2 DEF IInv, StagedWrites, Live
<1>6. LocksOfOpenTransactions'
  BY <1>2, <1>3 DEF IInv, TypeOK, LocksOfOpenTransactions, Updating
<1>7. FreshIds'
  BY <1>2 DEF IInv, FreshIds, Inserting
<1>8. QED
  BY <1>1, <1>4, <1>5, <1>6, <1>7 DEF IInv

\* A transaction's end takes its locks with it (repository.go:69-86).
LEMMA FinishLocks ==
  ASSUME IInv, NEW p \in Procs, NEW r, Finish(p, r)
  PROVE  LocksOfOpenTransactions'
<1> USE RepositoryAssumption
    DEF IInv, LocksOfOpenTransactions, Updating, Finish, Release
<1>1. /\ pc'[p] = "reply" /\ UNCHANGED req
      /\ \A q \in Procs : q # p => pc'[q] = pc[q] /\ staged'[q] = staged[q]
  BY DEF TypeOK
<1>2. ASSUME NEW q \in Procs, pc'[q] = "save"
      PROVE  IF RowLocks THEN rowLock'[req'[q].id] = q ELSE q \in shared'
  <2>1. q # p /\ pc[q] = "save" /\ req[q].id \in Ids
    BY <1>1, <1>2, RequestTypes DEF SnapshotFresh, TypeOK
  <2>2. QED
    BY <2>1 DEF TypeOK
<1>3. ASSUME NEW q \in Procs, pc'[q] = "commit"
      PROVE  IF RowLocks THEN rowLock'[staged'[q].id] = q ELSE reserved' = q
  <2>1. q # p /\ pc[q] = "commit" /\ staged'[q] = staged[q] /\ staged[q].id \in Ids
    BY <1>1, <1>3 DEF StagedWrites
  <2>2. QED
    BY <2>1
<1>4. ASSUME NEW id \in Ids, rowLock'[id] # NoProc
      PROVE  \/ pc'[rowLock'[id]] = "save" /\ req'[rowLock'[id]].id = id
             \/ pc'[rowLock'[id]] = "commit" /\ staged'[rowLock'[id]].id = id
  BY <1>1, <1>4 DEF TypeOK
<1>5. \A q \in shared' : pc'[q] \in {"save", "commit"}
  BY <1>1 DEF TypeOK
<1>6. reserved' # NoProc => pc'[reserved'] = "commit"
  BY <1>1 DEF TypeOK
<1>7. QED
  BY <1>2, <1>3, <1>4, <1>5, <1>6

\* A transaction that ends without a write keeps it: the locks go with it.
LEMMA FinishIInv ==
  ASSUME IInv, NEW p \in Procs, NEW r \in Reply,
         Finish(p, r), UNCHANGED <<tasks, nextId>>
  PROVE  IInv'
<1> USE DEF Finish, Release
<1>1. TypeOK'
  BY RowTypes DEF IInv, TypeOK, Stages, Staged, NoWrite
<1>2. \A q \in Procs : q # p =>
        pc'[q] = pc[q] /\ staged'[q] = staged[q] /\ seen'[q] = seen[q]
  BY DEF IInv, TypeOK
<1>3. pc'[p] = "reply"
  BY DEF IInv, TypeOK
<1>4. SnapshotFresh'
  BY <1>2, <1>3 DEF IInv, SnapshotFresh, Updating, Live
<1>5. StagedWrites'
  BY <1>2, <1>3 DEF IInv, StagedWrites, Live
<1>6. LocksOfOpenTransactions'
  BY FinishLocks
<1>7. FreshIds'
  BY <1>2, <1>3 DEF IInv, FreshIds, Inserting
<1>8. QED
  BY <1>1, <1>4, <1>5, <1>6, <1>7 DEF IInv

-----------------------------------------------------------------------------
(***************************************************************************)
(* The steps inside a transaction.                                         *)
(***************************************************************************)
\* The locked First keeps it: with the row lock, or SHARED on the file, no
\* other transaction holds a write of that row (repository.go:58-76).
LEMMA FirstIInv ==
  ASSUME IInv, NEW p \in Procs, First(p)
  PROVE  IInv'
<1> DEFINE id == req[p].id
<1> USE DEF First
<1>0. /\ id \in Ids /\ Live(id)
      /\ pc[p] = "exec" /\ req[p].op = "update"
      /\ pc' = [pc EXCEPT ![p] = "save"]
      /\ seen' = [seen EXCEPT ![p] = tasks[id].body]
      /\ UNCHANGED <<tasks, nextId, req, staged, resp, reserved>>
  BY RequestTypes DEF IInv, TypeOK, Executes, applyRowLock
<1>1. tasks[id].body \in Task
  BY <1>0, RowTypes DEF IInv, TypeOK, Live
<1>2. /\ rowLock' \in [Ids -> Procs \cup {NoProc}]
      /\ shared' \in SUBSET Procs
  BY <1>0 DEF IInv, TypeOK, applyRowLock
<1>3. TypeOK'
  BY <1>0, <1>1, <1>2 DEF IInv, TypeOK, Stages
<1>4. \A q \in Procs : q # p => pc'[q] = pc[q] /\ seen'[q] = seen[q]
  BY <1>0 DEF IInv, TypeOK
<1>5. pc'[p] = "save" /\ seen'[p] = tasks[id].body
  BY <1>0 DEF IInv, TypeOK
<1>6. SnapshotFresh'
  BY <1>0, <1>4, <1>5 DEF IInv, SnapshotFresh, Updating, Live
<1>7. StagedWrites'
  BY <1>0, <1>4, <1>5 DEF IInv, StagedWrites, Live
<1>8. LocksOfOpenTransactions'
  <2> USE RepositoryAssumption DEF IInv, LocksOfOpenTransactions, Updating
  <2>1. CASE RowLocks
    <3>1. /\ rowLock[id] = NoProc /\ shared' = shared
          /\ rowLock' = [rowLock EXCEPT ![id] = p]
      BY <2>1 DEF applyRowLock
    <3>2. \A q \in Procs : q # p /\ pc[q] = "save" =>
            req[q].id \in Ids /\ rowLock'[req[q].id] = q
      BY <2>1, <3>1, <1>0, RequestTypes DEF SnapshotFresh, TypeOK
    <3>3. \A q \in Procs : q # p /\ pc[q] = "commit" => rowLock'[staged[q].id] = q
      BY <2>1, <3>1, <1>0 DEF StagedWrites, TypeOK
    <3>4. rowLock'[id] = p
      BY <3>1, <1>0 DEF TypeOK
    <3>5. \A i \in Ids : i # id => rowLock'[i] = rowLock[i]
      BY <3>1, <1>0 DEF TypeOK
    <3>6. \A i \in Ids : rowLock[i] # p
      BY <1>0
    <3>7. reserved # p /\ p \notin shared
      BY <1>0
    <3>8. \A i \in Ids : rowLock[i] \in Procs \cup {NoProc}
      BY DEF TypeOK
    <3>9. QED
      BY <1>0, <1>4, <1>5, <2>1, <3>1, <3>2, <3>3, <3>4, <3>5, <3>6, <3>7, <3>8
      DEF TypeOK
  <2>2. CASE ~RowLocks
    <3>1. shared' = shared \cup {p} /\ rowLock' = rowLock
      BY <2>2 DEF applyRowLock
    <3>2. (\A i \in Ids : rowLock[i] # p) /\ reserved # p
      BY <1>0
    <3>3. QED
      BY <1>0, <1>4, <1>5, <2>2, <3>1, <3>2 DEF TypeOK
  <2>3. QED
    BY <2>1, <2>2
<1>9. FreshIds'
  BY <1>0, <1>4, <1>5 DEF IInv, FreshIds, Inserting
<1>10. QED
  BY <1>3, <1>6, <1>7, <1>8, <1>9 DEF IInv

\* What the request of p writes to the row id, on the table as committed.
Fits(p, id, row) ==
  \/ /\ req[p].op = "create"
     /\ tasks[id].state = "none" /\ row = LiveRow(req[p].draft)
  \/ /\ req[p].op = "update" /\ id = req[p].id
     /\ Live(id) /\ row = LiveRow(Mutate(tasks[id].body, req[p].patch))
  \/ /\ req[p].op = "delete" /\ id = req[p].id
     /\ Live(id) /\ row = SoftDeleted(tasks[id])

\* Staging a write that fits the request, under the write lock, keeps all of
\* it but FreshIds, which depends on the sequence too.
LEMMA StageIInv ==
  ASSUME IInv, NEW p \in Procs, NEW id \in Ids, NEW row \in Row,
         pc[p] \in {"exec", "save"},
         pc[p] = "save" => id = req[p].id,
         Fits(p, id, row), WriteLock(p, id), Stage(p, id, row),
         seen' = seen, nextId' \in 1..(MaxId + 1)
  PROVE  /\ TypeOK' /\ SnapshotFresh' /\ StagedWrites'
         /\ LocksOfOpenTransactions'
<1>0. /\ pc' = [pc EXCEPT ![p] = "commit"]
      /\ staged' = [staged EXCEPT ![p] = [id |-> id, row |-> row]]
      /\ UNCHANGED <<tasks, req, resp, seen>>
  BY DEF Stage
<1>1. /\ rowLock' \in [Ids -> Procs \cup {NoProc}]
      /\ reserved' \in Procs \cup {NoProc}
      /\ shared' = shared
  BY DEF IInv, TypeOK, WriteLock
<1>2. TypeOK'
  BY <1>0, <1>1 DEF IInv, TypeOK, Stages, Staged
<1>3. \A q \in Procs : q # p => pc'[q] = pc[q] /\ staged'[q] = staged[q]
  BY <1>0 DEF IInv, TypeOK
<1>4. pc'[p] = "commit" /\ staged'[p] = [id |-> id, row |-> row]
  BY <1>0 DEF IInv, TypeOK
<1>5. SnapshotFresh'
  BY <1>0, <1>3, <1>4 DEF IInv, SnapshotFresh, Updating, Live
<1>6. StagedWrites'
  BY <1>0, <1>3, <1>4 DEF IInv, StagedWrites, Live, Fits
<1>7. LocksOfOpenTransactions'
  <2> USE RepositoryAssumption DEF IInv, LocksOfOpenTransactions, Updating
  <2>1. CASE RowLocks
    <3>1. /\ rowLock[id] \in {NoProc, p} /\ shared' = shared /\ reserved' = reserved
          /\ rowLock' = [rowLock EXCEPT ![id] = p]
      BY <2>1 DEF WriteLock
    <3>2. \A q \in Procs : q # p /\ pc[q] = "save" => rowLock'[req[q].id] = q
      BY <2>1, <3>1, RequestTypes DEF SnapshotFresh, TypeOK
    <3>3. \A q \in Procs : q # p /\ pc[q] = "commit" => rowLock'[staged[q].id] = q
      BY <2>1, <3>1 DEF StagedWrites, TypeOK
    <3>4. rowLock'[id] = p
      BY <3>1 DEF TypeOK
    <3>5. \A i \in Ids : i # id => rowLock'[i] = rowLock[i]
      BY <3>1 DEF TypeOK
    <3>6. \A i \in Ids : rowLock[i] = p => i = id
      BY <2>1
    <3>7. reserved # p
      OBVIOUS
    <3>8. \A i \in Ids : rowLock[i] \in Procs \cup {NoProc}
      BY DEF TypeOK
    <3>9. QED
      BY <1>0, <1>3, <1>4, <2>1, <3>1, <3>2, <3>3, <3>4, <3>5, <3>6, <3>7, <3>8
      DEF TypeOK
  <2>2. CASE ~RowLocks
    <3>1. /\ reserved = NoProc /\ reserved' = p
          /\ rowLock' = rowLock /\ shared' = shared
      BY <2>2 DEF WriteLock
    <3>2. \A q \in Procs : pc[q] # "commit"
      BY <2>2, <3>1
    <3>3. \A i \in Ids : rowLock[i] = p => pc[p] = "save" /\ req[p].id = i
      BY <3>2
    <3>4. QED
      BY <1>0, <1>3, <1>4, <2>2, <3>1, <3>2, <3>3 DEF TypeOK
  <2>3. QED
    BY <2>1, <2>2
<1>8. QED
  BY <1>2, <1>5, <1>6, <1>7

\* Insert keeps it: the id comes from beyond every row (repository.go:25-27).
LEMMA InsertIInv ==
  ASSUME IInv, NEW p \in Procs, Insert(p)
  PROVE  IInv'
<1>0. /\ pc[p] = "exec" /\ req[p].op = "create" /\ nextId \in Ids
      /\ WriteLock(p, nextId) /\ Stage(p, nextId, LiveRow(req[p].draft))
      /\ nextId' = IF RowLocks THEN nextId + 1 ELSE nextId
      /\ seen' = seen
  BY DEF Insert, Executes
<1>1. LiveRow(req[p].draft) \in Row
  BY <1>0, RequestTypes, RowTypes DEF IInv, TypeOK
<1>2. Fits(p, nextId, LiveRow(req[p].draft))
  BY <1>0, DataAssumption DEF Fits, IInv, FreshIds, Ids
<1>3. nextId' \in 1..(MaxId + 1)
  BY <1>0, DataAssumption DEF Ids, IInv, TypeOK
<1>4. TypeOK' /\ SnapshotFresh' /\ StagedWrites' /\ LocksOfOpenTransactions'
  BY <1>0, <1>1, <1>2, <1>3, StageIInv
<1>5. FreshIds'
  <2>1. /\ pc' = [pc EXCEPT ![p] = "commit"] /\ UNCHANGED <<tasks, req>>
        /\ staged'[p].id = nextId
        /\ \A q \in Procs : q # p => pc'[q] = pc[q] /\ staged'[q] = staged[q]
    BY <1>0 DEF Stage, IInv, TypeOK
  <2>2. \A i \in Ids : i >= nextId' => tasks'[i].state = "none"
    BY <1>0, <2>1, DataAssumption DEF IInv, FreshIds, TypeOK, Ids
  <2>3. \A q \in Procs : q # p /\ Inserting(q) =>
          RowLocks /\ staged[q].id < nextId /\ staged[q].id \in Ids
    BY <1>0, RepositoryAssumption
    DEF IInv, FreshIds, WriteLock, LocksOfOpenTransactions, Inserting, StagedWrites
  <2>4. QED
    BY <1>0, <2>1, <2>2, <2>3, DataAssumption
    DEF FreshIds, Inserting, IInv, Ids, TypeOK
<1>6. QED
  BY <1>4, <1>5 DEF IInv

\* Save keeps it: the row is as First saw it (repository.go:77-80).
LEMMA SaveIInv ==
  ASSUME IInv, NEW p \in Procs, Save(p)
  PROVE  IInv'
<1> DEFINE id == req[p].id
           row == LiveRow(Mutate(seen[p], req[p].patch))
<1>0. /\ pc[p] = "save" /\ WriteLock(p, id) /\ Stage(p, id, row)
      /\ UNCHANGED <<nextId, seen>>
  BY DEF Save
<1>1. /\ req[p].op = "update" /\ id \in Ids /\ Live(id)
      /\ seen[p] = tasks[id].body
  BY <1>0, RequestTypes DEF IInv, TypeOK, SnapshotFresh, Updating
<1>2. Fits(p, id, row)
  BY <1>1 DEF Fits
<1>3. row \in Row
  <2>1. Mutate(seen[p], req[p].patch) \in Task
    <3>1. req[p].patch \in UpdateRequest
      BY <1>1, RequestTypes DEF IInv, TypeOK
    <3>2. seen[p] \in Task
      BY <1>1, RowTypes DEF IInv, TypeOK, Live
    <3>3. QED
      BY <3>1, <3>2, MutateType
  <2>2. QED
    BY <2>1, RowTypes
<1>4. nextId' \in 1..(MaxId + 1)
  BY <1>0 DEF IInv, TypeOK
<1>5. TypeOK' /\ SnapshotFresh' /\ StagedWrites' /\ LocksOfOpenTransactions'
  BY <1>0, <1>1, <1>2, <1>3, <1>4, StageIInv
<1>6. FreshIds'
  BY <1>0, <1>1 DEF Stage, IInv, TypeOK, FreshIds, Inserting
<1>7. QED
  BY <1>5, <1>6 DEF IInv

\* Delete's UPDATE keeps it (repository.go:90-91).
LEMMA DeleteIInv ==
  ASSUME IInv, NEW p \in Procs, Delete(p)
  PROVE  IInv'
<1> DEFINE id == req[p].id
<1>0. /\ pc[p] = "exec" /\ req[p].op = "delete" /\ Live(id)
      /\ WriteLock(p, id) /\ Stage(p, id, SoftDeleted(tasks[id]))
      /\ UNCHANGED <<nextId, seen>>
  BY DEF Delete, Executes
<1>1. id \in Ids /\ Fits(p, id, SoftDeleted(tasks[id]))
  BY <1>0, RequestTypes DEF IInv, TypeOK, Fits
<1>2. SoftDeleted(tasks[id]) \in Row
  BY <1>0, <1>1, RowTypes DEF IInv, TypeOK, Live
<1>3. nextId' \in 1..(MaxId + 1)
  BY <1>0 DEF IInv, TypeOK
<1>4. TypeOK' /\ SnapshotFresh' /\ StagedWrites' /\ LocksOfOpenTransactions'
  BY <1>0, <1>1, <1>2, <1>3, StageIInv
<1>5. FreshIds'
  BY <1>0 DEF Stage, IInv, TypeOK, FreshIds, Inserting
<1>6. QED
  BY <1>4, <1>5 DEF IInv

\* A commit keeps it: under row locks no other open transaction is about that
\* row, on sqlite there is no other open transaction (repository.go:81-83).
LEMMA CommitIInv ==
  ASSUME IInv, NEW p \in Procs, Commit(p)
  PROVE  IInv'
<1> DEFINE id == staged[p].id
<1>0. /\ pc[p] = "commit" /\ shared \subseteq {p} /\ id \in Ids
      /\ tasks' = [tasks EXCEPT ![id] = staged[p].row]
      /\ nextId' = IF ~RowLocks /\ req[p].op = "create" THEN nextId + 1 ELSE nextId
  BY DEF Commit, IInv, StagedWrites
<1>1. PICK r \in Reply : Finish(p, r)
  <2>1. Success(p) \in Reply
    <3>1. staged[p].row.state = "live" => staged[p].row.body \in Task
      BY <1>0, RowTypes DEF IInv, TypeOK, Staged
    <3>2. ASSUME req[p].op \in {"create", "update"}
          PROVE  staged[p].row.state = "live"
      <4>1. CASE req[p].op = "create"
        <5>1. staged[p].row = LiveRow(req[p].draft)
          BY <4>1, <1>0 DEF IInv, StagedWrites
        <5>2. QED
          BY <5>1 DEF LiveRow
      <4>2. CASE req[p].op = "update"
        <5>1. staged[p].row = LiveRow(Mutate(tasks[id].body, req[p].patch))
          BY <4>2, <1>0 DEF IInv, StagedWrites
        <5>2. QED
          BY <5>1 DEF LiveRow
      <4>3. QED
        BY <3>2, <4>1, <4>2
    <3>3. QED
      BY <1>0, <3>1, <3>2, ReplyTypes DEF Success
  <2>2. QED
    BY <2>1, ReplyTypes DEF Commit
<1>2. /\ pc'[p] = "reply" /\ UNCHANGED req
      /\ \A q \in Procs : q # p =>
           pc'[q] = pc[q] /\ staged'[q] = staged[q] /\ seen'[q] = seen[q]
  BY <1>1 DEF Finish, IInv, TypeOK
<1>3. \A i \in Ids : i # id => tasks'[i] = tasks[i]
  BY <1>0 DEF IInv, TypeOK
\* Without row locks no other transaction is open.
<1>4. \A q \in Procs : q # p /\ ~RowLocks => pc[q] \notin {"save", "commit"}
  BY <1>0 DEF IInv, LocksOfOpenTransactions, Updating
\* With row locks the others are about other rows.
<1>5. \A q \in Procs : q # p /\ RowLocks =>
        /\ pc[q] = "save" => req[q].id # id
        /\ pc[q] = "commit" => staged[q].id # id
  BY <1>0 DEF IInv, LocksOfOpenTransactions, Updating
<1>6. nextId' \in 1..(MaxId + 1)
  BY <1>0, <1>2, DataAssumption, RepositoryAssumption
  DEF IInv, TypeOK, FreshIds, Inserting, Ids
<1>7. TypeOK'
  BY <1>0, <1>1, <1>6, RowTypes
  DEF Finish, Release, IInv, TypeOK, Stages, Staged, NoWrite
<1>8. SnapshotFresh'
  <2>1. \A q \in Procs : q # p /\ pc[q] = "save" => req[q].id \in Ids /\ req[q].id # id
    BY <1>4, <1>5, RequestTypes, RepositoryAssumption
    DEF IInv, SnapshotFresh, TypeOK, Updating
  <2>2. QED
    BY <1>2, <1>3, <2>1 DEF IInv, SnapshotFresh, Updating, Live
<1>9. StagedWrites'
  <2>1. \A q \in Procs : q # p /\ pc[q] = "commit" => staged[q].id # id
    BY <1>4, <1>5, RepositoryAssumption
  <2>2. QED
    BY <1>2, <1>3, <2>1 DEF IInv, StagedWrites, Live
<1>10. LocksOfOpenTransactions'
  BY <1>1, <1>2, FinishLocks
<1>11. FreshIds'
  <2>1. id < nextId'
    BY <1>0, DataAssumption, RepositoryAssumption
    DEF IInv, TypeOK, FreshIds, Inserting, StagedWrites, Live, Ids
  <2>2. \A i \in Ids : i >= nextId' => tasks'[i].state = "none"
    <3>1. nextId' >= nextId
      BY <1>0 DEF IInv, TypeOK
    <3>2. QED
      BY <1>0, <1>3, <1>6, <2>1, <3>1, DataAssumption DEF IInv, FreshIds, TypeOK, Ids
  <2>3. \A q \in Procs : (Inserting(q))' =>
          RowLocks /\ q # p /\ Inserting(q) /\ staged'[q] = staged[q]
    BY <1>2, <1>4, RepositoryAssumption DEF Inserting
  <2>4. RowLocks => nextId' = nextId
    BY <1>0
  <2>5. QED
    BY <2>2, <2>3, <2>4 DEF IInv, FreshIds
<1>12. QED
  BY <1>7, <1>8, <1>9, <1>10, <1>11 DEF IInv

\* A crash keeps it: it takes the transactions of the instance with their
\* locks, and nobody else's.
LEMMA CrashIInv ==
  ASSUME IInv, NEW i \in Instances, Crash(i)
  PROVE  IInv'
<1> DEFINE S == {p \in Procs : Home[p] = i}
<1> USE DEF Crash, Release
<1>1. TypeOK'
  BY RowTypes, ReplyTypes DEF IInv, TypeOK, Stages, Staged, NoWrite
<1>2. /\ \A q \in Procs \ S :
           /\ pc'[q] = pc[q] /\ req'[q] = req[q]
           /\ seen'[q] = seen[q] /\ staged'[q] = staged[q]
      /\ \A q \in S : pc'[q] = "idle"
      /\ UNCHANGED <<tasks, nextId>>
  OBVIOUS
<1>3. SnapshotFresh'
  BY <1>2 DEF IInv, SnapshotFresh, Updating, Live
<1>4. StagedWrites'
  BY <1>2 DEF IInv, StagedWrites, Live
<1>5. LocksOfOpenTransactions'
  <2> USE RepositoryAssumption DEF IInv, LocksOfOpenTransactions, Updating
  <2>1. ASSUME NEW q \in Procs, pc'[q] = "save"
        PROVE  IF RowLocks THEN rowLock'[req'[q].id] = q ELSE q \in shared'
    <3>1. q \notin S /\ pc[q] = "save" /\ req'[q] = req[q] /\ req[q].id \in Ids
      BY <1>2, <2>1, RequestTypes DEF SnapshotFresh, TypeOK
    <3>2. QED
      BY <3>1
  <2>2. ASSUME NEW q \in Procs, pc'[q] = "commit"
        PROVE  IF RowLocks THEN rowLock'[staged'[q].id] = q ELSE reserved' = q
    <3>1. q \notin S /\ pc[q] = "commit" /\ staged'[q] = staged[q] /\ staged[q].id \in Ids
      BY <1>2, <2>2 DEF StagedWrites
    <3>2. QED
      BY <3>1
  <2>3. ASSUME NEW id \in Ids, rowLock'[id] # NoProc
        PROVE  \/ pc'[rowLock'[id]] = "save" /\ req'[rowLock'[id]].id = id
               \/ pc'[rowLock'[id]] = "commit" /\ staged'[rowLock'[id]].id = id
    BY <1>2, <2>3 DEF TypeOK
  <2>4. \A q \in shared' : pc'[q] \in {"save", "commit"}
    BY <1>2 DEF TypeOK
  <2>5. reserved' # NoProc => pc'[reserved'] = "commit"
    BY <1>2 DEF TypeOK
  <2>6. QED
    BY <2>1, <2>2, <2>3, <2>4, <2>5
<1>6. FreshIds'
  BY <1>2 DEF IInv, FreshIds, Inserting
<1>7. QED
  BY <1>1, <1>3, <1>4, <1>5, <1>6 DEF IInv

-----------------------------------------------------------------------------
\* Every step keeps the invariant.
LEMMA NextIInv == IInv /\ [Next]_vars => IInv'
<1> SUFFICES ASSUME IInv, [Next]_vars PROVE IInv'
  OBVIOUS
<1>1. ASSUME NEW p \in Procs, Accept(p) \/ Refuse(p) \/ Return(p) \/ GetConn(p) \/ Count(p)
      PROVE  IInv'
  <2>1. \E stage \in Stages \ {"save", "commit"} : pc' = [pc EXCEPT ![p] = stage]
    BY <1>1 DEF Accept, Refuse, Return, GetConn, Count, Stages
  <2>2. pc[p] \notin {"save", "commit"}
    BY <1>1 DEF Accept, Refuse, Return, GetConn, Count, Executes
  <2>3. /\ req' \in [Procs -> Requests \cup {NoRequest}]
        /\ \A q \in Procs \ {p} : req'[q] = req[q]
    BY <1>1 DEF Accept, Refuse, Return, GetConn, Count, IInv, TypeOK
  <2>4. resp' \in [Procs -> Reply]
    <3>1. CASE Count(p)
      <4>1. resp[p] \in Reply /\ resp \in [Procs -> Reply]
        BY DEF IInv, TypeOK
      <4>2. [resp[p] EXCEPT !.total = Cardinality(LiveIds)] \in Reply
        BY <4>1, CountType, ListReplyTypes
      <4>3. QED
        BY <3>1, <4>1, <4>2 DEF Count
    <3>2. CASE Accept(p) \/ GetConn(p)
      BY <3>2 DEF Accept, GetConn, IInv, TypeOK
    <3>3. CASE Refuse(p)
      BY <3>3, ReplyTypes DEF Refuse, IInv, TypeOK
    <3>4. CASE Return(p)
      BY <3>4, ReplyTypes DEF Return, IInv, TypeOK
    <3>5. QED
      BY <1>1, <3>1, <3>2, <3>3, <3>4
  <2>5. UNCHANGED <<tasks, nextId, seen, staged, locks>>
    BY <1>1 DEF Accept, Refuse, Return, GetConn, Count
  <2>6. QED
    BY <2>1, <2>2, <2>3, <2>4, <2>5, OutsideTransaction
<1>2. ASSUME NEW p \in Procs,
             \/ InsertExhausted(p) \/ FindByID(p) \/ Find(p) \/ FirstNotFound(p)
             \/ SaveBusy(p) \/ DeleteNotFound(p) \/ Fail(p)
      PROVE  IInv'
  <2>1. UNCHANGED <<tasks, nextId>>
    BY <1>2 DEF InsertExhausted, FindByID, Find, FirstNotFound, SaveBusy,
                DeleteNotFound, Fail
  <2>2. \E r \in Reply : Finish(p, r)
    <3>1. CASE FindByID(p)
      <4>1. Live(req[p].id) => tasks[req[p].id].body \in Task /\ req[p].id \in Ids
        BY <3>1, RequestTypes, RowTypes DEF FindByID, Executes, IInv, TypeOK, Live
      <4>2. QED
        BY <3>1, <4>1, ReplyTypes DEF FindByID
    <3>2. CASE Find(p)
      <4>1. [resp[p] EXCEPT !.status = 200, !.items = LiveIds] \in Reply
        <5>1. resp[p] \in Reply /\ LiveIds \in SUBSET Ids
          BY DEF IInv, TypeOK, LiveIds
        <5>2. QED
          BY <5>1, ListReplyTypes
      <4>2. QED
        BY <3>2, <4>1 DEF Find
    <3>3. CASE ~FindByID(p) /\ ~Find(p)
      BY <1>2, <3>3, ReplyTypes
      DEF InsertExhausted, FirstNotFound, SaveBusy, DeleteNotFound, Fail
    <3>4. QED
      BY <3>1, <3>2, <3>3
  <2>3. QED
    BY <2>1, <2>2, FinishIInv
<1>3. ASSUME NEW p \in Procs, First(p) \/ Insert(p) \/ Save(p) \/ Delete(p) \/ Commit(p)
      PROVE  IInv'
  BY <1>3, FirstIInv, InsertIInv, SaveIInv, DeleteIInv, CommitIInv
<1>4. ASSUME NEW i \in Instances, Crash(i)
      PROVE  IInv'
  BY <1>4, CrashIInv
<1>5. CASE UNCHANGED vars
  BY <1>5 DEF vars, IInv, TypeOK, SnapshotFresh, StagedWrites,
              LocksOfOpenTransactions, FreshIds, Updating, Inserting, Live
<1>6. QED
  BY <1>1, <1>2, <1>3, <1>4, <1>5 DEF Next, Step

\* In every reachable state of the repository the types hold, an Update's
\* snapshot is fresh, staged writes fit, locks belong to open transactions and
\* fresh ids are fresh (repository.go:25-99).
THEOREM Invariance == Spec => []IInv
BY InitIInv, NextIInv, PTL DEF Spec

\* Type correctness of the repository's state.
THEOREM TypeCorrectness == Spec => []TypeOK
BY Invariance, PTL DEF IInv

\* An Update's Save finds the row its First read (repository.go:67-83).
THEOREM SnapshotIsFresh == Spec => []SnapshotFresh
BY Invariance, PTL DEF IInv

\* What commits is what was asked, applied to the table at the commit: no lost
\* update, no resurrection by Save's upsert (repository.go:25-27, 67-99).
THEOREM StagedWritesFit == Spec => []StagedWrites
BY Invariance, PTL DEF IInv

\* Row locks exclude one another and leak from no transaction
\* (repository.go:58-83).
THEOREM LockDiscipline == Spec => []LocksOfOpenTransactions
BY Invariance, PTL DEF IInv

\* No insert ever meets a row, or a concurrent insert, with its id
\* (repository.go:25-27).
THEOREM IdsAreFresh == Spec => []FreshIds
BY Invariance, PTL DEF IInv

-----------------------------------------------------------------------------
(***************************************************************************)
(* What a step may never do to the table.                                  *)
(***************************************************************************)
\* Only a commit changes the table.
LEMMA OnlyCommitWrites ==
  ASSUME [Next]_vars, tasks' # tasks
  PROVE  \E p \in Procs : Commit(p)
<1>1. ASSUME NEW p \in Procs,
             Accept(p) \/ Refuse(p) \/ GetConn(p) \/ Step(p) \/ Fail(p), ~Commit(p)
      PROVE  tasks' = tasks
  BY <1>1 DEF Accept, Refuse, GetConn, Fail, Step, Insert, InsertExhausted,
     FindByID, Count, Find, First, FirstNotFound, Save, SaveBusy, Delete,
     DeleteNotFound, Return, Stage
<1>2. ASSUME NEW i \in Instances, Crash(i)
      PROVE  tasks' = tasks
  BY <1>2 DEF Crash
<1>3. QED
  BY <1>1, <1>2 DEF Next, vars

\* The step of a commit on the table, spelt out.
LEMMA CommitEffect ==
  ASSUME IInv, NEW p \in Procs, Commit(p)
  PROVE  /\ pc[p] = "commit" /\ pc'[p] = "reply"
         /\ staged[p].id \in Ids
         /\ tasks'[staged[p].id] = staged[p].row
         /\ \A i \in Ids : i # staged[p].id => tasks'[i] = tasks[i]
<1>1. /\ pc[p] = "commit" /\ staged[p].id \in Ids
      /\ tasks' = [tasks EXCEPT ![staged[p].id] = staged[p].row]
  BY DEF Commit, IInv, StagedWrites
<1>2. pc' = [pc EXCEPT ![p] = "reply"]
  BY DEF Commit, Finish
<1>3. QED
  BY <1>1, <1>2 DEF IInv, TypeOK

\* No PATCH is lost, and none changes a field it did not send
\* (repository.go:65-66).
THEOREM NoUpdateIsLost == Spec => NoLostUpdate
<1> DEFINE Kept ==
      \A id \in Ids :
        Live(id) /\ Live(id)' /\ tasks'[id] # tasks[id] =>
          \E p \in Procs :
            /\ pc[p] = "commit" /\ pc'[p] # "commit"
            /\ req[p].op = "update" /\ req[p].id = id
            /\ tasks'[id].body = Mutate(tasks[id].body, req[p].patch)
<1>1. IInv /\ [Next]_vars => Kept
  <2> SUFFICES ASSUME IInv, [Next]_vars, NEW id \in Ids,
                      Live(id), Live(id)', tasks'[id] # tasks[id]
               PROVE  \E p \in Procs :
                        /\ pc[p] = "commit" /\ pc'[p] # "commit"
                        /\ req[p].op = "update" /\ req[p].id = id
                        /\ tasks'[id].body = Mutate(tasks[id].body, req[p].patch)
    OBVIOUS
  <2>1. PICK p \in Procs : Commit(p)
    BY OnlyCommitWrites
  <2>2. /\ pc[p] = "commit" /\ pc'[p] = "reply" /\ staged[p].id = id
        /\ tasks'[id] = staged[p].row
    BY <2>1, CommitEffect
  <2>3. CASE req[p].op = "create"
    BY <2>2, <2>3 DEF IInv, StagedWrites, Live
  <2>4. CASE req[p].op = "delete"
    <3>1. tasks'[id] = SoftDeleted(tasks[id])
      BY <2>2, <2>4 DEF IInv, StagedWrites
    <3>2. QED
      BY <3>1 DEF SoftDeleted, Live
  <2>5. CASE req[p].op = "update"
    <3>1. /\ id = req[p].id
          /\ tasks'[id] = LiveRow(Mutate(tasks[id].body, req[p].patch))
      BY <2>2, <2>5 DEF IInv, StagedWrites
    <3>2. tasks'[id].body = Mutate(tasks[id].body, req[p].patch)
      BY <3>1 DEF LiveRow
    <3>3. QED
      BY <2>2, <2>5, <3>1, <3>2
  <2>6. QED
    BY <2>2, <2>3, <2>4, <2>5 DEF IInv, StagedWrites
<1>2. IInv /\ [Next]_vars => [Kept]_vars
  BY <1>1
<1>3. QED
  BY <1>2, Invariance, PTL DEF Spec, NoLostUpdate

\* A deleted task stays deleted, as it was (repository.go:78, 90-99).
THEOREM DeletionIsFinal == Spec => DeletedForever
<1> DEFINE Kept == \A id \in Ids :
                     tasks[id].state = "deleted" => tasks'[id] = tasks[id]
<1>1. IInv /\ [Next]_vars => Kept
  <2> SUFFICES ASSUME IInv, [Next]_vars, NEW id \in Ids,
                      tasks[id].state = "deleted", tasks'[id] # tasks[id]
               PROVE  FALSE
    OBVIOUS
  <2>1. PICK p \in Procs : Commit(p)
    BY OnlyCommitWrites
  <2>2. pc[p] = "commit" /\ staged[p].id = id
    BY <2>1, CommitEffect
  <2>3. QED
    BY <2>2 DEF IInv, StagedWrites, Live
<1>2. IInv /\ [Next]_vars => [Kept]_vars
  BY <1>1
<1>3. QED
  BY <1>2, Invariance, PTL DEF Spec, DeletedForever

-----------------------------------------------------------------------------
(***************************************************************************)
(* Nobody waits in a circle.                                               *)
(***************************************************************************)
\* Under row locks nobody locks the file.
OneScheme == RowLocks => shared = {} /\ reserved = NoProc

\* applyRowLock takes the locks of its own driver only (repository.go:58-63).
THEOREM OneLockingScheme == Spec => []OneScheme
<1>1. Init => OneScheme
  BY DEF Init, OneScheme
<1>2. OneScheme /\ [Next]_vars => OneScheme'
  <2> SUFFICES ASSUME OneScheme, [Next]_vars, RowLocks
               PROVE  shared' = {} /\ reserved' = NoProc
    BY DEF OneScheme
  <2> USE DEF OneScheme
  <2>1. ASSUME NEW S, Release(S)
        PROVE  shared' = {} /\ reserved' = NoProc
    BY <2>1 DEF Release
  <2>2. ASSUME NEW p \in Procs, NEW r, Finish(p, r)
        PROVE  shared' = {} /\ reserved' = NoProc
    BY <2>1, <2>2 DEF Finish
  <2>3. ASSUME NEW p \in Procs,
               Accept(p) \/ Refuse(p) \/ Return(p) \/ GetConn(p) \/ Count(p)
        PROVE  shared' = {} /\ reserved' = NoProc
    BY <2>3 DEF Accept, Refuse, Return, GetConn, Count, locks
  <2>4. ASSUME NEW p \in Procs, First(p) \/ Insert(p) \/ Save(p) \/ Delete(p)
        PROVE  shared' = {} /\ reserved' = NoProc
    BY <2>4 DEF First, Insert, Save, Delete, applyRowLock, WriteLock
  <2>5. ASSUME NEW p \in Procs,
               \/ InsertExhausted(p) \/ FindByID(p) \/ Find(p) \/ FirstNotFound(p)
               \/ SaveBusy(p) \/ DeleteNotFound(p) \/ Commit(p) \/ Fail(p)
        PROVE  shared' = {} /\ reserved' = NoProc
    BY <2>2, <2>5 DEF InsertExhausted, FindByID, Find, FirstNotFound, SaveBusy,
                      DeleteNotFound, Commit, Fail
  <2>6. ASSUME NEW i \in Instances, Crash(i)
        PROVE  shared' = {} /\ reserved' = NoProc
    BY <2>1, <2>6 DEF Crash
  <2>7. CASE UNCHANGED vars
    BY <2>7 DEF vars
  <2>8. QED
    BY <2>3, <2>4, <2>5, <2>6, <2>7 DEF Next, Step
<1>3. QED
  BY <1>1, <1>2, PTL DEF Spec

LEMMA DepthAt ==
  /\ Depth("conn") = 3 /\ Depth("conn2") = 3
  /\ Depth("exec") = 2 /\ Depth("find") = 2
  /\ Depth("commit") = 1 /\ Depth("save") = 0
BY DEF Depth

\* The four places where a request waits, and for whom.
LEMMA WhoBlocks ==
  ASSUME IInv, OneScheme, NEW p \in Procs, NEW q \in Blockers(p)
  PROVE  /\ q \in Procs
         /\ \/ pc[p] \in {"conn", "conn2"} /\ pc[q] \in InDatabase
            \/ pc[p] \in {"exec", "find"} /\ pc[q] \in {"save", "commit"}
            \/ pc[p] = "commit" /\ pc[q] = "save"
<1> USE DEF IInv, LocksOfOpenTransactions, Updating
<1>1. CASE pc[p] \in {"conn", "conn2"} /\ q \in InUse(Home[p])
  BY <1>1 DEF InUse
<1>2. CASE RowLocks /\ q \in {rowLock[id] : id \in RowsNeeded(p)} \ {NoProc, p}
  <2>1. PICK id \in RowsNeeded(p) : q = rowLock[id] /\ q # NoProc /\ q # p
    BY <1>2
  <2>2. pc[p] = "exec" \/ (pc[p] = "save" /\ id = req[p].id)
    BY DEF RowsNeeded, Executes
  <2>3. id \in Ids
    BY RequestTypes DEF RowsNeeded, Executes, LiveIds, TypeOK, SnapshotFresh
  <2>4. pc[p] # "save"
    BY <1>2, <2>1, <2>2
  <2>5. q \in Procs /\ pc[q] \in {"save", "commit"}
    BY <2>1, <2>3 DEF TypeOK
  <2>6. QED
    BY <2>2, <2>4, <2>5
<1>3. CASE FileNeeded(p) /\ q = reserved /\ q # NoProc
  BY <1>3 DEF FileNeeded, TypeOK
<1>4. CASE pc[p] = "commit" /\ q \in shared \ {p}
  <2>1. ~RowLocks /\ reserved = p
    BY <1>4, RepositoryAssumption DEF OneScheme
  <2>2. QED
    BY <1>4, <2>1 DEF TypeOK
<1>5. QED
  BY <1>1, <1>2, <1>3, <1>4 DEF Blockers

\* Waiting leads closer to a request that holds what it needs: there is no
\* deadlock between the pool, the row locks and the file (database.go:56,
\* repository.go:67-83).
THEOREM NobodyWaitsInACircle == Spec => []NoCircularWait
<1>1. IInv /\ OneScheme => NoCircularWait
  <2> SUFFICES ASSUME IInv, OneScheme, NEW p \in Procs, NEW q \in Blockers(p)
               PROVE  pc[q] \in InDatabase /\ Depth(pc[q]) < Depth(pc[p])
    BY DEF NoCircularWait
  <2>1. QED
    BY WhoBlocks, DepthAt DEF InDatabase
<1>2. QED
  BY <1>1, Invariance, OneLockingScheme, PTL

\* Whoever waits, somebody does not, and is in the database: as long as a
\* request is under way, one of them can go on (database.go:56).
SomebodyGoesOn ==
  \A p \in Procs : pc[p] # "idle" =>
    \E q \in Procs :
      /\ Blockers(q) = {}
      /\ q = p \/ pc[q] \in InDatabase

THEOREM ThePoolNeverStalls == Spec => []SomebodyGoesOn
<1>1. IInv /\ OneScheme => SomebodyGoesOn
  <2> SUFFICES ASSUME IInv, OneScheme, NEW p \in Procs
               PROVE  \E q \in Procs : Blockers(q) = {} /\ (q = p \/ pc[q] \in InDatabase)
    BY DEF SomebodyGoesOn
  \* A saver waits for nobody, a committer for savers, a statement for both.
  <2>1. ASSUME NEW q \in Procs, pc[q] = "save"
        PROVE  Blockers(q) = {}
    BY <2>1, WhoBlocks
  <2>2. ASSUME NEW q \in Procs, pc[q] = "commit"
        PROVE  \E r \in Procs : Blockers(r) = {} /\ (r = q \/ pc[r] \in InDatabase)
    BY <2>1, <2>2, WhoBlocks DEF InDatabase
  <2>3. ASSUME NEW q \in Procs, pc[q] \in {"exec", "find"}
        PROVE  \E r \in Procs : Blockers(r) = {} /\ (r = q \/ pc[r] \in InDatabase)
    BY <2>1, <2>2, <2>3, WhoBlocks DEF InDatabase
  <2>4. QED
    BY <2>1, <2>2, <2>3, WhoBlocks DEF InDatabase
<1>2. QED
  BY <1>1, Invariance, OneLockingScheme, PTL

\* A request with Blockers takes no step of its own: it has to wait for them,
\* or fail (database.go:56, repository.go:58-83).
THEOREM TheBlockedWait ==
  Spec => [][\A p \in Procs : GetConn(p) \/ Step(p) => Blockers(p) = {}]_vars
<1>1. IInv /\ OneScheme /\ [Next]_vars =>
        \A p \in Procs : GetConn(p) \/ Step(p) => Blockers(p) = {}
  <2> SUFFICES ASSUME IInv, OneScheme, NEW p \in Procs, GetConn(p) \/ Step(p)
               PROVE  Blockers(p) = {}
    OBVIOUS
  <2> USE DEF Blockers, RowsNeeded, FileNeeded, Executes
  <2>1. CASE GetConn(p)
    BY <2>1 DEF GetConn
  <2>2. CASE Return(p)
    BY <2>2 DEF Return
  <2>3. CASE InsertExhausted(p) \/ FindByID(p) \/ Count(p) \/ Find(p)
    BY <2>3 DEF InsertExhausted, FindByID, Count, Find, CanRead
  <2>4. CASE FirstNotFound(p) \/ DeleteNotFound(p)
    BY <2>4 DEF FirstNotFound, DeleteNotFound, CanRead, LiveIds
  <2>5. CASE First(p)
    BY <2>5 DEF First, applyRowLock, LiveIds
  <2>6. CASE Insert(p) \/ Delete(p)
    BY <2>6 DEF Insert, Delete, WriteLock, LiveIds
  <2>7. CASE Save(p) \/ SaveBusy(p)
    BY <2>7 DEF Save, SaveBusy, WriteLock
  <2>8. CASE Commit(p)
    BY <2>8 DEF Commit
  <2>9. QED
    BY <2>1, <2>2, <2>3, <2>4, <2>5, <2>6, <2>7, <2>8 DEF Step
<1>2. QED
  BY <1>1, Invariance, OneLockingScheme, PTL DEF Spec

-----------------------------------------------------------------------------
(***************************************************************************)
(* The pool.                                                               *)
(***************************************************************************)
\* Where a request can be after one stage.
Later(stage) ==
  CASE stage = "idle"  -> {"conn", "reply"}
    [] stage = "conn"  -> {"exec", "reply", "idle"}
    [] stage = "exec"  -> {"conn2", "save", "commit", "reply", "idle"}
    [] stage = "conn2" -> {"find", "reply", "idle"}
    [] stage = "save"  -> {"commit", "reply", "idle"}
    [] stage = "reply" -> {"idle"}
    [] OTHER           -> {"reply", "idle"}

\* A step of q's own moves q and nobody else, and into the database only with
\* a connection of its instance's pool (database.go:56).
LEMMA OwnStep ==
  ASSUME IInv, NEW q \in Procs,
         Accept(q) \/ Refuse(q) \/ GetConn(q) \/ Step(q) \/ Fail(q)
  PROVE  \E stage \in Later(pc[q]) :
           /\ pc' = [pc EXCEPT ![q] = stage]
           /\ \A p \in Procs : p # q => req'[p] = req[p]
           /\ pc[q] \notin InDatabase /\ stage \in InDatabase => HasIdleConn(Home[q])
<1> USE DEF InDatabase, Later
<1>1. CASE Accept(q) \/ Refuse(q) \/ Return(q)
  BY <1>1 DEF Accept, Refuse, Return, IInv, TypeOK
<1>2. CASE GetConn(q)
  BY <1>2 DEF GetConn
<1>3. CASE Count(q) \/ First(q)
  BY <1>3 DEF Count, First, Executes
<1>4. CASE Insert(q) \/ Save(q) \/ Delete(q)
  BY <1>4 DEF Insert, Save, Delete, Stage, Executes
<1>5. ASSUME NEW r, Finish(q, r), pc[q] \notin {"idle", "reply"}
      PROVE  /\ pc' = [pc EXCEPT ![q] = "reply"] /\ req' = req
             /\ "reply" \in Later(pc[q])
  BY <1>5 DEF Finish
<1>6. CASE \/ InsertExhausted(q) \/ FindByID(q) \/ Find(q) \/ FirstNotFound(q)
           \/ SaveBusy(q) \/ DeleteNotFound(q) \/ Commit(q) \/ Fail(q)
  <2>1. pc[q] \notin {"idle", "reply"}
    BY <1>6 DEF InsertExhausted, FindByID, Find, FirstNotFound, SaveBusy,
                DeleteNotFound, Commit, Fail, Executes
  <2>2. \E r : Finish(q, r)
    BY <1>6 DEF InsertExhausted, FindByID, Find, FirstNotFound, SaveBusy,
                DeleteNotFound, Commit, Fail
  <2> QED BY <1>5, <2>1, <2>2
<1> QED BY <1>1, <1>2, <1>3, <1>4, <1>6 DEF Step

\* An instance's requests hold more connections after a step only if there
\* was an idle one, and then one more.
LEMMA PoolStep ==
  ASSUME IInv, [Next]_vars, NEW i \in Instances
  PROVE  \/ InUse(i)' \subseteq InUse(i)
         \/ HasIdleConn(i) /\ \E q \in Procs : InUse(i)' \subseteq InUse(i) \cup {q}
<1>1. ASSUME NEW q \in Procs,
             Accept(q) \/ Refuse(q) \/ GetConn(q) \/ Step(q) \/ Fail(q)
      PROVE  \/ InUse(i)' \subseteq InUse(i)
             \/ HasIdleConn(i) /\ InUse(i)' \subseteq InUse(i) \cup {q}
  <2>1. PICK stage \in Later(pc[q]) :
          /\ pc' = [pc EXCEPT ![q] = stage]
          /\ pc[q] \notin InDatabase /\ stage \in InDatabase => HasIdleConn(Home[q])
    BY <1>1, OwnStep
  <2>2. \A p \in Procs : pc'[p] = IF p = q THEN stage ELSE pc[p]
    BY <2>1 DEF IInv, TypeOK
  <2> QED BY <2>1, <2>2 DEF InUse
<1>2. ASSUME NEW j \in Instances, Crash(j)
      PROVE  InUse(i)' \subseteq InUse(i)
  BY <1>2 DEF Crash, InUse, InDatabase
<1>3. CASE UNCHANGED vars
  BY <1>3 DEF vars, InUse
<1> QED BY <1>1, <1>2, <1>3 DEF Next

\* No instance ever holds more connections than DB_MAX_OPEN_CONNS allows it.
PoolBound ==
  \A i \in Instances :
    IsFiniteSet(InUse(i)) /\ Cardinality(InUse(i)) <= MaxOpenConns

\* The limit of SetMaxOpenConns holds however many requests come
\* (database.go:56).
THEOREM PoolIsBounded == Spec => []PoolBound
<1>1. Init => PoolBound
  <2> SUFFICES ASSUME Init, NEW i \in Instances
               PROVE  IsFiniteSet(InUse(i)) /\ Cardinality(InUse(i)) <= MaxOpenConns
    BY DEF PoolBound
  <2>1. InUse(i) = {}
    BY DEF Init, InUse, InDatabase
  <2> QED BY <2>1, FS_EmptySet, RepositoryAssumption
<1>2. ASSUME IInv, PoolBound, [Next]_vars PROVE PoolBound'
  <2> SUFFICES ASSUME NEW i \in Instances
               PROVE  IsFiniteSet(InUse(i)') /\ Cardinality(InUse(i)') <= MaxOpenConns
    BY DEF PoolBound
  <2> DEFINE U == InUse(i)
  <2>1. IsFiniteSet(U) /\ Cardinality(U) \in Nat /\ Cardinality(U) <= MaxOpenConns
    BY <1>2, FS_CardinalityType DEF PoolBound
  <2>2. CASE U' \subseteq U
    <3> HIDE DEF U
    <3>1. IsFiniteSet(U') /\ Cardinality(U') <= Cardinality(U)
      BY <2>1, <2>2, FS_Subset
    <3>2. Cardinality(U') \in Nat
      BY <3>1, FS_CardinalityType
    <3> QED BY <2>1, <3>1, <3>2, RepositoryAssumption DEF U
  <2>3. CASE HasIdleConn(i) /\ \E q \in Procs : U' \subseteq U \cup {q}
    <3>1. PICK q \in Procs : U' \subseteq U \cup {q}
      BY <2>3
    <3>2. Cardinality(U) < MaxOpenConns
      BY <2>3 DEF HasIdleConn
    <3> HIDE DEF U
    <3>3. /\ IsFiniteSet(U \cup {q}) /\ Cardinality(U \cup {q}) \in Nat
          /\ Cardinality(U \cup {q}) <= Cardinality(U) + 1
      <4>1. /\ IsFiniteSet(U \cup {q})
            /\ Cardinality(U \cup {q}) = IF q \in U THEN Cardinality(U) ELSE Cardinality(U) + 1
        BY <2>1, FS_AddElement
      <4>2. Cardinality(U) \in Nat
        BY <2>1
      <4> QED BY <4>1, <4>2
    <3>4. IsFiniteSet(U') /\ Cardinality(U') <= Cardinality(U \cup {q})
      BY <3>1, <3>3, FS_Subset
    <3>5. Cardinality(U') \in Nat
      BY <3>4, FS_CardinalityType
    <3> QED BY <2>1, <3>2, <3>3, <3>4, <3>5, RepositoryAssumption DEF U
  <2> QED BY <1>2, <2>2, <2>3, PoolStep
<1> QED BY <1>1, <1>2, Invariance, PTL DEF Spec

-----------------------------------------------------------------------------
(***************************************************************************)
(* Liveness under row locks.  The prover knows nothing of ENABLED but its  *)
(* name, so fairness is used through BlockersBlock, which TLC checks; that *)
(* whoever blocks a request goes on, and that it does not block it again,  *)
(* is proved here.                                                         *)
(***************************************************************************)
\* A request stays where it is, with what it serves, or goes one stage on;
\* its own next step makes it go on.
LEMMA StageChanges ==
  ASSUME IInv, [Next]_vars, NEW p \in Procs, pc[p] # "idle"
  PROVE  /\ \/ pc'[p] = pc[p] /\ req'[p] = req[p]
            \/ pc'[p] \in Later(pc[p])
         /\ GetConn(p) \/ Step(p) => pc'[p] \in Later(pc[p])
<1>1. ASSUME Accept(p) \/ Refuse(p) \/ GetConn(p) \/ Step(p) \/ Fail(p)
      PROVE  pc'[p] \in Later(pc[p])
  BY <1>1, OwnStep DEF IInv, TypeOK
<1>2. ASSUME NEW q \in Procs, q # p,
             Accept(q) \/ Refuse(q) \/ GetConn(q) \/ Step(q) \/ Fail(q)
      PROVE  pc'[p] = pc[p] /\ req'[p] = req[p]
  BY <1>2, OwnStep DEF IInv, TypeOK
<1>3. ASSUME NEW i \in Instances, Crash(i)
      PROVE  \/ pc'[p] = pc[p] /\ req'[p] = req[p]
             \/ pc'[p] \in Later(pc[p])
  BY <1>3 DEF Crash, IInv, TypeOK, Stages, Later
<1>4. ASSUME UNCHANGED vars
      PROVE  pc'[p] = pc[p] /\ req'[p] = req[p]
  BY <1>4 DEF vars
<1> QED BY <1>1, <1>2, <1>3, <1>4 DEF Next

\* A row lock is released before another request gets it, and its row does
\* not change before that (repository.go:58-63).
LEMMA LockIsReleasedFirst ==
  ASSUME IInv, [Next]_vars, RowLocks, NEW id \in Ids, rowLock[id] # NoProc
  PROVE  \/ rowLock'[id] = NoProc
         \/ rowLock'[id] = rowLock[id] /\ tasks'[id] = tasks[id]
<1> USE DEF IInv, TypeOK
<1>1. ASSUME NEW S, Release(S)
      PROVE  rowLock'[id] \in {NoProc, rowLock[id]}
  BY <1>1 DEF Release
<1>2. ASSUME NEW q \in Procs, NEW r, Finish(q, r)
      PROVE  rowLock'[id] \in {NoProc, rowLock[id]}
  BY <1>1, <1>2 DEF Finish
<1>3. ASSUME NEW q \in Procs, NEW i \in Ids, applyRowLock(q, i) \/ WriteLock(q, i)
      PROVE  rowLock'[id] = rowLock[id]
  BY <1>3 DEF applyRowLock, WriteLock
<1>4. rowLock'[id] \in {NoProc, rowLock[id]}
  <2>1. ASSUME NEW q \in Procs,
               Accept(q) \/ Refuse(q) \/ Return(q) \/ GetConn(q) \/ Count(q)
        PROVE  rowLock'[id] = rowLock[id]
    BY <2>1 DEF Accept, Refuse, Return, GetConn, Count, locks
  <2>2. ASSUME NEW q \in Procs, First(q) \/ Insert(q) \/ Save(q) \/ Delete(q)
        PROVE  rowLock'[id] = rowLock[id]
    <3>1. pc[q] = "save" => req[q].id \in Ids
      BY RequestTypes DEF SnapshotFresh, Updating
    <3>2. \E i \in Ids : applyRowLock(q, i) \/ WriteLock(q, i)
      BY <2>2, <3>1, RequestTypes DEF First, Insert, Save, Delete, Executes
    <3> QED BY <1>3, <3>2
  <2>3. ASSUME NEW q \in Procs,
               \/ InsertExhausted(q) \/ FindByID(q) \/ Find(q) \/ FirstNotFound(q)
               \/ SaveBusy(q) \/ DeleteNotFound(q) \/ Commit(q) \/ Fail(q)
        PROVE  rowLock'[id] \in {NoProc, rowLock[id]}
    BY <1>2, <2>3 DEF InsertExhausted, FindByID, Find, FirstNotFound, SaveBusy,
                      DeleteNotFound, Commit, Fail
  <2>4. ASSUME NEW i \in Instances, Crash(i)
        PROVE  rowLock'[id] \in {NoProc, rowLock[id]}
    BY <1>1, <2>4 DEF Crash
  <2>5. CASE UNCHANGED vars
    BY <2>5 DEF vars
  <2> QED BY <2>1, <2>2, <2>3, <2>4, <2>5 DEF Next, Step
<1>5. ASSUME tasks'[id] # tasks[id]
      PROVE  rowLock'[id] = NoProc
  <2>1. PICK q \in Procs : Commit(q)
    BY <1>5, OnlyCommitWrites
  <2>2. staged[q].id = id /\ pc[q] = "commit"
    BY <1>5, <2>1, CommitEffect
  <2>3. rowLock[id] = q
    BY <2>2 DEF LocksOfOpenTransactions
  <2>4. Release({q})
    BY <2>1 DEF Commit, Finish
  <2> QED BY <2>3, <2>4 DEF Release
<1> QED BY <1>4, <1>5

\* Whom a request waits for under row locks: for everybody with a connection
\* of its instance, or for the one that holds the row of an update or delete.
\* An insert waits for nobody, its id is fresh; nor does a reader, and nor
\* does a transaction that has its lock.
WaitsFor(p) ==
  IF pc[p] \in {"conn", "conn2"} /\ ~HasIdleConn(Home[p]) THEN InUse(Home[p])
  ELSE IF /\ pc[p] = "exec" /\ req[p].op \in {"update", "delete"}
          /\ Live(req[p].id) /\ rowLock[req[p].id] # NoProc
       THEN {rowLock[req[p].id]} ELSE {}

RowLocking == RowLocks /\ IInv /\ OneScheme /\ PoolBound

LEMMA BlockedByRows ==
  RowLocking => \A p \in Procs : Blockers(p) = WaitsFor(p)
<1> SUFFICES ASSUME RowLocking, NEW p \in Procs
             PROVE  Blockers(p) = WaitsFor(p)
  OBVIOUS
<1> USE DEF RowLocking, IInv, OneScheme, Blockers, RowsNeeded, WaitsFor, Executes
<1>1. CASE pc[p] \in {"conn", "conn2"}
  BY <1>1
<1>2. CASE pc[p] = "exec" /\ req[p].op = "create"
  <2>1. nextId \in Ids => rowLock[nextId] = NoProc
    BY DataAssumption DEF LocksOfOpenTransactions, FreshIds, Ids, Updating,
       Inserting, SnapshotFresh, StagedWrites, Live, TypeOK
  <2> QED BY <1>2, <2>1
<1>3. CASE pc[p] = "exec" /\ req[p].op \in {"update", "delete"}
  <2>1. req[p].id \in Ids
    BY <1>3, RequestTypes DEF TypeOK
  <2>2. rowLock[req[p].id] # p
    BY <1>3, <2>1, RepositoryAssumption DEF LocksOfOpenTransactions, Updating
  <2> QED BY <1>3, <2>1, <2>2 DEF LiveIds
<1>4. CASE pc[p] = "exec" /\ req[p].op \notin {"create", "update", "delete"}
  BY <1>4
<1>5. CASE pc[p] = "save"
  <2>1. rowLock[req[p].id] = p
    BY <1>5 DEF LocksOfOpenTransactions, Updating
  <2> QED BY <1>5, <2>1
<1>6. CASE pc[p] \notin {"conn", "conn2", "exec", "save"}
  BY <1>6
<1> QED BY <1>1, <1>2, <1>3, <1>4, <1>5, <1>6

\* q holds what p waits for at the stage s.
HeldBy(p, s, q) == pc[p] = s /\ q \in WaitsFor(p)
Free(p, s) == pc[p] # s \/ WaitsFor(p) = {}

\* The holder keeps it, or p is free, for a moment at least: nobody takes what
\* q gives back before p could.
LEMMA HolderStays ==
  ASSUME RowLocking, RowLocking', [Next]_vars, NEW p \in Procs, NEW q \in Procs, NEW s,
         HeldBy(p, s, q)
  PROVE  HeldBy(p, s, q)' \/ Free(p, s)'
<1> SUFFICES ASSUME pc'[p] = s
             PROVE  q \in WaitsFor(p)' \/ WaitsFor(p)' = {}
  BY DEF HeldBy, Free
<1>1. pc[p] = s /\ q \in WaitsFor(p) /\ s \in {"conn", "conn2", "exec"}
  BY DEF HeldBy, WaitsFor
<1>2. req'[p] = req[p]
  BY <1>1, StageChanges DEF Later, RowLocking
<1>3. CASE s \in {"conn", "conn2"}
  <2> DEFINE U == InUse(Home[p])
  <2>1. Home[p] \in Instances
    BY RepositoryAssumption
  <2>2. q \in U /\ ~HasIdleConn(Home[p])
    BY <1>1, <1>3 DEF WaitsFor
  <2>3. U' \subseteq U
    BY <2>1, <2>2, PoolStep DEF RowLocking
  <2>4. WaitsFor(p)' = IF HasIdleConn(Home[p])' THEN {} ELSE U'
    BY <1>3 DEF WaitsFor
  <2>5. IsFiniteSet(U) /\ Cardinality(U) <= MaxOpenConns
    BY <2>1 DEF RowLocking, PoolBound
  <2>6. ASSUME U' # U
        PROVE  HasIdleConn(Home[p])'
    <3> HIDE DEF U
    <3>1. /\ Cardinality(U') <= Cardinality(U) /\ Cardinality(U') # Cardinality(U)
          /\ IsFiniteSet(U')
      BY <2>3, <2>5, <2>6, FS_Subset
    <3>2. Cardinality(U') \in Nat /\ Cardinality(U) \in Nat
      BY <2>5, <3>1, FS_CardinalityType
    <3>3. Cardinality(U') < MaxOpenConns
      BY <2>5, <3>1, <3>2, RepositoryAssumption
    <3> QED BY <3>3 DEF HasIdleConn, U
  <2> QED BY <2>2, <2>4, <2>6
<1>4. CASE s = "exec"
  <2> DEFINE id == req[p].id
  <2>1. /\ req[p].op \in {"update", "delete"} /\ Live(id)
        /\ rowLock[id] = q /\ q # NoProc
    BY <1>1, <1>4 DEF WaitsFor
  <2>2. id \in Ids
    BY <2>1, RequestTypes DEF RowLocking, IInv, TypeOK
  <2>3. \/ rowLock'[id] = NoProc
        \/ rowLock'[id] = q /\ tasks'[id] = tasks[id]
    BY <2>1, <2>2, LockIsReleasedFirst DEF RowLocking
  <2>4. rowLock'[id] = q => Live(id)'
    BY <1>2, <2>1, <2>3 DEF Live
  <2>5. WaitsFor(p)' = IF Live(id)' /\ rowLock'[id] # NoProc THEN {rowLock'[id]} ELSE {}
    BY <1>2, <1>4, <2>1 DEF WaitsFor, Live
  <2> QED BY <2>1, <2>3, <2>4, <2>5
<1> QED BY <1>1, <1>3, <1>4

At(p, s) == pc[p] = s
Past(p, s) == pc[p] \in Later(s)
Onward(p, s) == At(p, s) ~> Past(p, s)
Freed(p, s) == At(p, s) ~> Free(p, s)

\* What the code is run under: fair scheduling, fair locks and a fair pool;
\* and that those who are not blocked can go on.
FairAndBlocking == FairSpec /\ []BlockersBlock

LEMMA AlwaysRowLocking == ASSUME RowLocks PROVE Spec => []RowLocking
BY Invariance, OneLockingScheme, PoolIsBounded, PTL DEF RowLocking

\* A request that is free again and again goes on.
LEMMA FreeGoesOn ==
  ASSUME RowLocks, NEW p \in Procs, NEW s \in Stages \ {"idle"}
  PROVE  FairAndBlocking /\ Freed(p, s) => Onward(p, s)
<1>1. FairAndBlocking => FairRequest(p)
  <2>1. Fairness => FairRequest(p)
    BY DEF Fairness
  <2> QED BY <2>1, PTL DEF FairAndBlocking, FairSpec
<1>2. RowLocking /\ BlockersBlock /\ At(p, s) /\ Free(p, s) =>
        ENABLED <<GetConn(p) \/ Step(p)>>_vars
  BY BlockedByRows DEF BlockersBlock, At, Free
<1>3. RowLocking /\ At(p, s) /\ [Next]_vars => At(p, s)' \/ Past(p, s)'
  BY StageChanges DEF At, Past, RowLocking
<1>4. RowLocking /\ At(p, s) /\ [Next]_vars /\ <<GetConn(p) \/ Step(p)>>_vars => Past(p, s)'
  BY StageChanges DEF At, Past, RowLocking
<1> QED BY <1>1, <1>2, <1>3, <1>4, AlwaysRowLocking, PTL
        DEF FairAndBlocking, FairSpec, Spec, FairRequest, Freed, Onward

\* A request leaves a set of stages it is in.
Holders == {"save", "commit"}
Within(q, S) == pc[q] \in S
GivesBack(q, S) == Within(q, S) ~> ~Within(q, S)
HolderFrees(p, s, q) == HeldBy(p, s, q) ~> Free(p, s)

\* Transactions and the second statement of a List are never held up, so they
\* end, and with them the row locks.
LEMMA HoldersEnd ==
  ASSUME RowLocks, NEW q \in Procs
  PROVE  FairAndBlocking => /\ Onward(q, "find") /\ Onward(q, "save")
                            /\ Onward(q, "commit") /\ GivesBack(q, Holders)
<1>1. ASSUME NEW s \in {"find", "save", "commit"}
      PROVE  FairAndBlocking => Onward(q, s)
  <2>1. At(q, s) => Free(q, s)
    BY <1>1 DEF At, Free, WaitsFor
  <2>2. Freed(q, s)
    BY <2>1, PTL DEF Freed
  <2>3. FairAndBlocking /\ Freed(q, s) => Onward(q, s)
    BY <1>1, FreeGoesOn DEF Stages
  <2> QED BY <2>2, <2>3, PTL
<1>2. /\ FairAndBlocking => Onward(q, "find")
      /\ FairAndBlocking => Onward(q, "save")
      /\ FairAndBlocking => Onward(q, "commit")
  BY <1>1
<1>3. /\ Within(q, Holders) => At(q, "save") \/ At(q, "commit")
      /\ Past(q, "save") => At(q, "commit") \/ ~Within(q, Holders)
      /\ Past(q, "commit") => ~Within(q, Holders)
  BY DEF Holders, Within, At, Past, Later
<1> QED BY <1>2, <1>3, PTL DEF Onward, GivesBack

\* Who is held by a request that gives back what it holds becomes free.
HoldsIn(p, s, q, S) == HeldBy(p, s, q) => Within(q, S)
AlwaysHoldsIn(p, s, q, S) == []HoldsIn(p, s, q, S)

LEMMA HeldBecomesFree ==
  ASSUME RowLocks, NEW p \in Procs, NEW q \in Procs, NEW s, NEW S
  PROVE  FairAndBlocking /\ AlwaysHoldsIn(p, s, q, S) /\ GivesBack(q, S) => HolderFrees(p, s, q)
<1>1. RowLocking /\ RowLocking' /\ HeldBy(p, s, q) /\ [Next]_vars =>
        HeldBy(p, s, q)' \/ Free(p, s)'
  BY HolderStays
<1>2. HoldsIn(p, s, q, S) /\ HeldBy(p, s, q) => Within(q, S)
  BY DEF HoldsIn
<1> QED BY <1>1, <1>2, AlwaysRowLocking, PTL
        DEF FairAndBlocking, FairSpec, Spec, GivesBack, HolderFrees, AlwaysHoldsIn

\* If every holder frees it, a request is freed.
LEMMA AllHoldersFree ==
  ASSUME RowLocks, NEW p \in Procs, NEW s
  PROVE  (\A q \in Procs : HolderFrees(p, s, q)) /\ []RowLocking => Freed(p, s)
<1> DEFINE Held(q) == HeldBy(p, s, q)
<1>1. (\A q \in Procs : HolderFrees(p, s, q)) =>
        \A q \in Procs : [](Held(q) => <>Free(p, s))
  <2> SUFFICES ASSUME NEW q \in Procs
               PROVE  HolderFrees(p, s, q) => [](Held(q) => <>Free(p, s))
    OBVIOUS
  <2> QED BY PTL DEF HolderFrees
<1>2. (\A q \in Procs : [](Held(q) => <>Free(p, s))) =>
        [](\A q \in Procs : Held(q) => <>Free(p, s))
  OBVIOUS
<1>3. (\A q \in Procs : Held(q) => <>Free(p, s)) =>
        ((\E q \in Procs : Held(q)) => <>Free(p, s))
  OBVIOUS
<1>4. RowLocking /\ At(p, s) => Free(p, s) \/ \E q \in Procs : Held(q)
  <2> SUFFICES ASSUME RowLocking, At(p, s), ~Free(p, s)
               PROVE  \E q \in Procs : Held(q)
    OBVIOUS
  <2>1. WaitsFor(p) # {} /\ pc[p] = s
    BY DEF At, Free
  <2>2. WaitsFor(p) \subseteq Procs
    <3>1. pc[p] = "exec" /\ req[p].op \in {"update", "delete"} => req[p].id \in Ids
      BY RequestTypes DEF RowLocking, IInv, TypeOK
    <3> QED BY <3>1 DEF WaitsFor, InUse, RowLocking, IInv, TypeOK
  <2> QED BY <2>1, <2>2 DEF HeldBy
<1> QED BY <1>1, <1>2, <1>3, <1>4, PTL DEF Freed

\* So a request goes on from a stage s if those who hold what it waits for
\* there are within stages S that every request leaves.
Keeps(p, s, S) == \A q \in Procs : HoldsIn(p, s, q, S)
AlwaysKeeps(p, s, S) == []Keeps(p, s, S)
Releases(S) == \A q \in Procs : GivesBack(q, S)

LEMMA WaitersGoOn ==
  ASSUME RowLocks, NEW p \in Procs, NEW s \in Stages \ {"idle"}, NEW S
  PROVE  FairAndBlocking /\ Releases(S) /\ AlwaysKeeps(p, s, S) => Onward(p, s)
<1>1. ASSUME NEW q \in Procs
      PROVE  FairAndBlocking /\ Releases(S) /\ AlwaysKeeps(p, s, S) => HolderFrees(p, s, q)
  <2>1. Releases(S) => GivesBack(q, S)
    BY DEF Releases
  <2>2. Keeps(p, s, S) => HoldsIn(p, s, q, S)
    BY DEF Keeps
  <2>3. FairAndBlocking /\ AlwaysHoldsIn(p, s, q, S) /\ GivesBack(q, S) => HolderFrees(p, s, q)
    BY HeldBecomesFree
  <2> QED BY <2>1, <2>2, <2>3, PTL DEF AlwaysHoldsIn, AlwaysKeeps
<1>2. FairAndBlocking /\ Releases(S) /\ AlwaysKeeps(p, s, S) =>
        \A q \in Procs : HolderFrees(p, s, q)
  BY <1>1
<1>3. (\A q \in Procs : HolderFrees(p, s, q)) /\ []RowLocking => Freed(p, s)
  BY AllHoldersFree
<1>4. FairAndBlocking /\ Freed(p, s) => Onward(p, s)
  BY FreeGoesOn
<1>5. FairAndBlocking => []RowLocking
  BY AlwaysRowLocking, PTL DEF FairAndBlocking, FairSpec
<1> QED BY <1>2, <1>3, <1>4, <1>5, PTL

\* An update or delete gets its row: whoever locks it is about to end.
LEMMA StatementsEnd ==
  ASSUME RowLocks, NEW p \in Procs
  PROVE  FairAndBlocking => Onward(p, "exec")
<1>1. RowLocking => Keeps(p, "exec", Holders)
  <2> SUFFICES ASSUME RowLocking, NEW q \in Procs, HeldBy(p, "exec", q)
               PROVE  Within(q, Holders)
    BY DEF Keeps, HoldsIn
  <2>1. /\ pc[p] = "exec" /\ req[p].op \in {"update", "delete"}
        /\ q = rowLock[req[p].id] /\ q # NoProc
    BY DEF HeldBy, WaitsFor
  <2>2. req[p].id \in Ids
    BY <2>1, RequestTypes DEF RowLocking, IInv, TypeOK
  <2> QED BY <2>1, <2>2
          DEF Within, Holders, RowLocking, IInv, LocksOfOpenTransactions, Updating
<1>2. FairAndBlocking => Releases(Holders)
  <2>1. ASSUME NEW q \in Procs PROVE FairAndBlocking => GivesBack(q, Holders)
    BY HoldersEnd, PTL
  <2> QED BY <2>1 DEF Releases
<1>3. FairAndBlocking => []RowLocking
  BY AlwaysRowLocking, PTL DEF FairAndBlocking, FairSpec
<1>4. FairAndBlocking /\ Releases(Holders) /\ AlwaysKeeps(p, "exec", Holders) => Onward(p, "exec")
  BY WaitersGoOn DEF Stages
<1> QED BY <1>1, <1>2, <1>3, <1>4, PTL DEF AlwaysKeeps

\* A connection returns to the pool, whatever its request does with it.
LEMMA ConnectionsReturn ==
  ASSUME RowLocks, NEW q \in Procs
  PROVE  FairAndBlocking => GivesBack(q, InDatabase)
<1>1. /\ Within(q, InDatabase) =>
           At(q, "exec") \/ At(q, "find") \/ At(q, "save") \/ At(q, "commit")
      /\ Past(q, "exec") => At(q, "save") \/ At(q, "commit") \/ ~Within(q, InDatabase)
      /\ Past(q, "save") => At(q, "commit") \/ ~Within(q, InDatabase)
      /\ Past(q, "find") => ~Within(q, InDatabase)
      /\ Past(q, "commit") => ~Within(q, InDatabase)
  BY DEF InDatabase, Within, At, Past, Later
<1>2. FairAndBlocking => Onward(q, "find") /\ Onward(q, "save") /\ Onward(q, "commit")
  BY HoldersEnd
<1>3. FairAndBlocking => Onward(q, "exec")
  BY StatementsEnd
<1> QED BY <1>1, <1>2, <1>3, PTL DEF Onward, GivesBack

\* Whoever waits for a connection gets one: nobody keeps one for ever, and
\* nobody waits for a connection with one in hand (database.go:56).
LEMMA ConnectionsAreGiven ==
  ASSUME RowLocks, NEW p \in Procs
  PROVE  FairAndBlocking => Onward(p, "conn") /\ Onward(p, "conn2")
<1>1. ASSUME NEW s \in {"conn", "conn2"}
      PROVE  FairAndBlocking => Onward(p, s)
  <2>1. RowLocking => Keeps(p, s, InDatabase)
    BY <1>1 DEF Keeps, HoldsIn, HeldBy, WaitsFor, InUse, Within
  <2>2. FairAndBlocking => Releases(InDatabase)
    <3>1. ASSUME NEW q \in Procs PROVE FairAndBlocking => GivesBack(q, InDatabase)
      BY ConnectionsReturn
    <3> QED BY <3>1 DEF Releases
  <2>3. FairAndBlocking => []RowLocking
    BY AlwaysRowLocking, PTL DEF FairAndBlocking, FairSpec
  <2>4. FairAndBlocking /\ Releases(InDatabase) /\ AlwaysKeeps(p, s, InDatabase) => Onward(p, s)
    BY <1>1, WaitersGoOn DEF Stages
  <2> QED BY <2>1, <2>2, <2>3, <2>4, PTL DEF AlwaysKeeps
<1>2. /\ FairAndBlocking => Onward(p, "conn")
      /\ FairAndBlocking => Onward(p, "conn2")
  BY <1>1
<1> QED BY <1>2, PTL

\* Every request is answered, or its instance dies, however many requests,
\* instances and rows there are and however small the pools: with row locks,
\* under the fairness stated, if the blocked alone cannot go on (database.go:56,
\* repository.go:67-83).
THEOREM EveryRequestIsAnswered ==
  ASSUME RowLocks
  PROVE  FairSpec /\ []BlockersBlock => RequestAnswered
<1>1. ASSUME NEW p \in Procs
      PROVE  FairAndBlocking => (pc[p] = "conn" ~> pc[p] \in {"reply", "idle"})
  <2>1. /\ pc[p] = "conn" <=> At(p, "conn")
        /\ Past(p, "conn") => At(p, "exec") \/ pc[p] \in {"reply", "idle"}
        /\ Past(p, "exec") => \/ At(p, "conn2") \/ At(p, "save") \/ At(p, "commit")
                              \/ pc[p] \in {"reply", "idle"}
        /\ Past(p, "conn2") => At(p, "find") \/ pc[p] \in {"reply", "idle"}
        /\ Past(p, "save") => At(p, "commit") \/ pc[p] \in {"reply", "idle"}
        /\ Past(p, "find") => pc[p] \in {"reply", "idle"}
        /\ Past(p, "commit") => pc[p] \in {"reply", "idle"}
    BY DEF At, Past, Later
  <2>2. FairAndBlocking => Onward(p, "find") /\ Onward(p, "save") /\ Onward(p, "commit")
    BY HoldersEnd
  <2>3. FairAndBlocking => Onward(p, "exec")
    BY StatementsEnd
  <2>4. FairAndBlocking => Onward(p, "conn") /\ Onward(p, "conn2")
    BY ConnectionsAreGiven
  <2> QED BY <2>1, <2>2, <2>3, <2>4, PTL DEF Onward
<1>2. FairAndBlocking => RequestAnswered
  BY <1>1 DEF RequestAnswered
<1> QED BY <1>2, PTL DEF FairAndBlocking

-----------------------------------------------------------------------------
(***************************************************************************)
(* The other half of BlockersBlock, next to TheBlockedWait: who is not     *)
(* blocked has a step.  Where a formula cannot say ENABLED, the next state *)
(* is given, one equation for each variable.                               *)
(***************************************************************************)
\* Who is past Accept serves a request of the clients.
Served == \A p \in Procs : pc[p] \notin {"idle", "reply"} => req[p] \in Requests

LEMMA AlwaysServed == Spec => []Served
<1>1. Init => Served
  BY DEF Init, Served
<1>2. ASSUME IInv, Served, [Next]_vars PROVE Served'
  <2>1. ASSUME NEW q \in Procs, Accept(q) \/ Refuse(q) \/ Return(q)
        PROVE  Served'
    BY <1>2, <2>1 DEF Served, Accept, Refuse, Return, IInv, TypeOK
  <2>2. ASSUME NEW q \in Procs, GetConn(q) \/ Step(q) \/ Fail(q), ~Return(q)
        PROVE  /\ req' = req /\ pc[q] \notin {"idle", "reply"}
               /\ \A p \in Procs : p # q => pc'[p] = pc[p]
    <3>1. \A p \in Procs : p # q => pc'[p] = pc[p]
      BY <1>2, <2>2, OwnStep DEF IInv, TypeOK
    <3>2. req' = req /\ pc[q] \notin {"idle", "reply"}
      BY <2>2 DEF GetConn, Fail, Step, Insert, InsertExhausted, FindByID, Count, Find,
         First, FirstNotFound, Save, SaveBusy, Delete, DeleteNotFound, Commit, Stage,
         Finish, Executes, InDatabase
    <3> QED BY <3>1, <3>2
  <2>3. ASSUME NEW i \in Instances, Crash(i)
        PROVE  Served'
    BY <1>2, <2>3 DEF Served, Crash
  <2>4. CASE UNCHANGED vars
    BY <1>2, <2>4 DEF vars, Served
  <2> QED BY <1>2, <2>1, <2>2, <2>3, <2>4 DEF Next, Step, Served
<1> QED BY <1>1, <1>2, Invariance, PTL DEF Spec

\* The statement at which p is ends its transaction, with the answer Ending.
Ends(p) ==
  \/ pc[p] \in {"find", "commit"} \/ Executes(p, "get")
  \/ Executes(p, "create") /\ nextId \notin Ids
  \/ (Executes(p, "update") \/ Executes(p, "delete")) /\ ~Live(req[p].id)
  \/ pc[p] = "save" /\ ~RowLocks /\ reserved # NoProc

Ending(p) ==
  CASE pc[p] = "find"   -> [resp[p] EXCEPT !.status = 200, !.items = LiveIds]
    [] pc[p] = "commit" -> Success(p)
    [] pc[p] = "save" \/ Executes(p, "create") -> Answer(500)
    [] Executes(p, "get") /\ Live(req[p].id) ->
         Answered(200, req[p].id, tasks[req[p].id].body)
    [] OTHER -> Answer(404)

\* The write p stages where its statement is one.
Writes(p) ==
  ~Ends(p) /\ (pc[p] = "save" \/ Executes(p, "create") \/ Executes(p, "delete"))
Write(p) ==
  IF Executes(p, "create") THEN [id |-> nextId, row |-> LiveRow(req[p].draft)]
  ELSE IF pc[p] = "save"
       THEN [id |-> req[p].id, row |-> LiveRow(Mutate(seen[p], req[p].patch))]
  ELSE [id |-> req[p].id, row |-> SoftDeleted(tasks[req[p].id])]

Reads(p) == ~Ends(p) /\ Executes(p, "update")

\* A next state of p's own.
Continues(p) ==
  /\ pc' = [pc EXCEPT ![p] =
       IF Ends(p) THEN "reply" ELSE IF Writes(p) THEN "commit"
       ELSE CASE pc[p] = "conn" -> "exec" [] pc[p] = "conn2" -> "find"
              [] pc[p] = "reply" -> "idle" [] Reads(p) -> "save" [] OTHER -> "conn2"]
  /\ req' = IF pc[p] = "reply" THEN [req EXCEPT ![p] = NoRequest] ELSE req
  /\ resp' = IF Ends(p) THEN [resp EXCEPT ![p] = Ending(p)]
             ELSE IF pc[p] = "reply" THEN [resp EXCEPT ![p] = NoReply]
             ELSE IF Executes(p, "list")
                  THEN [resp EXCEPT ![p].total = Cardinality(LiveIds)] ELSE resp
  /\ seen' = IF Ends(p) THEN [seen EXCEPT ![p] = NoTask]
             ELSE IF Reads(p) THEN [seen EXCEPT ![p] = tasks[req[p].id].body] ELSE seen
  /\ staged' = IF Ends(p) THEN [staged EXCEPT ![p] = NoWrite]
               ELSE IF Writes(p) THEN [staged EXCEPT ![p] = Write(p)] ELSE staged
  /\ tasks' = IF pc[p] = "commit" THEN [tasks EXCEPT ![staged[p].id] = staged[p].row]
              ELSE tasks
  /\ nextId' = IF \/ RowLocks /\ Writes(p) /\ Executes(p, "create")
                  \/ ~RowLocks /\ pc[p] = "commit" /\ req[p].op = "create"
               THEN nextId + 1 ELSE nextId
  /\ rowLock' = IF Ends(p) THEN [id \in Ids |-> IF rowLock[id] \in {p} THEN NoProc ELSE rowLock[id]]
                ELSE IF RowLocks /\ Writes(p) THEN [rowLock EXCEPT ![Write(p).id] = p]
                ELSE IF RowLocks /\ Reads(p) THEN [rowLock EXCEPT ![req[p].id] = p]
                ELSE rowLock
  /\ shared' = IF Ends(p) THEN shared \ {p}
               ELSE IF ~RowLocks /\ Reads(p) THEN shared \cup {p} ELSE shared
  /\ reserved' = IF Ends(p) THEN IF reserved \in {p} THEN NoProc ELSE reserved
                 ELSE IF ~RowLocks /\ Writes(p) THEN p ELSE reserved

\* A request under way that waits for nobody can go on: into the state that
\* Continues gives (database.go:56, repository.go:25-99).
THEOREM TheUnblockedMayGo ==
  ASSUME IInv, Served, NEW p \in Procs, pc[p] # "idle", Blockers(p) = {}, Continues(p)
  PROVE  <<GetConn(p) \/ Step(p)>>_vars
<1> USE DEF Ends, Writes, Reads, Executes
<1>1. pc'[p] # pc[p]
  BY DEF Continues, IInv, TypeOK, Stages
<1>2. ASSUME Ends(p)
      PROVE  Finish(p, Ending(p))
  BY <1>2 DEF Continues, Finish, Release
<1>3. ASSUME pc[p] \in {"conn", "conn2"}
      PROVE  GetConn(p)
  <2>1. HasIdleConn(Home[p])
    <3>1. ASSUME InUse(Home[p]) = {} PROVE HasIdleConn(Home[p])
      BY <3>1, FS_EmptySet, RepositoryAssumption DEF HasIdleConn
    <3> QED BY <1>3, <3>1 DEF Blockers
  <2> QED BY <1>3, <2>1 DEF Continues, GetConn, locks
<1>4. ASSUME pc[p] = "reply"
      PROVE  Return(p)
  BY <1>4 DEF Continues, Return, locks
<1>5. ASSUME pc[p] = "find"
      PROVE  Find(p)
  BY <1>2, <1>5 DEF Continues, Ending, Find, CanRead, Blockers, FileNeeded
<1>6. ASSUME pc[p] = "commit"
      PROVE  Commit(p)
  BY <1>2, <1>6 DEF Continues, Ending, Commit, Blockers
<1>7. ASSUME pc[p] = "save"
      PROVE  Save(p) \/ SaveBusy(p)
  <2>1. CASE ~RowLocks /\ reserved # NoProc
    BY <1>2, <1>7, <2>1 DEF Continues, Ending, SaveBusy
  <2>2. CASE RowLocks \/ reserved = NoProc
    <3>1. WriteLock(p, req[p].id)
      BY <1>7, <2>2 DEF Continues, Write, WriteLock, Blockers, RowsNeeded
    <3> QED BY <1>7, <2>2, <3>1 DEF Continues, Write, Save, Stage
  <2> QED BY <2>1, <2>2
<1>8. ASSUME pc[p] = "exec", req[p].op = "create"
      PROVE  Insert(p) \/ InsertExhausted(p)
  <2>1. CASE nextId \notin Ids
    BY <1>2, <1>8, <2>1 DEF Continues, Ending, InsertExhausted
  <2>2. CASE nextId \in Ids
    <3>1. WriteLock(p, nextId)
      BY <1>8, <2>2 DEF Continues, Write, WriteLock, Blockers, RowsNeeded, FileNeeded
    <3> QED BY <1>8, <2>2, <3>1 DEF Continues, Write, Insert, Stage
  <2> QED BY <2>1, <2>2
<1>9. ASSUME pc[p] = "exec"
      PROVE  /\ req[p].op \in {"get", "list", "update", "delete"} => CanRead
             /\ req[p].op \in {"create", "get", "list", "update", "delete"}
  <2>1. req[p].op \in {"create", "get", "list", "update", "delete"}
    BY <1>9, DataAssumption DEF Served, Request, Plain
  <2> QED BY <1>9, <2>1 DEF CanRead, Blockers, FileNeeded
<1>10. ASSUME pc[p] = "exec", req[p].op = "get"
       PROVE  FindByID(p)
  BY <1>2, <1>9, <1>10 DEF Continues, Ending, FindByID
<1>11. ASSUME pc[p] = "exec", req[p].op = "list"
       PROVE  Count(p)
  BY <1>9, <1>11 DEF Continues, Count, locks
<1>12. ASSUME pc[p] = "exec", req[p].op \in {"update", "delete"}, ~Live(req[p].id)
       PROVE  FirstNotFound(p) \/ DeleteNotFound(p)
  BY <1>2, <1>9, <1>12 DEF Continues, Ending, FirstNotFound, DeleteNotFound
<1>13. ASSUME pc[p] = "exec", req[p].op \in {"update", "delete"}, Live(req[p].id)
       PROVE  First(p) \/ Delete(p)
  <2>1. req[p].id \in LiveIds
    BY <1>13, RequestTypes DEF LiveIds, IInv, TypeOK
  <2>2. IF RowLocks THEN rowLock[req[p].id] \in {NoProc, p} ELSE reserved = NoProc
    BY <1>13, <2>1 DEF Blockers, RowsNeeded, FileNeeded
  <2>3. rowLock[req[p].id] # p
    BY <1>13, <2>1, RepositoryAssumption
    DEF IInv, LocksOfOpenTransactions, Updating, LiveIds
  <2>4. CASE req[p].op = "update"
    <3>1. applyRowLock(p, req[p].id)
      BY <1>13, <2>2, <2>3, <2>4 DEF Continues, applyRowLock
    <3> QED BY <1>13, <2>4, <3>1 DEF Continues, First
  <2>5. CASE req[p].op = "delete"
    <3>1. WriteLock(p, req[p].id)
      BY <1>13, <2>2, <2>5 DEF Continues, Write, WriteLock
    <3> QED BY <1>13, <2>5, <3>1 DEF Continues, Write, Delete, Stage
  <2> QED BY <1>13, <2>4, <2>5
<1>14. GetConn(p) \/ Step(p)
  BY <1>3, <1>4, <1>5, <1>6, <1>7, <1>8, <1>9, <1>10, <1>11, <1>12, <1>13
  DEF Step, IInv, TypeOK, Stages
<1> QED BY <1>1, <1>14 DEF vars

=============================================================================
