------------------------ MODULE TaskRefinementProofs ------------------------
(***************************************************************************)
(* The proof that TaskRepository implements TaskStore: the initial states  *)
(* map to initial states and every step to a step of the store or to a     *)
(* stutter.                                                                *)
(***************************************************************************)
EXTENDS TaskRepositoryProofs

-----------------------------------------------------------------------------
(***************************************************************************)
(* The store's copy of the data definitions is the repository's.           *)
(***************************************************************************)
LEMMA SameData ==
  /\ Store!Ids = Ids
  /\ Store!NoRow = NoRow
  /\ Store!NoReply = NoReply
  /\ Store!NoRequest = NoRequest
  /\ \A t : Store!LiveRow(t) = LiveRow(t)
  /\ \A row : Store!SoftDeleted(row) = SoftDeleted(row)
  /\ \A s : Store!Answer(s) = Answer(s)
  /\ \A s, id, t : Store!Answered(s, id, t) = Answered(s, id, t)
  /\ \A t, patch : Store!Mutate(t, patch) = Mutate(t, patch)
  /\ \A id : Store!Live(id) = Live(id)
  /\ Store!LiveIds = LiveIds
BY DEF Store!Ids, Store!NoRow, Store!NoReply, Store!NoRequest,
   Store!LiveRow, Store!SoftDeleted, Store!Answer, Store!Answered, Store!Mutate,
   Store!Live, Store!LiveIds, Store!Plain, Store!NothingSent,
   Ids, NoRow, NoReply, NoRequest, LiveRow, SoftDeleted, Answer,
   Answered, Mutate, Live, LiveIds, Plain, NothingSent

\* Moving p to a stage moves its phase.
LEMMA PhaseMoves ==
  ASSUME TypeOK, NEW p \in Procs, NEW stage, pc' = [pc EXCEPT ![p] = stage]
  PROVE  Phase' = [Phase EXCEPT ![p] = PhaseOf(stage)]
BY DEF Phase, TypeOK

\* What the store sees of a process.
LEMMA PhaseValues ==
  ASSUME NEW p \in Procs
  PROVE  /\ Phase[p] = PhaseOf(pc[p])
         /\ PhaseOf("idle") = "idle" /\ PhaseOf("reply") = "answered"
         /\ PhaseOf("conn2") = "counted" /\ PhaseOf("find") = "counted"
         /\ \A s \in {"conn", "exec", "save", "commit"} : PhaseOf(s) = "pending"
BY DEF Phase, PhaseOf

LEMMA InitRefines == Init => Store!Init
BY SameData DEF Init, Store!Init, Phase, PhaseOf

\* A transaction that ends is an answer of the store.
LEMMA FinishAnswers ==
  ASSUME TypeOK, NEW p \in Procs, NEW r, Finish(p, r)
  PROVE  Store!Answers(p, r)
<1>1. pc' = [pc EXCEPT ![p] = "reply"] /\ UNCHANGED req /\ resp' = [resp EXCEPT ![p] = r]
  BY DEF Finish
<1>2. Phase' = [Phase EXCEPT ![p] = PhaseOf("reply")]
  BY <1>1, PhaseMoves
<1>3. QED
  BY <1>1, <1>2, PhaseValues DEF Store!Answers

\* Where p calls op in the store.
LEMMA ExecutesCalls ==
  ASSUME NEW p \in Procs, NEW op, Executes(p, op)
  PROVE  Store!Calls(p, op)
BY PhaseValues DEF Executes, Store!Calls

\* The commit of a create, update or delete is that operation of the store
\* (repository.go:25-27, 67-99).
LEMMA CommitRefines ==
  ASSUME IInv, NEW p \in Procs, Commit(p)
  PROVE  Store!Create(p) \/ Store!Update(p) \/ Store!Delete(p)
<1> DEFINE id == staged[p].id
           row == staged[p].row
<1>1. /\ pc[p] = "commit" /\ id \in Ids
      /\ tasks' = [tasks EXCEPT ![id] = row]
      /\ Finish(p, Success(p)) \/ Finish(p, Answer(500))
  BY DEF Commit, IInv, StagedWrites
<1>2. Store!Answers(p, Success(p)) \/ Store!Answers(p, Answer(500))
  BY <1>1, FinishAnswers DEF IInv
<1>3. Store!Writes(p, id, row, Success(p))
  BY <1>1, <1>2, SameData DEF Store!Writes
<1>4. \A op : req[p].op = op => Store!Calls(p, op)
  BY <1>1, PhaseValues DEF Store!Calls
<1>5. CASE req[p].op = "create"
  <2>1. tasks[id].state = "none" /\ row = LiveRow(req[p].draft)
    BY <1>1, <1>5 DEF IInv, StagedWrites
  <2>2. Success(p) = Answered(201, id, req[p].draft)
    BY <1>5, <2>1 DEF Success, LiveRow
  <2>3. QED
    BY <1>1, <1>3, <1>4, <1>5, <2>1, <2>2, SameData DEF Store!Create
<1>6. CASE req[p].op = "update"
  <2> DEFINE t == Mutate(tasks[id].body, req[p].patch)
  <2>1. id = req[p].id /\ Live(id) /\ row = LiveRow(t)
    BY <1>1, <1>6 DEF IInv, StagedWrites
  <2>2. Success(p) = Answered(200, id, t)
    BY <1>6, <2>1 DEF Success, LiveRow
  <2>3. QED
    BY <1>1, <1>3, <1>4, <1>6, <2>1, <2>2, SameData DEF Store!Update
<1>7. CASE req[p].op = "delete"
  <2>1. id = req[p].id /\ Live(id) /\ row = SoftDeleted(tasks[id])
    BY <1>1, <1>7 DEF IInv, StagedWrites
  <2>2. Success(p) = Answer(204)
    BY <1>7 DEF Success
  <2>3. QED
    BY <1>1, <1>3, <1>4, <1>7, <2>1, <2>2, SameData DEF Store!Delete
<1>8. QED
  BY <1>1, <1>5, <1>6, <1>7 DEF IInv, StagedWrites

\* Every step is a step of the store or leaves it as it is.
LEMMA StepRefines == IInv /\ [Next]_vars => [Store!Next]_(Store!vars)
<1> SUFFICES ASSUME IInv, [Next]_vars PROVE [Store!Next]_(Store!vars)
  OBVIOUS
<1> USE DEF Store!vars, locks
<1>0. TypeOK
  BY DEF IInv
<1>1. ASSUME NEW p \in Procs, Accept(p)
      PROVE  Store!Invoke(p)
  <2>1. pc' = [pc EXCEPT ![p] = "conn"]
    BY <1>1 DEF Accept
  <2>2. Phase' = [Phase EXCEPT ![p] = PhaseOf("conn")]
    BY <1>0, <2>1, PhaseMoves
  <2>3. QED
    BY <1>1, <2>2, PhaseValues, SameData DEF Accept, Store!Invoke
<1>2. ASSUME NEW p \in Procs, Refuse(p)
      PROVE  Store!Refuse(p)
  <2>1. pc' = [pc EXCEPT ![p] = "reply"]
    BY <1>2 DEF Refuse
  <2>2. Phase' = [Phase EXCEPT ![p] = PhaseOf("reply")]
    BY <1>0, <2>1, PhaseMoves
  <2>3. PICK status \in {400, 422} : resp' = [resp EXCEPT ![p] = Answer(status)]
    BY <1>2 DEF Refuse
  <2>4. resp' = [resp EXCEPT ![p] = Store!Answer(status)]
    BY <2>3, SameData
  <2>5. Phase[p] = "idle" /\ UNCHANGED <<tasks, req>>
    BY <1>2, PhaseValues DEF Refuse
  <2>6. QED
    BY <2>2, <2>4, <2>5, PhaseValues DEF Store!Refuse
<1>3. ASSUME NEW p \in Procs, Return(p)
      PROVE  Store!Return(p)
  <2>1. pc' = [pc EXCEPT ![p] = "idle"]
    BY <1>3 DEF Return
  <2>2. Phase' = [Phase EXCEPT ![p] = PhaseOf("idle")]
    BY <1>0, <2>1, PhaseMoves
  <2>3. QED
    BY <1>3, <2>2, PhaseValues, SameData DEF Return, Store!Return
<1>4. ASSUME NEW p \in Procs, GetConn(p)
      PROVE  UNCHANGED Store!vars
  <2>1. Phase' = Phase
    BY <1>4, PhaseValues DEF GetConn, TypeOK, Phase, PhaseOf
  <2>2. QED
    BY <1>4, <2>1 DEF GetConn
<1>5. ASSUME NEW p \in Procs, Insert(p) \/ First(p) \/ Save(p) \/ Delete(p)
      PROVE  UNCHANGED Store!vars
  <2>1. UNCHANGED <<tasks, req, resp>>
    BY <1>5 DEF Insert, First, Save, Delete, Stage
  <2>2. /\ pc[p] \in {"exec", "save"}
        /\ \E s \in {"save", "commit"} : pc' = [pc EXCEPT ![p] = s]
    BY <1>5 DEF Insert, First, Save, Delete, Stage, Executes
  <2>3. Phase' = Phase
    BY <2>2, PhaseValues DEF Phase, PhaseOf
  <2>4. QED
    BY <2>1, <2>3
<1>6. ASSUME NEW p \in Procs,
             InsertExhausted(p) \/ SaveBusy(p) \/ Fail(p)
      PROVE  Store!Fail(p)
  <2>1. Phase[p] \in {"pending", "counted"}
    BY <1>6, PhaseValues
    DEF InsertExhausted, SaveBusy, Fail, InDatabase, Executes
  <2>2. Finish(p, Answer(500)) /\ tasks' = tasks
    BY <1>6 DEF InsertExhausted, SaveBusy, Fail
  <2>3. QED
    BY <1>0, <2>1, <2>2, FinishAnswers, SameData DEF Store!Fail
<1>7. ASSUME NEW p \in Procs, FirstNotFound(p)
      PROVE  Store!Update(p)
  BY <1>0, <1>7, FinishAnswers, ExecutesCalls, SameData
  DEF FirstNotFound, Store!Update, Store!NotFound
<1>8. ASSUME NEW p \in Procs, DeleteNotFound(p)
      PROVE  Store!Delete(p)
  BY <1>0, <1>8, FinishAnswers, ExecutesCalls, SameData
  DEF DeleteNotFound, Store!Delete, Store!NotFound
<1>9. ASSUME NEW p \in Procs, FindByID(p)
      PROVE  Store!Get(p)
  <2>1. Executes(p, "get") /\ tasks' = tasks
    BY <1>9 DEF FindByID
  <2>2. CASE Live(req[p].id)
    <3>1. Finish(p, Answered(200, req[p].id, tasks[req[p].id].body))
      BY <1>9, <2>2 DEF FindByID
    <3>2. QED
      BY <1>0, <2>1, <2>2, <3>1, FinishAnswers, ExecutesCalls, SameData DEF Store!Get
  <2>3. CASE ~Live(req[p].id)
    <3>1. Finish(p, Answer(404))
      BY <1>9, <2>3 DEF FindByID
    <3>2. QED
      BY <1>0, <2>1, <2>3, <3>1, FinishAnswers, ExecutesCalls, SameData
      DEF Store!Get, Store!NotFound
  <2>4. QED
    BY <2>2, <2>3
<1>10. ASSUME NEW p \in Procs, Count(p)
      PROVE  Store!Count(p)
  <2>1. pc' = [pc EXCEPT ![p] = "conn2"]
    BY <1>10 DEF Count
  <2>2. Phase' = [Phase EXCEPT ![p] = PhaseOf("conn2")]
    BY <1>0, <2>1, PhaseMoves
  <2>3. resp' = [resp EXCEPT ![p].total = Cardinality(Store!LiveIds)]
    BY <1>10, SameData DEF Count
  <2>4. Store!Calls(p, "list") /\ UNCHANGED <<tasks, req>>
    BY <1>10, ExecutesCalls DEF Count
  <2>5. QED
    BY <2>2, <2>3, <2>4, PhaseValues DEF Store!Count, Store!Cardinality, Cardinality
<1>11. ASSUME NEW p \in Procs, Find(p)
      PROVE  Store!Find(p)
  BY <1>0, <1>11, PhaseValues, FinishAnswers, SameData DEF Find, Store!Find
<1>12. ASSUME NEW i \in Instances, Crash(i)
      PROVE  \E S \in SUBSET Procs : Store!Crash(S)
  <2> DEFINE S == {p \in Procs : Home[p] = i}
  <2>1. Phase' = [p \in Procs |-> IF p \in S THEN "idle" ELSE Phase[p]]
    BY <1>12 DEF Crash, Phase, PhaseOf
  <2>2. Store!Crash(S)
    BY <1>12, <2>1, SameData DEF Crash, Store!Crash
  <2>3. QED
    BY <2>2
<1>13. CASE UNCHANGED vars
  BY <1>13 DEF vars, Phase
<1>14. ASSUME NEW p \in Procs, Commit(p)
       PROVE  Store!Next
  BY <1>14, CommitRefines DEF Store!Next
<1>15. QED
  BY <1>1, <1>2, <1>3, <1>4, <1>5, <1>6, <1>7, <1>8, <1>9, <1>10, <1>11, <1>12,
     <1>13, <1>14 DEF Next, Step, Store!Next

\* The GORM repository, with its pool, locks, failures and crashes, implements
\* the Repository interface as an atomic store (service.go:14-20).
THEOREM Refinement == Spec => ImplementsTaskStore
<1>1. Init => Store!Init
  BY InitRefines
<1>2. IInv /\ [Next]_vars => [Store!Next]_(Store!vars)
  BY StepRefines
<1>3. QED
  BY <1>1, <1>2, Invariance, PTL DEF Spec, ImplementsTaskStore, Store!Spec

-----------------------------------------------------------------------------
(***************************************************************************)
(* What the store promises of answers, and so the repository.              *)
(***************************************************************************)
\* AnswersHold, and that the ids it speaks of are ids.
StoreInv ==
  /\ Store!TypeOK
  /\ Store!AnswersHold
  /\ \A p \in Procs : Phase[p] = "answered" =>
       /\ resp[p].status = 201 => resp[p].id \in Ids
       /\ resp[p].status = 204 => req[p].id \in Ids

\* The types of the store in the words of the repository, before and after a
\* step.
LEMMA StoreTypes ==
  /\ Store!TypeOK <=>
       /\ tasks \in [Ids -> Row]
       /\ Phase \in [Procs -> {"idle", "pending", "counted", "answered"}]
       /\ req \in [Procs -> Requests \cup {NoRequest}]
       /\ resp \in [Procs -> Reply]
  /\ Store!TypeOK' <=>
       /\ tasks' \in [Ids -> Row]
       /\ Phase' \in [Procs -> {"idle", "pending", "counted", "answered"}]
       /\ req' \in [Procs -> Requests \cup {NoRequest}]
       /\ resp' \in [Procs -> Reply]
<1> USE SameData
    DEF Store!TypeOK, Store!Row, Row, Store!Reply, Reply, Store!Task, Task
<1>1. Store!Row = Row /\ Store!Reply = Reply
  OBVIOUS
<1>2. QED
  BY <1>1

\* No row disappears, none comes back.
RowsGoOn ==
  \A id \in Ids :
    /\ tasks[id].state # "none" => tasks'[id].state # "none"
    /\ tasks[id].state = "deleted" => tasks'[id].state = "deleted"

\* An answer keeps it if it is true when it is given, and news if it says so.
LEMMA AnswerKeeps ==
  ASSUME StoreInv, NEW p \in Procs, NEW r \in Reply, Store!Answers(p, r),
         tasks' \in [Ids -> Row], RowsGoOn,
         \A id \in r.items \cup ({r.id} \ {0}) : tasks'[id].state # "none",
         r.status = 201 => r.id \in Ids /\ tasks[r.id].state = "none",
         r.status = 204 => /\ req[p].id \in Ids
                           /\ tasks[req[p].id].state # "deleted"
                           /\ tasks'[req[p].id].state = "deleted"
  PROVE  StoreInv'
<1>0. /\ Phase' = [Phase EXCEPT ![p] = "answered"]
      /\ resp' = [resp EXCEPT ![p] = r]
      /\ req' = req
  BY DEF Store!Answers
<1>1. /\ Phase \in [Procs -> {"idle", "pending", "counted", "answered"}]
      /\ req \in [Procs -> Requests \cup {NoRequest}]
      /\ resp \in [Procs -> Reply]
  BY StoreTypes DEF StoreInv
<1>2. Store!TypeOK'
  <2>1. /\ Phase' \in [Procs -> {"idle", "pending", "counted", "answered"}]
        /\ req' \in [Procs -> Requests \cup {NoRequest}]
        /\ resp' \in [Procs -> Reply]
    BY <1>0, <1>1
  <2>2. QED
    BY <2>1, StoreTypes
<1>3. resp'[p] = r /\ Phase'[p] = "answered"
  BY <1>0, <1>1
<1>4. \A q \in Procs : q # p => resp'[q] = resp[q] /\ Phase'[q] = Phase[q]
  BY <1>0, <1>1
<1>5. \A q \in Procs : Phase'[q] = "answered" =>
        /\ resp'[q].status = 201 => resp'[q].id \in Ids
        /\ resp'[q].status = 204 => req'[q].id \in Ids
  BY <1>0, <1>3, <1>4 DEF StoreInv
<1>6. \A q \in Procs, id \in Ids :
        id \in resp'[q].items \cup ({resp'[q].id} \ {0}) => tasks'[id].state # "none"
  BY <1>3, <1>4 DEF StoreInv, Store!AnswersHold, RowsGoOn
<1>7. \A q \in Procs : resp'[q].items \cup ({resp'[q].id} \ {0}) \subseteq Ids
  <2>1. \A s \in Reply : s.items \cup ({s.id} \ {0}) \subseteq Ids
    BY DEF Reply
  <2>2. \A q \in Procs : resp'[q] \in Reply
    BY <1>0, <1>1
  <2>3. QED
    BY <2>1, <2>2
<1>8. ASSUME NEW q \in Procs, Phase'[q] = "answered", resp'[q].status = 204
      PROVE  tasks'[req'[q].id].state = "deleted"
  BY <1>0, <1>3, <1>4, <1>8 DEF StoreInv, Store!AnswersHold, RowsGoOn
\* Two answers: the old one was true, the new one is news.
<1>9. ASSUME NEW q \in Procs, q # p, Phase'[q] = "answered"
      PROVE  /\ resp'[q].status = 201 /\ r.status = 201 => resp'[q].id # r.id
             /\ resp'[q].status = 204 /\ r.status = 204 => req'[q].id # req'[p].id
  <2>1. resp'[q] = resp[q] /\ Phase[q] = "answered" /\ req' = req
    BY <1>0, <1>4, <1>9
  <2>2. resp[q].status = 201 => tasks[resp[q].id].state # "none"
    <3>1. resp[q].status = 201 => resp[q].id \in Ids \ {0}
      BY <2>1, DataAssumption DEF StoreInv, Ids
    <3>2. QED
      BY <3>1 DEF StoreInv, Store!AnswersHold
  <2>3. resp[q].status = 204 => tasks[req[q].id].state = "deleted"
    BY <2>1 DEF StoreInv, Store!AnswersHold
  <2>4. QED
    BY <2>1, <2>2, <2>3
<1>10. ASSUME NEW q1 \in Procs, NEW q2 \in Procs, q1 # q2,
              Phase'[q1] = "answered", Phase'[q2] = "answered"
       PROVE  /\ resp'[q1].status = 201 /\ resp'[q2].status = 201 =>
                   resp'[q1].id # resp'[q2].id
              /\ resp'[q1].status = 204 /\ resp'[q2].status = 204 =>
                   req'[q1].id # req'[q2].id
  <2>1. CASE q1 = p
    BY <1>3, <1>9, <1>10, <2>1
  <2>2. CASE q2 = p
    BY <1>3, <1>9, <1>10, <2>2
  <2>3. CASE q1 # p /\ q2 # p
    BY <1>0, <1>4, <1>10, <2>3 DEF StoreInv, Store!AnswersHold
  <2>4. QED
    BY <2>1, <2>2, <2>3
<1>11. Store!AnswersHold'
  BY <1>6, <1>7, <1>8, <1>10 DEF Store!AnswersHold
<1>12. QED
  BY <1>2, <1>5, <1>11 DEF StoreInv

\* Whoever gives no answer keeps it, too: the table stays, and what he had
\* been told so far is kept or forgotten.
LEMMA SilenceKeeps ==
  ASSUME StoreInv, Store!TypeOK', tasks' = tasks,
         \A q \in Procs :
           /\ Phase'[q] = "answered" =>
                Phase[q] = "answered" /\ resp'[q] = resp[q] /\ req'[q] = req[q]
           /\ resp'[q].items = resp[q].items \/ resp'[q].items = {}
           /\ resp'[q].id = resp[q].id \/ resp'[q].id = 0
  PROVE  StoreInv'
<1>1. Store!AnswersHold'
  BY DEF StoreInv, Store!AnswersHold
<1>2. QED
  BY <1>1 DEF StoreInv

\* A write of the store lets no row disappear or come back.
LEMMA WritesGoOn ==
  ASSUME tasks \in [Ids -> Row], NEW id \in Ids, NEW row \in Row,
         tasks' = [tasks EXCEPT ![id] = row],
         row.state # "none", tasks[id].state # "deleted"
  PROVE  RowsGoOn /\ tasks' \in [Ids -> Row]
BY DEF RowsGoOn

LEMMA SilentSteps ==
  ASSUME StoreInv, NEW p \in Procs,
         Store!Invoke(p) \/ Store!Return(p) \/ Store!Count(p)
  PROVE  StoreInv'
<1>0. /\ tasks \in [Ids -> Row]
      /\ Phase \in [Procs -> {"idle", "pending", "counted", "answered"}]
      /\ req \in [Procs -> Requests \cup {NoRequest}]
      /\ resp \in [Procs -> Reply]
  BY StoreTypes DEF StoreInv
<1>1. CASE Store!Invoke(p)
  <2>1. PICK r \in Requests : req' = [req EXCEPT ![p] = r]
    BY <1>1 DEF Store!Invoke
  <2>2. Phase' = [Phase EXCEPT ![p] = "pending"] /\ UNCHANGED <<tasks, resp>>
    BY <1>1 DEF Store!Invoke
  <2>3. Store!TypeOK'
    BY <1>0, <2>1, <2>2, StoreTypes
  <2>4. QED
    BY <1>0, <2>1, <2>2, <2>3, SilenceKeeps
<1>2. CASE Store!Return(p)
  <2>1. /\ Phase' = [Phase EXCEPT ![p] = "idle"] /\ tasks' = tasks
        /\ req' = [req EXCEPT ![p] = NoRequest]
        /\ resp' = [resp EXCEPT ![p] = NoReply]
    BY <1>2, SameData DEF Store!Return
  <2>2. Store!TypeOK'
    BY <1>0, <2>1, StoreTypes, ReplyTypes
  <2>3. NoReply.items = {} /\ NoReply.id = 0
    BY DEF NoReply
  <2>4. QED
    BY <1>0, <2>1, <2>2, <2>3, SilenceKeeps
<1>3. CASE Store!Count(p)
  <2> DEFINE n == Cardinality(LiveIds)
             r == [resp[p] EXCEPT !.total = n]
  <2>1. /\ Phase' = [Phase EXCEPT ![p] = "counted"]
        /\ UNCHANGED <<tasks, req>>
    BY <1>3 DEF Store!Count
  <2>2. resp' = [resp EXCEPT ![p] = r]
    BY <1>3, SameData DEF Store!Count, Store!Cardinality, Cardinality
  <2>3. r \in Reply
    BY <1>0, CountType, ListReplyTypes
  <2>4. r.items = resp[p].items /\ r.id = resp[p].id
    <3>1. \A s \in Reply : \A m : [s EXCEPT !.total = m].items = s.items
                                 /\ [s EXCEPT !.total = m].id = s.id
      BY DEF Reply
    <3>2. QED
      BY <1>0, <3>1
  <2> HIDE DEF r
  <2>5. Store!TypeOK'
    BY <1>0, <2>1, <2>2, <2>3, StoreTypes
  <2>6. QED
    BY <1>0, <2>1, <2>2, <2>4, <2>5, SilenceKeeps
<1>4. QED
  BY <1>1, <1>2, <1>3

LEMMA CrashKeeps ==
  ASSUME StoreInv, NEW S \in SUBSET Procs, Store!Crash(S)
  PROVE  StoreInv'
<1>0. /\ tasks \in [Ids -> Row]
      /\ Phase \in [Procs -> {"idle", "pending", "counted", "answered"}]
      /\ req \in [Procs -> Requests \cup {NoRequest}]
      /\ resp \in [Procs -> Reply]
  BY StoreTypes DEF StoreInv
<1>1. /\ Phase' = [p \in Procs |-> IF p \in S THEN "idle" ELSE Phase[p]]
      /\ req' = [p \in Procs |-> IF p \in S THEN NoRequest ELSE req[p]]
      /\ resp' = [p \in Procs |-> IF p \in S THEN NoReply ELSE resp[p]]
      /\ tasks' = tasks
  BY SameData DEF Store!Crash
<1>2. Store!TypeOK'
  BY <1>0, <1>1, StoreTypes, ReplyTypes
<1>3. NoReply.items = {} /\ NoReply.id = 0
  BY DEF NoReply
<1>4. QED
  BY <1>0, <1>1, <1>2, <1>3, SilenceKeeps

\* An answer that names nothing and claims nothing.
LEMMA PlainAnswers ==
  ASSUME StoreInv, NEW p \in Procs, NEW s \in {400, 404, 422, 500},
         Store!Answers(p, Answer(s)), tasks' \in [Ids -> Row], RowsGoOn
  PROVE  StoreInv'
<1>1. Answer(s) \in Reply
  BY ReplyTypes
<1>2. Answer(s).items = {} /\ Answer(s).id = 0 /\ Answer(s).status = s
  BY DEF Answer, NoReply
<1>3. QED
  BY <1>1, <1>2, AnswerKeeps

LEMMA NothingWritten ==
  ASSUME StoreInv, tasks' = tasks
  PROVE  tasks' \in [Ids -> Row] /\ RowsGoOn
BY StoreTypes DEF StoreInv, RowsGoOn

\* The answers of the reads.
LEMMA ReadsKeep ==
  ASSUME StoreInv, NEW p \in Procs, Store!Get(p) \/ Store!Find(p)
  PROVE  StoreInv'
<1>0. /\ tasks \in [Ids -> Row] /\ resp \in [Procs -> Reply]
      /\ req \in [Procs -> Requests \cup {NoRequest}]
  BY StoreTypes DEF StoreInv
<1>1. CASE Store!Get(p)
  <2> DEFINE id == req[p].id
             r == Answered(200, id, tasks[id].body)
  <2>1. req[p].op = "get" /\ tasks' = tasks
    BY <1>1 DEF Store!Get, Store!Calls, Store!NotFound
  <2>2. id \in Ids
    BY <1>0, <2>1, RequestTypes
  <2>3. CASE ~Live(id)
    <3>1. Store!Answers(p, Answer(404))
      BY <1>1, <2>3, SameData DEF Store!Get, Store!NotFound
    <3>2. QED
      BY <2>1, <3>1, NothingWritten, PlainAnswers
  <2>4. CASE Live(id)
    <3>1. Store!Answers(p, r)
      BY <1>1, <2>4, SameData DEF Store!Get
    <3>2. tasks[id].body \in Task
      BY <1>0, <2>2, <2>4, RowTypes DEF Live
    <3>3. r \in Reply
      BY <2>2, <3>2, ReplyTypes
    <3>4. r.items = {} /\ r.id = id /\ r.status = 200
      BY DEF Answered, NoReply
    <3>5. tasks'[id].state # "none"
      BY <2>1, <2>4 DEF Live
    <3> HIDE DEF r
    <3>6. QED
      BY <2>1, <3>1, <3>3, <3>4, <3>5, NothingWritten, AnswerKeeps
  <2>5. QED
    BY <2>3, <2>4
<1>2. CASE Store!Find(p)
  <2> DEFINE r == [resp[p] EXCEPT !.status = 200, !.items = LiveIds]
  <2>1. Store!Answers(p, r) /\ tasks' = tasks
    BY <1>2, SameData DEF Store!Find
  <2>2. r \in Reply
    <3>1. LiveIds \in SUBSET Ids /\ resp[p] \in Reply
      BY <1>0 DEF LiveIds
    <3>2. QED
      BY <1>0, <3>1, ListReplyTypes
  <2>3. r.items = LiveIds /\ r.id = resp[p].id /\ r.status = 200
    <3>1. \A s \in Reply : \A m :
            /\ [s EXCEPT !.status = 200, !.items = m].items = m
            /\ [s EXCEPT !.status = 200, !.items = m].id = s.id
            /\ [s EXCEPT !.status = 200, !.items = m].status = 200
      BY DEF Reply
    <3>2. QED
      BY <1>0, <3>1
  <2>4. \A id \in r.items \cup ({r.id} \ {0}) : tasks'[id].state # "none"
    <3> HIDE DEF r
    <3>1. QED
      BY <2>1, <2>3 DEF LiveIds, Live, StoreInv, Store!AnswersHold
  <2> HIDE DEF r
  <2>5. QED
    BY <2>1, <2>2, <2>3, <2>4, NothingWritten, AnswerKeeps
<1>3. QED
  BY <1>1, <1>2

\* A write is told of after it is there.
LEMMA WriteKeeps ==
  ASSUME StoreInv, NEW p \in Procs, NEW id \in Ids, NEW row \in Row, NEW r \in Reply,
         Store!Writes(p, id, row, r),
         row.state # "none", tasks[id].state # "deleted",
         r.items = {}, r.id \in {0, id},
         r.status = 201 => r.id = id /\ tasks[id].state = "none",
         r.status = 204 => req[p].id = id /\ row.state = "deleted"
  PROVE  StoreInv'
<1>0. tasks \in [Ids -> Row]
  BY StoreTypes DEF StoreInv
<1>1. tasks' = [tasks EXCEPT ![id] = row]
  BY DEF Store!Writes
<1>2. RowsGoOn /\ tasks' \in [Ids -> Row] /\ tasks'[id] = row
  BY <1>0, <1>1, WritesGoOn
<1>3. CASE Store!Answers(p, r)
  BY <1>2, <1>3, AnswerKeeps
<1>4. CASE Store!Answers(p, Answer(500))
  BY <1>2, <1>4, PlainAnswers
<1>5. QED
  BY <1>3, <1>4, SameData DEF Store!Writes

LEMMA WritersKeep ==
  ASSUME StoreInv, NEW p \in Procs,
         Store!Create(p) \/ Store!Update(p) \/ Store!Delete(p)
  PROVE  StoreInv'
<1>0. /\ tasks \in [Ids -> Row]
      /\ req \in [Procs -> Requests \cup {NoRequest}]
  BY StoreTypes DEF StoreInv
<1>1. CASE Store!Create(p)
  <2> DEFINE draft == req[p].draft
  <2>1. PICK id \in Ids : tasks[id].state = "none" /\
              Store!Writes(p, id, LiveRow(draft), Answered(201, id, draft))
    BY <1>1, SameData DEF Store!Create
  <2>2. draft \in Task
    BY <1>0, <1>1, RequestTypes DEF Store!Create, Store!Calls
  <2>3. LiveRow(draft) \in Row /\ LiveRow(draft).state = "live"
    BY <2>2, RowTypes DEF LiveRow
  <2>4. Answered(201, id, draft) \in Reply
    BY <2>1, <2>2, ReplyTypes
  <2>5. /\ Answered(201, id, draft).items = {} /\ Answered(201, id, draft).id = id
        /\ Answered(201, id, draft).status = 201
    BY DEF Answered, NoReply
  <2>6. QED
    BY <2>1, <2>3, <2>4, <2>5, WriteKeeps
<1>2. CASE Store!Update(p) /\ Live(req[p].id)
  <2> DEFINE id == req[p].id
             t == Mutate(tasks[id].body, req[p].patch)
  <2>1. id \in Ids /\ req[p].patch \in UpdateRequest
    BY <1>0, <1>2, RequestTypes DEF Store!Update, Store!Calls
  <2>2. t \in Task
    BY <1>0, <1>2, <2>1, RowTypes, MutateType DEF Live
  <2>3. Store!Writes(p, id, LiveRow(t), Answered(200, id, t))
    BY <1>2, SameData DEF Store!Update
  <2> HIDE DEF t
  <2>4. LiveRow(t) \in Row /\ LiveRow(t).state = "live"
    BY <2>2, RowTypes DEF LiveRow
  <2>5. Answered(200, id, t) \in Reply
    BY <2>1, <2>2, ReplyTypes
  <2>6. /\ Answered(200, id, t).items = {} /\ Answered(200, id, t).id = id
        /\ Answered(200, id, t).status = 200
    BY DEF Answered, NoReply
  <2>7. tasks[id].state = "live"
    BY <1>2 DEF Live
  <2>8. QED
    BY <2>1, <2>3, <2>4, <2>5, <2>6, <2>7, WriteKeeps
<1>3. CASE Store!Delete(p) /\ Live(req[p].id)
  <2> DEFINE id == req[p].id
  <2>1. id \in Ids /\ tasks[id].state = "live"
    BY <1>0, <1>3, RequestTypes DEF Store!Delete, Store!Calls, Live
  <2>2. Store!Writes(p, id, SoftDeleted(tasks[id]), Answer(204))
    BY <1>3, SameData DEF Store!Delete
  <2>3. SoftDeleted(tasks[id]) \in Row /\ SoftDeleted(tasks[id]).state = "deleted"
    BY <1>0, <2>1, RowTypes DEF SoftDeleted
  <2>4. /\ Answer(204) \in Reply /\ Answer(204).items = {} /\ Answer(204).id = 0
        /\ Answer(204).status = 204
    BY ReplyTypes DEF Answer, NoReply
  <2>5. QED
    BY <2>1, <2>2, <2>3, <2>4, WriteKeeps
<1>4. CASE ~Live(req[p].id) /\ (Store!Update(p) \/ Store!Delete(p))
  <2>1. Store!Answers(p, Answer(404)) /\ tasks' = tasks
    BY <1>4, SameData DEF Store!Update, Store!Delete, Store!NotFound
  <2>2. QED
    BY <2>1, NothingWritten, PlainAnswers
<1>5. QED
  BY <1>1, <1>2, <1>3, <1>4

LEMMA StoreInit == Store!Init => StoreInv
<1> SUFFICES ASSUME Store!Init PROVE StoreInv
  OBVIOUS
<1>1. /\ tasks = [id \in Ids |-> NoRow] /\ Phase = [p \in Procs |-> "idle"]
      /\ req = [p \in Procs |-> NoRequest] /\ resp = [p \in Procs |-> NoReply]
  BY SameData DEF Store!Init
<1>2. Store!TypeOK
  BY <1>1, StoreTypes, RowTypes, ReplyTypes
<1>3. Store!AnswersHold
  BY <1>1 DEF Store!AnswersHold, NoReply
<1>4. QED
  BY <1>1, <1>2, <1>3 DEF StoreInv

LEMMA StoreNext == StoreInv /\ [Store!Next]_(Store!vars) => StoreInv'
<1> SUFFICES ASSUME StoreInv, [Store!Next]_(Store!vars) PROVE StoreInv'
  OBVIOUS
<1>1. ASSUME NEW p \in Procs, Store!Refuse(p)
      PROVE  StoreInv'
  <2>1. PICK s \in {400, 422} : resp' = [resp EXCEPT ![p] = Store!Answer(s)]
    BY <1>1 DEF Store!Refuse
  <2>2. Store!Answers(p, Answer(s)) /\ tasks' = tasks
    <3>1. Store!Answer(s) = Answer(s)
      BY SameData
    <3>2. QED
      BY <1>1, <2>1, <3>1 DEF Store!Refuse, Store!Answers
  <2>3. QED
    BY <2>2, NothingWritten, PlainAnswers
<1>2. ASSUME NEW p \in Procs, Store!Fail(p)
      PROVE  StoreInv'
  <2>1. Store!Answers(p, Answer(500)) /\ tasks' = tasks
    BY <1>2, SameData DEF Store!Fail
  <2>2. QED
    BY <2>1, NothingWritten, PlainAnswers
<1>3. CASE UNCHANGED Store!vars
  BY <1>3 DEF Store!vars, StoreInv, Store!TypeOK, Store!AnswersHold
<1>4. QED
  BY <1>1, <1>2, <1>3, SilentSteps, CrashKeeps, ReadsKeep, WritersKeep DEF Store!Next

\* Whatever implements the store keeps its word to the clients.
THEOREM StoreAnswersHold == Store!Spec => []Store!AnswersHold
<1>1. StoreInv => Store!AnswersHold
  BY DEF StoreInv
<1>2. QED
  BY <1>1, StoreInit, StoreNext, PTL DEF Store!Spec

\* The repository implements it, so its answers are durable when they are
\* sent, and no two clients are told that they created, or deleted, the same
\* task (repository.go:25-27, 81-99).
THEOREM AnswersOutliveCrashes == Spec => []AnswersAreDurable
<1>1. Store!AnswersHold => AnswersAreDurable
  BY DEF AnswersAreDurable
<1>2. QED
  BY <1>1, Refinement, StoreAnswersHold, PTL DEF ImplementsTaskStore

=============================================================================
