------------------------------ MODULE TaskStore ------------------------------
(***************************************************************************)
(* What the Repository interface of internal/modules/task/service.go       *)
(* promises to the requests that run over it, with no database inside:     *)
(* every operation takes effect at one instant between its call and its    *)
(* answer, Update applies the fields of the request to the task as it is   *)
(* at that instant, and List counts at one instant and reads the rows at a *)
(* later one.                                                              *)
(*                                                                         *)
(* A failed operation answers 500.  The client cannot tell from it whether *)
(* a write took effect: the connection may break after the database        *)
(* committed and before it said so.                                        *)
(***************************************************************************)
EXTENDS TaskData, FiniteSets

CONSTANT Procs      \* requests that may be in flight at once

VARIABLES
  tasks,   \* the tasks table as committed: id -> row
  phase,   \* phase[p] \in {"idle", "pending", "counted", "answered"}
  req,     \* req[p]: the request p serves
  resp     \* resp[p]: its answer, or the part of it computed so far

vars == <<tasks, phase, req, resp>>

TypeOK ==
  /\ tasks \in [Ids -> Row]
  /\ phase \in [Procs -> {"idle", "pending", "counted", "answered"}]
  /\ req \in [Procs -> Requests \cup {NoRequest}]
  /\ resp \in [Procs -> Reply]

Init ==
  /\ tasks = [id \in Ids |-> NoRow]
  /\ phase = [p \in Procs |-> "idle"]
  /\ req = [p \in Procs |-> NoRequest]
  /\ resp = [p \in Procs |-> NoReply]

Live(id) == tasks[id].state = "live"

LiveIds == {id \in Ids : Live(id)}

-----------------------------------------------------------------------------
Invoke(p) ==
  /\ phase[p] = "idle"
  /\ \E r \in Requests : req' = [req EXCEPT ![p] = r]
  /\ phase' = [phase EXCEPT ![p] = "pending"]
  /\ UNCHANGED <<tasks, resp>>

\* A malformed id or body never becomes a repository call.
Refuse(p) ==
  /\ phase[p] = "idle"
  /\ phase' = [phase EXCEPT ![p] = "answered"]
  /\ \E status \in {400, 422} : resp' = [resp EXCEPT ![p] = Answer(status)]
  /\ UNCHANGED <<tasks, req>>

Calls(p, op) == phase[p] = "pending" /\ req[p].op = op

Answers(p, r) ==
  /\ phase' = [phase EXCEPT ![p] = "answered"]
  /\ resp' = [resp EXCEPT ![p] = r]
  /\ UNCHANGED req

NotFound(p) == Answers(p, Answer(404)) /\ UNCHANGED tasks

\* A write that takes effect; its answer may be lost on the way back.
Writes(p, id, row, r) ==
  /\ tasks' = [tasks EXCEPT ![id] = row]
  /\ Answers(p, r) \/ Answers(p, Answer(500))

Create(p) ==
  /\ Calls(p, "create")
  /\ \E id \in Ids :
       /\ tasks[id].state = "none"
       /\ Writes(p, id, LiveRow(req[p].draft),
                 Answered(201, id, req[p].draft))

Get(p) ==
  /\ Calls(p, "get")
  /\ LET id == req[p].id IN
       \/ ~Live(id) /\ NotFound(p)
       \/ /\ Live(id)
          /\ Answers(p, Answered(200, id, tasks[id].body))
          /\ UNCHANGED tasks

Count(p) ==
  /\ Calls(p, "list")
  /\ phase' = [phase EXCEPT ![p] = "counted"]
  /\ resp' = [resp EXCEPT ![p].total = Cardinality(LiveIds)]
  /\ UNCHANGED <<tasks, req>>

Find(p) ==
  /\ phase[p] = "counted"
  /\ Answers(p, [resp[p] EXCEPT !.status = 200, !.items = LiveIds])
  /\ UNCHANGED tasks

Update(p) ==
  /\ Calls(p, "update")
  /\ LET id == req[p].id
         t  == Mutate(tasks[id].body, req[p].patch)
     IN  \/ ~Live(id) /\ NotFound(p)
         \/ Live(id) /\ Writes(p, id, LiveRow(t), Answered(200, id, t))

Delete(p) ==
  /\ Calls(p, "delete")
  /\ LET id == req[p].id IN
       \/ ~Live(id) /\ NotFound(p)
       \/ Live(id) /\ Writes(p, id, SoftDeleted(tasks[id]), Answer(204))

Fail(p) ==
  /\ phase[p] \in {"pending", "counted"}
  /\ Answers(p, Answer(500))
  /\ UNCHANGED tasks

Return(p) ==
  /\ phase[p] = "answered"
  /\ phase' = [phase EXCEPT ![p] = "idle"]
  /\ req' = [req EXCEPT ![p] = NoRequest]
  /\ resp' = [resp EXCEPT ![p] = NoReply]
  /\ UNCHANGED tasks

\* The processes of a crashed instance answer nobody; the table stays.
Crash(S) ==
  /\ phase' = [p \in Procs |-> IF p \in S THEN "idle" ELSE phase[p]]
  /\ req' = [p \in Procs |-> IF p \in S THEN NoRequest ELSE req[p]]
  /\ resp' = [p \in Procs |-> IF p \in S THEN NoReply ELSE resp[p]]
  /\ UNCHANGED tasks

Next ==
  \/ \E p \in Procs :
       \/ Invoke(p) \/ Refuse(p)
       \/ Create(p) \/ Get(p) \/ Count(p) \/ Find(p) \/ Update(p) \/ Delete(p)
       \/ Fail(p) \/ Return(p)
  \/ \E S \in SUBSET Procs : Crash(S)

Spec == Init /\ [][Next]_vars

-----------------------------------------------------------------------------
\* What a client is told stays true while others go on, fail and crash: a task
\* it was given exists, a task it deleted is deleted, and of two clients that
\* create, or delete, at once each was told of a task of its own: one 201 per
\* id, and one 204 per task (repository.go:25-27, 90-98).
AnswersHold ==
  /\ \A p \in Procs :
       /\ \A id \in resp[p].items \cup ({resp[p].id} \ {0}) : tasks[id].state # "none"
       /\ phase[p] = "answered" /\ resp[p].status = 204 =>
            tasks[req[p].id].state = "deleted"
  /\ \A p, q \in Procs : phase[p] = "answered" /\ phase[q] = "answered" /\ p # q =>
       /\ resp[p].status = 201 /\ resp[q].status = 201 => resp[p].id # resp[q].id
       /\ resp[p].status = 204 /\ resp[q].status = 204 => req[p].id # req[q].id

=============================================================================
