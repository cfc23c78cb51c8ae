------------------------------ MODULE TaskData ------------------------------
(***************************************************************************)
(* The data of the task module (internal/modules/task: model.go, dto.go    *)
(* and the mutate closure of service.go): tasks, rows of the tasks table,  *)
(* request bodies and replies.  Timestamps the database fills in           *)
(* (created_at, updated_at) and the JSON form are left out.                *)
(***************************************************************************)
EXTENDS Naturals

CONSTANTS
  Titles,   \* titles that pass validate:"required,min=1,max=200"
  Dues,     \* due dates
  NoDue,    \* due_date NULL
  Keep,     \* a PATCH field that was not sent
  NoTask,   \* body of a row that does not exist
  MaxId,    \* bound: the largest id the table can allocate
  Requests  \* the requests the clients send

Ids == 1..MaxId

Task == [title : Titles, done : BOOLEAN, due : Dues \cup {NoDue}]

\* UpdateRequest: a nil Title or Done and an unset NullableTime are Keep, an
\* explicit "due_date": null is NoDue.
UpdateRequest == [title : Titles \cup {Keep},
                  done  : BOOLEAN \cup {Keep},
                  due   : Dues \cup {NoDue, Keep}]

CreateRequest == {t \in Task : ~t.done}

NothingSent == [title |-> Keep, done |-> Keep, due |-> Keep]

\* Service.Update's closure: only the fields that were sent are assigned.
Mutate(t, patch) ==
  [title |-> IF patch.title = Keep THEN t.title ELSE patch.title,
   done  |-> IF patch.done  = Keep THEN t.done  ELSE patch.done,
   due   |-> IF patch.due   = Keep THEN t.due   ELSE patch.due]

(***************************************************************************)
(* Rows.  deleted_at makes a row invisible to every query of the           *)
(* repository; the row itself, and its id, stay.                           *)
(***************************************************************************)
NoRow == [state |-> "none", body |-> NoTask]

Row == {NoRow} \cup [state : {"live", "deleted"}, body : Task]

LiveRow(t) == [state |-> "live", body |-> t]

SoftDeleted(row) == [state |-> "deleted", body |-> row.body]

(***************************************************************************)
(* What the handlers hand to the service: the operation, the path id and   *)
(* the body.                                                               *)
(***************************************************************************)
Plain(op, id) ==
  [op |-> op, id |-> id, patch |-> NothingSent, draft |-> NoTask]

Request ==
  [op : {"create"}, id : {0}, patch : {NothingSent}, draft : CreateRequest]
    \cup [op : {"update"}, id : Ids, patch : UpdateRequest, draft : {NoTask}]
    \cup [op : {"get", "delete"}, id : Ids, patch : {NothingSent}, draft : {NoTask}]
    \cup {Plain("list", 0)}

NoRequest == Plain("none", 0)     \* of an idle process

ASSUME DataAssumption ==
  /\ MaxId \in Nat
  /\ Requests \subseteq Request
  /\ NoTask \notin Task

(***************************************************************************)
(* Replies, by HTTP status: 201 Created, 200 OK, 204 No Content, 400 or    *)
(* 422 for a refused id or body, 404 TASK_NOT_FOUND, 500 INTERNAL_ERROR.  *)
(***************************************************************************)
Reply == [status : {0, 200, 201, 204, 400, 404, 422, 500},
          id : Ids \cup {0}, body : Task \cup {NoTask},
          total : Nat, items : SUBSET Ids]

NoReply == [status |-> 0, id |-> 0, body |-> NoTask, total |-> 0, items |-> {}]

Answer(status) == [NoReply EXCEPT !.status = status]

Answered(status, id, t) ==
  [NoReply EXCEPT !.status = status, !.id = id, !.body = t]

=============================================================================
