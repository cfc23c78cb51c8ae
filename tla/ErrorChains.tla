----------------------------- MODULE ErrorChains -----------------------------
(***************************************************************************)
(* Errors and what becomes of them (internal/apperror, internal/validator, *)
(* internal/router/router.go, internal/middleware/effective_status.go).    *)
(*                                                                         *)
(* A Go error is the chain errors.Is and errors.As walk, outermost error   *)
(* first: a sequence of nodes, empty for nil.  Every error of this code    *)
(* wraps at most one other.  Messages are left out.                        *)
(***************************************************************************)
EXTENDS Naturals, Sequences

Codes == {"INVALID_REQUEST", "NOT_FOUND", "TASK_NOT_FOUND", "CONFLICT",
          "INTERNAL_ERROR", "UNAUTHORIZED", "INVALID_CREDENTIALS",
          "RATE_LIMITED", "PAYLOAD_TOO_LARGE", "HTTP", "none"}

(***************************************************************************)
(* app: *apperror.AppError.  fiber: *fiber.Error.  validation:             *)
(* validator.ValidationErrors.  wrap: fmt.Errorf with %w.  plain: any      *)
(* other error - of gorm, a driver, the JSON decoder, a recovered panic.   *)
(***************************************************************************)
Kinds == {"app", "fiber", "validation", "wrap", "plain"}

Node == [kind : Kinds, status : Nat, code : Codes]

AppError(status, code) == [kind |-> "app", status |-> status, code |-> code]
FiberError(status)     == [kind |-> "fiber", status |-> status, code |-> "none"]
Other(kind)            == [kind |-> kind, status |-> 0, code |-> "none"]

nil == <<>>

\* The sentinels and constructors of apperror, task and router.
ErrNotFound          == AppError(404, "NOT_FOUND")
ErrInternal          == AppError(500, "INTERNAL_ERROR")
ErrUnauthorized      == AppError(401, "UNAUTHORIZED")
ErrInvalidCredential == AppError(401, "INVALID_CREDENTIALS")
ErrTaskNotFound      == AppError(404, "TASK_NOT_FOUND")
ErrRateLimited       == AppError(429, "RATE_LIMITED")
NewBadRequest        == AppError(400, "INVALID_REQUEST")
NewValidation        == AppError(422, "INVALID_REQUEST")

\* errors.As: the outermost node of a kind.
Has(err, kind) == \E i \in 1..Len(err) : err[i].kind = kind

As(err, kind) ==
  err[CHOOSE i \in 1..Len(err) :
        err[i].kind = kind /\ \A j \in 1..(i - 1) : err[j].kind # kind]

\* errors.Is against an AppError: AppError.Is compares the codes.
Is(err, target) ==
  \E i \in 1..Len(err) : err[i].kind = "app" /\ err[i].code = target.code

WithCause(app, cause) == <<app>> \o cause
Wrap(err) == <<Other("wrap")>> \o err

AsAppError(err) == IF Has(err, "app") THEN As(err, "app") ELSE ErrInternal

-----------------------------------------------------------------------------
\* Mutated: a type assertion on the error instead of errors.As.
EffectiveStatus_NoUnwrap(status, err) ==
  IF err = nil THEN status
  ELSE IF Head(err).kind \in {"fiber", "app"} THEN Head(err).status
  ELSE 500

\* What the two observing middlewares take for the status of the answer, given
\* the status set so far and the error the handler returned.
EffectiveStatus(status, err) ==
  IF err = nil THEN status
  ELSE IF Has(err, "fiber") THEN As(err, "fiber").status
  ELSE IF AsAppError(err).status >= 500 THEN 500
  ELSE AsAppError(err).status

\* error.code of the envelope for a fiber error; "HTTP" stands for HTTP_<n>.
mapFiberError(fe) ==
  CASE fe.status = 404 -> "NOT_FOUND"
    [] fe.status = 429 -> "RATE_LIMITED"
    [] fe.status = 413 -> "PAYLOAD_TOO_LARGE"
    [] OTHER           -> "HTTP"

\* Mutated: c.JSON without c.Status for a server error.
errorHandler_NoStatus(err) ==
  LET app == AsAppError(err) IN
  IF Has(err, "fiber")
  THEN [status |-> As(err, "fiber").status,
        code   |-> mapFiberError(As(err, "fiber")), logged |-> FALSE]
  ELSE IF app.status >= 500
  THEN [status |-> 200, code |-> ErrInternal.code, logged |-> TRUE]
  ELSE [status |-> app.status, code |-> app.code, logged |-> TRUE]

\* Mutated: only server errors are logged.
errorHandler_LogsServerErrors(err) ==
  LET app == AsAppError(err) IN
  IF Has(err, "fiber")
  THEN [status |-> As(err, "fiber").status,
        code   |-> mapFiberError(As(err, "fiber")), logged |-> FALSE]
  ELSE IF app.status >= 500
  THEN [status |-> 500, code |-> "INTERNAL_ERROR", logged |-> TRUE]
  ELSE [status |-> app.status, code |-> app.code, logged |-> FALSE]

\* The answer to a request whose handler chain returned err, and whether the
\* handler logs it.
errorHandler(err) ==
  LET app == AsAppError(err) IN
  IF Has(err, "fiber")
  THEN [status |-> As(err, "fiber").status,
        code   |-> mapFiberError(As(err, "fiber")), logged |-> FALSE]
  ELSE IF app.status >= 500
  THEN [status |-> ErrInternal.status, code |-> ErrInternal.code, logged |-> TRUE]
  ELSE [status |-> app.status, code |-> app.code, logged |-> TRUE]

BindErrorToAppError(err) ==
  IF Has(err, "validation") THEN WithCause(NewValidation, err)
                            ELSE WithCause(NewBadRequest, err)

\* Mutated: the not-found error of the repository is not looked for.
UpdateError_NotMapped(err) == Wrap(err)

\* What Service.Update makes of an error of the repository.
UpdateError(err) ==
  IF Is(err, ErrNotFound) THEN <<ErrTaskNotFound>> ELSE Wrap(err)

=============================================================================
