--------------------------- MODULE RequestPipeline ---------------------------
(***************************************************************************)
(* The way of a request through the app that router.New assembles          *)
(* (internal/router, internal/middleware, internal/modules): recover, cors,*)
(* the global rate limiter, the two observing middlewares (prometheus and  *)
(* request log), the route's own guards and handler, and back out, an      *)
(* error through the ErrorHandler.  Requests of one client share the       *)
(* budgets of the two limiters.                                            *)
(*                                                                         *)
(* The observing middlewares look at the error on its way out, before the  *)
(* ErrorHandler turns it into an answer: what they record is a prediction. *)
(* What a handler's body computes is a choice among its outcomes here;     *)
(* TaskRepository has the task module in detail.                           *)
(***************************************************************************)
EXTENDS ErrorChains

CONSTANTS
  Procs,    \* requests that may be in flight at once
  IPs,      \* clients
  Max,      \* RATE_LIMIT_PER_MINUTE
  AuthMax   \* AUTH_RATE_LIMIT_PER_MINUTE

\* config.Validate refuses to start with any other limits.
ASSUME LimitsAssumption == AuthMax \in Nat \ {0} /\ Max \in Nat /\ AuthMax <= Max

VARIABLES
  authEnabled,  \* AUTH_ENABLED, read once at the start
  stage,        \* stage[p]: how far p's request has come
  req,          \* req[p]: [ip, route, bearer]
  status,       \* status[p]: the status set on the response so far
  err,          \* err[p]: the error on its way out
  observed,     \* observed[p]: the status metered and logged, 0 for none
  errlog,       \* errlog[p]: the ErrorHandler logged the request
  answer,       \* answer[p]: what the client gets: status and error.code
  hits,         \* hits[ip]: the global limiter's estimate of the last minute
  loginHits     \* loginHits[ip]: the login limiter's

request == <<authEnabled, req>>
budgets == <<hits, loginHits>>
records == <<observed, errlog, answer>>
vars == <<authEnabled, stage, req, status, err, observed, errlog, answer,
          hits, loginHits>>

Stages == {"idle", "received", "routing", "login", "task", "unwinding",
           "failing", "answered"}

\* probe: /livez, /metrics and /openapi.yaml.  task:
\* /api/v1/tasks and /api/v1/tasks/:id, by any method.  unmatched: other paths.
Routes == {"probe", "readyz", "login", "task", "unmatched"}
Bearers == {"none", "bad", "good"}

Request ==
  [ip : IPs, route : Routes \ {"task"}, bearer : {"none"}]
    \cup [ip : IPs, route : {"task"}, bearer : Bearers]

NoRequest == [ip |-> "none", route |-> "none", bearer |-> "none"]

NoAnswer == [status |-> 0, code |-> "none"]

\* The envelopes the API speaks of: an error status with its error.code, any
\* other status, or the 503 of readyz, without.
Contract ==
  [status : {200, 201, 204, 503}, code : {"none"}]
    \cup [status : {400, 422}, code : {"INVALID_REQUEST"}]
    \cup [status : {401}, code : {"UNAUTHORIZED", "INVALID_CREDENTIALS"}]
    \cup [status : {404}, code : {"NOT_FOUND", "TASK_NOT_FOUND"}]
    \cup [status : {413}, code : {"PAYLOAD_TOO_LARGE"}]
    \cup [status : {429}, code : {"RATE_LIMITED"}]
    \cup [status : {500}, code : {"INTERNAL_ERROR"}]
    \cup [status : {400, 405, 408, 431, 502}, code : {"HTTP"}]

\* A body of a Content-Type fiber's binder has no decoder for, or of none: the
\* cause is itself a fiber.Error, and its answer the one outside Contract.
UnsupportedBody == BindErrorToAppError(<<FiberError(422)>>)
OfUnsupported == [status |-> 422, code |-> "HTTP"]

Types ==
  /\ authEnabled \in BOOLEAN
  /\ stage \in [Procs -> Stages]
  /\ req \in [Procs -> Request \cup {NoRequest}]
  /\ status \in [Procs -> Nat]
  /\ err \in [Procs -> Seq(Node)]
  /\ observed \in [Procs -> Nat]
  /\ errlog \in [Procs -> BOOLEAN]
  /\ answer \in [Procs -> Contract \cup {NoAnswer, OfUnsupported}]
  /\ hits \in [IPs -> 0..(Max + 1)]
  /\ loginHits \in [IPs -> 0..(AuthMax + 1)]

\* Types; and whatever fails on the way, the client gets an envelope of the
\* error catalogue: the status and the error.code of an answer belong together
\* (apperror/errors.go:9-17, router.go:49-51, 129-168).  One error alone gets
\* another, the unsupported body (see RefusedBodies).
TypeOK ==
  /\ Types
  /\ \A p \in Procs : answer[p] = OfUnsupported => err[p] = UnsupportedBody

Init ==
  /\ authEnabled \in BOOLEAN
  /\ stage = [p \in Procs |-> "idle"]
  /\ req = [p \in Procs |-> NoRequest]
  /\ status = [p \in Procs |-> 200]
  /\ err = [p \in Procs |-> nil]
  /\ observed = [p \in Procs |-> 0]
  /\ errlog = [p \in Procs |-> FALSE]
  /\ answer = [p \in Procs |-> NoAnswer]
  /\ hits = [ip \in IPs |-> 0]
  /\ loginHits = [ip \in IPs |-> 0]

-----------------------------------------------------------------------------
At(p, s) == stage[p] = s

Goes(p, s) ==
  /\ stage' = [stage EXCEPT ![p] = s]
  /\ UNCHANGED <<request, status, err, records>>

\* A handler returns e, with st set on the response: to the observing
\* middlewares, or past them to the ErrorHandler.
Returns(p, st, e, next) ==
  /\ stage' = [stage EXCEPT ![p] = next]
  /\ status' = [status EXCEPT ![p] = st]
  /\ err' = [err EXCEPT ![p] = e]
  /\ UNCHANGED <<request, records>>

Succeeds(p, st) == Returns(p, st, nil, "unwinding")
Fails(p, e)     == Returns(p, status[p], e, "unwinding")

Receive(p) ==
  /\ At(p, "idle")
  /\ stage' = [stage EXCEPT ![p] = "received"]
  /\ \E r \in Request : req' = [req EXCEPT ![p] = r]
  /\ UNCHANGED <<authEnabled, status, err, records, budgets>>

\* The server cannot read the request - body over bodyLimit, timeout, header
\* too large - and calls the ErrorHandler without any middleware.
ServerRejects(p) ==
  /\ At(p, "received")
  /\ \E st \in {400, 408, 413, 431, 502} :
       Returns(p, status[p], <<FiberError(st)>>, "failing")
  /\ UNCHANGED budgets

\* cors answers a preflight request itself.
Preflight(p) ==
  /\ At(p, "received")
  /\ stage' = [stage EXCEPT ![p] = "answered"]
  /\ status' = [status EXCEPT ![p] = 204]
  /\ answer' = [answer EXCEPT ![p] = [status |-> 204, code |-> "none"]]
  /\ UNCHANGED <<request, err, observed, errlog, budgets>>

-----------------------------------------------------------------------------
(***************************************************************************)
(* The limiters.  A request counts whether it passes or not; hits above    *)
(* the limit all mean the same and stop at one above.                      *)
(***************************************************************************)
Counted(h, max) == IF h > max THEN h ELSE h + 1

\* Mutated: no Next, every path is limited.
skipRateLimit_Never(p) == FALSE

skipRateLimit(p) == req[p].route \in {"probe", "readyz"}

SkipLimiter(p) ==
  /\ At(p, "received")
  /\ skipRateLimit(p)
  /\ Goes(p, "routing")
  /\ UNCHANGED budgets

GlobalLimiter(p) ==
  LET ip == req[p].ip IN
  /\ At(p, "received")
  /\ ~skipRateLimit(p)
  /\ hits' = [hits EXCEPT ![ip] = Counted(@, Max)]
  /\ IF hits[ip] < Max THEN Goes(p, "routing")
                       ELSE Returns(p, status[p], <<ErrRateLimited>>, "failing")
  /\ UNCHANGED loginHits

LoginLimiter(p) ==
  LET ip == req[p].ip IN
  /\ At(p, "routing")
  /\ req[p].route = "login" /\ authEnabled
  /\ loginHits' = [loginHits EXCEPT ![ip] = Counted(@, AuthMax)]
  /\ IF loginHits[ip] < AuthMax THEN Goes(p, "login")
                                ELSE Fails(p, <<ErrRateLimited>>)
  /\ UNCHANGED hits

\* Time passes: the sliding windows forget.
Window(ip) ==
  /\ \/ hits[ip] > 0 /\ hits' = [hits EXCEPT ![ip] = @ - 1]
                     /\ UNCHANGED loginHits
     \/ loginHits[ip] > 0 /\ loginHits' = [loginHits EXCEPT ![ip] = @ - 1]
                          /\ UNCHANGED hits
  /\ UNCHANGED <<request, stage, status, err, records>>

-----------------------------------------------------------------------------
(***************************************************************************)
(* Guards and handlers.                                                    *)
(***************************************************************************)
\* Livez, the metrics and openapiSpecHandler, which may fail to read its file.
Probe(p) ==
  /\ At(p, "routing")
  /\ req[p].route = "probe"
  /\ Succeeds(p, 200) \/ Fails(p, Wrap(<<Other("plain")>>))
  /\ UNCHANGED budgets

\* Readyz sets 503 itself when the ping fails: no error is returned.
Readyz(p) ==
  /\ At(p, "routing")
  /\ req[p].route = "readyz"
  /\ \E st \in {200, 503} : Succeeds(p, st)
  /\ UNCHANGED budgets

NoRoute(p) ==
  /\ At(p, "routing")
  /\ req[p].route = "unmatched" \/ (req[p].route = "login" /\ ~authEnabled)
  /\ \E st \in {404, 405} : Fails(p, <<FiberError(st)>>)
  /\ UNCHANGED budgets

\* Mutated: a request without an Authorization header passes.
RequireAuth_Optional(p) ==
  /\ At(p, "routing")
  /\ req[p].route = "task"
  /\ IF ~authEnabled \/ req[p].bearer # "bad"
     THEN Goes(p, "task")
     ELSE Fails(p, WithCause(ErrUnauthorized, Wrap(<<Other("plain")>>)))
  /\ UNCHANGED budgets

\* taskGuard: RequireAuth when auth is enabled, else nothing.
RequireAuth(p) ==
  /\ At(p, "routing")
  /\ req[p].route = "task"
  /\ CASE ~authEnabled \/ req[p].bearer = "good" -> Goes(p, "task")
       [] authEnabled /\ req[p].bearer = "none" -> Fails(p, <<ErrUnauthorized>>)
       [] authEnabled /\ req[p].bearer = "bad" ->
            Fails(p, WithCause(ErrUnauthorized, Wrap(<<Other("plain")>>)))
  /\ UNCHANGED budgets

\* A body that does not parse, that fails its validate tags, or that fiber's
\* binder refuses to look at.
BindErrors ==
  {BindErrorToAppError(<<Other(k)>>) : k \in {"plain", "validation"}} \cup {UnsupportedBody}

DatabaseError == <<Other("plain")>>

Login(p) ==
  /\ At(p, "login")
  /\ \/ Succeeds(p, 200)
     \/ \E e \in BindErrors \cup {<<ErrInvalidCredential>>, Wrap(<<Other("plain")>>)} :
          Fails(p, e)
  /\ UNCHANGED budgets

\* The task handlers: parseID, Bind, and what the service returns - Get and
\* Delete wrap the repository's ErrTaskNotFound, Update maps its ErrNotFound.
\* A method without a route is refused behind the guard of the group.
TaskHandler(p) ==
  /\ At(p, "task")
  /\ \/ \E st \in {200, 201, 204} : Succeeds(p, st)
     \/ Fails(p, <<FiberError(405)>>)
     \/ Fails(p, <<NewBadRequest>>)
     \/ \E e \in BindErrors : Fails(p, e)
     \/ Fails(p, Wrap(<<ErrTaskNotFound>>))
     \/ Fails(p, UpdateError(<<ErrNotFound>>))
     \/ \E e \in {Wrap(DatabaseError), UpdateError(DatabaseError)} : Fails(p, e)
  /\ UNCHANGED budgets

\* A panic unwinds the observing middlewares, which do not defer; recover,
\* outside them, makes it an error.
Panic(p) ==
  /\ stage[p] \in {"routing", "login", "task"}
  /\ Returns(p, status[p], <<Other("plain")>>, "failing")
  /\ UNCHANGED budgets

-----------------------------------------------------------------------------
(***************************************************************************)
(* On the way out.                                                         *)
(***************************************************************************)
\* RequestLogger, then Prometheus: both record EffectiveStatus.
Observe(p) ==
  /\ At(p, "unwinding")
  /\ observed' = [observed EXCEPT ![p] = EffectiveStatus(status[p], err[p])]
  /\ IF err[p] = nil
     THEN /\ stage' = [stage EXCEPT ![p] = "answered"]
          /\ answer' = [answer EXCEPT ![p] = [status |-> status[p], code |-> "none"]]
     ELSE /\ stage' = [stage EXCEPT ![p] = "failing"]
          /\ UNCHANGED answer
  /\ UNCHANGED <<request, status, err, errlog, budgets>>

HandleError(p) ==
  LET r == errorHandler(err[p]) IN
  /\ At(p, "failing")
  /\ stage' = [stage EXCEPT ![p] = "answered"]
  /\ status' = [status EXCEPT ![p] = r.status]
  /\ errlog' = [errlog EXCEPT ![p] = r.logged]
  /\ answer' = [answer EXCEPT ![p] = [status |-> r.status, code |-> r.code]]
  /\ UNCHANGED <<request, err, observed, budgets>>

\* The client has its answer; the context is released.
Release(p) ==
  /\ At(p, "answered")
  /\ stage' = [stage EXCEPT ![p] = "idle"]
  /\ req' = [req EXCEPT ![p] = NoRequest]
  /\ status' = [status EXCEPT ![p] = 200]
  /\ err' = [err EXCEPT ![p] = nil]
  /\ observed' = [observed EXCEPT ![p] = 0]
  /\ errlog' = [errlog EXCEPT ![p] = FALSE]
  /\ answer' = [answer EXCEPT ![p] = NoAnswer]
  /\ UNCHANGED <<authEnabled, budgets>>

Next ==
  \/ \E p \in Procs :
       \/ Receive(p) \/ ServerRejects(p) \/ Preflight(p)
       \/ SkipLimiter(p) \/ GlobalLimiter(p) \/ LoginLimiter(p)
       \/ Probe(p) \/ Readyz(p) \/ NoRoute(p)
       \/ RequireAuth(p) \/ Login(p) \/ TaskHandler(p) \/ Panic(p)
       \/ Observe(p) \/ HandleError(p) \/ Release(p)
  \/ \E ip \in IPs : Window(ip)

Spec == Init /\ [][Next]_vars

-----------------------------------------------------------------------------
(***************************************************************************)
(* Properties.                                                             *)
(***************************************************************************)
Is429(p) == answer[p].status = 429

\* What the metrics and the request log recorded of a request is the status
\* the client gets, though it is computed before the ErrorHandler runs and by
\* other code (effective_status.go:21-23, router.go:131-155).
ObservedIsSent ==
  \A p \in Procs :
    At(p, "answered") /\ observed[p] # 0 => observed[p] = answer[p].status

\* No request fails without a trace once the middlewares run: an answer of 400
\* and above was logged by the request log or by the ErrorHandler - global
\* limiter and panics, which pass the request log by, included - except where
\* the server itself refused to read the request (router.go:71-85, 131-155).
FailuresAreLogged ==
  \A p \in Procs :
    answer[p].status >= 400 /\ observed[p] = 0 /\ ~errlog[p]
      => Has(err[p], "fiber")

\* Probes and scrapers never see a 429 however much of its budget their
\* address used up, and never use any of it up (router.go:33-47, 75-82).
ProbesAreFree ==
  [][\A p \in Procs :
       req[p].route \in {"probe", "readyz"} /\ stage'[p] # stage[p]
         => ~Is429(p)' /\ UNCHANGED budgets]_vars

\* With auth enabled no task handler runs, nor answers anything but 401, for a
\* request without a valid token, on any of its ways through the routes
\* (router.go:95-111, auth/middleware.go:16-30).
TasksAreGuarded ==
  \A p \in Procs :
    authEnabled /\ req[p].route = "task" /\ req[p].bearer # "good"
      => ~At(p, "task") /\ (observed[p] # 0 => observed[p] = 401)

\* A missing task is 404 TASK_NOT_FOUND whichever operation misses it, though
\* the repository uses two errors for it (repository.go:33, 73, 96;
\* service.go:74-79, 85-90; api/openapi.yaml:258, 306, 349).
MissingTask ==
  \A p \in Procs :
    req[p].route = "task" /\ answer[p].status = 404
      => answer[p].code = "TASK_NOT_FOUND"

\* SECURITY.md:38: the actual status of every request that reached the
\* collecting middlewares is measured.  Internal errors arise behind them only,
\* yet the 500 of a panic is not measured: prometheus.go:46 and
\* requestlogger.go:16 run nothing when c.Next panics.
ReachedIsMeasured ==
  \A p \in Procs :
    answer[p].code = "INTERNAL_ERROR" => observed[p] = answer[p].status

\* validator/bind.go:12-13: a body that does not parse is 400, one against its
\* tags 422 with details, and the handlers' one function for both keeps the
\* contract of errors (also docs/architecture.md:27, api/openapi.yaml:95-106:
\* INVALID_REQUEST).  Not so for a cause that is a fiber.Error: bind.go:23 keeps
\* it behind the AppError, and router.go:133-137 looks for a fiber.Error first.
RefusedBodies ==
  \A p \in Procs :
    At(p, "answered") /\ err[p] \in BindErrors =>
      /\ answer[p].code = "INVALID_REQUEST"
      /\ answer[p].status = IF Has(err[p], "validation") THEN 422 ELSE 400

=============================================================================
