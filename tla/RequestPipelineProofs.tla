------------------------ MODULE RequestPipelineProofs ------------------------
(***************************************************************************)
(* Proofs about RequestPipeline, for any number of requests and clients    *)
(* and any limits.                                                         *)
(***************************************************************************)
EXTENDS RequestPipeline, ErrorChainsProofs

-----------------------------------------------------------------------------
(***************************************************************************)
(* What the ErrorHandler makes of every error of this code.                *)
(***************************************************************************)
Becomes(e, st, code) ==
  /\ e \in Seq(Node) /\ e # nil
  /\ errorHandler(e).status = st /\ errorHandler(e).code = code

LEMMA NoNode == \A kind : ~Has(nil, kind)
BY DEF Has, nil

LEMMA FiberBecomes ==
  ASSUME NEW st \in {400, 404, 405, 408, 413, 431, 502}
  PROVE  /\ Becomes(<<FiberError(st)>>, st, mapFiberError(FiberError(st)))
         /\ FiberError(st).status = st
<1> DEFINE n == FiberError(st)
<1>1. n \in Node /\ n.kind = "fiber" /\ n.status = st
  BY DEF FiberError, Node, Kinds, Codes
<1>2. nil \in Chain /\ <<n>> = <<n>> \o nil
  BY <1>1 DEF nil, Chain
<1> HIDE DEF n
<1>3. Has(<<n>>, "fiber") /\ As(<<n>>, "fiber") = n
  <2>1. Has(<<n>> \o nil, "fiber")
    BY <1>1, <1>2, HasCons
  <2>2. As(<<n>> \o nil, n.kind) = n
    BY <1>1, <1>2, AsHead
  <2>3. Has(<<n>>, "fiber")
    BY <1>2, <2>1, Zenon
  <2>4. As(<<n>>, "fiber") = n
    BY <1>1, <1>2, <2>2, Zenon
  <2>5. QED
    BY <2>3, <2>4
<1>4. <<n>> \in Seq(Node) /\ <<n>> # nil
  BY <1>1 DEF nil
<1>5. QED
  BY <1>1, <1>3, <1>4 DEF Becomes, errorHandler, n

LEMMA AppBecomes ==
  ASSUME NEW n \in Node, n.kind = "app", n.status < 500,
         NEW e \in Chain, ~Has(e, "fiber")
  PROVE  Becomes(WithCause(n, e), n.status, n.code)
<1> DEFINE c == <<n>> \o e
<1>1. c \in Chain /\ c # nil
  BY ConsFacts
<1>2. Has(c, "app") /\ ~Has(c, "fiber") /\ As(c, "app") = n
  BY HasCons, AsHead
<1> HIDE DEF c
<1>3. errorHandler(c).status = n.status /\ errorHandler(c).code = n.code
  BY <1>2 DEF errorHandler, AsAppError, Node
<1>4. QED
  BY <1>1, <1>3 DEF Becomes, WithCause, c, Chain

LEMMA PlainBecomes ==
  /\ Becomes(<<Other("plain")>>, 500, "INTERNAL_ERROR")
  /\ ~Has(<<Other("plain")>>, "fiber") /\ ~Has(<<Other("plain")>>, "app")
<1> DEFINE n == Other("plain")
<1>1. n \in Node /\ n.kind = "plain"
  BY DEF Other, Node, Kinds, Codes
<1>2. nil \in Chain /\ <<n>> = <<n>> \o nil
  BY <1>1 DEF nil, Chain
<1> HIDE DEF n
<1>3. ~Has(<<n>>, "fiber") /\ ~Has(<<n>>, "app")
  BY <1>1, <1>2, HasCons, NoNode
<1>4. <<n>> \in Seq(Node) /\ <<n>> # nil
  BY <1>1 DEF nil
<1>5. QED
  BY <1>1, <1>3, <1>4
     DEF Becomes, errorHandler, AsAppError, ErrInternal, AppError, n

LEMMA WrapBecomes ==
  ASSUME NEW e \in Chain, NEW st, NEW code, Becomes(e, st, code)
  PROVE  Becomes(Wrap(e), st, code) /\ (~Has(e, "fiber") => ~Has(Wrap(e), "fiber"))
<1> DEFINE n == Other("wrap")
<1>1. n \in Node /\ n.kind = "wrap"
  BY DEF Other, Node, Kinds, Codes
<1>2. Wrap(e) = <<n>> \o e
  BY DEF Wrap
<1> HIDE DEF n
<1>3. Wrap(e) \in Chain /\ Wrap(e) # nil /\ (Has(Wrap(e), "fiber") <=> Has(e, "fiber"))
  <2>1. <<n>> \o e \in Chain /\ <<n>> \o e # nil
    BY <1>1, ConsFacts
  <2>2. Has(<<n>> \o e, "fiber") <=> Has(e, "fiber")
    BY <1>1, HasCons
  <2>3. QED
    BY <1>2, <2>1, <2>2
<1>4. QED
  BY <1>3, WrapIsTransparent DEF Becomes, Chain

\* A body fiber's binder refuses to look at is answered by fiber's error, not
\* by the AppError around it.
LEMMA UnsupportedBecomes == Becomes(UnsupportedBody, 422, "HTTP")
<1> DEFINE n == FiberError(422)
<1>1. n \in Node /\ n.kind = "fiber" /\ n.status = 422
  BY DEF FiberError, Node, Kinds, Codes
<1>2. /\ nil \in Chain /\ <<n>> = <<n>> \o nil /\ <<n>> \in Chain
      /\ UnsupportedBody = BindErrorToAppError(<<n>>)
  BY <1>1 DEF nil, Chain, UnsupportedBody
<1> HIDE DEF n
<1>3. Has(<<n>>, "fiber")
  <2>1. Has(<<n>> \o nil, "fiber")
    BY <1>1, <1>2, HasCons
  <2> QED BY <1>2, <2>1, Zenon
<1>4. As(<<n>>, "fiber") = n
  <2>1. As(<<n>> \o nil, n.kind) = n
    BY <1>1, <1>2, AsHead
  <2> QED BY <1>1, <1>2, <2>1, Zenon
<1>5. mapFiberError(n) = "HTTP"
  BY <1>1 DEF mapFiberError
<1>6. errorHandler(UnsupportedBody).status = 422 /\ errorHandler(UnsupportedBody).code = "HTTP"
  BY <1>1, <1>2, <1>3, <1>4, <1>5, BindContract
<1>7. UnsupportedBody \in Seq(Node) /\ UnsupportedBody # nil
  <2>1. NewValidation \in Node /\ NewBadRequest \in Node
    BY DEF NewValidation, NewBadRequest, AppError, Node, Kinds, Codes
  <2>2. \A m \in Node : WithCause(m, <<n>>) \in Chain /\ WithCause(m, <<n>>) # nil
    BY <1>2, ConsFacts DEF WithCause
  <2> QED BY <1>2, <2>1, <2>2 DEF BindErrorToAppError, Chain
<1> QED BY <1>6, <1>7 DEF Becomes

\* The errors that reach the ErrorHandler, and their answers.
PlainChain == <<Other("plain")>>

LEMMA ErrorTable ==
  /\ Becomes(<<ErrRateLimited>>, 429, "RATE_LIMITED")
  /\ Becomes(<<ErrUnauthorized>>, 401, "UNAUTHORIZED")
  /\ Becomes(WithCause(ErrUnauthorized, Wrap(PlainChain)), 401, "UNAUTHORIZED")
  /\ Becomes(<<ErrInvalidCredential>>, 401, "INVALID_CREDENTIALS")
  /\ Becomes(<<NewBadRequest>>, 400, "INVALID_REQUEST")
  /\ Becomes(BindErrorToAppError(PlainChain), 400, "INVALID_REQUEST")
  /\ Becomes(BindErrorToAppError(<<Other("validation")>>), 422, "INVALID_REQUEST")
  /\ Becomes(Wrap(<<ErrTaskNotFound>>), 404, "TASK_NOT_FOUND")
  /\ Becomes(UpdateError(<<ErrNotFound>>), 404, "TASK_NOT_FOUND")
  /\ Becomes(PlainChain, 500, "INTERNAL_ERROR")
  /\ Becomes(Wrap(PlainChain), 500, "INTERNAL_ERROR")
  /\ Becomes(UpdateError(PlainChain), 500, "INTERNAL_ERROR")
<1> DEFINE Apps == {ErrRateLimited, ErrUnauthorized, ErrInvalidCredential,
                    NewBadRequest, NewValidation, ErrTaskNotFound}
<1>1. \A n \in Apps : n \in Node /\ n.kind = "app" /\ n.status < 500
  BY DEF AppError, ErrRateLimited, ErrUnauthorized, ErrInvalidCredential,
         NewBadRequest, NewValidation, ErrTaskNotFound, Node, Kinds, Codes
<1>2. nil \in Chain /\ ~Has(nil, "fiber")
  BY NoNode DEF nil, Chain
<1>3. \A n \in Apps : WithCause(n, nil) = <<n>>
  BY <1>1 DEF WithCause, nil
<1>4. \A n \in Apps : Becomes(<<n>>, n.status, n.code)
  BY <1>1, <1>2, <1>3, AppBecomes
<1>5. PlainChain \in Chain /\ ~Has(PlainChain, "fiber")
      /\ Becomes(PlainChain, 500, "INTERNAL_ERROR")
  BY PlainBecomes DEF PlainChain, Becomes, Chain
<1>6. /\ Wrap(PlainChain) \in Chain /\ ~Has(Wrap(PlainChain), "fiber")
      /\ Becomes(Wrap(PlainChain), 500, "INTERNAL_ERROR")
  BY <1>5, WrapBecomes DEF Becomes, Chain
<1>7. Becomes(WithCause(ErrUnauthorized, Wrap(PlainChain)), 401, "UNAUTHORIZED")
  <2>1. ErrUnauthorized.status = 401 /\ ErrUnauthorized.code = "UNAUTHORIZED"
    BY DEF ErrUnauthorized, AppError
  <2>2. QED
    BY <1>1, <1>6, <2>1, AppBecomes
<1>8. Becomes(BindErrorToAppError(PlainChain), 400, "INVALID_REQUEST")
  <2>1. ~Has(PlainChain, "validation")
    BY DEF Has, PlainChain, Other
  <2>2. NewBadRequest.status = 400 /\ NewBadRequest.code = "INVALID_REQUEST"
    BY DEF NewBadRequest, AppError
  <2>3. QED
    BY <1>1, <1>5, <2>1, <2>2, AppBecomes DEF BindErrorToAppError
<1>9. Becomes(BindErrorToAppError(<<Other("validation")>>), 422, "INVALID_REQUEST")
  <2> DEFINE v == <<Other("validation")>>
  <2>1. v \in Chain /\ Has(v, "validation") /\ ~Has(v, "fiber")
    BY DEF Has, Other, Chain, Node, Kinds, Codes
  <2>2. NewValidation.status = 422 /\ NewValidation.code = "INVALID_REQUEST"
    BY DEF NewValidation, AppError
  <2> HIDE DEF v
  <2>3. Becomes(BindErrorToAppError(v), 422, "INVALID_REQUEST")
    BY <1>1, <2>1, <2>2, AppBecomes DEF BindErrorToAppError
  <2>4. QED
    BY <2>3 DEF v
<1>10. Becomes(Wrap(<<ErrTaskNotFound>>), 404, "TASK_NOT_FOUND")
  <2>1. Becomes(<<ErrTaskNotFound>>, 404, "TASK_NOT_FOUND")
    BY <1>4 DEF ErrTaskNotFound, AppError
  <2>2. <<ErrTaskNotFound>> \in Chain
    BY <2>1 DEF Becomes, Chain
  <2>3. QED
    BY <2>1, <2>2, WrapBecomes
<1>11. Becomes(UpdateError(<<ErrNotFound>>), 404, "TASK_NOT_FOUND")
  <2>1. Is(<<ErrNotFound>>, ErrNotFound)
    BY DEF Is, ErrNotFound, AppError
  <2>2. QED
    BY <1>4, <2>1 DEF UpdateError, ErrTaskNotFound, AppError
<1>12. UpdateError(PlainChain) = Wrap(PlainChain)
  BY DEF UpdateError, Is, PlainChain, Other
<1>13. QED
  BY <1>4, <1>5, <1>6, <1>7, <1>8, <1>9, <1>10, <1>11, <1>12
     DEF AppError, ErrRateLimited, ErrUnauthorized, ErrInvalidCredential,
         NewBadRequest

-----------------------------------------------------------------------------
(***************************************************************************)
(* The inductive invariant: on its way in a request has no error and left  *)
(* no record; on its way out its error is one of the catalogue, and what   *)
(* was recorded of it is what the ErrorHandler makes of that error.        *)
(***************************************************************************)
Inward == {"received", "routing", "login", "task"}
Quiet == {200, 201, 204, 503}     \* statuses set without an error

Unauthorized(p) ==
  authEnabled /\ req[p].route = "task" /\ req[p].bearer # "good"

Fine(p, e) ==
  LET r == errorHandler(e) IN
  /\ e \in Seq(Node) /\ e # nil
  /\ \/ [status |-> r.status, code |-> r.code] \in Contract
     \/ e = UnsupportedBody /\ r.status = 422 /\ r.code = "HTTP"
  /\ req[p].route = "task" /\ r.status = 404 => r.code = "TASK_NOT_FOUND"

SentBody(p) ==
  /\ status[p] \in Quiet
  /\ answer[p] = [status |-> status[p], code |-> "none"]
  /\ observed[p] = status[p] \/ (observed[p] = 0 /\ status[p] = 204)

SentError(p) ==
  LET r == errorHandler(err[p]) IN
  /\ answer[p] = [status |-> r.status, code |-> r.code]
  /\ errlog[p] = r.logged
  /\ observed[p] \in {0, r.status}

Flow(p) ==
  /\ stage[p] # "idle" => req[p] \in Request
  /\ stage[p] = "login" => req[p].route = "login"
  /\ stage[p] \in Inward \cup {"idle"} => err[p] = nil
  /\ stage[p] \notin {"failing", "answered"} => observed[p] = 0
  /\ stage[p] # "answered" => answer[p] = NoAnswer /\ errlog[p] = FALSE
  /\ err[p] # nil => Fine(p, err[p])
  /\ stage[p] = "unwinding" /\ err[p] = nil => status[p] \in Quiet
  /\ stage[p] = "failing" =>
       err[p] # nil /\ observed[p] \in {0, errorHandler(err[p]).status}
  /\ stage[p] = "answered" => IF err[p] = nil THEN SentBody(p) ELSE SentError(p)

Guarded(p) ==
  Unauthorized(p) =>
    /\ stage[p] # "task"
    /\ stage[p] = "unwinding" => err[p] # nil /\ errorHandler(err[p]).status = 401
    /\ observed[p] \in {0, 401}

IInv == Types /\ \A p \in Procs : Flow(p) /\ Guarded(p)

BudgetsOK ==
  /\ hits \in [IPs -> 0..(Max + 1)]
  /\ loginHits \in [IPs -> 0..(AuthMax + 1)]

LEMMA CountedType ==
  ASSUME NEW max \in Nat, NEW h \in 0..(max + 1)
  PROVE  Counted(h, max) \in 0..(max + 1)
BY DEF Counted

LEMMA InitInv == Init => IInv
<1> SUFFICES ASSUME Init PROVE IInv
  OBVIOUS
<1>1. nil \in Seq(Node)
  BY DEF nil
<1>2. Types
  BY <1>1, LimitsAssumption DEF Init, Types, Stages
<1>3. ASSUME NEW p \in Procs PROVE Flow(p) /\ Guarded(p)
  BY <1>3 DEF Init, Flow, Guarded, Unauthorized, NoRequest, Inward
<1>4. QED
  BY <1>2, <1>3 DEF IInv

\* A step of one request leaves what is true of the others.
LEMMA OthersKeep ==
  ASSUME NEW q, Flow(q), Guarded(q), authEnabled' = authEnabled,
         stage'[q] = stage[q], req'[q] = req[q], status'[q] = status[q],
         err'[q] = err[q], observed'[q] = observed[q],
         errlog'[q] = errlog[q], answer'[q] = answer[q]
  PROVE  Flow(q)' /\ Guarded(q)'
BY DEF Flow, Guarded, Unauthorized, Fine, SentBody, SentError

\* A guard or limiter passes the request on.
LEMMA GoesStep ==
  ASSUME IInv, NEW p \in Procs, NEW s \in {"routing", "login", "task"},
         stage[p] \in Inward, Goes(p, s), Unauthorized(p) => s # "task",
         s = "login" => req[p].route = "login",
         BudgetsOK'
  PROVE  IInv'
<1>1. Types'
  BY DEF IInv, Types, BudgetsOK, Goes, request, records, Stages
<1>2. ASSUME NEW q \in Procs, q # p PROVE Flow(q)' /\ Guarded(q)'
  BY <1>2, OthersKeep DEF IInv, Types, Goes, request, records
<1>3. Flow(p)' /\ Guarded(p)'
  BY DEF IInv, Types, Goes, request, records, Flow, Guarded, Unauthorized, Inward
<1>4. QED
  BY <1>1, <1>2, <1>3 DEF IInv

\* A guard, limiter or handler returns, with an error of the catalogue or
\* none.
LEMMA ReturnsStep ==
  ASSUME IInv, NEW p \in Procs, NEW st \in Nat, NEW e,
         NEW next \in {"unwinding", "failing"},
         stage[p] \in Inward, Returns(p, st, e, next),
         IF e = nil THEN next = "unwinding" /\ st \in Quiet ELSE Fine(p, e),
         next = "unwinding" /\ Unauthorized(p)
           => e # nil /\ errorHandler(e).status = 401,
         BudgetsOK'
  PROVE  IInv'
<1>1. e \in Seq(Node)
  <2>1. CASE e = nil
    BY <2>1 DEF nil
  <2>2. CASE e # nil
    BY <2>2 DEF Fine
  <2>3. QED
    BY <2>1, <2>2
<1>2. Types'
  BY <1>1 DEF IInv, Types, BudgetsOK, Returns, request, records, Stages
<1>3. ASSUME NEW q \in Procs, q # p PROVE Flow(q)' /\ Guarded(q)'
  BY <1>3, OthersKeep DEF IInv, Types, Returns, request, records
<1>4. /\ stage'[p] = next /\ status'[p] = st /\ err'[p] = e
      /\ req' = req /\ authEnabled' = authEnabled
      /\ observed'[p] = 0 /\ answer'[p] = NoAnswer /\ errlog'[p] = FALSE
      /\ req[p] \in Request
  BY DEF IInv, Types, Returns, request, records, Flow, Inward
<1>5. Flow(p)'
  BY <1>4 DEF Flow, Inward, Fine
<1>6. Guarded(p)'
  BY <1>4 DEF Guarded, Unauthorized
<1>7. QED
  BY <1>2, <1>3, <1>5, <1>6 DEF IInv

\* Errors of the catalogue, for the steps below.
LEMMA TableIsFine ==
  ASSUME NEW p, NEW e, NEW st, NEW code, Becomes(e, st, code),
         [status |-> st, code |-> code] \in Contract,
         req[p].route = "task" /\ st = 404 => code = "TASK_NOT_FOUND"
  PROVE  Fine(p, e)
BY DEF Becomes, Fine

LEMMA CatalogueIsFine ==
  ASSUME NEW p
  PROVE  /\ Fine(p, <<ErrRateLimited>>) /\ Fine(p, <<ErrUnauthorized>>)
         /\ Fine(p, WithCause(ErrUnauthorized, Wrap(PlainChain)))
         /\ Fine(p, <<ErrInvalidCredential>>) /\ Fine(p, <<NewBadRequest>>)
         /\ \A e \in BindErrors : Fine(p, e)
         /\ Fine(p, Wrap(<<ErrTaskNotFound>>)) /\ Fine(p, UpdateError(<<ErrNotFound>>))
         /\ Fine(p, PlainChain) /\ Fine(p, Wrap(PlainChain))
         /\ Fine(p, UpdateError(PlainChain))
<1>1. /\ [status |-> 429, code |-> "RATE_LIMITED"] \in Contract
      /\ [status |-> 401, code |-> "UNAUTHORIZED"] \in Contract
      /\ [status |-> 401, code |-> "INVALID_CREDENTIALS"] \in Contract
      /\ [status |-> 400, code |-> "INVALID_REQUEST"] \in Contract
      /\ [status |-> 422, code |-> "INVALID_REQUEST"] \in Contract
      /\ [status |-> 404, code |-> "TASK_NOT_FOUND"] \in Contract
      /\ [status |-> 500, code |-> "INTERNAL_ERROR"] \in Contract
  BY DEF Contract
<1>2. /\ Fine(p, <<ErrRateLimited>>) /\ Fine(p, <<ErrUnauthorized>>)
      /\ Fine(p, WithCause(ErrUnauthorized, Wrap(PlainChain)))
  BY <1>1, ErrorTable, TableIsFine
<1>3. Fine(p, <<ErrInvalidCredential>>) /\ Fine(p, <<NewBadRequest>>)
  BY <1>1, ErrorTable, TableIsFine
<1>4. Fine(p, BindErrorToAppError(PlainChain))
      /\ Fine(p, BindErrorToAppError(<<Other("validation")>>))
  BY <1>1, ErrorTable, TableIsFine
<1>5. \A e \in BindErrors : Fine(p, e)
  <2>1. Fine(p, UnsupportedBody)
    BY UnsupportedBecomes DEF Becomes, Fine
  <2> QED BY <1>4, <2>1 DEF BindErrors, PlainChain
<1>6. Fine(p, Wrap(<<ErrTaskNotFound>>)) /\ Fine(p, UpdateError(<<ErrNotFound>>))
  BY <1>1, ErrorTable, TableIsFine
<1>7. Fine(p, PlainChain) /\ Fine(p, Wrap(PlainChain)) /\ Fine(p, UpdateError(PlainChain))
  BY <1>1, ErrorTable, TableIsFine
<1>8. QED
  BY <1>2, <1>3, <1>5, <1>6, <1>7

LEMMA FiberIsFine ==
  ASSUME NEW p, NEW st \in {400, 404, 405, 408, 413, 431, 502},
         st = 404 => req[p].route # "task"
  PROVE  Fine(p, <<FiberError(st)>>)
<1> DEFINE code == mapFiberError(FiberError(st))
<1>1. Becomes(<<FiberError(st)>>, st, code) /\ FiberError(st).status = st
  BY FiberBecomes
<1>2. code = CASE st = 404 -> "NOT_FOUND" [] st = 413 -> "PAYLOAD_TOO_LARGE"
               [] OTHER -> "HTTP"
  BY <1>1 DEF mapFiberError
<1>3. [status |-> st, code |-> code] \in Contract
  BY <1>2 DEF Contract
<1> HIDE DEF code
<1>4. QED
  BY <1>1, <1>3, TableIsFine

\* Every step leaves the budgets in their range.
LEMMA BudgetsKeep == IInv /\ [Next]_vars => BudgetsOK'
<1> SUFFICES ASSUME IInv, [Next]_vars PROVE BudgetsOK'
  OBVIOUS
<1>1. BudgetsOK /\ Max \in Nat /\ AuthMax \in Nat
  BY LimitsAssumption DEF IInv, Types, BudgetsOK
<1>2. CASE UNCHANGED budgets
  BY <1>1, <1>2 DEF BudgetsOK, budgets
<1>3. ASSUME NEW p \in Procs, GlobalLimiter(p) PROVE BudgetsOK'
  <2>1. req[p].ip \in IPs => Counted(hits[req[p].ip], Max) \in 0..(Max + 1)
    BY <1>1, CountedType DEF BudgetsOK
  <2>2. QED
    BY <1>1, <1>3, <2>1 DEF GlobalLimiter, BudgetsOK
<1>4. ASSUME NEW p \in Procs, LoginLimiter(p) PROVE BudgetsOK'
  <2>1. req[p].ip \in IPs => Counted(loginHits[req[p].ip], AuthMax) \in 0..(AuthMax + 1)
    BY <1>1, CountedType DEF BudgetsOK
  <2>2. QED
    BY <1>1, <1>4, <2>1 DEF LoginLimiter, BudgetsOK
<1>5. ASSUME NEW ip \in IPs, Window(ip) PROVE BudgetsOK'
  BY <1>1, <1>5 DEF Window, BudgetsOK
<1>6. CASE UNCHANGED vars
  BY <1>2, <1>6 DEF vars, budgets
<1>7. QED
  BY <1>2, <1>3, <1>4, <1>5, <1>6
     DEF Next, Receive, ServerRejects, Preflight, SkipLimiter, Probe, Readyz,
         NoRoute, RequireAuth, Login, TaskHandler, Panic, Observe, HandleError,
         Release

-----------------------------------------------------------------------------
(***************************************************************************)
(* Every step keeps the invariant.                                         *)
(***************************************************************************)
LEMMA InwardSteps ==
  ASSUME IInv, BudgetsOK', NEW p \in Procs
  PROVE  /\ SkipLimiter(p) => IInv'
         /\ GlobalLimiter(p) => IInv'
         /\ LoginLimiter(p) => IInv'
         /\ RequireAuth(p) => IInv'
<1>1. status[p] \in Nat
  BY DEF IInv, Types
<1>2. ASSUME SkipLimiter(p) PROVE IInv'
  BY <1>2, GoesStep DEF SkipLimiter, At, Inward
<1>3. ASSUME GlobalLimiter(p) PROVE IInv'
  <2>1. CASE Goes(p, "routing")
    BY <1>3, <2>1, GoesStep DEF GlobalLimiter, At, Inward
  <2>2. CASE Returns(p, status[p], <<ErrRateLimited>>, "failing")
    <3>1. Fine(p, <<ErrRateLimited>>) /\ <<ErrRateLimited>> # nil
      BY CatalogueIsFine DEF nil
    <3>2. QED
      BY <1>1, <1>3, <2>2, <3>1, ReturnsStep DEF GlobalLimiter, At, Inward
  <2>3. QED
    BY <1>3, <2>1, <2>2 DEF GlobalLimiter
<1>4. ASSUME LoginLimiter(p) PROVE IInv'
  <2>1. stage[p] \in Inward /\ ~Unauthorized(p) /\ req[p].route = "login"
    BY <1>4 DEF LoginLimiter, At, Inward, Unauthorized
  <2>2. CASE Goes(p, "login")
    BY <2>1, <2>2, GoesStep
  <2>3. CASE Fails(p, <<ErrRateLimited>>)
    <3>1. Fine(p, <<ErrRateLimited>>) /\ <<ErrRateLimited>> # nil
      BY CatalogueIsFine DEF nil
    <3>2. QED
      BY <1>1, <2>1, <2>3, <3>1, ReturnsStep DEF Fails
  <2>4. QED
    BY <1>4, <2>2, <2>3 DEF LoginLimiter
<1>5. ASSUME RequireAuth(p) PROVE IInv'
  <2> DEFINE bad == WithCause(ErrUnauthorized, Wrap(PlainChain))
  <2>1. stage[p] \in Inward /\ req[p].route = "task" /\ req[p] \in Request
    BY <1>5 DEF RequireAuth, At, Inward, IInv, Flow
  <2>2. req[p].bearer \in Bearers
    BY <2>1 DEF Request, Bearers
  <2>3. CASE ~authEnabled \/ req[p].bearer = "good"
    <3>1. Goes(p, "task") /\ ~Unauthorized(p)
      BY <1>5, <2>3 DEF RequireAuth, Unauthorized
    <3>2. QED
      BY <2>1, <3>1, GoesStep
  <2>4. CASE authEnabled /\ req[p].bearer = "none"
    <3>1. Fails(p, <<ErrUnauthorized>>)
      BY <1>5, <2>4 DEF RequireAuth
    <3>2. /\ Fine(p, <<ErrUnauthorized>>) /\ <<ErrUnauthorized>> # nil
          /\ errorHandler(<<ErrUnauthorized>>).status = 401
      BY CatalogueIsFine, ErrorTable DEF nil, Becomes
    <3>3. QED
      BY <1>1, <2>1, <3>1, <3>2, ReturnsStep DEF Fails
  <2>5. CASE authEnabled /\ req[p].bearer = "bad"
    <3>1. Fails(p, bad)
      BY <1>5, <2>5 DEF RequireAuth, PlainChain
    <3>2. Fine(p, bad) /\ bad # nil /\ errorHandler(bad).status = 401
      BY CatalogueIsFine, ErrorTable DEF Becomes
    <3>3. QED
      BY <1>1, <2>1, <3>1, <3>2, ReturnsStep DEF Fails
  <2>6. QED
    BY <2>2, <2>3, <2>4, <2>5, <1>5 DEF Bearers, RequireAuth, IInv, Types
<1>6. QED
  BY <1>2, <1>3, <1>4, <1>5

\* A handler that succeeds, or fails with an error of the catalogue, for a
\* request the guard let through.
LEMMA SucceedsStep ==
  ASSUME IInv, BudgetsOK', NEW p \in Procs, NEW st \in Quiet,
         stage[p] \in Inward, ~Unauthorized(p), Succeeds(p, st)
  PROVE  IInv'
<1>1. st \in Nat
  BY DEF Quiet
<1>2. QED
  BY <1>1, ReturnsStep DEF Succeeds

LEMMA FailsStep ==
  ASSUME IInv, BudgetsOK', NEW p \in Procs, NEW e,
         stage[p] \in Inward, ~Unauthorized(p), Fine(p, e), Fails(p, e)
  PROVE  IInv'
<1>1. status[p] \in Nat /\ e # nil
  BY DEF IInv, Types, Fine
<1>2. QED
  BY <1>1, ReturnsStep DEF Fails

LEMMA HandlerSteps ==
  ASSUME IInv, BudgetsOK', NEW p \in Procs
  PROVE  /\ ServerRejects(p) => IInv'
         /\ Probe(p) => IInv'
         /\ Readyz(p) => IInv'
         /\ NoRoute(p) => IInv'
         /\ Login(p) => IInv'
         /\ TaskHandler(p) => IInv'
         /\ Panic(p) => IInv'
<1>1. status[p] \in Nat
  BY DEF IInv, Types
<1>2. ASSUME ServerRejects(p) PROVE IInv'
  <2>1. PICK st \in {400, 408, 413, 431, 502} :
          Returns(p, status[p], <<FiberError(st)>>, "failing")
    BY <1>2 DEF ServerRejects
  <2>2. Fine(p, <<FiberError(st)>>) /\ <<FiberError(st)>> # nil
    BY FiberIsFine DEF nil
  <2>3. QED
    BY <1>1, <1>2, <2>1, <2>2, ReturnsStep DEF ServerRejects, At, Inward
<1>3. ASSUME Probe(p) PROVE IInv'
  <2>1. stage[p] \in Inward /\ ~Unauthorized(p)
    BY <1>3 DEF Probe, At, Inward, Unauthorized
  <2>2. CASE Succeeds(p, 200)
    BY <2>1, <2>2, SucceedsStep DEF Quiet
  <2>3. CASE Fails(p, Wrap(PlainChain))
    BY <2>1, <2>3, CatalogueIsFine, FailsStep
  <2> QED BY <1>3, <2>2, <2>3 DEF Probe, PlainChain
<1>4. ASSUME Readyz(p) PROVE IInv'
  BY <1>4, SucceedsStep DEF Readyz, At, Inward, Unauthorized, Quiet
<1>5. ASSUME NoRoute(p) PROVE IInv'
  <2>1. stage[p] \in Inward /\ req[p].route # "task" /\ ~Unauthorized(p)
    BY <1>5 DEF NoRoute, At, Inward, Unauthorized
  <2>2. PICK st \in {404, 405} : Fails(p, <<FiberError(st)>>)
    BY <1>5 DEF NoRoute
  <2>3. Fine(p, <<FiberError(st)>>)
    BY <2>1, FiberIsFine
  <2>4. QED
    BY <2>1, <2>2, <2>3, FailsStep
<1>6. ASSUME Login(p) PROVE IInv'
  <2>1. stage[p] = "login" /\ stage[p] \in Inward
    BY <1>6 DEF Login, At, Inward
  <2>2. ~Unauthorized(p)
    BY <2>1 DEF IInv, Flow, Unauthorized
  <2>3. CASE Succeeds(p, 200)
    BY <2>1, <2>2, <2>3, SucceedsStep DEF Quiet
  <2>4. CASE \E e : Fine(p, e) /\ Fails(p, e)
    BY <2>1, <2>2, <2>4, FailsStep
  <2>5. QED
    BY <1>6, <2>3, <2>4, CatalogueIsFine DEF Login, PlainChain
<1>7. ASSUME TaskHandler(p) PROVE IInv'
  <2>1. stage[p] \in Inward /\ ~Unauthorized(p)
    BY <1>7 DEF TaskHandler, At, Inward, IInv, Guarded
  <2>2. CASE \E st \in {200, 201, 204} : Succeeds(p, st)
    BY <2>1, <2>2, SucceedsStep DEF Quiet
  <2>3. CASE \E e : Fine(p, e) /\ Fails(p, e)
    BY <2>1, <2>3, FailsStep
  <2>4. Fine(p, <<FiberError(405)>>)
    BY FiberIsFine
  <2>5. QED
    BY <1>7, <2>2, <2>3, <2>4, CatalogueIsFine
       DEF TaskHandler, DatabaseError, PlainChain
<1>8. ASSUME Panic(p) PROVE IInv'
  <2>1. Fine(p, PlainChain) /\ PlainChain # nil
    BY CatalogueIsFine DEF PlainChain, nil
  <2>2. stage[p] \in Inward /\ Returns(p, status[p], PlainChain, "failing")
    BY <1>8 DEF Panic, Inward, PlainChain
  <2>3. QED
    BY <1>1, <2>1, <2>2, ReturnsStep
<1>9. QED
  BY <1>2, <1>3, <1>4, <1>5, <1>6, <1>7, <1>8

LEMMA OutwardSteps ==
  ASSUME IInv, BudgetsOK', NEW p \in Procs
  PROVE  /\ Receive(p) => IInv'
         /\ Preflight(p) => IInv'
         /\ Observe(p) => IInv'
         /\ HandleError(p) => IInv'
         /\ Release(p) => IInv'
<1>1. ASSUME NEW q \in Procs, q # p,
             Receive(p) \/ Preflight(p) \/ Observe(p) \/ HandleError(p) \/ Release(p)
      PROVE  Flow(q)' /\ Guarded(q)'
  <2>1. /\ authEnabled' = authEnabled /\ stage'[q] = stage[q] /\ req'[q] = req[q]
        /\ status'[q] = status[q] /\ err'[q] = err[q] /\ observed'[q] = observed[q]
        /\ errlog'[q] = errlog[q] /\ answer'[q] = answer[q]
    BY <1>1 DEF IInv, Types, Receive, Preflight, Observe, HandleError, Release,
                request, records
  <2>2. QED
    BY <2>1, OthersKeep DEF IInv
<1>2. Flow(p) /\ Guarded(p) /\ Types
  BY DEF IInv
<1>3. ASSUME Receive(p) PROVE IInv'
  <2>1. Types'
    BY <1>2, <1>3 DEF Types, BudgetsOK, Receive, records, Stages
  <2>2. Flow(p)' /\ Guarded(p)'
    BY <1>2, <1>3 DEF Types, Receive, At, records, Flow, Guarded, Unauthorized, Inward
  <2>3. QED
    BY <1>1, <1>3, <2>1, <2>2 DEF IInv
<1>4. ASSUME Preflight(p) PROVE IInv'
  <2>1. Types'
    BY <1>2, <1>4 DEF Types, BudgetsOK, Preflight, request, Stages, Contract
  <2>2. Flow(p)'
    BY <1>2, <1>4 DEF Types, Preflight, At, request, Flow, Inward, SentBody, Quiet
  <2>3. Guarded(p)'
    BY <1>2, <1>4 DEF Types, Preflight, At, request, Guarded, Unauthorized
  <2>4. QED
    BY <1>1, <1>4, <2>1, <2>2, <2>3 DEF IInv
<1>5. ASSUME Observe(p) PROVE IInv'
  <2>1. CASE err[p] = nil
    <3>1. /\ status[p] \in Quiet /\ ~Unauthorized(p)
          /\ EffectiveStatus(status[p], err[p]) = status[p]
      BY <1>2, <1>5, <2>1 DEF Observe, At, Flow, Guarded, EffectiveStatus
    <3>2. [status |-> status[p], code |-> "none"] \in Contract
      BY <3>1 DEF Quiet, Contract
    <3>3. Types'
      <4>1. /\ observed' = [observed EXCEPT ![p] = status[p]]
            /\ stage' = [stage EXCEPT ![p] = "answered"]
            /\ answer' = [answer EXCEPT ![p] = [status |-> status[p], code |-> "none"]]
            /\ UNCHANGED <<authEnabled, req, status, err, errlog>>
        BY <1>5, <2>1, <3>1 DEF Observe, request
      <4>2. /\ observed' \in [Procs -> Nat]
            /\ stage' \in [Procs -> Stages]
        BY <1>2, <4>1 DEF Types, Stages
      <4>3. answer' \in [Procs -> Contract \cup {NoAnswer, OfUnsupported}]
        BY <1>2, <3>2, <4>1 DEF Types
      <4>4. QED
        BY <1>2, <4>1, <4>2, <4>3 DEF Types, BudgetsOK
    <3>4. Flow(p)' /\ Guarded(p)'
      BY <1>2, <1>5, <2>1, <3>1
         DEF Types, Observe, At, request, Flow, Guarded, Unauthorized, Inward, SentBody
    <3>5. QED
      BY <1>1, <1>5, <3>3, <3>4 DEF IInv
  <2>2. CASE err[p] # nil
    <3>1. Fine(p, err[p]) /\ err[p] \in Chain
      BY <1>2, <2>2 DEF Flow, Types, Chain
    <3>2. EffectiveStatus(status[p], err[p]) = errorHandler(err[p]).status
      BY <2>2, <3>1, ObservationAgrees
    <3>3. errorHandler(err[p]).status \in Nat
      BY <3>1 DEF Fine, Contract
    <3>4. Types'
      BY <1>2, <1>5, <2>2, <3>2, <3>3
         DEF Types, BudgetsOK, Observe, request, Stages
    <3>5. /\ stage'[p] = "failing" /\ err' = err /\ status' = status /\ req' = req
          /\ authEnabled' = authEnabled /\ errlog' = errlog /\ answer' = answer
          /\ observed'[p] = errorHandler(err[p]).status /\ stage[p] = "unwinding"
      BY <1>2, <1>5, <2>2, <3>2 DEF Types, Observe, At, request
    <3>6. Flow(p)' /\ Guarded(p)'
      BY <1>2, <2>2, <3>5 DEF Flow, Guarded, Unauthorized, Inward, Fine
    <3>7. QED
      BY <1>1, <1>5, <3>4, <3>6 DEF IInv
  <2>3. QED
    BY <2>1, <2>2
<1>6. ASSUME HandleError(p) PROVE IInv'
  <2> DEFINE r == errorHandler(err[p])
  <2>1. stage[p] = "failing" /\ err[p] # nil /\ Fine(p, err[p])
    BY <1>2, <1>6 DEF HandleError, At, Flow
  <2>2. /\ [status |-> r.status, code |-> r.code] \in Contract \cup {OfUnsupported}
        /\ r.status \in Nat
    BY <2>1 DEF Fine, Contract, OfUnsupported
  <2>3. r.logged \in BOOLEAN
    BY DEF errorHandler
  <2>4. /\ stage'[p] = "answered" /\ err' = err /\ req' = req /\ observed' = observed
        /\ authEnabled' = authEnabled /\ status'[p] = r.status
        /\ errlog'[p] = r.logged
        /\ answer'[p] = [status |-> r.status, code |-> r.code]
    BY <1>2, <1>6 DEF Types, HandleError, request
  <2>5. Types'
    BY <1>2, <1>6, <2>2, <2>3 DEF Types, BudgetsOK, HandleError, request, Stages
  <2>6. Flow(p)' /\ Guarded(p)'
    BY <1>2, <2>1, <2>4 DEF Flow, Guarded, Unauthorized, Inward, Fine, SentError
  <2>7. QED
    BY <1>1, <1>6, <2>5, <2>6 DEF IInv
<1>7. ASSUME Release(p) PROVE IInv'
  <2>1. nil \in Seq(Node)
    BY DEF nil
  <2>2. Types'
    BY <1>2, <1>7, <2>1 DEF Types, BudgetsOK, Release, Stages
  <2>3. Flow(p)' /\ Guarded(p)'
    BY <1>2, <1>7
       DEF Types, Release, Flow, Guarded, Unauthorized, Inward, NoRequest
  <2>4. QED
    BY <1>1, <1>7, <2>2, <2>3 DEF IInv
<1>8. QED
  BY <1>3, <1>4, <1>5, <1>6, <1>7

LEMMA StepInv == IInv /\ [Next]_vars => IInv'
<1> SUFFICES ASSUME IInv, [Next]_vars PROVE IInv'
  OBVIOUS
<1>1. BudgetsOK'
  BY BudgetsKeep
<1>2. ASSUME UNCHANGED <<request, stage, status, err, records>> PROVE IInv'
  <2>1. Types'
    BY <1>1, <1>2 DEF IInv, Types, BudgetsOK, request, records
  <2>2. ASSUME NEW q \in Procs PROVE Flow(q)' /\ Guarded(q)'
    BY <1>2, OthersKeep DEF IInv, request, records
  <2>3. QED
    BY <2>1, <2>2 DEF IInv
<1>3. ASSUME NEW ip \in IPs, Window(ip) PROVE IInv'
  BY <1>2, <1>3 DEF Window
<1>4. CASE UNCHANGED vars
  BY <1>2, <1>4 DEF vars, request, records
<1>5. QED
  BY <1>1, <1>3, <1>4, InwardSteps, HandlerSteps, OutwardSteps DEF Next

-----------------------------------------------------------------------------
THEOREM PipelineInvariance == Spec => []IInv
BY InitInv, StepInv, PTL DEF Spec

\* Every answer is an envelope of the error catalogue (TypeOK's Contract:
\* apperror/errors.go:9-17, router.go:129-168), for any load, but for one: the
\* 422 HTTP_422 a body of an unsupported Content-Type gets, and no other does.
THEOREM EnvelopeContract == Spec => []TypeOK
<1>1. IInv => TypeOK
  <2> SUFFICES ASSUME IInv, NEW p \in Procs, answer[p] = OfUnsupported
               PROVE  err[p] = UnsupportedBody
    BY DEF IInv, TypeOK
  <2>1. OfUnsupported # NoAnswer /\ OfUnsupported \notin Contract
    BY DEF OfUnsupported, NoAnswer, Contract
  <2>2. stage[p] = "answered" /\ (err[p] = nil => SentBody(p)) /\ (err[p] # nil => SentError(p))
    BY <2>1 DEF IInv, Flow
  <2>3. err[p] # nil
    BY <2>2 DEF SentBody, OfUnsupported
  <2> QED BY <2>1, <2>2, <2>3 DEF IInv, Flow, Fine, SentError
<1>2. QED
  BY <1>1, PipelineInvariance, PTL

\* The status the metrics and the log record is the one the client gets
\* (effective_status.go:21-38 against router.go:131-155).
THEOREM ObservationIsSent == Spec => []ObservedIsSent
<1>1. IInv => ObservedIsSent
  <2> SUFFICES ASSUME IInv, NEW p \in Procs, At(p, "answered"), observed[p] # 0
               PROVE  observed[p] = answer[p].status
    BY DEF ObservedIsSent
  <2>1. IF err[p] = nil THEN SentBody(p) ELSE SentError(p)
    BY DEF IInv, Flow, At
  <2>2. QED
    BY <2>1 DEF SentBody, SentError
<1>2. QED
  BY <1>1, PipelineInvariance, PTL

\* A failure that no log line tells of is one of the server, which did not
\* read the request, alone (router.go:71-85, 131-155).
THEOREM NoFailureUnlogged == Spec => []FailuresAreLogged
<1>1. IInv => FailuresAreLogged
  <2> SUFFICES ASSUME IInv, NEW p \in Procs,
                      answer[p].status >= 400, observed[p] = 0, ~errlog[p]
               PROVE  Has(err[p], "fiber")
    BY DEF FailuresAreLogged
  <2>1. stage[p] = "answered"
    BY DEF IInv, Flow, NoAnswer
  <2>2. err[p] # nil
    <3> SUFFICES ASSUME err[p] = nil PROVE FALSE
      OBVIOUS
    <3>1. SentBody(p)
      BY <2>1 DEF IInv, Flow
    <3>2. answer[p].status = status[p] /\ status[p] \in Quiet
      BY <3>1 DEF SentBody
    <3>3. status[p] = 204
      BY <3>1, <3>2 DEF SentBody, Quiet
    <3>4. QED
      BY <3>2, <3>3
  <2>3. ~errorHandler(err[p]).logged
    BY <2>1, <2>2 DEF IInv, Flow, SentError
  <2>4. QED
    BY <2>3 DEF errorHandler
<1>2. QED
  BY <1>1, PipelineInvariance, PTL

\* No unauthenticated request gets past RequireAuth, however many run at once
\* (router.go:95-111, auth/middleware.go:16-30).
THEOREM GuardHolds == Spec => []TasksAreGuarded
<1>1. IInv => TasksAreGuarded
  BY DEF IInv, Guarded, Unauthorized, TasksAreGuarded, At
<1>2. QED
  BY <1>1, PipelineInvariance, PTL

\* Every missing task is TASK_NOT_FOUND (repository.go:33, 73, 96;
\* service.go:74-79, 85-90).
THEOREM MissingTaskCode == Spec => []MissingTask
<1>1. IInv => MissingTask
  <2> SUFFICES ASSUME IInv, NEW p \in Procs,
                      req[p].route = "task", answer[p].status = 404
               PROVE  answer[p].code = "TASK_NOT_FOUND"
    BY DEF MissingTask
  <2>1. stage[p] = "answered"
    BY DEF IInv, Flow, NoAnswer
  <2>2. err[p] # nil
    <3> SUFFICES ASSUME err[p] = nil PROVE FALSE
      OBVIOUS
    <3>1. SentBody(p)
      BY <2>1 DEF IInv, Flow
    <3>2. answer[p].status = status[p] /\ status[p] \in Quiet
      BY <3>1 DEF SentBody
    <3>3. QED
      BY <3>2 DEF Quiet
  <2>3. SentError(p) /\ Fine(p, err[p])
    BY <2>1, <2>2 DEF IInv, Flow
  <2>4. QED
    BY <2>3 DEF SentError, Fine
<1>2. QED
  BY <1>1, PipelineInvariance, PTL

-----------------------------------------------------------------------------
(***************************************************************************)
(* Probes.  None is ever inside a task handler, and no error of theirs     *)
(* becomes a 429.                                                          *)
(***************************************************************************)
Probing(p) == req[p].route \in {"probe", "readyz"}

ProbeFlow(p) ==
  Probing(p) => /\ stage[p] # "task"
                /\ err[p] # nil => errorHandler(err[p]).status # 429

\* The steps of a request.
Handling(p) ==
  \/ Receive(p) \/ ServerRejects(p) \/ Preflight(p)
  \/ SkipLimiter(p) \/ GlobalLimiter(p) \/ LoginLimiter(p)
  \/ Probe(p) \/ Readyz(p) \/ NoRoute(p)
  \/ RequireAuth(p) \/ Login(p) \/ TaskHandler(p) \/ Panic(p)
  \/ Observe(p) \/ HandleError(p) \/ Release(p)

\* The guard passes a request on or refuses it: a bearer it does not know is
\* no bearer of a task request.
LEMMA GuardDecides ==
  ASSUME IInv, NEW p \in Procs, RequireAuth(p)
  PROVE  Goes(p, "task") \/ \E e : Fails(p, e)
<1>1. authEnabled \in BOOLEAN
  BY DEF IInv, Types
<1>2. req[p].bearer \in Bearers
  <2>1. req[p] \in Request /\ req[p].route = "task"
    BY DEF IInv, Flow, RequireAuth, At
  <2> QED BY <2>1 DEF Request, Bearers
<1>3. CASE ~authEnabled \/ req[p].bearer = "good"
  BY <1>1, <1>3 DEF RequireAuth
<1>4. CASE authEnabled /\ req[p].bearer = "none"
  BY <1>1, <1>4 DEF RequireAuth
<1>5. CASE authEnabled /\ req[p].bearer = "bad"
  BY <1>1, <1>5 DEF RequireAuth
<1> QED BY <1>1, <1>2, <1>3, <1>4, <1>5 DEF Bearers

\* A request's step is nobody else's.
LEMMA OneAtATime ==
  ASSUME IInv, NEW p \in Procs, Handling(p)
  PROVE  \A q \in Procs \ {p} :
           stage'[q] = stage[q] /\ req'[q] = req[q] /\ err'[q] = err[q]
<1>1. DOMAIN stage = Procs /\ DOMAIN req = Procs /\ DOMAIN err = Procs
  BY DEF IInv, Types
<1>2. CASE \E s : Goes(p, s)
  BY <1>1, <1>2 DEF Goes, request
<1>3. CASE \E st, e, next : Returns(p, st, e, next)
  BY <1>1, <1>3 DEF Returns, request
<1>4. CASE Receive(p) \/ Preflight(p) \/ Observe(p) \/ HandleError(p) \/ Release(p)
  BY <1>1, <1>4 DEF Receive, Preflight, Observe, HandleError, Release, request
<1>5. CASE SkipLimiter(p) \/ GlobalLimiter(p) \/ LoginLimiter(p)
  BY <1>2, <1>3, <1>5 DEF SkipLimiter, GlobalLimiter, LoginLimiter, Fails
<1>6. CASE ServerRejects(p) \/ Probe(p) \/ Readyz(p) \/ NoRoute(p) \/ Panic(p)
  BY <1>3, <1>6 DEF ServerRejects, Probe, Readyz, NoRoute, Panic, Succeeds, Fails
<1>7. CASE RequireAuth(p)
  BY <1>2, <1>3, <1>7, GuardDecides DEF Fails
<1>8. CASE Login(p)
  BY <1>3, <1>8 DEF Login, Succeeds, Fails
<1>9. CASE TaskHandler(p)
  BY <1>3, <1>9 DEF TaskHandler, Succeeds, Fails
<1> QED
  BY <1>4, <1>5, <1>6, <1>7, <1>8, <1>9 DEF Handling

\* No step of a probe touches a budget, and none gives it a 429.
LEMMA ProbeStep ==
  ASSUME IInv, NEW p \in Procs, ProbeFlow(p), Handling(p)
  PROVE  /\ ProbeFlow(p)'
         /\ Probing(p) => UNCHANGED budgets
         /\ stage'[p] = "answered" => req'[p] = req[p]
<1>1. /\ stage \in [Procs -> Stages] /\ err \in [Procs -> Seq(Node)]
      /\ req \in [Procs -> Request \cup {NoRequest}]
  BY DEF IInv, Types
<1>2. CASE Receive(p)
  BY <1>1, <1>2 DEF Receive, At, IInv, Flow, ProbeFlow, budgets
<1>3. CASE ServerRejects(p)
  <2>1. PICK st \in {400, 408, 413, 431, 502} :
          Returns(p, status[p], <<FiberError(st)>>, "failing")
    BY <1>3 DEF ServerRejects
  <2>2. errorHandler(<<FiberError(st)>>).status = st
    BY FiberBecomes DEF Becomes
  <2>3. stage'[p] = "failing" /\ req' = req /\ err'[p] = <<FiberError(st)>>
    BY <1>1, <2>1 DEF Returns, request
  <2> QED BY <1>3, <2>2, <2>3 DEF ServerRejects, ProbeFlow
<1>4. CASE Preflight(p)
  BY <1>1, <1>4 DEF Preflight, request, ProbeFlow, Probing
<1>5. CASE SkipLimiter(p)
  BY <1>1, <1>5 DEF SkipLimiter, Goes, request, ProbeFlow, Probing
<1>6. CASE GlobalLimiter(p)
  <2>1. ~Probing(p)
    BY <1>6 DEF GlobalLimiter, skipRateLimit, Probing
  <2>2. req' = req
    BY <1>6 DEF GlobalLimiter, Goes, Returns, request
  <2> QED BY <2>1, <2>2 DEF ProbeFlow, Probing
<1>7. CASE LoginLimiter(p) \/ NoRoute(p) \/ RequireAuth(p) \/ Login(p)
  <2>1. ~Probing(p)
    BY <1>7 DEF LoginLimiter, NoRoute, RequireAuth, Login, At, Probing, IInv, Flow
  <2>2. (\E s : Goes(p, s)) \/ (\E e : Fails(p, e)) => req' = req
    BY DEF Goes, Fails, Returns, request
  <2>3. req' = req
    <3>1. CASE LoginLimiter(p) \/ NoRoute(p)
      BY <2>2, <3>1 DEF LoginLimiter, NoRoute
    <3>2. CASE RequireAuth(p)
      BY <2>2, <3>2, GuardDecides
    <3>3. CASE Login(p)
      BY <2>2, <3>3 DEF Login, Succeeds, Returns, request
    <3> QED BY <1>7, <3>1, <3>2, <3>3
  <2> QED BY <2>1, <2>3 DEF ProbeFlow, Probing
<1>8. CASE TaskHandler(p)
  <2>1. ~Probing(p)
    BY <1>8 DEF TaskHandler, At, ProbeFlow
  <2>2. req' = req
    BY <1>8 DEF TaskHandler, Returns, Succeeds, Fails, request
  <2> QED BY <2>1, <2>2 DEF ProbeFlow, Probing
<1>9. CASE Probe(p) \/ Readyz(p)
  <2>1. CASE \E st : Succeeds(p, st)
    <3>1. stage'[p] = "unwinding" /\ req' = req /\ err'[p] = nil
      BY <1>1, <2>1 DEF Succeeds, Returns, request
    <3> QED BY <1>9, <3>1 DEF Probe, Readyz, ProbeFlow
  <2>2. CASE Fails(p, Wrap(PlainChain))
    <3>1. errorHandler(Wrap(PlainChain)).status = 500
      BY ErrorTable DEF Becomes
    <3>2. stage'[p] = "unwinding" /\ req' = req /\ err'[p] = Wrap(PlainChain)
      BY <1>1, <2>2 DEF Fails, Returns, request
    <3> QED BY <1>9, <3>1, <3>2 DEF Probe, Readyz, ProbeFlow
  <2> QED BY <1>9, <2>1, <2>2 DEF Probe, Readyz, PlainChain
<1>10. CASE Panic(p)
  <2>1. errorHandler(<<Other("plain")>>).status = 500
    BY PlainBecomes DEF Becomes
  <2>2. stage'[p] = "failing" /\ req' = req /\ err'[p] = <<Other("plain")>>
    BY <1>1, <1>10 DEF Panic, Returns, request
  <2> QED BY <1>10, <2>1, <2>2 DEF Panic, ProbeFlow
<1>11. CASE Observe(p) \/ HandleError(p)
  <2>1. stage'[p] \in {"answered", "failing"} /\ req' = req /\ err' = err
    BY <1>1, <1>11 DEF Observe, HandleError, request
  <2> QED BY <1>11, <2>1 DEF Observe, HandleError, ProbeFlow, Probing
<1>12. CASE Release(p)
  BY <1>1, <1>12 DEF Release, ProbeFlow, Probing, NoRequest
<1> QED
  BY <1>2, <1>3, <1>4, <1>5, <1>6, <1>7, <1>8, <1>9, <1>10, <1>11, <1>12 DEF Handling

\* However many requests share its address, a probe costs nothing and is never
\* refused (router.go:33-47, 75-82).
THEOREM ProbesPass == Spec => ProbesAreFree
<1> DEFINE Probes == \A p \in Procs : ProbeFlow(p)
<1>1. Init => Probes
  BY DEF Init, ProbeFlow, Probing, NoRequest
<1>2. ASSUME IInv, Probes, [Next]_vars
      PROVE  /\ Probes'
             /\ \A p \in Procs :
                  Probing(p) /\ stage'[p] # stage[p] => ~Is429(p)' /\ UNCHANGED budgets
  <2>1. CASE UNCHANGED <<request, stage, err>>
    BY <1>2, <2>1 DEF ProbeFlow, Probing, request
  <2>2. ASSUME NEW p \in Procs, Handling(p)
        PROVE  /\ Probes'
               /\ \A q \in Procs :
                    Probing(q) /\ stage'[q] # stage[q] => ~Is429(q)' /\ UNCHANGED budgets
    <3>1. /\ \A q \in Procs \ {p} :
               stage'[q] = stage[q] /\ req'[q] = req[q] /\ err'[q] = err[q]
      BY <1>2, <2>2, OneAtATime
    <3>2. /\ ProbeFlow(p)' /\ (Probing(p) => UNCHANGED budgets)
          /\ stage'[p] = "answered" => req'[p] = req[p]
      BY <1>2, <2>2, ProbeStep
    <3>3. Probes'
      BY <1>2, <3>1, <3>2 DEF ProbeFlow, Probing
    <3>4. ASSUME Probing(p) PROVE answer'[p].status # 429
      <4>1. Flow(p)'
        BY <1>2, StepInv DEF IInv
      <4>2. CASE stage'[p] # "answered"
        BY <4>1, <4>2 DEF Flow, NoAnswer
      <4>3. CASE stage'[p] = "answered" /\ err'[p] = nil
        BY <4>1, <4>3 DEF Flow, SentBody, Quiet
      <4>4. CASE stage'[p] = "answered" /\ err'[p] # nil
        <5>1. errorHandler(err'[p]).status # 429
          BY <3>2, <3>4, <4>4 DEF ProbeFlow, Probing
        <5>2. answer'[p].status = errorHandler(err'[p]).status
          BY <4>1, <4>4 DEF Flow, SentError
        <5> QED BY <5>1, <5>2
      <4> QED BY <4>2, <4>3, <4>4
    <3> QED BY <3>1, <3>2, <3>3, <3>4 DEF Is429
  <2>3. ASSUME NEW ip \in IPs, Window(ip) PROVE UNCHANGED <<request, stage, err>>
    BY <2>3 DEF Window
  <2>4. CASE UNCHANGED vars
    BY <2>1, <2>4 DEF vars, request
  <2>5. CASE Next
    <3>1. (\E p \in Procs : Handling(p)) \/ (\E ip \in IPs : Window(ip))
      BY <2>5 DEF Next, Handling
    <3> QED BY <2>1, <2>2, <2>3, <3>1
  <2> QED BY <1>2, <2>4, <2>5
<1> HIDE DEF Probes
<1>3. IInv /\ Probes /\ [Next]_vars
        => [\A p \in Procs :
              req[p].route \in {"probe", "readyz"} /\ stage'[p] # stage[p]
                => ~Is429(p)' /\ UNCHANGED budgets]_vars
  BY <1>2 DEF Probing
<1>4. IInv /\ Probes /\ [Next]_vars => Probes'
  BY <1>2
<1> QED BY <1>1, <1>3, <1>4, PipelineInvariance, PTL DEF Spec, ProbesAreFree

=============================================================================
