----------------------------- MODULE Lifecycle -----------------------------
(***************************************************************************)
(* The life of one process of cmd/api: run loads the configuration, opens  *)
(* and pings the database, migrates, listens, and on SIGTERM stops         *)
(* listening, closes the pool and exits; handlers of the task routes and   *)
(* of readyz take connections of the pool meanwhile.  The database may go  *)
(* down (refuse) or hang (accept and never answer) at any time.            *)
(*                                                                         *)
(* Listen is fiber's: it starts a goroutine that waits for GracefulContext *)
(* and shuts the server down, and serves.  The goroutine closes the        *)
(* listener, at which Serve, and with it Listen, returns nil; it goes on   *)
(* waiting for the requests in flight, up to ShutdownTimeout, but for no   *)
(* one: run returns, and the process ends.  A shutdown that finds no       *)
(* listener yet does nothing, and Serve serves all the same.               *)
(***************************************************************************)
EXTENDS Configuration, FiniteSets

CONSTANTS
  Reqs,     \* requests that may arrive
  Configs   \* the environments the process may be started in

ASSUME LifecycleAssumption ==
  \A c \in Configs : {c.DBMaxOpenConns, c.ShutdownGracePeriod, c.RateLimitPerMinute} \subseteq Int

VARIABLES
  cfg,        \* the configuration
  stage,      \* where run is
  signalled,  \* ctx is done
  missed,     \* the shutdown came before Serve had its listener
  db,         \* what the database does: up, down, hung
  pool,       \* none, open, closed
  kind,       \* kind[r]: the route r asks for
  req,        \* req[r]: where r is, and then how it was answered
  code        \* what run returns

vars == <<cfg, stage, signalled, missed, db, pool, kind, req, code>>

Boot == {"load", "open", "ping", "migrate", "listen"}
Stages == Boot \cup {"serving", "closing", "exiting", "exited"}
InFlight == {"conn", "query"}
\* noPool: answered an error because the pool was closed; lost: not answered.
Outcomes == {"ok", "error", "unavailable", "noPool", "lost"}

TypeOK ==
  /\ cfg \in Configs
  /\ stage \in Stages
  /\ signalled \in BOOLEAN
  /\ missed \in BOOLEAN /\ (missed => signalled)
  /\ db \in {"up", "down", "hung"}
  /\ pool \in {"none", "open", "closed"}
  /\ kind \in [Reqs -> {"task", "readyz"}]
  /\ req \in [Reqs -> {"idle"} \cup InFlight \cup Outcomes]
  /\ code \in {"none", "ok", "failed", "killed"}
  /\ stage = "serving" => pool = "open"

Init ==
  /\ cfg \in Configs
  /\ stage = "load"
  /\ signalled = FALSE
  /\ missed = FALSE
  /\ db \in {"up", "down", "hung"}
  /\ pool = "none"
  /\ kind = [r \in Reqs |-> "task"]
  /\ req = [r \in Reqs |-> "idle"]
  /\ code = "none"

-----------------------------------------------------------------------------
Goto(s) == stage' = s /\ code' = code

\* run returns c: the deferred Close, then the exit of main.
Return(c) == stage' = "closing" /\ code' = c

Requests == <<kind, req>>
World == <<cfg, db>>
Signals == <<signalled, missed>>

Load ==
  /\ stage = "load"
  /\ IF Validate(cfg) THEN Goto("open") ELSE Return("failed")
  /\ UNCHANGED <<World, Signals, pool, Requests>>

\* gorm.Open connects, pings and asks for the version without any context.
Open ==
  /\ stage = "open"
  /\ db # "hung"
  /\ IF db = "up" THEN Goto("ping") ELSE Return("failed")
  /\ UNCHANGED <<World, Signals, pool, Requests>>

\* The network gives a hung connection up, at some time or never.
OpenGivesUp ==
  /\ stage = "open"
  /\ db = "hung"
  /\ Return("failed")
  /\ UNCHANGED <<World, Signals, pool, Requests>>

\* The ping of New: five seconds, less on a signal.
PingAtStart ==
  /\ stage = "ping"
  /\ \/ db = "up" /\ ~signalled /\ Goto("migrate") /\ pool' = "open"
     \/ Return("failed") /\ pool' = pool
  /\ UNCHANGED <<World, Signals, Requests>>

\* Mutated: the driver alone is looked at.
AutoMigrateIfNeeded_AnyEnv ==
  /\ stage = "migrate"
  /\ \/ ~cfg.DBAutoMigrate /\ Goto("listen")
     \/ /\ cfg.DBAutoMigrate
        /\ \/ db = "up" /\ ~signalled /\ Goto("listen")
           \/ (db # "hung" \/ signalled) /\ Return("failed")
  /\ UNCHANGED <<World, Signals, pool, Requests>>

\* Mutated: the migration has a context of its own.
AutoMigrateIfNeeded_NoCtx ==
  /\ stage = "migrate"
  /\ \/ ~cfg.DBAutoMigrate /\ Goto("listen")
     \/ /\ cfg.DBAutoMigrate
        /\ cfg.DBDriver # "sqlite" /\ IsProd(cfg)
        /\ Return("failed")
     \/ /\ cfg.DBAutoMigrate
        /\ ~(cfg.DBDriver # "sqlite" /\ IsProd(cfg))
        /\ db # "hung"
        /\ (db = "up" /\ Goto("listen")) \/ Return("failed")
  /\ UNCHANGED <<World, Signals, pool, Requests>>

\* The migration itself has ctx, no time limit: hung, it waits for a signal.
AutoMigrateIfNeeded ==
  /\ stage = "migrate"
  /\ \/ ~cfg.DBAutoMigrate /\ Goto("listen")
     \/ /\ cfg.DBAutoMigrate
        /\ cfg.DBDriver # "sqlite" /\ IsProd(cfg)
        /\ Return("failed")
     \/ /\ cfg.DBAutoMigrate
        /\ ~(cfg.DBDriver # "sqlite" /\ IsProd(cfg))
        /\ \/ db = "up" /\ ~signalled /\ Goto("listen")
           \/ (db # "hung" \/ signalled) /\ Return("failed")
  /\ UNCHANGED <<World, Signals, pool, Requests>>

\* The port may be taken.  A signal that is there before Serve has its
\* listener may be missed.
Listen ==
  /\ stage = "listen"
  /\ \/ (Goto("serving") \/ Return("failed")) /\ UNCHANGED missed
     \/ signalled /\ Goto("serving") /\ missed' = TRUE
  /\ UNCHANGED <<World, signalled, pool, Requests>>

\* Accepting may fail later.
ListenFails ==
  /\ stage = "serving"
  /\ Return("failed")
  /\ UNCHANGED <<World, Signals, pool, Requests>>

\* Mutated: no GracefulContext.
ListenReturns_Never == FALSE

\* The shutdown closes the listener, whatever is in flight.
ListenReturns ==
  /\ stage = "serving"
  /\ signalled /\ ~missed
  /\ Return("ok")
  /\ UNCHANGED <<World, Signals, pool, Requests>>

Close ==
  /\ stage = "closing"
  /\ pool' = IF pool = "open" THEN "closed" ELSE pool
  /\ Goto("exiting")
  /\ UNCHANGED <<World, Signals, Requests>>

\* The handlers that still run end with the process.
Die == req' = [r \in Reqs |-> IF req[r] \in InFlight THEN "lost" ELSE req[r]]

Exit ==
  /\ stage = "exiting"
  /\ Goto("exited")
  /\ Die
  /\ UNCHANGED <<World, Signals, pool, kind>>

\* Mutated: the pool closes on the signal, not when run returns.
Signal_Closes ==
  /\ stage \notin {"load", "exited"}
  /\ ~signalled
  /\ signalled' = TRUE
  /\ pool' = IF pool = "open" THEN "closed" ELSE pool
  /\ UNCHANGED <<World, stage, missed, Requests, code>>

\* NotifyContext has taken SIGTERM over: it ends ctx and nothing else.
Signal ==
  /\ stage \notin {"load", "exited"}
  /\ ~signalled
  /\ signalled' = TRUE
  /\ UNCHANGED <<World, stage, missed, pool, Requests, code>>

\* SIGKILL, and SIGTERM before NotifyContext.
Kill ==
  /\ stage # "exited"
  /\ stage' = "exited" /\ code' = "killed"
  /\ Die
  /\ UNCHANGED <<World, Signals, pool, kind>>

DatabaseChanges ==
  /\ db' \in {"up", "down", "hung"} \ {db}
  /\ UNCHANGED <<cfg, stage, Signals, pool, Requests, code>>

-----------------------------------------------------------------------------
InUse == Cardinality({r \in Reqs : req[r] = "query"})
PoolFull == InUse >= cfg.DBMaxOpenConns

Becomes(r, s) ==
  /\ req' = [req EXCEPT ![r] = s]
  /\ UNCHANGED <<World, stage, Signals, pool, kind, code>>

Accept(r) ==
  /\ stage = "serving"
  /\ req[r] = "idle"
  /\ \E k \in {"task", "readyz"} : kind' = [kind EXCEPT ![r] = k]
  /\ req' = [req EXCEPT ![r] = "conn"]
  /\ UNCHANGED <<World, stage, Signals, pool, code>>

TakeConn(r) ==
  /\ req[r] = "conn"
  /\ IF pool = "closed" THEN Becomes(r, IF kind[r] = "task" THEN "noPool" ELSE "unavailable")
     ELSE ~PoolFull /\ Becomes(r, "query")

\* A handler may have more statements, and is given its answer by the last;
\* a hung database keeps it as long as it hangs.
Query(r) ==
  /\ kind[r] = "task" /\ req[r] = "query"
  /\ \/ db = "up" /\ Becomes(r, "conn")
     \/ db = "up" /\ Becomes(r, "ok")
     \/ db = "down" /\ Becomes(r, "error")

PingReturns(r) ==
  /\ kind[r] = "readyz" /\ req[r] = "query"
  /\ db # "hung"
  /\ Becomes(r, IF db = "up" THEN "ok" ELSE "unavailable")

\* Mutated: the ping's context is derived from the signal's.
PingTimesOut_OnSignal(r) ==
  /\ kind[r] = "readyz"
  /\ \/ req[r] = "conn" /\ pool = "open" /\ PoolFull
     \/ req[r] = "query" /\ db = "hung"
     \/ req[r] \in InFlight /\ signalled
  /\ Becomes(r, "unavailable")

\* Mutated: the ping has no time limit.
PingTimesOut_Never(r) == FALSE

\* Three seconds on a context of its own.
PingTimesOut(r) ==
  /\ kind[r] = "readyz"
  /\ \/ req[r] = "conn" /\ pool = "open" /\ PoolFull
     \/ req[r] = "query" /\ db = "hung"
  /\ Becomes(r, "unavailable")

Readyz(r) == kind[r] = "readyz" /\ (TakeConn(r) \/ PingReturns(r) \/ PingTimesOut(r))
Task(r) == kind[r] = "task" /\ (TakeConn(r) \/ Query(r))

Run ==
  \/ Load \/ Open \/ PingAtStart \/ AutoMigrateIfNeeded \/ Listen
  \/ ListenReturns \/ Close \/ Exit

\* Handlers run while the process does.
Handle ==
  /\ stage # "exited"
  /\ \E r \in Reqs : Accept(r) \/ Readyz(r) \/ Task(r)

Next == Run \/ OpenGivesUp \/ ListenFails \/ Signal \/ Kill \/ DatabaseChanges \/ Handle

\* The process is scheduled, fiber's goroutine and the timers with it; database, clients, signals and
\* task handlers are as they are.
FairRun == WF_vars(Run)
FairProbe(r) == WF_vars(stage # "exited" /\ Readyz(r))
Fairness == FairRun /\ \A r \in Reqs : FairProbe(r)

Spec == Init /\ [][Next]_vars /\ Fairness

-----------------------------------------------------------------------------
\* What serves in prod has none of the defaults made for development, though
\* two of the rules are checked at different stages of the start; and
\* whatever serves meets what the other modules assume of it: a pool with a
\* connection, limits in their order, a shutdown that waits.
ServesOnlyChecked ==
  stage = "serving" =>
    /\ cfg.DBMaxOpenConns > 0 /\ cfg.ShutdownGracePeriod > 0
    /\ 0 < cfg.AuthRateLimitPerMinute /\ cfg.AuthRateLimitPerMinute <= cfg.RateLimitPerMinute
    /\ cfg.TrustProxy => cfg.TrustProxyProxies # {}
    /\ cfg.AuthEnabled => cfg.AuthJWTSecret >= 32
    /\ IsProd(cfg) =>
         /\ cfg.DBDriver # "sqlite" /\ ~cfg.DBAutoMigrate
         /\ "*" \notin cfg.CORSAllowedOrigins
         /\ cfg.AuthEnabled => "admin123" # cfg.AuthDemoPassword

\* main.go:69-70: on the signal fiber accepts no more, and Listen returns when
\* the requests in flight are answered, or with an error when ShutdownTimeout
\* is over (README.md:13: the requests in flight are drained).  So an exit that
\* reports success has answered all it accepted, itself and not by way of the
\* pool closing under a handler.
SuccessAnswersAll ==
  code = "ok" => \A r \in Reqs : req[r] \notin {"noPool", "lost"}

\* No request is cut off before run has returned: neither serving nor a signal
\* that has come takes the pool from a handler (main.go:53-58, 71).
CutOffAtTheEndOnly ==
  (\E r \in Reqs : req[r] \in {"noPool", "lost"}) => code # "none"

\* A readyz that says the database is down has met a database that is, or a
\* pool with no connection left, full or closed; the signal alone is no reason.
UnavailableIsReal ==
  [][\A r \in Reqs : req[r] \in InFlight /\ req'[r] = "unavailable" =>
       db # "up" \/ PoolFull \/ pool = "closed"]_vars

\* run waits for an answer of the database, without a limit when it connects
\* and until a signal when it migrates, and for a signal when it serves, if it
\* did not miss it.
RunWaits ==
  \/ stage = "open" /\ db = "hung"
  \/ /\ stage = "migrate" /\ db = "hung" /\ ~signalled
     /\ cfg.DBAutoMigrate /\ ~(cfg.DBDriver # "sqlite" /\ IsProd(cfg))
  \/ stage = "serving" /\ (~signalled \/ missed)

\* run waits for that and for nothing else - no handler, no pool, no database
\* holds up its end - and a readyz for nothing at all: with the ping's three
\* seconds it always has a way on (main.go:32-80, database.go:74-84).
WaitsForNothingElse ==
  /\ stage # "exited" =>
       (RunWaits <=> ~ENABLED <<Run>>_vars)
  /\ \A r \in Reqs :
       kind[r] = "readyz" /\ req[r] \in InFlight =>
         ENABLED <<stage # "exited" /\ Readyz(r)>>_vars

\* SIGTERM ends the process although handlers or the database hang, but for
\* gorm.Open, which nothing can interrupt, and for a signal just before Serve
\* has its listener.
SignalEnds == (signalled /\ stage # "open") ~> (stage = "exited" \/ missed)

\* A probe is always answered, or the process ends: it waits neither for the
\* pool nor for the database longer than the ping's three seconds.
ProbeEnds ==
  \A r \in Reqs : (kind[r] = "readyz" /\ req[r] \in InFlight) ~> req[r] \in Outcomes

=============================================================================
