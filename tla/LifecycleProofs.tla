--------------------------- MODULE LifecycleProofs ---------------------------
(***************************************************************************)
(* Proofs about Lifecycle: for any configurations and any number of        *)
(* requests, what serves was checked, nobody is cut off before run has     *)
(* returned, a signal that is not missed ends the process, and a probe is  *)
(* answered.                                                               *)
(***************************************************************************)
EXTENDS Lifecycle, TLAPS

\* What has passed Load is valid, what has passed migrate is not blocked.
Checked ==
  /\ stage \in {"open", "ping", "migrate", "listen", "serving"} => Validate(cfg)
  /\ stage \in {"listen", "serving"} =>
       ~(cfg.DBAutoMigrate /\ cfg.DBDriver # "sqlite" /\ IsProd(cfg))

\* The pool is there from the ping to the deferred Close.
PoolOfStage ==
  /\ stage \in {"load", "open", "ping"} => pool = "none"
  /\ stage \in {"migrate", "listen", "serving"} => pool = "open"
  /\ pool = "closed" => stage \in {"exiting", "exited"}

\* Nobody is turned away by the closing pool or lost before run has returned;
\* from then on it has a result.
RequestsOfStage ==
  /\ stage \in {"closing", "exiting", "exited"} => code # "none"
  /\ (\E r \in Reqs : req[r] \in {"noPool", "lost"}) => stage \in {"exiting", "exited"}

IInv == TypeOK /\ Checked /\ PoolOfStage /\ RequestsOfStage

USE DEF Goto, Return, Requests, World, Signals

\* A process starts with nothing open and nobody to answer.
LEMMA InitIInv == Init => IInv
BY DEF Init, IInv, TypeOK, Boot, Stages, InFlight, Outcomes, Checked, PoolOfStage,
       RequestsOfStage

\* The steps of run.
LEMMA RunStep == ASSUME IInv, Run PROVE IInv'
<1> USE DEF IInv, TypeOK, Boot, Stages, InFlight, Outcomes, Checked, PoolOfStage,
            RequestsOfStage
<1>1. CASE Load
  BY <1>1 DEF Load
<1>2. CASE Open
  BY <1>2 DEF Open
<1>3. CASE PingAtStart
  BY <1>3 DEF PingAtStart
<1>4. CASE AutoMigrateIfNeeded
  BY <1>4 DEF AutoMigrateIfNeeded
<1>5. CASE Listen
  <2>1. /\ stage = "listen" /\ stage' \in {"serving", "closing"}
        /\ stage' = "serving" => code' = code
        /\ stage' = "closing" => code' = "failed"
        /\ UNCHANGED <<cfg, signalled, db, pool, kind, req>>
    BY <1>5 DEF Listen
  <2>2. missed' \in BOOLEAN /\ (missed' => signalled')
    <3>1. CASE UNCHANGED missed
      BY <2>1, <3>1
    <3>2. CASE signalled /\ missed' = TRUE
      BY <2>1, <3>2
    <3> QED BY <1>5, <3>1, <3>2 DEF Listen
  <2> QED BY <2>1, <2>2
<1>6. CASE ListenReturns
  BY <1>6 DEF ListenReturns
<1>7. CASE Close
  BY <1>7 DEF Close
<1>8. CASE Exit
  BY <1>8 DEF Exit, Die
<1> QED BY <1>1, <1>2, <1>3, <1>4, <1>5, <1>6, <1>7, <1>8 DEF Run

\* The steps of the world around it.
LEMMA WorldStep ==
  ASSUME IInv, OpenGivesUp \/ ListenFails \/ Signal \/ Kill \/ DatabaseChanges
  PROVE  IInv'
<1> USE DEF IInv, TypeOK, Boot, Stages, InFlight, Outcomes, Checked, PoolOfStage,
            RequestsOfStage
<1>1. CASE OpenGivesUp
  BY <1>1 DEF OpenGivesUp
<1>2. CASE ListenFails
  BY <1>2 DEF ListenFails
<1>3. CASE Signal
  BY <1>3 DEF Signal
<1>4. CASE Kill
  BY <1>4 DEF Kill, Die
<1>5. CASE DatabaseChanges
  BY <1>5 DEF DatabaseChanges
<1> QED BY <1>1, <1>2, <1>3, <1>4, <1>5

\* The answers a request in flight may move to.
LEMMA HandlerStep ==
  ASSUME TypeOK, NEW r \in Reqs, Readyz(r) \/ Task(r)
  PROVE  \E s \in InFlight \cup {"ok", "error", "unavailable", "noPool"} :
           Becomes(r, s) /\ req[r] \in InFlight /\ (s = "noPool" => pool = "closed")
<1> USE DEF InFlight
<1>1. CASE TakeConn(r)
  BY <1>1 DEF TakeConn
<1>2. CASE PingReturns(r)
  BY <1>2 DEF PingReturns
<1>3. CASE PingTimesOut(r)
  <2>1. Becomes(r, "unavailable") /\ req[r] \in InFlight
    BY <1>3 DEF PingTimesOut
  <2> QED BY <2>1
<1>4. CASE Query(r)
  BY <1>4 DEF Query
<1> QED BY <1>1, <1>2, <1>3, <1>4 DEF Readyz, Task

\* Handlers answer their own request and nothing else.
LEMMA HandleStep == ASSUME IInv, Handle PROVE IInv'
<1> USE DEF IInv, TypeOK, Boot, Stages, InFlight, Outcomes, Checked, PoolOfStage,
            RequestsOfStage
<1>1. ASSUME NEW r \in Reqs, Accept(r) PROVE IInv'
  BY <1>1 DEF Accept
<1>2. ASSUME NEW r \in Reqs, Readyz(r) \/ Task(r) PROVE IInv'
  <2>1. PICK s \in InFlight \cup {"ok", "error", "unavailable", "noPool"} :
          Becomes(r, s) /\ req[r] \in InFlight /\ (s = "noPool" => pool = "closed")
    BY <1>2, HandlerStep
  <2>2. /\ UNCHANGED <<cfg, stage, signalled, missed, db, pool, kind, code>>
        /\ req' = [req EXCEPT ![r] = s]
    BY <2>1 DEF Becomes
  <2>3. TypeOK' /\ Checked' /\ PoolOfStage'
    BY <2>1, <2>2
  <2>4. s = "noPool" => stage \in {"exiting", "exited"}
    BY <2>1
  <2>5. RequestsOfStage'
    BY <2>1, <2>2, <2>4
  <2> QED BY <2>3, <2>5
<1> QED BY <1>1, <1>2 DEF Handle

\* The invariant is inductive.
LEMMA StepIInv == ASSUME IInv, [Next]_vars PROVE IInv'
<1>1. CASE UNCHANGED vars
  BY <1>1 DEF vars, IInv, TypeOK, Checked, PoolOfStage, RequestsOfStage
<1> QED BY <1>1, RunStep, WorldStep, HandleStep DEF Next

\* It holds as long as the process lives, and after.
THEOREM Invariant == Spec => []IInv
BY InitIInv, StepIInv, PTL DEF Spec

\* Every variable of the process has its type, and what serves has a pool.
THEOREM TypeCorrectness == Spec => []TypeOK
<1>1. IInv => TypeOK
  BY DEF IInv
<1> QED BY <1>1, Invariant, PTL

\* Whatever environment the process is started in: if it serves, it passed
\* Validate and the block of AutoMigrateIfNeeded.
THEOREM OnlyCheckedServes == Spec => []ServesOnlyChecked
<1>1. ASSUME IInv PROVE ServesOnlyChecked
  <2> SUFFICES ASSUME stage \in {"serving"} PROVE ServesOnlyChecked
    BY DEF ServesOnlyChecked
  <2>1. /\ Validate(cfg) /\ cfg \in Configs
        /\ ~(cfg.DBAutoMigrate /\ cfg.DBDriver # "sqlite" /\ IsProd(cfg))
    BY <1>1 DEF IInv, TypeOK, Checked
  <2>2. cfg.DBMaxOpenConns \in Int /\ cfg.ShutdownGracePeriod \in Int /\ cfg.RateLimitPerMinute \in Int
    BY <2>1, LifecycleAssumption
  <2>3. cfg.DBMaxOpenConns > 0 /\ cfg.ShutdownGracePeriod > 0
    <3>1. cfg.DBMaxOpenConns >= 1
      BY <2>1 DEF Validate, ValidDatabase
    <3>2. cfg.ShutdownGracePeriod > 0
      BY <2>1 DEF Validate, ValidPeriods
    <3> QED BY <2>2, <3>1, <3>2
  <2>4. 0 < cfg.AuthRateLimitPerMinute /\ cfg.AuthRateLimitPerMinute <= cfg.RateLimitPerMinute
    BY <2>1, <2>2 DEF Validate, ValidLimits
  <2>5. cfg.TrustProxy => cfg.TrustProxyProxies # {}
    BY <2>1 DEF Validate, ValidProxies
  <2>6. cfg.AuthEnabled => cfg.AuthJWTSecret >= 32
    BY <2>1 DEF Validate, ValidAuth
  <2>7. IsProd(cfg) => cfg.DBDriver # "sqlite" /\ ~cfg.DBAutoMigrate /\ "*" \notin cfg.CORSAllowedOrigins
    BY <2>1 DEF Validate, ValidDatabase, ValidOrigins
  <2>8. IsProd(cfg) /\ cfg.AuthEnabled => "admin123" # cfg.AuthDemoPassword
    BY <2>1 DEF Validate, ValidAuth, Default
  <2> QED BY <2>3, <2>4, <2>5, <2>6, <2>7, <2>8 DEF ServesOnlyChecked
<1> QED BY <1>1, Invariant, PTL

\* However many requests there are and whatever database and signals do, none
\* finds the pool closed or is lost before run has returned.
THEOREM NobodyCutOff == Spec => []CutOffAtTheEndOnly
<1>1. IInv => CutOffAtTheEndOnly
  BY DEF IInv, RequestsOfStage, CutOffAtTheEndOnly
<1> QED BY <1>1, Invariant, PTL

\* No readyz says the database is down because of a shutdown alone.
THEOREM UnavailableMeansIt == Spec => UnavailableIsReal
<1>1. ASSUME TypeOK, Next, NEW r \in Reqs, req[r] \in InFlight, req'[r] = "unavailable"
      PROVE  db # "up" \/ PoolFull \/ pool = "closed"
  <2>0. req[r] # "unavailable" /\ req \in [Reqs -> {"idle"} \cup InFlight \cup Outcomes]
    BY <1>1 DEF InFlight, TypeOK
  <2>1. CASE Run \/ OpenGivesUp \/ ListenFails \/ Signal \/ Kill \/ DatabaseChanges
    <3>1. req' = req \/ Die
      BY <2>1 DEF Run, Load, Open, PingAtStart, AutoMigrateIfNeeded, Listen, ListenReturns, Close, Exit, OpenGivesUp, ListenFails, Signal, Kill, DatabaseChanges
    <3> QED BY <1>1, <2>0, <3>1 DEF Die
  <2>2. CASE Handle
    <3>1. PICK q \in Reqs : Accept(q) \/ Readyz(q) \/ Task(q)
      BY <2>2 DEF Handle
    <3>2. CASE Accept(q)
      BY <1>1, <2>0, <3>2 DEF Accept
    <3>3. CASE TakeConn(q)
      BY <1>1, <2>0, <3>3 DEF TakeConn, Becomes
    <3>4. CASE PingReturns(q)
      BY <1>1, <2>0, <3>4 DEF PingReturns, Becomes
    <3>5. CASE PingTimesOut(q)
      <4>1. db # "up" \/ PoolFull
        BY <3>5 DEF PingTimesOut
      <4> QED BY <4>1
    <3>6. CASE Query(q)
      BY <1>1, <2>0, <3>6 DEF Query, Becomes
    <3> QED BY <3>1, <3>2, <3>3, <3>4, <3>5, <3>6 DEF Readyz, Task
  <2> QED BY <1>1, <2>1, <2>2 DEF Next
<1>2. ASSUME TypeOK, [Next]_vars
      PROVE  [\A r \in Reqs : req[r] \in InFlight /\ req'[r] = "unavailable" =>
                db # "up" \/ PoolFull \/ pool = "closed"]_vars
  BY <1>1, <1>2
<1> QED BY <1>2, TypeCorrectness, PTL DEF Spec, UnavailableIsReal

-----------------------------------------------------------------------------
(***************************************************************************)
(* Liveness.  The prover knows nothing of ENABLED but its name, so fairness*)
(* is used through WaitsForNothingElse, which says when the fair steps are *)
(* possible: TLC checks it, and RunHasAStep and ProbeHasAStep below give a *)
(* next state wherever it promises one.                                    *)
(***************************************************************************)
Place(s) ==
  CASE s = "load" -> 0 [] s = "open" -> 1 [] s = "ping" -> 2 [] s = "migrate" -> 3
    [] s = "listen" -> 4 [] s = "serving" -> 5 [] s = "closing" -> 6
    [] s = "exiting" -> 7 [] s = "exited" -> 8

\* run only moves on, a signal is never forgotten, and none is there before
\* NotifyContext.
LEMMA MovesOn ==
  ASSUME TypeOK, [Next]_vars
  PROVE  /\ Place(stage') >= Place(stage)
         /\ signalled => signalled'
         /\ Run => Place(stage') > Place(stage)
         /\ (stage = "load" => ~signalled) => (stage' = "load" => ~signalled')
<1> USE DEF TypeOK, Stages, Boot
<1>0. /\ Place(stage) \in Int
      /\ stage' \in Stages => Place(stage') \in Int
  BY DEF Place
<1>1. CASE Run
  <2>1. signalled' = signalled
    BY <1>1 DEF Run, Load, Open, PingAtStart, AutoMigrateIfNeeded, Listen, ListenReturns, Close, Exit
  <2>2. \/ stage = "load" /\ stage' \in {"open", "closing"}
        \/ stage = "open" /\ stage' \in {"ping", "closing"}
        \/ stage = "ping" /\ stage' \in {"migrate", "closing"}
        \/ stage = "migrate" /\ stage' \in {"listen", "closing"}
        \/ stage = "listen" /\ stage' \in {"serving", "closing"}
        \/ stage = "serving" /\ stage' = "closing"
        \/ stage = "closing" /\ stage' = "exiting"
        \/ stage = "exiting" /\ stage' = "exited"
    BY <1>1 DEF Run, Load, Open, PingAtStart, AutoMigrateIfNeeded, Listen, ListenReturns, Close, Exit
  <2>3. Place(stage') > Place(stage) /\ stage' \in Stages \ {"load"}
    BY <2>2 DEF Place
  <2> QED BY <1>0, <2>1, <2>3
<1>2. ASSUME ~Run, \/ UNCHANGED <<stage, signalled>>
                   \/ stage' \in {"closing", "exited"} /\ Place(stage') > Place(stage)
                      /\ signalled' = signalled
                   \/ stage' = stage /\ stage # "load" /\ signalled'
      PROVE  /\ Place(stage') >= Place(stage)
             /\ signalled => signalled'
             /\ (stage = "load" => ~signalled) => (stage' = "load" => ~signalled')
  BY <1>0, <1>2
<1>3. CASE ~Run
  <2>1. CASE OpenGivesUp \/ ListenFails
    BY <1>2, <1>3, <2>1 DEF OpenGivesUp, ListenFails, Place
  <2>2. CASE Kill
    <3>1. stage # "exited" /\ stage' = "exited" /\ signalled' = signalled
      BY <2>2 DEF Kill
    <3>2. Place(stage') > Place(stage)
      BY <3>1 DEF Place
    <3> QED BY <1>2, <1>3, <3>1, <3>2
  <2>3. CASE Signal
    BY <1>2, <1>3, <2>3 DEF Signal
  <2>4. CASE DatabaseChanges
    BY <1>2, <1>3, <2>4 DEF DatabaseChanges
  <2>5. CASE Handle
    <3>1. UNCHANGED <<stage, signalled>>
      BY <2>5 DEF Handle, Accept, Readyz, Task, TakeConn, Query, PingReturns, PingTimesOut, Becomes
    <3> QED BY <1>2, <1>3, <3>1
  <2>6. CASE UNCHANGED vars
    BY <1>2, <1>3, <2>6 DEF vars
  <2> QED BY <1>3, <2>1, <2>2, <2>3, <2>4, <2>5, <2>6 DEF Next
<1> QED BY <1>1, <1>3

\* A state run can go to from here, value by value.
NextStage ==
  CASE stage = "load"     -> IF Validate(cfg) THEN "open" ELSE "closing"
    [] stage = "open"     -> IF db = "up" THEN "ping" ELSE "closing"
    [] stage = "migrate"  -> IF cfg.DBAutoMigrate THEN "closing" ELSE "listen"
    [] stage = "listen"   -> "serving"
    [] stage = "closing"  -> "exiting"
    [] stage = "exiting"  -> "exited"
    [] OTHER              -> "closing"
NextCode ==
  IF NextStage # "closing" THEN code ELSE IF stage = "serving" THEN "ok" ELSE "failed"
NextPool == IF stage = "closing" /\ pool = "open" THEN "closed" ELSE pool
NextReq ==
  IF stage = "exiting" THEN [r \in Reqs |-> IF req[r] \in InFlight THEN "lost" ELSE req[r]]
  ELSE req

\* Where run does not wait it has a step: these values of the next state make
\* one.  This is the ENABLED of WaitsForNothingElse, with its witness.  The
\* migration that would succeed now may always fail instead.
THEOREM RunHasAStep ==
  ASSUME TypeOK, stage # "exited", ~RunWaits,
         cfg' = cfg, stage' = NextStage, signalled' = signalled, missed' = missed, db' = db,
         pool' = NextPool, kind' = kind, req' = NextReq, code' = NextCode
  PROVE  <<Run>>_vars
<1> USE DEF NextStage, NextCode, NextPool, NextReq, RunWaits, Goto, Return, World, Requests
<1>1. stage' # stage
  BY DEF TypeOK, Stages, Boot
<1>2. ASSUME stage = "load" PROVE Load
  BY <1>2 DEF Load
<1>3. ASSUME stage = "open" PROVE Open
  BY <1>3 DEF Open, TypeOK
<1>4. ASSUME stage = "ping" PROVE PingAtStart
  BY <1>4 DEF PingAtStart, TypeOK
<1>5. ASSUME stage = "migrate" PROVE AutoMigrateIfNeeded
  BY <1>5 DEF AutoMigrateIfNeeded, TypeOK
<1>6. ASSUME stage = "listen" PROVE Listen
  BY <1>6 DEF Listen
<1>7. ASSUME stage = "serving" PROVE ListenReturns
  BY <1>7 DEF ListenReturns
<1>8. ASSUME stage = "closing" PROVE Close
  BY <1>8 DEF Close
<1>9. ASSUME stage = "exiting" PROVE Exit
  BY <1>9 DEF Exit, Die
<1>10. Run
  BY <1>2, <1>3, <1>4, <1>5, <1>6, <1>7, <1>8, <1>9 DEF Run, TypeOK, Stages, Boot
<1> QED BY <1>1, <1>10 DEF vars

\* And where it waits it has none: only the database or a signal lets run go
\* on, or what ends it from outside.
THEOREM WaitingRunStays ==
  ASSUME RunWaits
  PROVE  ~Run
<1> SUFFICES ASSUME Run PROVE FALSE
  OBVIOUS
<1> QED BY DEF RunWaits, Run, Load, Open, PingAtStart, AutoMigrateIfNeeded, Listen, ListenReturns, Close, Exit

\* Whoever is in flight has a process and a pool, open or closed.
InFlightLives ==
  (\E r \in Reqs : req[r] \in InFlight) => pool # "none" /\ stage # "exited"

LEMMA InFlightHavePool == Spec => []InFlightLives
<1> USE DEF InFlightLives, InFlight
<1>1. Init => InFlightLives
  BY DEF Init
<1>2. ASSUME IInv, InFlightLives, [Next]_vars PROVE InFlightLives'
  <2> USE DEF IInv, TypeOK, PoolOfStage
  <2>1. CASE Run
    BY <1>2, <2>1 DEF Run, Load, Open, PingAtStart, AutoMigrateIfNeeded, Listen, ListenReturns, Close, Exit, Die
  <2>2. CASE OpenGivesUp \/ ListenFails \/ Signal \/ Kill \/ DatabaseChanges
    BY <1>2, <2>2 DEF OpenGivesUp, ListenFails, Signal, Kill, DatabaseChanges, Die
  <2>3. CASE Handle
    <3>1. PICK q \in Reqs : Accept(q) \/ Readyz(q) \/ Task(q)
      BY <2>3 DEF Handle
    <3>2. CASE Accept(q)
      BY <1>2, <3>2 DEF Accept
    <3>3. CASE Readyz(q) \/ Task(q)
      <4>1. req[q] \in InFlight /\ UNCHANGED <<pool, stage>>
        BY <1>2, <3>3, HandlerStep DEF Becomes
      <4> QED BY <1>2, <4>1
    <3> QED BY <3>1, <3>2, <3>3
  <2>4. CASE UNCHANGED vars
    BY <1>2, <2>4 DEF vars
  <2> QED BY <1>2, <2>1, <2>2, <2>3, <2>4 DEF Next
<1> QED BY <1>1, <1>2, Invariant, PTL DEF Spec

\* How a readyz can go on: with a connection if there is one, else with the
\* answer of a closed pool, of the database, or of the ping's three seconds.
ProbeGoes(r) ==
  IF req[r] = "conn" /\ pool = "open" /\ ~PoolFull THEN "query"
  ELSE IF req[r] = "query" /\ db = "up" THEN "ok" ELSE "unavailable"

\* A readyz in flight always has a step: the ENABLED of WaitsForNothingElse,
\* with its witness.
THEOREM ProbeHasAStep ==
  ASSUME TypeOK, InFlightLives, NEW r \in Reqs, kind[r] = "readyz", req[r] \in InFlight,
         cfg' = cfg, stage' = stage, signalled' = signalled, missed' = missed,
         db' = db, pool' = pool,
         kind' = kind, req' = [req EXCEPT ![r] = ProbeGoes(r)], code' = code
  PROVE  <<stage # "exited" /\ Readyz(r)>>_vars
<1>1. /\ stage # "exited" /\ pool \in {"open", "closed"}
      /\ req[r] \in {"conn", "query"} /\ db \in {"up", "down", "hung"}
      /\ req'[r] = ProbeGoes(r)
  BY DEF TypeOK, InFlightLives, InFlight
<1>2. req'[r] # req[r]
  BY <1>1 DEF ProbeGoes
<1>3. Becomes(r, ProbeGoes(r))
  BY DEF Becomes
<1>4. ASSUME req[r] = "conn" PROVE Readyz(r)
  BY <1>1, <1>3, <1>4 DEF Readyz, TakeConn, PingTimesOut, ProbeGoes, InFlight
<1>5. ASSUME req[r] = "query" PROVE Readyz(r)
  BY <1>1, <1>3, <1>5 DEF Readyz, PingReturns, PingTimesOut, ProbeGoes, InFlight
<1> QED BY <1>1, <1>2, <1>4, <1>5 DEF vars

\* A process that got the signal at a stage s, and one that is further.
At(s) == signalled /\ stage = s
Beyond(s) == signalled /\ Place(stage) > Place(s)
Leaves(s) == At(s) ~> (Beyond(s) \/ missed)

\* SIGTERM moves run on from any stage but those before NotifyContext and
\* within gorm.Open, unless it was missed.
LEMMA StageIsLeft ==
  ASSUME NEW s \in {"ping", "migrate", "listen", "serving", "closing", "exiting"}
  PROVE  Spec /\ []WaitsForNothingElse => Leaves(s)
<1>1. IInv /\ At(s) /\ [Next]_vars => At(s)' \/ Beyond(s)'
  <2> SUFFICES ASSUME IInv, At(s), [Next]_vars, stage' # stage
               PROVE  Beyond(s)'
    BY MovesOn DEF At, IInv
  <2>1. stage \in Stages /\ stage' \in Stages
    BY StepIInv DEF IInv, TypeOK
  <2>2. Place(stage') # Place(stage) /\ Place(stage) \in Int /\ Place(stage') \in Int
    BY <2>1 DEF Place, Stages, Boot
  <2>3. Place(stage') >= Place(stage) /\ signalled'
    BY MovesOn DEF At, IInv
  <2>4. Place(stage') > Place(s)
    BY <2>2, <2>3 DEF At
  <2> QED BY <2>3, <2>4 DEF Beyond
<1>2. TypeOK /\ At(s) /\ <<Run>>_vars => Beyond(s)'
  BY MovesOn DEF At, Beyond, Next
<1>3. WaitsForNothingElse /\ At(s) /\ ~missed => ENABLED <<Run>>_vars
  BY DEF WaitsForNothingElse, RunWaits, At
<1> QED BY <1>1, <1>2, <1>3, Invariant, TypeCorrectness, PTL DEF Spec, Fairness, FairRun, Leaves

\* SIGTERM ends the process, whatever handlers and the database do, unless it
\* comes while gorm.Open waits or just before Serve has its listener.
THEOREM SignalMeansEnd == Spec /\ []WaitsForNothingElse => SignalEnds
<1>1. Spec => [](stage = "load" => ~signalled)
  <2>1. Init => (stage = "load" => ~signalled)
    BY DEF Init
  <2>2. TypeOK /\ (stage = "load" => ~signalled) /\ [Next]_vars => (stage = "load" => ~signalled)'
    BY MovesOn
  <2> QED BY <2>1, <2>2, TypeCorrectness, PTL DEF Spec
<1>2. TypeOK /\ (stage = "load" => ~signalled) /\ signalled /\ stage # "open" =>
        \/ At("ping") \/ At("migrate") \/ At("listen") \/ At("serving")
        \/ At("closing") \/ At("exiting") \/ stage = "exited"
  BY DEF TypeOK, Stages, Boot, At
<1>3. /\ TypeOK /\ Beyond("ping") => At("migrate") \/ Beyond("migrate")
      /\ TypeOK /\ Beyond("migrate") => At("listen") \/ Beyond("listen")
      /\ TypeOK /\ Beyond("listen") => At("serving") \/ Beyond("serving")
      /\ TypeOK /\ Beyond("serving") => At("closing") \/ Beyond("closing")
      /\ TypeOK /\ Beyond("closing") => At("exiting") \/ Beyond("exiting")
      /\ TypeOK /\ Beyond("exiting") => stage = "exited"
  <2> USE DEF TypeOK, Stages, Boot, At, Beyond, Place
  <2>1. TypeOK /\ Beyond("ping") => At("migrate") \/ Beyond("migrate")
    OBVIOUS
  <2>2. TypeOK /\ Beyond("migrate") => At("listen") \/ Beyond("listen")
    OBVIOUS
  <2>3. TypeOK /\ Beyond("listen") => At("serving") \/ Beyond("serving")
    OBVIOUS
  <2>4. TypeOK /\ Beyond("serving") => At("closing") \/ Beyond("closing")
    OBVIOUS
  <2>5. TypeOK /\ Beyond("closing") => At("exiting") \/ Beyond("exiting")
    OBVIOUS
  <2>6. TypeOK /\ Beyond("exiting") => stage = "exited"
    OBVIOUS
  <2> QED BY <2>1, <2>2, <2>3, <2>4, <2>5, <2>6
<1>4. Spec /\ []WaitsForNothingElse => Leaves("ping")
  BY StageIsLeft
<1>5. Spec /\ []WaitsForNothingElse => Leaves("migrate")
  BY StageIsLeft
<1>6. Spec /\ []WaitsForNothingElse => Leaves("listen")
  BY StageIsLeft
<1>7. Spec /\ []WaitsForNothingElse => Leaves("serving")
  BY StageIsLeft
<1>8. Spec /\ []WaitsForNothingElse => Leaves("closing")
  BY StageIsLeft
<1>9. Spec /\ []WaitsForNothingElse => Leaves("exiting")
  BY StageIsLeft
<1> QED BY <1>1, <1>2, <1>3, <1>4, <1>5, <1>6, <1>7, <1>8, <1>9, TypeCorrectness,
           PTL DEF SignalEnds, Leaves

\* A readyz that waits for a connection, or has one.
Probes(r, s) == kind[r] = "readyz" /\ req[r] = s
Answered(r) == req[r] \in Outcomes

\* A readyz goes from its connection to its answer, and its own steps do not
\* leave it where it is.
LEMMA ProbeMovesOn ==
  ASSUME TypeOK, [Next]_vars, NEW r \in Reqs, kind[r] = "readyz", req[r] \in InFlight
  PROVE  /\ kind'[r] = "readyz"
         /\ \/ req'[r] = req[r]
            \/ req[r] = "conn" /\ req'[r] = "query"
            \/ req'[r] \in Outcomes
         /\ Readyz(r) => req'[r] # req[r]
<1> USE DEF TypeOK, InFlight, Outcomes
<1>1. CASE Readyz(r)
  <2>1. ASSUME NEW s \in {"query", "ok", "unavailable"}, Becomes(r, s)
        PROVE  kind' = kind /\ req'[r] = s
    BY <2>1 DEF Becomes
  <2>2. CASE TakeConn(r)
    BY <2>1, <2>2 DEF TakeConn
  <2>3. CASE PingReturns(r)
    BY <2>1, <2>3 DEF PingReturns
  <2>4. CASE PingTimesOut(r)
    BY <2>1, <2>4 DEF PingTimesOut
  <2> QED BY <1>1, <2>2, <2>3, <2>4 DEF Readyz
<1>2. CASE ~Readyz(r)
  <2>1. CASE Run \/ OpenGivesUp \/ ListenFails \/ Signal \/ Kill \/ DatabaseChanges
    <3>1. kind' = kind /\ (req' = req \/ Die)
      BY <2>1 DEF Run, Load, Open, PingAtStart, AutoMigrateIfNeeded, Listen, ListenReturns, Close, Exit, OpenGivesUp, ListenFails, Signal, Kill, DatabaseChanges
    <3> QED BY <1>2, <3>1 DEF Die
  <2>2. CASE Handle
    <3>1. PICK q \in Reqs : Accept(q) \/ Readyz(q) \/ Task(q)
      BY <2>2 DEF Handle
    <3>2. CASE Accept(q)
      BY <1>2, <3>2 DEF Accept
    <3>3. CASE Readyz(q) \/ Task(q)
      <4>1. q # r
        BY <1>2, <3>3 DEF Task
      <4>2. PICK s : Becomes(q, s)
        BY <3>3, HandlerStep
      <4> QED BY <1>2, <4>1, <4>2 DEF Becomes
    <3> QED BY <3>1, <3>2, <3>3
  <2>3. CASE UNCHANGED vars
    BY <1>2, <2>3 DEF vars
  <2> QED BY <2>1, <2>2, <2>3 DEF Next
<1> QED BY <1>1, <1>2

\* Every readyz is answered, whatever the database, the pool and the other
\* handlers do, or the process ends.
THEOREM EveryProbeEnds == Spec /\ []WaitsForNothingElse => ProbeEnds
<1> SUFFICES ASSUME NEW r \in Reqs
             PROVE  Spec /\ []WaitsForNothingElse =>
                      ((kind[r] = "readyz" /\ req[r] \in InFlight) ~> req[r] \in Outcomes)
  BY DEF ProbeEnds
<1>1. Spec => FairProbe(r)
  BY DEF Spec, Fairness
<1>2. TypeOK /\ Probes(r, "conn") /\ [Next]_vars =>
        Probes(r, "conn")' \/ Probes(r, "query")' \/ Answered(r)'
  BY ProbeMovesOn DEF Probes, Answered, InFlight
<1>3. TypeOK /\ Probes(r, "conn") /\ <<stage # "exited" /\ Readyz(r)>>_vars /\ [Next]_vars =>
        Probes(r, "query")' \/ Answered(r)'
  BY ProbeMovesOn DEF Probes, Answered, InFlight
<1>4. TypeOK /\ Probes(r, "query") /\ [Next]_vars => Probes(r, "query")' \/ Answered(r)'
  BY ProbeMovesOn DEF Probes, Answered, InFlight
<1>5. TypeOK /\ Probes(r, "query") /\ <<stage # "exited" /\ Readyz(r)>>_vars /\ [Next]_vars =>
        Answered(r)'
  BY ProbeMovesOn DEF Probes, Answered, InFlight
<1>6. /\ kind[r] = "readyz" /\ req[r] \in InFlight <=> Probes(r, "conn") \/ Probes(r, "query")
      /\ req[r] \in Outcomes <=> Answered(r)
  BY DEF Probes, Answered, InFlight
<1>7. WaitsForNothingElse /\ (Probes(r, "conn") \/ Probes(r, "query")) =>
        ENABLED <<stage # "exited" /\ Readyz(r)>>_vars
  BY DEF WaitsForNothingElse, Probes, InFlight
<1> QED BY <1>1, <1>2, <1>3, <1>4, <1>5, <1>6, <1>7, TypeCorrectness, PTL DEF Spec, FairProbe

=============================================================================
