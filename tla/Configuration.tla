--------------------------- MODULE Configuration ---------------------------
(***************************************************************************)
(* internal/config/config.go: the settings read from the environment, once *)
(* at the start, and the rules Validate holds them to.  A secret is its    *)
(* length, a duration its seconds; the log level is in lower case.         *)
(***************************************************************************)
EXTENDS Integers

\* The envDefault tags.
Default ==
  [AppName |-> "go-fiber-starter", Env |-> "local", Port |-> 8080, LogLevel |-> "info",
   DBDriver |-> "sqlite", DBDSN |-> "data/app.db", DBMaxOpenConns |-> 25,
   DBMaxIdleConns |-> 5, DBAutoMigrate |-> TRUE, CORSAllowedOrigins |-> {"*"},
   RateLimitPerMinute |-> 120, AuthRateLimitPerMinute |-> 10,
   TrustProxy |-> FALSE, TrustProxyProxies |-> {}, TrustProxyHeader |-> "X-Forwarded-For",
   ReadTimeout |-> 15, WriteTimeout |-> 15, IdleTimeout |-> 60, ShutdownGracePeriod |-> 10,
   AuthEnabled |-> FALSE, AuthJWTSecret |-> 0, AuthTokenTTL |-> 3600,
   AuthDemoUsername |-> "admin", AuthDemoPassword |-> "admin123"]

\* An entry of TRUST_PROXY_PROXIES that is neither an address nor a network.
BadProxy == "not an address"

IsProd(c) == c.Env = "prod"

ValidServer(c) ==
  /\ c.AppName # ""
  /\ c.Port \in 1024..65535
  /\ c.Env \in {"local", "dev", "prod"}
  /\ c.LogLevel \in {"debug", "info", "warn", "error"}

ValidPeriods(c) ==
  \A d \in {c.ReadTimeout, c.WriteTimeout, c.IdleTimeout, c.ShutdownGracePeriod} : d > 0

ValidDatabase(c) ==
  /\ c.DBDriver \in {"postgres", "mysql", "sqlite"}
  /\ c.DBDSN # ""
  /\ ~(c.DBDriver = "sqlite" /\ IsProd(c))
  /\ c.DBMaxOpenConns >= 1
  /\ c.DBMaxIdleConns \in 0..c.DBMaxOpenConns

ValidLimits(c) ==
  /\ c.RateLimitPerMinute >= 1
  /\ c.AuthRateLimitPerMinute \in 1..c.RateLimitPerMinute

ValidOrigins(c) == IsProd(c) => "*" \notin c.CORSAllowedOrigins

ValidProxies(c) ==
  /\ c.TrustProxy <=> c.TrustProxyProxies # {}
  /\ BadProxy \notin c.TrustProxyProxies
  /\ c.TrustProxy => c.TrustProxyHeader # ""

ValidAuth(c) ==
  c.AuthEnabled =>
    /\ c.AuthJWTSecret >= 32
    /\ c.AuthTokenTTL > 0
    /\ IsProd(c) => /\ c.AuthDemoUsername # Default.AuthDemoUsername
                    /\ c.AuthDemoPassword # Default.AuthDemoPassword

\* Validate collects every problem; valid is to have none.
Validate(c) ==
  /\ ValidServer(c) /\ ValidPeriods(c) /\ ValidDatabase(c) /\ ValidLimits(c)
  /\ ValidOrigins(c) /\ ValidProxies(c) /\ ValidAuth(c)

=============================================================================
