---------------------------- MODULE MCLifecycle ----------------------------
(***************************************************************************)
(* Instances of Lifecycle for TLC: the defaults, two deployments that      *)
(* serve, and for every rule of Validate, and for the block of             *)
(* AutoMigrateIfNeeded, a configuration that breaks it.                    *)
(***************************************************************************)
EXTENDS Lifecycle

CONSTANTS r1, r2, r3

Prod ==
  [Default EXCEPT !.Env = "prod", !.DBDriver = "postgres", !.DBDSN = "postgres://db",
                  !.DBMaxOpenConns = 1, !.DBMaxIdleConns = 1, !.DBAutoMigrate = FALSE,
                  !.CORSAllowedOrigins = {"https://app"}, !.AuthEnabled = TRUE,
                  !.AuthJWTSecret = 32, !.AuthDemoUsername = "ops",
                  !.AuthDemoPassword = "long enough"]

Dev == [Default EXCEPT !.Env = "dev", !.DBDriver = "mysql", !.DBDSN = "tcp(db)",
                       !.DBMaxOpenConns = 2, !.DBMaxIdleConns = 0]

Broken == {
  [Default EXCEPT !.Env = "prod"],
  [Prod EXCEPT !.AppName = ""], [Prod EXCEPT !.Port = 1023], [Prod EXCEPT !.Env = "test"],
  [Prod EXCEPT !.LogLevel = "trace"], [Prod EXCEPT !.DBDriver = "oracle"],
  [Prod EXCEPT !.DBDSN = ""], [Prod EXCEPT !.DBDriver = "sqlite"],
  [Prod EXCEPT !.DBMaxOpenConns = 0, !.DBMaxIdleConns = 0],
  [Prod EXCEPT !.DBMaxIdleConns = 2], [Prod EXCEPT !.DBMaxIdleConns = -1],
  [Prod EXCEPT !.RateLimitPerMinute = 0, !.AuthRateLimitPerMinute = 0],
  [Prod EXCEPT !.AuthRateLimitPerMinute = 121], [Prod EXCEPT !.AuthRateLimitPerMinute = 0],
  [Prod EXCEPT !.CORSAllowedOrigins = {"*", "https://app"}],
  [Prod EXCEPT !.TrustProxy = TRUE], [Prod EXCEPT !.TrustProxyProxies = {"10.0.0.1"}],
  [Prod EXCEPT !.TrustProxy = TRUE, !.TrustProxyProxies = {"10.0.0.1", BadProxy}],
  [Prod EXCEPT !.TrustProxy = TRUE, !.TrustProxyProxies = {"10.0.0.1"}, !.TrustProxyHeader = ""],
  [Prod EXCEPT !.AuthJWTSecret = 31], [Prod EXCEPT !.AuthTokenTTL = 0],
  [Prod EXCEPT !.AuthDemoUsername = "admin"], [Prod EXCEPT !.AuthDemoPassword = "admin123"],
  [Prod EXCEPT !.ShutdownGracePeriod = 0], [Prod EXCEPT !.ReadTimeout = 0],
  [Prod EXCEPT !.WriteTimeout = 0], [Prod EXCEPT !.IdleTimeout = 0],
  [Prod EXCEPT !.DBAutoMigrate = TRUE]}

AllConfigs == {Default, Prod, Dev} \cup Broken

\* Validate refuses each of them but the one AutoMigrateIfNeeded blocks.
ASSUME BrokenAreBroken ==
  /\ \A c \in {Default, Prod, Dev} : Validate(c)
  /\ {c \in Broken : Validate(c)} = {[Prod EXCEPT !.DBAutoMigrate = TRUE]}

=============================================================================
