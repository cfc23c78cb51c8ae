------------------------------- MODULE Tokens -------------------------------
(***************************************************************************)
(* The tokens of internal/modules/auth: any instance issues them at login, *)
(* any instance accepts them, by its own clock and its own secret.         *)
(* Nothing is stored; a token ends by its expiry or by a restart with      *)
(* another AUTH_JWT_SECRET.  A client keeps the token and the expires_at   *)
(* it was told.                                                            *)
(*                                                                         *)
(* Time passes in ticks, several to a second: expires_at has them, the     *)
(* token's exp is in whole seconds (jwt.NewNumericDate truncates).         *)
(***************************************************************************)
EXTENDS Naturals

CONSTANTS
  Instances,
  Clients,
  Secrets,   \* values of AUTH_JWT_SECRET
  Second,    \* ticks in a second
  TTLs,      \* values of AUTH_TOKEN_TTL, in ticks
  MaxSkew,   \* how far the clocks of two instances differ
  MaxTime,   \* bound of the clocks
  NoToken

ASSUME TokensAssumption ==
  /\ Second \in Nat \ {0}
  /\ TTLs \subseteq Nat \ {0}  \* config.Validate
  /\ MaxTime \in Nat /\ MaxSkew \in 0..MaxTime

VARIABLES
  clock,   \* clock[i]: what time.Now tells i
  secret,  \* secret[i]: the secret i was started with
  ttl,     \* AUTH_TOKEN_TTL of the deployment
  held,    \* held[c]: what c keeps of its last login
  answer   \* answer[c]: how its last request was answered

vars == <<clock, secret, ttl, held, answer>>

Times == 0..MaxTime
Token == [secret : Secrets, issuer : Instances, exp : Nat, expiresAt : Nat]

\* What the client is told is the token's expiry, up to the part of a second
\* that exp lost.
TypeOK ==
  /\ clock \in [Instances -> Times]
  /\ \A i, j \in Instances : clock[i] <= clock[j] + MaxSkew
  /\ secret \in [Instances -> Secrets]
  /\ ttl \in TTLs
  /\ held \in [Clients -> Token \cup {NoToken}]
  /\ \A c \in Clients : held[c] # NoToken =>
       held[c].exp <= held[c].expiresAt /\ held[c].expiresAt < held[c].exp + Second
  /\ answer \in [Clients -> {"none", "ok", "unauthorized", "invalid credential"}]

Init ==
  /\ clock \in [Instances -> 0..MaxSkew]
  /\ \E s \in Secrets : secret = [i \in Instances |-> s]
  /\ ttl \in TTLs
  /\ held = [c \in Clients |-> NoToken]
  /\ answer = [c \in Clients |-> "none"]

-----------------------------------------------------------------------------
Tick(i) ==
  /\ clock[i] < MaxTime
  /\ \A j \in Instances : clock[i] + 1 <= clock[j] + MaxSkew
  /\ clock' = [clock EXCEPT ![i] = @ + 1]
  /\ UNCHANGED <<secret, ttl, held, answer>>

\* A restart, which may bring another secret; tokens outlive it or not.
Restart(i) ==
  /\ \E s \in Secrets : secret' = [secret EXCEPT ![i] = s]
  /\ UNCHANGED <<clock, ttl, held, answer>>

\* Mutated: to the nearest second.
NewNumericDate_Nearest(t) == ((t + Second \div 2) \div Second) * Second

NewNumericDate(t) == (t \div Second) * Second

\* Mutated: the lifetime counts from iat, which is in whole seconds.
Issued_FromIssuedAt(i) ==
  LET expiresAt == clock[i] + ttl
  IN [secret |-> secret[i], issuer |-> i,
      exp |-> NewNumericDate(NewNumericDate(clock[i]) + ttl), expiresAt |-> expiresAt]

\* The claims of a login at i, and the expires_at of its response.
Issued(i) ==
  LET expiresAt == clock[i] + ttl
  IN [secret |-> secret[i], issuer |-> i,
      exp |-> NewNumericDate(expiresAt), expiresAt |-> expiresAt]

\* demoAuthenticator compares both, and tells not which one was wrong.
Login(c, i) ==
  /\ \E userOK, passOK \in BOOLEAN :
       IF userOK /\ passOK
       THEN /\ held' = [held EXCEPT ![c] = Issued(i)]
            /\ answer' = [answer EXCEPT ![c] = "ok"]
       ELSE /\ held' = held
            /\ answer' = [answer EXCEPT ![c] = "invalid credential"]
  /\ UNCHANGED <<clock, secret, ttl>>

\* Mutated: a clock behind the issuer's finds the token too young.
Verify_IssuedAt(i, t) ==
  /\ t.secret = secret[i] /\ clock[i] < t.exp
  /\ clock[i] + ttl >= t.expiresAt

\* ParseWithClaims: the signature by the secret of i, exp by its clock; iat
\* is not looked at.
Verify(i, t) == t.secret = secret[i] /\ clock[i] < t.exp

\* RequireAuth: no Bearer token, one that fails, or on to the handler.
RequireAuth(c, i) ==
  /\ answer' = [answer EXCEPT ![c] =
       IF held[c] # NoToken /\ Verify(i, held[c]) THEN "ok" ELSE "unauthorized"]
  /\ UNCHANGED <<clock, secret, ttl, held>>

Next ==
  \/ \E i \in Instances : Tick(i) \/ Restart(i)
  \/ \E c \in Clients, i \in Instances : Login(c, i) \/ RequireAuth(c, i)

Spec == Init /\ [][Next]_vars

-----------------------------------------------------------------------------
\* No instance accepts a token at the expires_at its client was told or
\* later, by its own clock, nor later than the skew by the clock of the
\* issuer, whatever was restarted in between.
AcceptedInTime ==
  [][\A c \in Clients, i \in Instances :
       RequireAuth(c, i) /\ answer'[c] = "ok" =>
         /\ clock[i] < held[c].expiresAt
         /\ clock[held[c].issuer] < held[c].expiresAt + MaxSkew]_vars

\* A token meets a refusal in its lifetime only from an instance with another
\* secret, or in its last second: a client that logs in again one second and
\* the skew before expires_at is never refused, at any instance, from the
\* instant of its login if the lifetime is longer than that.
RefusedWhenDue ==
  [][\A c \in Clients, i \in Instances :
       /\ RequireAuth(c, i) /\ answer'[c] = "unauthorized" /\ held[c] # NoToken
       /\ held[c].secret = secret[i]
       => /\ clock[i] + Second > held[c].expiresAt
          /\ clock[held[c].issuer] + Second + MaxSkew > held[c].expiresAt]_vars

=============================================================================
