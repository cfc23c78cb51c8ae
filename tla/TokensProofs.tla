---------------------------- MODULE TokensProofs ----------------------------
(***************************************************************************)
(* Proofs about Tokens: for every lifetime, precision of the clocks, skew  *)
(* and number of instances, a token is accepted no later and refused no    *)
(* earlier than its client was told.                                       *)
(***************************************************************************)
EXTENDS Tokens, TLAPS

\* The constants as numbers.
LEMMA Numbers ==
  /\ Second \in Nat /\ Second > 0
  /\ \A n \in TTLs : n \in Nat
  /\ MaxTime \in Nat /\ MaxSkew \in Nat /\ MaxSkew <= MaxTime
BY TokensAssumption

\* Truncating to seconds loses less than a second.
LEMMA TruncatedToSeconds ==
  ASSUME NEW t \in Nat
  PROVE  /\ NewNumericDate(t) \in Nat
         /\ NewNumericDate(t) <= t
         /\ t < NewNumericDate(t) + Second
BY Numbers DEF NewNumericDate

\* A login gives a token whose exp and expires_at fit.
LEMMA IssuedToken ==
  ASSUME TypeOK, NEW i \in Instances
  PROVE  /\ Issued(i) \in Token
         /\ Issued(i).exp <= Issued(i).expiresAt
         /\ Issued(i).expiresAt < Issued(i).exp + Second
<1>1. clock[i] + ttl \in Nat
  <2>1. clock[i] \in 0..MaxTime /\ ttl \in Nat
    BY Numbers DEF TypeOK, Times
  <2> QED BY <2>1
<1> DEFINE e == clock[i] + ttl
<1> HIDE DEF e
<1>2. NewNumericDate(e) \in Nat /\ NewNumericDate(e) <= e /\ e < NewNumericDate(e) + Second
  BY <1>1, TruncatedToSeconds DEF e
<1>3. Issued(i) = [secret |-> secret[i], issuer |-> i, exp |-> NewNumericDate(e), expiresAt |-> e]
  BY DEF Issued, e
<1>4. secret[i] \in Secrets /\ e \in Nat
  BY <1>1 DEF TypeOK, e
<1> QED BY <1>2, <1>3, <1>4 DEF Token

\* A tick of a clock that is not at the bound, and the clocks behind it.
LEMMA OneTick ==
  ASSUME NEW t \in 0..MaxTime, t < MaxTime
  PROVE  t + 1 \in 0..MaxTime /\ \A u \in 0..MaxTime : u <= t + MaxSkew => u <= (t + 1) + MaxSkew
BY Numbers

\* A clock is within the skew of itself.
LEMMA OwnSkew == \A t \in 0..MaxTime : t <= t + MaxSkew
BY Numbers

\* The clocks start within the skew.
LEMMA InitType == Init => TypeOK
BY Numbers DEF Init, TypeOK, Times

\* Types, the skew and the second of exp outlive every step.
LEMMA StepType == ASSUME TypeOK, [Next]_vars PROVE TypeOK'
<1> USE DEF TypeOK, Times
<1>1. CASE UNCHANGED vars
  BY <1>1 DEF vars
<1>2. ASSUME NEW i \in Instances, Tick(i) PROVE TypeOK'
  <2> DEFINE now == clock[i] + 1
  <2>1. clock \in [Instances -> 0..MaxTime]
    OBVIOUS
  <2>2. clock' = [clock EXCEPT ![i] = now]
    BY <1>2 DEF Tick
  <2>3. \A k \in Instances : now <= clock[k] + MaxSkew
    BY <1>2 DEF Tick
  <2>4. clock[i] \in 0..MaxTime /\ clock[i] < MaxTime
    BY <1>2, <2>1 DEF Tick
  <2>5. now \in 0..MaxTime
    BY <2>4, OneTick
  <2> HIDE DEF now
  <2>6. clock' \in [Instances -> Times]
    BY <2>1, <2>2, <2>5
  <2>7. ASSUME NEW j \in Instances, NEW k \in Instances PROVE clock'[j] <= clock'[k] + MaxSkew
    <3>1. clock[j] \in 0..MaxTime /\ clock[k] \in 0..MaxTime /\ now \in 0..MaxTime
      BY <2>1, <2>5
    <3>2. clock[j] <= clock[k] + MaxSkew /\ now <= clock[k] + MaxSkew
      BY <2>3
    <3>3. /\ clock'[j] = IF j = i THEN now ELSE clock[j]
          /\ clock'[k] = IF k = i THEN now ELSE clock[k]
      BY <2>1, <2>2
    <3>4. clock[j] <= now + MaxSkew
      <4>1. clock[j] <= clock[i] + MaxSkew /\ clock[i] \in 0..MaxTime
        BY <2>4
      <4> QED BY <2>4, <3>1, <4>1, OneTick DEF now
    <3>5. now <= now + MaxSkew
      BY <3>1, OwnSkew
    <3>6. CASE j = i
      BY <3>2, <3>3, <3>5, <3>6
    <3>7. CASE j # i
      BY <3>2, <3>3, <3>4, <3>7
    <3> QED BY <3>6, <3>7
  <2> QED BY <1>2, <2>6, <2>7 DEF Tick
<1>3. ASSUME NEW i \in Instances, Restart(i) PROVE TypeOK'
  BY <1>3 DEF Restart
<1>4. ASSUME NEW c \in Clients, NEW i \in Instances, Login(c, i) PROVE TypeOK'
  BY <1>4, IssuedToken DEF Login
<1>5. ASSUME NEW c \in Clients, NEW i \in Instances, RequireAuth(c, i) PROVE TypeOK'
  BY <1>5 DEF RequireAuth
<1> QED BY <1>1, <1>2, <1>3, <1>4, <1>5 DEF Next

\* Clocks, secrets and tokens have their types, the clocks are within the
\* skew, and exp and expires_at within a second.
THEOREM TypeCorrectness == Spec => []TypeOK
BY InitType, StepType, PTL DEF Spec

\* No instance accepts a token at its client's expires_at or later, by its
\* own clock, nor later than the skew by the issuer's.
THEOREM AcceptedNoLater == Spec => AcceptedInTime
<1>1. ASSUME TypeOK, NEW c \in Clients, NEW i \in Instances, RequireAuth(c, i), answer'[c] = "ok"
      PROVE  /\ clock[i] < held[c].expiresAt
             /\ clock[held[c].issuer] < held[c].expiresAt + MaxSkew
  <2>1. held[c] # NoToken /\ Verify(i, held[c])
    BY <1>1 DEF RequireAuth, TypeOK
  <2>2. held[c] \in Token /\ held[c].exp <= held[c].expiresAt
    BY <1>1, <2>1 DEF TypeOK
  <2>3. held[c].exp \in Nat /\ held[c].expiresAt \in Nat /\ held[c].issuer \in Instances
    BY <2>2 DEF Token
  <2>4. /\ clock[i] \in 0..MaxTime /\ clock[held[c].issuer] \in 0..MaxTime
        /\ clock[held[c].issuer] <= clock[i] + MaxSkew
    BY <1>1, <2>3 DEF TypeOK, Times
  <2>5. clock[i] < held[c].exp
    BY <2>1 DEF Verify
  <2> QED BY <2>2, <2>3, <2>4, <2>5, Numbers
<1>2. ASSUME TypeOK, [Next]_vars
      PROVE  [\A c \in Clients, i \in Instances :
                RequireAuth(c, i) /\ answer'[c] = "ok" =>
                  /\ clock[i] < held[c].expiresAt
                  /\ clock[held[c].issuer] < held[c].expiresAt + MaxSkew]_vars
  BY <1>1, <1>2
<1> QED BY <1>2, TypeCorrectness, PTL DEF Spec, AcceptedInTime

\* An instance with the secret of the token refuses it in the last second
\* before expires_at at the earliest, give or take the skew.
THEOREM RefusedNoEarlier == Spec => RefusedWhenDue
<1>1. ASSUME TypeOK, NEW c \in Clients, NEW i \in Instances, RequireAuth(c, i),
             answer'[c] = "unauthorized", held[c] # NoToken, held[c].secret = secret[i]
      PROVE  /\ clock[i] + Second > held[c].expiresAt
             /\ clock[held[c].issuer] + Second + MaxSkew > held[c].expiresAt
  <2>1. ~Verify(i, held[c])
    BY <1>1 DEF RequireAuth, TypeOK
  <2>2. held[c] \in Token /\ held[c].expiresAt < held[c].exp + Second
    BY <1>1 DEF TypeOK
  <2>3. held[c].exp \in Nat /\ held[c].expiresAt \in Nat /\ held[c].issuer \in Instances
    BY <2>2 DEF Token
  <2>4. /\ clock[i] \in 0..MaxTime /\ clock[held[c].issuer] \in 0..MaxTime
        /\ clock[i] <= clock[held[c].issuer] + MaxSkew
    BY <1>1, <2>3 DEF TypeOK, Times
  <2>5. ~(clock[i] < held[c].exp)
    BY <1>1, <2>1 DEF Verify
  <2> QED BY <2>2, <2>3, <2>4, <2>5, Numbers
<1>2. ASSUME TypeOK, [Next]_vars
      PROVE  [\A c \in Clients, i \in Instances :
                /\ RequireAuth(c, i) /\ answer'[c] = "unauthorized" /\ held[c] # NoToken
                /\ held[c].secret = secret[i]
                => /\ clock[i] + Second > held[c].expiresAt
                   /\ clock[held[c].issuer] + Second + MaxSkew > held[c].expiresAt]_vars
  BY <1>1, <1>2
<1> QED BY <1>2, TypeCorrectness, PTL DEF Spec, RefusedWhenDue

=============================================================================
