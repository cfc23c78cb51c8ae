-------------------------- MODULE ErrorChainsProofs --------------------------
(***************************************************************************)
(* Facts about ErrorChains, for every chain of errors, of any length.      *)
(***************************************************************************)
EXTENDS ErrorChains, WellFoundedInduction, TLAPS

Chain == Seq(Node)

\* Chains that start with a node.
LEMMA ConsFacts ==
  ASSUME NEW e \in Chain, NEW n \in Node
  PROVE  LET c == <<n>> \o e IN
         /\ c \in Chain
         /\ Len(e) \in Nat /\ Len(c) = Len(e) + 1 /\ c[1] = n /\ c # nil
         /\ \A i \in 1..Len(e) : c[i + 1] = e[i]
         /\ \A i \in 2..Len(c) : c[i] = e[i - 1] /\ i - 1 \in 1..Len(e)
BY DEF Chain, nil

LEMMA HasCons ==
  ASSUME NEW e \in Chain, NEW n \in Node, NEW kind
  PROVE  Has(<<n>> \o e, kind) <=> n.kind = kind \/ Has(e, kind)
<1> DEFINE c == <<n>> \o e
<1>1. /\ Len(e) \in Nat /\ Len(c) = Len(e) + 1 /\ c[1] = n
      /\ \A i \in 1..Len(e) : c[i + 1] = e[i]
      /\ \A i \in 2..Len(c) : c[i] = e[i - 1] /\ i - 1 \in 1..Len(e)
  BY ConsFacts
<1> HIDE DEF c
<1>2. Has(c, kind) => n.kind = kind \/ Has(e, kind)
  BY <1>1 DEF Has
<1>3. n.kind = kind => Has(c, kind)
  BY <1>1 DEF Has
<1>4. Has(e, kind) => Has(c, kind)
  <2> SUFFICES ASSUME NEW i \in 1..Len(e), e[i].kind = kind PROVE Has(c, kind)
    BY DEF Has
  <2>1. i + 1 \in 1..Len(c) /\ c[i + 1].kind = kind
    BY <1>1
  <2>2. QED
    BY <2>1 DEF Has
<1>5. QED
  BY <1>2, <1>3, <1>4 DEF c

Outermost(e, kind, i) ==
  /\ i \in 1..Len(e)
  /\ e[i].kind = kind /\ \A j \in 1..(i - 1) : e[j].kind # kind

\* As looks at the outermost node of a kind, and there is one.
LEMMA AsOutermost ==
  ASSUME NEW e \in Chain, NEW kind, Has(e, kind)
  PROVE  \E i : Outermost(e, kind, i) /\ As(e, kind) = e[i]
<1> DEFINE T == {i \in 1..Len(e) : e[i].kind = kind}
           R == OpToRel(<, Nat)
<1>1. Len(e) \in Nat /\ T \subseteq Nat /\ T # {}
  BY DEF Has, Chain
<1>2. PICK i \in T : \A j \in T : <<j, i>> \notin R
  BY <1>1, WFMin, NatLessThanWellFounded
<1>3. \A j \in T : ~(j < i)
  BY <1>1, <1>2 DEF OpToRel
<1>4. Outermost(e, kind, i)
  BY <1>1, <1>3 DEF Outermost
<1>5. As(e, kind) = e[CHOOSE k : Outermost(e, kind, k)]
  BY DEF As, Outermost
<1>6. Outermost(e, kind, CHOOSE k : Outermost(e, kind, k))
  BY <1>4
<1>7. QED
  BY <1>5, <1>6

LEMMA AsIs ==
  ASSUME NEW e \in Chain, NEW kind, NEW i, Outermost(e, kind, i)
  PROVE  As(e, kind) = e[i]
<1>1. Len(e) \in Nat /\ Has(e, kind)
  BY DEF Has, Outermost, Chain
<1>2. PICK k : Outermost(e, kind, k) /\ As(e, kind) = e[k]
  BY <1>1, AsOutermost
<1>3. i \in Nat /\ k \in Nat /\ ~(i < k) /\ ~(k < i)
  BY <1>1, <1>2 DEF Outermost
<1>4. QED
  BY <1>2, <1>3

\* A node of another kind in front changes nothing.
LEMMA AsCons ==
  ASSUME NEW e \in Chain, NEW n \in Node, NEW kind, n.kind # kind, Has(e, kind)
  PROVE  As(<<n>> \o e, kind) = As(e, kind)
<1> DEFINE c == <<n>> \o e
<1>1. /\ c \in Chain /\ Len(e) \in Nat /\ Len(c) = Len(e) + 1 /\ c[1] = n
      /\ \A i \in 1..Len(e) : c[i + 1] = e[i]
      /\ \A i \in 2..Len(c) : c[i] = e[i - 1] /\ i - 1 \in 1..Len(e)
  BY ConsFacts
<1> HIDE DEF c
<1>2. PICK i : Outermost(e, kind, i) /\ As(e, kind) = e[i]
  BY AsOutermost
<1>3. i \in 1..Len(e) /\ i + 1 \in 1..Len(c) /\ c[i + 1] = e[i]
  BY <1>1, <1>2 DEF Outermost
<1>4. ASSUME NEW j \in 1..i PROVE c[j].kind # kind
  <2>1. CASE j = 1
    BY <2>1, <1>1
  <2>2. CASE j # 1
    <3>1. j \in 2..Len(c) /\ j - 1 \in 1..(i - 1)
      BY <1>1, <1>3, <2>2
    <3>2. QED
      BY <1>1, <1>2, <3>1 DEF Outermost
  <2>3. QED
    BY <2>1, <2>2
<1>5. Outermost(c, kind, i + 1)
  BY <1>2, <1>3, <1>4 DEF Outermost
<1>6. QED
  BY <1>1, <1>2, <1>3, <1>5, AsIs DEF c

LEMMA AsHead ==
  ASSUME NEW e \in Chain, NEW n \in Node
  PROVE  As(<<n>> \o e, n.kind) = n
<1> DEFINE c == <<n>> \o e
<1>1. c \in Chain /\ Len(e) \in Nat /\ Len(c) = Len(e) + 1 /\ c[1] = n
  BY ConsFacts
<1> HIDE DEF c
<1>2. Outermost(c, n.kind, 1)
  BY <1>1 DEF Outermost
<1>3. As(c, n.kind) = c[1]
  BY <1>1, <1>2, AsIs
<1>4. QED
  BY <1>1, <1>3 DEF c

-----------------------------------------------------------------------------
\* The observing middlewares and the ErrorHandler agree about every error
\* there can be: the status recorded before the ErrorHandler ran is the status
\* it answers (effective_status.go:21-38, router.go:131-155).
THEOREM ObservationAgrees ==
  ASSUME NEW e \in Chain, e # nil, NEW status
  PROVE  EffectiveStatus(status, e) = errorHandler(e).status
BY DEF EffectiveStatus, errorHandler, ErrInternal, AppError

\* Wrapping with fmt.Errorf("...: %w", err) never changes the answer: services
\* may add context to any error (service.go:33, 41, 50, 78, 89).
THEOREM WrapIsTransparent ==
  ASSUME NEW e \in Chain
  PROVE  errorHandler(Wrap(e)) = errorHandler(e)
<1> DEFINE n == Other("wrap")
<1>1. n \in Node /\ n.kind = "wrap" /\ Wrap(e) = <<n>> \o e
  BY DEF Other, Node, Kinds, Codes, Wrap
<1> HIDE DEF n
<1>2. \A kind \in {"app", "fiber"} :
        /\ Has(Wrap(e), kind) <=> Has(e, kind)
        /\ Has(e, kind) => As(Wrap(e), kind) = As(e, kind)
  BY <1>1, HasCons, AsCons
<1>3. AsAppError(Wrap(e)) = AsAppError(e)
  BY <1>2 DEF AsAppError
<1>4. CASE Has(e, "fiber")
  <2>1. Has(Wrap(e), "fiber") /\ As(Wrap(e), "fiber") = As(e, "fiber")
    BY <1>2, <1>4
  <2>2. QED
    BY <1>4, <2>1 DEF errorHandler
<1>5. CASE ~Has(e, "fiber")
  <2>1. ~Has(Wrap(e), "fiber")
    BY <1>2, <1>5
  <2>2. QED
    BY <1>3, <1>5, <2>1 DEF errorHandler
<1>6. QED
  BY <1>4, <1>5

\* A refused body is 400 or 422 INVALID_REQUEST whatever is wrong with it,
\* unless the cause has a fiber error in it: the ErrorHandler looks for one
\* first, and finds it behind the AppError (bind.go:14-24, router.go:133-137).
THEOREM BindContract ==
  ASSUME NEW e \in Chain
  PROVE  LET r == errorHandler(BindErrorToAppError(e)) IN
         IF Has(e, "fiber")
         THEN /\ r.status = As(e, "fiber").status
              /\ r.code = mapFiberError(As(e, "fiber"))
         ELSE /\ r.status = IF Has(e, "validation") THEN 422 ELSE 400
              /\ r.code = "INVALID_REQUEST"
<1> DEFINE n == IF Has(e, "validation") THEN NewValidation ELSE NewBadRequest
           c == <<n>> \o e
<1>1. n \in Node /\ n.kind = "app" /\ BindErrorToAppError(e) = c
  BY DEF AppError, NewValidation, NewBadRequest, Node, Kinds, Codes,
         BindErrorToAppError, WithCause
<1>2. /\ n.status = IF Has(e, "validation") THEN 422 ELSE 400
      /\ n.code = "INVALID_REQUEST"
  BY DEF AppError, NewValidation, NewBadRequest
<1> HIDE DEF n
<1>3. Has(c, "app") /\ As(c, "app") = n
  BY <1>1, HasCons, AsHead
<1>4. Has(c, "fiber") <=> Has(e, "fiber")
  BY <1>1, HasCons
<1>5. CASE Has(e, "fiber")
  BY <1>1, <1>4, <1>5, AsCons DEF errorHandler
<1>6. CASE ~Has(e, "fiber")
  BY <1>1, <1>2, <1>3, <1>4, <1>6 DEF errorHandler, AsAppError
<1>7. QED
  BY <1>5, <1>6

=============================================================================
