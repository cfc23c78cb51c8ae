-------------------------- MODULE PaginationProofs --------------------------
(***************************************************************************)
(* Proofs about Pagination: for every size of the table, of the limits and *)
(* of an int, a page has the tasks its meta says, and a client that        *)
(* follows the pages misses or repeats one only because the table changed. *)
(***************************************************************************)
EXTENDS Pagination, FiniteSetTheorems, TLAPS

\* The constants as numbers.
LEMMA Numbers ==
  /\ MaxLimit \in Nat \ {0} /\ DefaultLimit \in 1..MaxLimit
  /\ MaxInt \in Nat \ {0} /\ MaxLimit <= MaxInt
  /\ MaxId \in Nat /\ MaxId <= MaxInt
  /\ RawPages \subseteq Nat /\ RawLimits \subseteq Nat
BY PaginationAssumption

-----------------------------------------------------------------------------
(* The arithmetic of pages.                                                *)

\* Dividing with rest, as div defines it.
LEMMA Division ==
  ASSUME NEW n \in Nat, NEW l \in Nat \ {0}
  PROVE  /\ n \div l \in Nat
         /\ (n \div l) * l <= n
         /\ n < (n \div l) * l + l
OBVIOUS

\* Products of pages and limits.
LEMMA Products ==
  ASSUME NEW l \in Nat \ {0}, NEW p \in Nat \ {0}
  PROVE  /\ p * l \in Nat /\ (p - 1) * l \in Nat
         /\ p * l = (p - 1) * l + l
OBVIOUS

\* Earlier pages end earlier.
LEMMA Monotone ==
  ASSUME NEW l \in Nat \ {0}, NEW p \in Nat, NEW r \in Nat, p <= r
  PROVE  p * l <= r * l
OBVIOUS

\* total_pages is the number of the page that holds the last task.
LEMMA LastPage ==
  ASSUME NEW pq \in PageQuery, NEW n \in Nat
  PROVE  /\ TotalPages(pq, n) \in Nat
         /\ pq.page < TotalPages(pq, n) => pq.page * pq.limit < n
         /\ pq.page = TotalPages(pq, n) => (pq.page - 1) * pq.limit < n /\ n <= pq.page * pq.limit
         /\ pq.page > TotalPages(pq, n) => n <= (pq.page - 1) * pq.limit
<1> DEFINE l == pq.limit
           p == pq.page
           P == TotalPages(pq, n)
<1>1. l \in Nat \ {0} /\ p \in Nat \ {0} /\ n + l - 1 \in Nat
  BY Numbers DEF PageQuery
<1>2. P \in Nat /\ P * l <= n + l - 1 /\ n + l - 1 < P * l + l
  BY <1>1, Division DEF TotalPages
<1>3. p * l = (p - 1) * l + l /\ p * l \in Nat /\ (p - 1) * l \in Nat
  BY <1>1, Products
<1> HIDE DEF P, l, p
<1>4. CASE p < P
  <2>1. p + 1 <= P /\ (p + 1) * l = p * l + l
    BY <1>1, <1>2, <1>4
  <2>2. (p + 1) * l <= P * l
    BY <1>1, <1>2, <2>1, Monotone
  <2>3. P * l \in Nat
    BY <1>1, <1>2
  <2> QED BY <1>1, <1>2, <1>3, <1>4, <2>1, <2>2, <2>3 DEF P, l, p
<1>5. CASE p = P
  BY <1>1, <1>2, <1>3, <1>5 DEF P, l, p
<1>6. CASE p > P
  <2>1. P * l <= (p - 1) * l
    BY <1>1, <1>2, <1>6, Monotone
  <2>2. P * l \in Nat
    BY <1>1, <1>2
  <2> QED BY <1>1, <1>2, <1>3, <1>6, <2>1, <2>2 DEF P, l, p
<1> QED BY <1>1, <1>2, <1>4, <1>5, <1>6 DEF P, l, p

\* An offset that fits an int is not wrapped, none is wrapped upwards.
LEMMA Wrapping ==
  ASSUME NEW n \in Nat
  PROVE  /\ Wrapped(n) \in Int
         /\ Wrapped(n) <= n
         /\ n <= MaxInt => Wrapped(n) = n
<1> DEFINE k == 2 * (MaxInt + 1)
<1>1. k \in Nat \ {0} /\ MaxInt \in Nat /\ MaxInt < k
  BY Numbers
<1> HIDE DEF k
<1>2. n % k \in Nat /\ n % k <= n /\ (n < k => n % k = n)
  BY <1>1
<1> QED BY <1>1, <1>2 DEF Wrapped, k

\* The rows skipped are at most those of the earlier pages.
LEMMA Skipping ==
  ASSUME NEW pq \in PageQuery
  PROVE  /\ Skipped(pq) \in Nat
         /\ Skipped(pq) <= (pq.page - 1) * pq.limit
         /\ OffsetFits(pq) => Skipped(pq) = (pq.page - 1) * pq.limit
<1> DEFINE o == (pq.page - 1) * pq.limit
<1>1. o \in Nat
  BY Numbers, Products DEF PageQuery
<1>2. Wrapped(o) \in Int /\ Wrapped(o) <= o /\ (o <= MaxInt => Wrapped(o) = o)
  BY <1>1, Wrapping
<1> HIDE DEF o
<1>3. Offset(pq) = Wrapped(o) /\ (OffsetFits(pq) => o <= MaxInt)
  BY DEF Offset, OffsetFits, o
<1> QED BY <1>1, <1>2, <1>3 DEF Skipped, o

-----------------------------------------------------------------------------
(* Ranks and windows.                                                      *)

\* A table is finite.
LEMMA FiniteTable ==
  ASSUME NEW S \in SUBSET Ids
  PROVE  IsFiniteSet(S) /\ Cardinality(S) \in 0..MaxId
<1>1. MaxId \in Nat /\ IsFiniteSet(1..MaxId) /\ Cardinality(1..MaxId) = MaxId
  BY Numbers, FS_Interval
<1>2. IsFiniteSet(S) /\ Cardinality(S) <= MaxId
  BY <1>1, FS_Subset DEF Ids
<1> QED BY <1>1, <1>2, FS_CardinalityType

\* Ranks are positions in the table.
LEMMA RankRange ==
  ASSUME NEW S \in SUBSET Ids, NEW id \in Ids
  PROVE  /\ Rank(S, id) \in Nat
         /\ id \in S => Rank(S, id) < Cardinality(S)
<1> DEFINE A == {j \in S : j > id}
<1>0. id \in Int
  BY DEF Ids
<1>1. A \in SUBSET S /\ A \in SUBSET Ids /\ id \notin A
  <2>1. A \in SUBSET S
    OBVIOUS
  <2>2. id \notin A
    BY <1>0
  <2> QED BY <2>1, <2>2
<1>2. Cardinality(A) \in Nat /\ Cardinality(S) \in Nat /\ IsFiniteSet(S)
  BY <1>1, FiniteTable
<1>3. Cardinality(A) <= Cardinality(S) /\ (Cardinality(S) = Cardinality(A) => S = A)
  <2> HIDE DEF A
  <2> QED BY <1>1, <1>2, FS_Subset
<1>4. Rank(S, id) = Cardinality(A)
  BY DEF Rank
<1> HIDE DEF A
<1> QED BY <1>1, <1>2, <1>3, <1>4

\* Newer tasks come first, and no two share a rank.
LEMMA RankOrder ==
  ASSUME NEW S \in SUBSET Ids, NEW i \in S, NEW j \in S, i < j
  PROVE  Rank(S, j) < Rank(S, i)
<1> DEFINE A == {k \in S : k > i}
           B == {k \in S : k > j}
<1>1. i \in Int /\ j \in Int /\ \A k \in S : k \in Int
  BY DEF Ids
<1>2. B \in SUBSET A /\ j \in A /\ j \notin B /\ A \in SUBSET Ids /\ B \in SUBSET Ids
  <2>1. \A k \in S : k > j => k > i
    BY <1>1
  <2>2. B \in SUBSET A
    BY <2>1
  <2>3. j \in A /\ j \notin B
    BY <1>1
  <2>4. A \in SUBSET Ids
    OBVIOUS
  <2> QED BY <2>2, <2>3, <2>4
<1>3. IsFiniteSet(A) /\ Cardinality(A) \in Nat /\ Cardinality(B) \in Nat
  BY <1>2, FiniteTable
<1>4. Cardinality(B) <= Cardinality(A) /\ Cardinality(B) # Cardinality(A)
  <2> HIDE DEF A, B
  <2> QED BY <1>2, <1>3, FS_Subset
<1>5. Rank(S, i) = Cardinality(A) /\ Rank(S, j) = Cardinality(B)
  BY DEF Rank
<1> HIDE DEF A, B
<1> QED BY <1>3, <1>4, <1>5

\* A larger table only pushes a task back.
LEMMA RankMonotone ==
  ASSUME NEW S \in SUBSET Ids, NEW T \in SUBSET S, NEW id \in Ids
  PROVE  Rank(T, id) <= Rank(S, id)
<1> DEFINE A == {k \in S : k > id}
           B == {k \in T : k > id}
<1>1. B \in SUBSET A /\ A \in SUBSET Ids
  OBVIOUS
<1>2. IsFiniteSet(A)
  BY <1>1, FiniteTable
<1>3. Cardinality(B) <= Cardinality(A)
  <2> HIDE DEF A, B
  <2> QED BY <1>1, <1>2, FS_Subset
<1> QED BY <1>3 DEF Rank

\* Every rank below the size of the table is taken.
LEMMA RankOnto ==
  ASSUME NEW S \in SUBSET Ids, NEW r \in Nat, r < Cardinality(S)
  PROVE  \E id \in S : Rank(S, id) = r
<1> DEFINE n == Cardinality(S)
           f == [id \in S |-> Rank(S, id)]
           R == 0..n - 1
<1>1. n \in Nat /\ IsFiniteSet(S) /\ n > 0
  BY FiniteTable
<1>2. IsFiniteSet(R) /\ Cardinality(R) = n
  <2> DEFINE m == n - 1
  <2>1. m \in Int /\ 0 \in Int /\ ~(0 > m) /\ m - 0 + 1 = n
    BY <1>1
  <2> HIDE DEF m
  <2>2. IsFiniteSet(0..m) /\ Cardinality(0..m) = m - 0 + 1
    BY <2>1, FS_Interval
  <2> QED BY <2>1, <2>2 DEF m
<1>3. f \in [S -> R]
  <2>1. \A id \in S : Rank(S, id) \in Nat /\ Rank(S, id) < n
    BY RankRange
  <2>2. \A id \in S : Rank(S, id) \in R
    BY <1>1, <2>1
  <2> QED BY <2>2
<1>4. \A i, j \in S : f[i] = f[j] => i = j
  <2> SUFFICES ASSUME NEW i \in S, NEW j \in S, i # j PROVE f[i] # f[j]
    OBVIOUS
  <2>1. i \in Int /\ j \in Int
    BY DEF Ids
  <2>2. Rank(S, i) \in Nat /\ Rank(S, j) \in Nat
    BY RankRange
  <2>3. CASE i < j
    BY <2>2, <2>3, RankOrder
  <2>4. CASE j < i
    BY <2>2, <2>4, RankOrder
  <2> QED BY <2>1, <2>3, <2>4
<1>5. f \in Injection(S, R)
  BY <1>3, <1>4 DEF Injection, IsInjective
<1>6. f \in Surjection(S, R)
  <2> HIDE DEF f, R
  <2> QED BY <1>1, <1>2, <1>5, FS_Injection
<1>7. r \in R
  BY <1>1
<1>8. \E id \in S : f[id] = r
  <2> HIDE DEF f, R
  <2> QED BY <1>6, <1>7 DEF Surjection
<1> QED BY <1>8

\* A window of ranks has as many tasks as there are ranks in it.
LEMMA WindowSize ==
  ASSUME NEW S \in SUBSET Ids, NEW a \in Nat, NEW b \in Int, b < Cardinality(S)
  PROVE  Cardinality({id \in S : Rank(S, id) \in a..b}) = IF a > b THEN 0 ELSE b - a + 1
<1> DEFINE W == {id \in S : Rank(S, id) \in a..b}
           f == [id \in W |-> Rank(S, id)]
<1>1. IsFiniteSet(W) /\ IsFiniteSet(a..b)
  <2>1. W \in SUBSET S
    OBVIOUS
  <2>2. W \in SUBSET Ids
    BY <2>1
  <2> HIDE DEF W
  <2> QED BY <2>2, FiniteTable, FS_Interval
<1>2. f \in [W -> a..b]
  OBVIOUS
<1>3. \A i, j \in W : f[i] = f[j] => i = j
  <2> SUFFICES ASSUME NEW i \in W, NEW j \in W, i # j PROVE f[i] # f[j]
    OBVIOUS
  <2>1. i \in S /\ j \in S /\ i \in Int /\ j \in Int
    BY DEF Ids
  <2>2. Rank(S, i) \in Nat /\ Rank(S, j) \in Nat
    BY <2>1, RankRange
  <2>3. CASE i < j
    BY <2>1, <2>2, <2>3, RankOrder
  <2>4. CASE j < i
    BY <2>1, <2>2, <2>4, RankOrder
  <2> QED BY <2>1, <2>3, <2>4
<1>4. \A r \in a..b : \E id \in W : f[id] = r
  <2> SUFFICES ASSUME NEW r \in a..b PROVE \E id \in W : f[id] = r
    OBVIOUS
  <2>1. r \in Nat /\ r < Cardinality(S)
    BY FiniteTable
  <2>2. PICK id \in S : Rank(S, id) = r
    BY <2>1, RankOnto
  <2>3. id \in W /\ f[id] = r
    BY <2>2
  <2> QED BY <2>3
<1>5. f \in Injection(W, a..b)
  BY <1>2, <1>3 DEF Injection, IsInjective
<1>6. f \in Surjection(W, a..b)
  BY <1>2, <1>4 DEF Surjection
<1>7. Cardinality(W) = Cardinality(a..b)
  <2> HIDE DEF W, f
  <2> QED BY <1>1, <1>5, <1>6, FS_Injection
<1>8. Cardinality(a..b) = IF a > b THEN 0 ELSE b - a + 1
  BY FS_Interval
<1> HIDE DEF W
<1> QED BY <1>7, <1>8 DEF W

\* A page holds the rows after the skipped ones, up to its limit.
LEMMA PageSize ==
  ASSUME NEW S \in SUBSET Ids, NEW pq \in PageQuery
  PROVE  LET size == Cardinality(S)
             o == Skipped(pq)
         IN /\ o + pq.limit <= size => Cardinality(PageOf(pq, S)) = pq.limit
            /\ o <= size /\ size <= o + pq.limit => Cardinality(PageOf(pq, S)) = size - o
            /\ size <= o => Cardinality(PageOf(pq, S)) = 0 /\ PageOf(pq, S) = {}
<1> DEFINE n == Cardinality(S)
           o == Skipped(pq)
           l == pq.limit
           last == IF o + l - 1 < n THEN o + l - 1 ELSE n - 1
<1>1. n \in Nat /\ o \in Nat /\ l \in Nat \ {0}
  BY Numbers, FiniteTable, Skipping DEF PageQuery
<1>2. last \in Int /\ last < n
  BY <1>1
<1>3. PageOf(pq, S) = {id \in S : Rank(S, id) \in o..last}
  <2>1. \A id \in S : Rank(S, id) \in Nat /\ Rank(S, id) < n
    BY RankRange
  <2> DEFINE end == o + l - 1
  <2>2. \A r \in Nat : r < n => (r \in o..end <=> r \in o..last)
    BY <1>1
  <2>3. \A id \in S : Rank(S, id) \in o..end <=> Rank(S, id) \in o..last
    BY <2>1, <2>2
  <2>4. PageOf(pq, S) = {id \in S : Rank(S, id) \in o..end}
    BY DEF PageOf
  <2> HIDE DEF o, end, last
  <2> QED BY <2>3, <2>4
<1>4. Cardinality(PageOf(pq, S)) = IF o > last THEN 0 ELSE last - o + 1
  <2> HIDE DEF o, last
  <2> QED BY <1>1, <1>2, <1>3, WindowSize DEF n
<1>5. n <= o => PageOf(pq, S) = {}
  <2>1. \A id \in S : Rank(S, id) \in Nat /\ Rank(S, id) < n
    BY RankRange
  <2> HIDE DEF o, n, last
  <2> QED BY <1>1, <1>2, <1>3, <2>1
<1> HIDE DEF o, n, l
<1>6. /\ o + l <= n => Cardinality(PageOf(pq, S)) = l
      /\ o <= n /\ n <= o + l => Cardinality(PageOf(pq, S)) = n - o
      /\ n <= o => Cardinality(PageOf(pq, S)) = 0
  BY <1>1, <1>4
<1> QED BY <1>5, <1>6 DEF o, n, l

-----------------------------------------------------------------------------
(* The inductive invariant.                                                *)

\* The rank up to which the client has read.
Bound == IF stage = "answered" THEN q.page * q.limit ELSE (q.page - 1) * q.limit

\* Find still sees the table that Count counted.
CountHolds == stage = "find" /\ ~slipped => total = Cardinality(live)

\* Only the page a client begins with has an offset beyond an int.
Fits == stage # "idle" /\ (first = 1 \/ (seen # {} /\ stage # "answered")) => OffsetFits(q)

\* What was there from the start and is behind the client, it has seen.
FromStart ==
  stage # "idle" /\ first = 1 /\ ~deleted =>
    start \subseteq live /\ \A id \in start : Rank(live, id) < Bound => id \in seen

\* What the client has seen is behind it.
Behind ==
  stage # "idle" /\ ~created => \A id \in seen \cap live : Rank(live, id) < Bound

IInv == /\ TypeOK /\ CountHolds /\ PageHolds /\ Fits
        /\ FromStart /\ NothingSkipped /\ Behind

\* Every query is a page of the type, whatever the client sends
\* (pagination.go:18-29, handler.go's atoiDefault).
LEMMA Clamped ==
  ASSUME NEW page \in Nat, NEW limit \in Nat
  PROVE  NewPageQuery(atoiDefault(page, DefaultPage), atoiDefault(limit, DefaultLimit))
           \in PageQuery
<1>1. atoiDefault(page, DefaultPage) \in 1..MaxInt
  BY Numbers DEF atoiDefault, DefaultPage
<1>2. atoiDefault(limit, DefaultLimit) \in 1..MaxInt
  BY Numbers DEF atoiDefault
<1> QED BY <1>1, <1>2, Numbers DEF NewPageQuery, PageQuery, DefaultPage

\* The next page is one further, and fits.
LEMMA Following ==
  ASSUME NEW pq \in PageQuery, NEW n \in 0..MaxId, pq.page < TotalPages(pq, n)
  PROVE  LET next == NewPageQuery(atoiDefault(pq.page + 1, DefaultPage),
                                  atoiDefault(pq.limit, DefaultLimit))
         IN /\ next \in PageQuery /\ next.page = pq.page + 1 /\ next.limit = pq.limit
            /\ OffsetFits(next)
<1> DEFINE p == pq.page
           l == pq.limit
           o == p * l
           next == NewPageQuery(atoiDefault(p + 1, DefaultPage), atoiDefault(l, DefaultLimit))
<1>1. p \in Nat \ {0} /\ l \in 1..MaxLimit /\ l \in Nat \ {0}
  BY Numbers DEF PageQuery
<1>2. o < n /\ n <= MaxInt /\ n \in Nat
  BY LastPage, Numbers
<1>3. 1 * p <= l * p /\ l * p = o
  BY <1>1, Monotone
<1>4. o \in Nat
  BY <1>1, Products
<1>5. p < MaxInt
  <2> HIDE DEF p, o, l
  <2> QED BY <1>1, <1>2, <1>3, <1>4, Numbers
<1>6. atoiDefault(p + 1, DefaultPage) = p + 1 /\ atoiDefault(l, DefaultLimit) = l
  BY <1>1, <1>5, Numbers DEF atoiDefault
<1> HIDE DEF p, l
<1>7. next = [page |-> p + 1, limit |-> l]
  BY <1>1, <1>6, Numbers DEF NewPageQuery, DefaultPage
<1>8. next \in PageQuery
  BY <1>1, <1>5, <1>7, Numbers DEF PageQuery
<1>9. next.page = p + 1 /\ next.limit = l
  BY <1>7
<1> HIDE DEF next, o
<1>10. OffsetFits(next)
  <2>1. (next.page - 1) * next.limit = o
    <3>1. next.page - 1 = p
      BY <1>1, <1>9
    <3> QED BY <1>9, <3>1, Zenon DEF o
  <2>2. o <= MaxInt
    BY <1>2, <1>4, Numbers
  <2> QED BY <2>1, <2>2 DEF OffsetFits
<1> QED BY <1>8, <1>9, <1>10 DEF next, p, l

-----------------------------------------------------------------------------
(* Types.                                                                  *)

\* Init satisfies the invariant.
LEMMA Initially == Init => IInv
<1> SUFFICES ASSUME Init PROVE IInv
  OBVIOUS
<1>1. Cardinality({}) = 0
  BY FS_EmptySet
<1>2. q \in PageQuery
  BY Numbers DEF Init, Idle, PageQuery, DefaultPage
<1>3. TypeOK
  <2>1. 0 <= MaxLimit /\ 0 \in 0..MaxId /\ 1 \in 1..MaxInt /\ 1 \in 1..(MaxId + 1)
    BY Numbers
  <2> QED BY <1>1, <1>2, <2>1 DEF Init, TypeOK, DefaultPage
<1>4. stage = "idle"
  BY DEF Init
<1> QED
  BY <1>3, <1>4 DEF IInv, CountHolds, PageHolds, Fits, FromStart, NothingSkipped, Behind

\* A page is a part of the table, and within its limit.
LEMMA PageFits ==
  ASSUME NEW S \in SUBSET Ids, NEW pq \in PageQuery
  PROVE  /\ PageOf(pq, S) \in SUBSET S
         /\ Cardinality(PageOf(pq, S)) <= MaxLimit
<1> DEFINE n == Cardinality(S)
           o == Skipped(pq)
           l == pq.limit
           c == Cardinality(PageOf(pq, S))
<1>1. n \in Nat /\ o \in Nat /\ l \in 1..MaxLimit
  BY Numbers, FiniteTable, Skipping DEF PageQuery
<1>2. /\ o + l <= n => c = l
      /\ o <= n /\ n <= o + l => c = n - o
      /\ n <= o => c = 0
  BY PageSize
<1>3. PageOf(pq, S) \in SUBSET S
  BY DEF PageOf
<1> HIDE DEF n, o, l, c
<1>4. c <= MaxLimit
  BY <1>1, <1>2, Numbers
<1> QED BY <1>3, <1>4 DEF c

\* Every step keeps the types: List clamps what the client sends, and no page
\* is larger than its limit (pagination.go:18-29).
LEMMA TypeStep == TypeOK /\ [Next]_vars => TypeOK'
<1> SUFFICES ASSUME TypeOK, [Next]_vars PROVE TypeOK'
  OBVIOUS
<1>0. Cardinality({}) = 0
  BY FS_EmptySet
<1>1. CASE Create
  <2>1. live' \in SUBSET Ids
    BY <1>1 DEF Create, TypeOK
  <2>2. nextId' \in 1..(MaxId + 1)
    BY <1>1, Numbers DEF Create, TypeOK, Ids
  <2>3. created' \in BOOLEAN /\ slipped' \in BOOLEAN
    BY <1>1 DEF Create, TypeOK
  <2> QED BY <1>1, <2>1, <2>2, <2>3 DEF Create, TypeOK, client
<1>2. CASE Delete
  BY <1>2 DEF Delete, TypeOK, client
<1>3. ASSUME NEW page \in Nat, NEW limit \in Nat, List(page, limit)
      PROVE  /\ q' \in PageQuery /\ stage' = "count" /\ total' \in 0..MaxId
             /\ items' \in SUBSET Ids /\ Cardinality(items') <= MaxLimit
             /\ slipped' \in BOOLEAN
             /\ live' \in SUBSET Ids /\ nextId' \in 1..(MaxId + 1)
  <2>1. q' \in PageQuery
    BY <1>3, Clamped DEF List
  <2>2. stage' = "count" /\ total' = 0 /\ items' = {} /\ slipped' = FALSE
        /\ live' = live /\ nextId' = nextId
    BY <1>3 DEF List, table
  <2>3. live \in SUBSET Ids /\ nextId \in 1..(MaxId + 1)
    BY DEF TypeOK
  <2>4. 0 <= MaxLimit /\ 0 \in 0..MaxId
    BY Numbers
  <2> QED BY <1>0, <2>1, <2>2, <2>3, <2>4
<1>4. CASE Begin
  <2>1. PICK page \in RawPages, limit \in RawLimits : List(page, limit)
    BY <1>4 DEF Begin
  <2>2. page \in Nat /\ limit \in Nat
    BY Numbers
  <2>3. q'.page \in 1..MaxInt
    BY <1>3, <2>1, <2>2 DEF PageQuery
  <2> QED BY <1>3, <1>4, <2>1, <2>2, <2>3 DEF Begin, TypeOK
<1>5. CASE Count
  <2>1. Cardinality(live) \in 0..MaxId
    BY FiniteTable DEF TypeOK
  <2> QED BY <1>5, <2>1 DEF Count, TypeOK, table
<1>6. CASE Find
  <2>1. PageOf(q, live) \in SUBSET live /\ Cardinality(PageOf(q, live)) <= MaxLimit
    BY PageFits DEF TypeOK
  <2> QED BY <1>6, <2>1 DEF Find, TypeOK, table
<1>7. CASE NextPage
  <2>1. q.page + 1 \in Nat /\ q.limit \in Nat
    BY Numbers DEF TypeOK, PageQuery
  <2> QED BY <1>3, <1>7, <2>1 DEF NextPage, TypeOK
<1>8. CASE Leave
  <2>1. q' \in PageQuery
    BY <1>8, Numbers DEF Leave, Idle, PageQuery, DefaultPage
  <2>2. stage' = "idle" /\ total' = 0 /\ items' = {} /\ first' = 1 /\ start' = {}
        /\ seen' = {} /\ created' = FALSE /\ deleted' = FALSE /\ slipped' = FALSE
        /\ live' = live /\ nextId' = nextId
    BY <1>8 DEF Leave, table, DefaultPage
  <2>3. 0 <= MaxLimit /\ 0 \in 0..MaxId /\ 1 \in 1..MaxInt
    BY Numbers
  <2> QED BY <1>0, <2>1, <2>2, <2>3 DEF TypeOK
<1>9. CASE UNCHANGED vars
  BY <1>9 DEF vars, TypeOK
<1> QED BY <1>1, <1>2, <1>4, <1>5, <1>6, <1>7, <1>8, <1>9 DEF Next

-----------------------------------------------------------------------------
(* The steps.                                                              *)

\* Only Count sets the total, and a write between it and Find says so.
LEMMA CountStep == IInv /\ [Next]_vars => CountHolds'
<1> SUFFICES ASSUME IInv, [Next]_vars PROVE CountHolds'
  OBVIOUS
<1>1. CASE Create \/ Delete
  BY <1>1 DEF Create, Delete, CountHolds, client
<1>2. CASE Begin \/ NextPage
  BY <1>2 DEF Begin, NextPage, List, CountHolds
<1>3. CASE Count
  BY <1>3 DEF Count, CountHolds, table
<1>4. CASE Find
  BY <1>4 DEF Find, CountHolds
<1>5. CASE Leave
  BY <1>5 DEF Leave, CountHolds
<1>6. CASE UNCHANGED vars
  BY <1>6 DEF vars, IInv, CountHolds
<1> QED BY <1>1, <1>2, <1>3, <1>4, <1>5, <1>6 DEF Next

\* The client goes on only to pages whose offset fits an int.
LEMMA NextFits ==
  ASSUME IInv, NextPage
  PROVE  q'.page = q.page + 1 /\ q'.limit = q.limit /\ OffsetFits(q') /\ stage' = "count"
<1>1. q \in PageQuery /\ total \in 0..MaxId
  BY DEF IInv, TypeOK
<1>2. TotalPages(q, total) \in Nat /\ q.page \in Nat
  BY <1>1, LastPage, Numbers DEF PageQuery
<1>3. q.page < TotalPages(q, total)
  BY <1>2 DEF NextPage, AtLastPage
<1> DEFINE next == NewPageQuery(atoiDefault(q.page + 1, DefaultPage),
                                atoiDefault(q.limit, DefaultLimit))
<1>4. next.page = q.page + 1 /\ next.limit = q.limit /\ OffsetFits(next)
  BY <1>1, <1>3, Following
<1>5. q' = next /\ stage' = "count"
  BY DEF NextPage, List
<1> HIDE DEF next
<1> QED BY <1>4, <1>5

\* The first page of all has offset 0, and every next page fits.
LEMMA FitsStep == IInv /\ [Next]_vars => Fits'
<1> SUFFICES ASSUME IInv, [Next]_vars PROVE Fits'
  OBVIOUS
<1>1. CASE Create \/ Delete
  BY <1>1 DEF Create, Delete, IInv, Fits, client, OffsetFits
<1>2. CASE Begin
  <2>1. seen' = {} /\ first' = q'.page
    BY <1>2 DEF Begin
  <2>2. q' \in PageQuery
    BY TypeStep DEF IInv, TypeOK
  <2>3. q'.limit \in Nat /\ (1 - 1) * q'.limit = 0
    BY <2>2, Numbers DEF PageQuery
  <2>4. first' = 1 => OffsetFits(q')
    BY <2>1, <2>3, Numbers DEF OffsetFits
  <2> QED BY <2>1, <2>4 DEF Fits, OffsetFits
<1>3. CASE Count
  BY <1>3 DEF Count, IInv, Fits, OffsetFits
<1>4. CASE Find
  BY <1>4 DEF Find, IInv, Fits, OffsetFits
<1>5. CASE NextPage
  BY <1>5, NextFits DEF Fits, OffsetFits
<1>6. CASE Leave
  BY <1>6 DEF Leave, Fits
<1>7. CASE UNCHANGED vars
  BY <1>7 DEF vars, IInv, Fits, OffsetFits
<1> QED BY <1>1, <1>2, <1>3, <1>4, <1>5, <1>6, <1>7 DEF Next

\* What Find returns: the tasks between the end of the previous page and the
\* end of this one, when the offset fits; none beyond it in any case.
LEMMA Window ==
  ASSUME TypeOK, NEW id \in live
  PROVE  /\ Rank(live, id) \in Nat
         /\ q.page * q.limit \in Nat /\ (q.page - 1) * q.limit \in Nat
         /\ id \in PageOf(q, live) => Rank(live, id) < q.page * q.limit
         /\ (q.page - 1) * q.limit < q.page * q.limit
         /\ OffsetFits(q) =>
              (id \in PageOf(q, live)
                 <=> Rank(live, id) >= (q.page - 1) * q.limit
                     /\ Rank(live, id) < q.page * q.limit)
<1> DEFINE r == Rank(live, id)
           s == Skipped(q)
           l == q.limit
           a == (q.page - 1) * l
           b == q.page * l
<1>1. l \in Nat \ {0} /\ q.page \in Nat \ {0} /\ q \in PageQuery
  BY Numbers DEF TypeOK, PageQuery
<1>2. a \in Nat /\ b \in Nat /\ b = a + l
  BY <1>1, Products
<1>3. s \in Nat /\ s <= a /\ (OffsetFits(q) => s = a)
  BY <1>1, Skipping
<1>4. r \in Nat
  BY RankRange DEF TypeOK
<1>5. id \in PageOf(q, live) <=> r \in s..(s + l - 1)
  BY DEF PageOf
<1> HIDE DEF r, s, l, a, b
<1>6. id \in PageOf(q, live) <=> r >= s /\ r < s + l
  BY <1>1, <1>3, <1>4, <1>5
<1>7. /\ id \in PageOf(q, live) => r < b
      /\ a < b
      /\ OffsetFits(q) => (id \in PageOf(q, live) <=> r >= a /\ r < b)
  BY <1>1, <1>2, <1>3, <1>4, <1>6
<1> QED BY <1>2, <1>4, <1>7 DEF r, a, b, l

\* Creates only push the others back, so what was there from the start stays
\* before the client until a page gives it away (repository.go:48-54).
LEMMA FromStartStep == IInv /\ [Next]_vars => FromStart'
<1> SUFFICES ASSUME IInv, [Next]_vars, stage' # "idle", first' = 1, ~deleted'
             PROVE  /\ start' \subseteq live'
                    /\ \A id \in start' : Rank(live', id) < Bound' => id \in seen'
  BY DEF FromStart
<1>0. TypeOK /\ TypeOK'
  BY TypeStep DEF IInv
<1>1. CASE Create
  <2>1. /\ stage' = stage /\ first' = first /\ deleted' = deleted
        /\ start' = start /\ seen' = seen /\ Bound' = Bound
    BY <1>1 DEF Create, client, Bound
  <2>2. /\ start \subseteq live
        /\ \A id \in start : Rank(live, id) < Bound => id \in seen
    BY <2>1 DEF IInv, FromStart
  <2>3. live \in SUBSET live' /\ live' \in SUBSET Ids /\ start \in SUBSET Ids
    BY <1>0, <1>1 DEF Create, TypeOK
  <2>4. Bound \in Int
    BY <1>0, Numbers DEF Bound, TypeOK, PageQuery
  <2>5. ASSUME NEW id \in start, Rank(live', id) < Bound PROVE id \in seen
    <3>1. Rank(live, id) <= Rank(live', id)
      BY <2>3, RankMonotone
    <3>2. Rank(live, id) \in Nat /\ Rank(live', id) \in Nat
      BY <1>0, <2>3, RankRange DEF TypeOK
    <3>3. Rank(live, id) < Bound
      BY <2>4, <2>5, <3>1, <3>2
    <3> QED BY <2>2, <3>3
  <2> QED BY <2>1, <2>2, <2>3, <2>5
<1>2. CASE Delete
  <2>1. stage' = stage /\ deleted' = (deleted \/ stage # "idle")
    BY <1>2 DEF Delete
  <2> QED BY <2>1
<1>3. CASE Begin
  <2>1. start' = live /\ live' = live /\ q'.page = 1 /\ stage' = "count"
    BY <1>3 DEF Begin, List, table
  <2>2. q'.limit \in Nat
    BY <1>0, Numbers DEF TypeOK, PageQuery
  <2>3. Bound' = 0
    BY <2>1, <2>2 DEF Bound
  <2>4. \A id \in live : Rank(live, id) \in Nat
    BY <1>0, RankRange DEF TypeOK
  <2> QED BY <2>1, <2>3, <2>4
<1>4. CASE Count
  <2>1. /\ stage = "count" /\ live' = live /\ first' = first /\ deleted' = deleted
        /\ start' = start /\ seen' = seen /\ Bound' = Bound
    BY <1>4 DEF Count, table, Bound
  <2> QED BY <2>1 DEF IInv, FromStart
<1>5. CASE Find
  <2>1. /\ stage = "find" /\ stage' = "answered" /\ live' = live /\ first' = first
        /\ deleted' = deleted /\ start' = start /\ q' = q
        /\ seen' = seen \cup PageOf(q, live)
    BY <1>5 DEF Find, table
  <2>2. /\ start \subseteq live
        /\ \A id \in start : Rank(live, id) < (q.page - 1) * q.limit => id \in seen
    BY <2>1 DEF IInv, FromStart, Bound
  <2>3. Bound' = q.page * q.limit
    BY <2>1 DEF Bound
  <2>4. OffsetFits(q)
    BY <2>1 DEF IInv, Fits
  <2>5. ASSUME NEW id \in start, Rank(live, id) < q.page * q.limit PROVE id \in seen'
    <3>1. id \in live
      BY <2>2
    <3>2. CASE Rank(live, id) < (q.page - 1) * q.limit
      BY <2>1, <2>2, <3>2
    <3>3. CASE ~(Rank(live, id) < (q.page - 1) * q.limit)
      <4>1. Rank(live, id) \in Nat /\ (q.page - 1) * q.limit \in Nat
        BY <1>0, <3>1, Window
      <4>2. Rank(live, id) >= (q.page - 1) * q.limit
        BY <3>3, <4>1
      <4>3. id \in PageOf(q, live)
        BY <1>0, <2>4, <2>5, <3>1, <4>2, Window
      <4> QED BY <2>1, <4>3
    <3> QED BY <3>2, <3>3
  <2> QED BY <2>1, <2>2, <2>3, <2>5
<1>6. CASE NextPage
  <2>1. q'.page = q.page + 1 /\ q'.limit = q.limit /\ stage' = "count"
    BY <1>6, NextFits
  <2>2. /\ stage = "answered" /\ live' = live /\ first' = first /\ deleted' = deleted
        /\ start' = start /\ seen' = seen
    BY <1>6 DEF NextPage, List, table
  <2>3. q'.page - 1 = q.page
    BY <1>0, <2>1, Numbers DEF TypeOK, PageQuery
  <2>4. Bound' = Bound
    BY <2>1, <2>2, <2>3, Zenon DEF Bound
  <2> QED BY <2>2, <2>4 DEF IInv, FromStart
<1>7. CASE Leave
  BY <1>7 DEF Leave
<1>8. CASE UNCHANGED vars
  BY <1>8 DEF vars, IInv, FromStart, Bound
<1> QED BY <1>1, <1>2, <1>3, <1>4, <1>5, <1>6, <1>7, <1>8 DEF Next

\* Deletes only pull the others up, so what a page gave away stays behind the
\* client (repository.go:48-54).
LEMMA BehindStep == IInv /\ [Next]_vars => Behind'
<1> SUFFICES ASSUME IInv, [Next]_vars, stage' # "idle", ~created'
             PROVE  \A id \in seen' \cap live' : Rank(live', id) < Bound'
  BY DEF Behind
<1>0. TypeOK /\ TypeOK'
  BY TypeStep DEF IInv
<1>1. CASE Create
  <2>1. stage' = stage /\ created' = (created \/ stage # "idle")
    BY <1>1 DEF Create
  <2> QED BY <2>1
<1>2. CASE Delete
  <2>1. /\ stage' = stage /\ created' = created /\ seen' = seen /\ Bound' = Bound
        /\ live' \in SUBSET live
    BY <1>2 DEF Delete, client, Bound
  <2>2. Bound \in Int
    BY <1>0, Numbers DEF Bound, TypeOK, PageQuery
  <2>3. live \in SUBSET Ids
    BY <1>0 DEF TypeOK
  <2>4. ASSUME NEW id \in seen \cap live' PROVE Rank(live', id) < Bound
    <3>1. Rank(live, id) < Bound
      BY <2>1 DEF IInv, Behind
    <3>2. Rank(live', id) <= Rank(live, id) /\ id \in Ids
      BY <2>1, <2>3, RankMonotone
    <3>3. Rank(live, id) \in Nat /\ Rank(live', id) \in Nat
      BY <2>1, <2>3, <3>2, RankRange
    <3> QED BY <2>2, <3>1, <3>2, <3>3
  <2> QED BY <2>1, <2>4
<1>3. CASE Begin
  BY <1>3 DEF Begin
<1>4. CASE Count
  <2>1. /\ stage = "count" /\ live' = live /\ created' = created /\ seen' = seen
        /\ Bound' = Bound
    BY <1>4 DEF Count, table, Bound
  <2> QED BY <2>1 DEF IInv, Behind
<1>5. CASE Find
  <2>1. /\ stage = "find" /\ stage' = "answered" /\ live' = live /\ created' = created
        /\ q' = q /\ seen' = seen \cup PageOf(q, live)
    BY <1>5 DEF Find, table
  <2>2. Bound' = q.page * q.limit
    BY <2>1 DEF Bound
  <2>3. \A id \in seen \cap live : Rank(live, id) < (q.page - 1) * q.limit
    BY <2>1 DEF IInv, Behind, Bound
  <2>4. ASSUME NEW id \in live, id \in seen \/ id \in PageOf(q, live)
        PROVE  Rank(live, id) < q.page * q.limit
    <3>1. CASE id \in PageOf(q, live)
      BY <1>0, <3>1, Window
    <3>2. CASE id \in seen
      <4>1. Rank(live, id) < (q.page - 1) * q.limit
        BY <2>3, <3>2
      <4>2. /\ Rank(live, id) \in Nat /\ q.page * q.limit \in Nat
            /\ (q.page - 1) * q.limit \in Nat /\ (q.page - 1) * q.limit < q.page * q.limit
        BY <1>0, Window
      <4> DEFINE a == (q.page - 1) * q.limit
                 b == q.page * q.limit
      <4> HIDE DEF a, b
      <4>3. Rank(live, id) < a /\ Rank(live, id) \in Nat /\ a \in Nat /\ b \in Nat /\ a < b
        BY <4>1, <4>2 DEF a, b
      <4>4. Rank(live, id) < b
        BY <4>3
      <4> QED BY <4>4 DEF b
    <3> QED BY <2>4, <3>1, <3>2
  <2> QED BY <2>1, <2>2, <2>4
<1>6. CASE NextPage
  <2>1. q'.page = q.page + 1 /\ q'.limit = q.limit /\ stage' = "count"
    BY <1>6, NextFits
  <2>2. stage = "answered" /\ live' = live /\ created' = created /\ seen' = seen
    BY <1>6 DEF NextPage, List, table
  <2>3. q'.page - 1 = q.page
    BY <1>0, <2>1, Numbers DEF TypeOK, PageQuery
  <2>4. Bound' = Bound
    BY <2>1, <2>2, <2>3, Zenon DEF Bound
  <2> QED BY <2>2, <2>4 DEF IInv, Behind
<1>7. CASE Leave
  BY <1>7 DEF Leave
<1>8. CASE UNCHANGED vars
  BY <1>8 DEF vars, IInv, Behind, Bound
<1> QED BY <1>1, <1>2, <1>3, <1>4, <1>5, <1>6, <1>7, <1>8 DEF Next

\* The page that Find reads is the one the meta counts, if nothing slipped in
\* between (pagination.go:16, 39-42; repository.go:40-54).
LEMMA PageRead ==
  ASSUME TypeOK, total = Cardinality(live), OffsetFits(q)
  PROVE  LET pages == TotalPages(q, total)
             page  == PageOf(q, live)
         IN /\ q.page < pages => Cardinality(page) = q.limit
            /\ q.page = pages => /\ Cardinality(page) = total - (q.page - 1) * q.limit
                                 /\ page # {}
            /\ q.page > pages => page = {}
<1> DEFINE P == TotalPages(q, total)
           page == PageOf(q, live)
           c == Cardinality(page)
           s == Skipped(q)
           l == q.limit
           a == (q.page - 1) * l
           b == q.page * l
<1>1. l \in Nat \ {0} /\ q.page \in Nat \ {0} /\ q \in PageQuery /\ total \in Nat
  BY Numbers DEF TypeOK, PageQuery
<1>2. a \in Nat /\ b \in Nat /\ b = a + l
  BY <1>1, Products
<1>3. s = a
  BY <1>1, Skipping
<1>4. /\ q.page < P => b < total
      /\ q.page = P => a < total /\ total <= b
      /\ q.page > P => total <= a
  BY <1>1, LastPage
<1>5. /\ s + l <= total => c = l
      /\ s <= total /\ total <= s + l => c = total - s
      /\ total <= s => page = {}
  BY <1>1, PageSize DEF TypeOK
<1>6. page = {} => c = 0
  BY FS_EmptySet
<1> HIDE DEF P, page, c, s, l, a, b
<1>7. q.page < P => c = l
  BY <1>1, <1>2, <1>3, <1>4, <1>5
<1>8. q.page = P => c = total - a /\ page # {}
  BY <1>1, <1>2, <1>3, <1>4, <1>5, <1>6
<1>9. q.page > P => page = {}
  BY <1>3, <1>4, <1>5
<1> QED BY <1>7, <1>8, <1>9 DEF P, page, c, l, a

\* Only Find answers, and it answers with that page.
LEMMA PageStep == IInv /\ [Next]_vars => PageHolds'
<1> SUFFICES ASSUME IInv, [Next]_vars PROVE PageHolds'
  OBVIOUS
<1>1. CASE Create \/ Delete
  <2>1. stage' = stage /\ q' = q /\ total' = total /\ items' = items
    BY <1>1 DEF Create, Delete, client
  <2>2. ~slipped' => ~slipped
    BY <1>1 DEF Create, Delete
  <2> QED BY <2>1, <2>2 DEF IInv, PageHolds, OffsetFits, TotalPages
<1>2. CASE Begin \/ Count \/ NextPage \/ Leave
  <2>1. stage' # "answered"
    BY <1>2 DEF Begin, Count, NextPage, Leave, List
  <2> QED BY <2>1 DEF PageHolds
<1>3. CASE Find
  <2>1. /\ stage = "find" /\ items' = PageOf(q, live) /\ q' = q /\ total' = total
        /\ slipped' = slipped
    BY <1>3 DEF Find
  <2>2. TypeOK /\ (~slipped => total = Cardinality(live))
    BY <2>1 DEF IInv, CountHolds
  <2> QED BY <2>1, <2>2, PageRead DEF PageHolds, OffsetFits, TotalPages
<1>4. CASE UNCHANGED vars
  BY <1>4 DEF vars, IInv, PageHolds, OffsetFits, TotalPages
<1> QED BY <1>1, <1>2, <1>3, <1>4 DEF Next

\* A client at the last page has every rank behind it.
LEMMA SkippedStep == IInv /\ [Next]_vars => NothingSkipped'
<1> SUFFICES ASSUME IInv, [Next]_vars PROVE NothingSkipped'
  OBVIOUS
<1>1. CASE Create \/ Delete
  <2>1. /\ stage' = stage /\ q' = q /\ total' = total /\ first' = first
        /\ start' = start /\ seen' = seen
    BY <1>1 DEF Create, Delete, client
  <2>2. ~slipped' => ~slipped
    BY <1>1 DEF Create, Delete
  <2>3. ~deleted' => ~deleted
    BY <1>1 DEF Create, Delete
  <2> QED BY <2>1, <2>2, <2>3 DEF IInv, NothingSkipped, AtLastPage, TotalPages
<1>2. CASE Begin \/ Count \/ NextPage \/ Leave
  <2>1. stage' # "answered"
    BY <1>2 DEF Begin, Count, NextPage, Leave, List
  <2> QED BY <2>1 DEF NothingSkipped
<1>3. CASE Find
  <2> SUFFICES ASSUME AtLastPage', first' = 1, ~deleted', ~slipped'
               PROVE  start' \subseteq seen'
    BY DEF NothingSkipped
  <2>1. /\ stage = "find" /\ stage' = "answered" /\ live' = live /\ q' = q
        /\ total' = total /\ slipped' = slipped
    BY <1>3 DEF Find, table
  <2>2. total = Cardinality(live) /\ TypeOK
    BY <2>1 DEF IInv, CountHolds
  <2>3. q.page >= TotalPages(q, total)
    BY <2>1 DEF AtLastPage, TotalPages
  <2>4. total <= q.page * q.limit
    <3> DEFINE P == TotalPages(q, total)
               a == (q.page - 1) * q.limit
               b == q.page * q.limit
    <3>1. q.limit \in Nat \ {0} /\ q.page \in Nat \ {0} /\ q \in PageQuery /\ total \in Nat
      BY <2>2, Numbers DEF TypeOK, PageQuery
    <3>2. a \in Nat /\ b \in Nat /\ b = a + q.limit
      BY <3>1, Products
    <3>3. P \in Nat /\ (q.page = P => total <= b) /\ (q.page > P => total <= a)
      BY <3>1, LastPage
    <3> HIDE DEF P, a, b
    <3>4. q.page = P \/ q.page > P
      BY <2>3, <3>1, <3>3 DEF P
    <3>5. total <= b
      BY <3>1, <3>2, <3>3, <3>4
    <3> QED BY <3>5 DEF b
  <2>5. /\ start' \subseteq live
        /\ \A id \in start' : Rank(live, id) < q.page * q.limit => id \in seen'
    BY <2>1, FromStartStep DEF FromStart, Bound
  <2>6. ASSUME NEW id \in start' PROVE id \in seen'
    <3>1. id \in live
      BY <2>5
    <3>2. Rank(live, id) \in Nat /\ Rank(live, id) < total
      BY <2>2, <3>1, RankRange DEF TypeOK
    <3>3. total \in Nat /\ q.page * q.limit \in Nat
      BY <2>2, <3>1, Window DEF TypeOK
    <3>4. Rank(live, id) < q.page * q.limit
      <4> DEFINE b == q.page * q.limit
      <4>1. b \in Nat /\ total <= b
        BY <2>4, <3>3
      <4> HIDE DEF b
      <4>2. Rank(live, id) < b
        BY <3>2, <3>3, <4>1
      <4> QED BY <4>2 DEF b
    <3> QED BY <2>5, <3>4
  <2> QED BY <2>6
<1>4. CASE UNCHANGED vars
  BY <1>4 DEF vars, IInv, NothingSkipped, AtLastPage, TotalPages
<1> QED BY <1>1, <1>2, <1>3, <1>4 DEF Next

-----------------------------------------------------------------------------
(* The theorems.                                                           *)

\* The invariant is inductive.
LEMMA Invariant == Spec => []IInv
<1>1. IInv /\ [Next]_vars => IInv'
  <2> SUFFICES ASSUME IInv, [Next]_vars PROVE IInv'
    OBVIOUS
  <2>1. TypeOK'
    BY TypeStep DEF IInv
  <2> QED BY <2>1, CountStep, PageStep, FitsStep, FromStartStep, SkippedStep, BehindStep
           DEF IInv
<1> QED BY <1>1, Initially, PTL DEF Spec

\* No query leaves the range of its types and no page is larger than MaxLimit,
\* whatever page= and limit= ask for (pagination.go:18-29).
THEOREM TypeCorrectness == Spec => []TypeOK
<1>1. IInv => TypeOK
  BY DEF IInv
<1> QED BY <1>1, Invariant, PTL

\* A page has the tasks its meta counts, whatever else is created and deleted
\* outside the two statements (pagination.go:16, 39-42; repository.go:40-54).
THEOREM PageAgrees == Spec => []PageHolds
<1>1. IInv => PageHolds
  BY DEF IInv
<1> QED BY <1>1, Invariant, PTL

\* Creates alone never make a client that follows the pages miss a task
\* (pagination.go:16, 39-42; repository.go:40-54).
THEOREM NobodySkipped == Spec => []NothingSkipped
<1>1. IInv => NothingSkipped
  BY DEF IInv
<1> QED BY <1>1, Invariant, PTL

\* Deletes alone never give a client a task twice (pagination.go:16,
\* repository.go:48-52).
THEOREM NobodyTwice == Spec => NothingRepeated
<1>1. ASSUME IInv, [Next]_vars, stage = "find", stage' = "answered", ~created
      PROVE  items' \cap seen = {}
  <2>1. Find
    BY <1>1 DEF Next, Create, Delete, Begin, Count, NextPage, Leave, List, vars
  <2>2. items' = PageOf(q, live)
    BY <2>1 DEF Find
  <2>3. \A id \in seen \cap live : Rank(live, id) < (q.page - 1) * q.limit
    BY <1>1 DEF IInv, Behind, Bound
  <2>4. TypeOK
    BY <1>1 DEF IInv
  <2>5. ASSUME NEW id \in seen, id \in PageOf(q, live) PROVE FALSE
    <3>1. id \in live
      BY <2>5 DEF PageOf
    <3>2. OffsetFits(q)
      BY <1>1, <2>5 DEF IInv, Fits
    <3> DEFINE a == (q.page - 1) * q.limit
    <3>3. Rank(live, id) \in Nat /\ a \in Nat /\ Rank(live, id) < a
      BY <2>3, <2>4, <3>1, Window
    <3>4. Rank(live, id) >= a
      BY <2>4, <2>5, <3>1, <3>2, Window
    <3> HIDE DEF a
    <3> QED BY <3>3, <3>4
  <2> QED BY <2>2, <2>5
<1>2. IInv /\ [Next]_vars
        => [stage = "find" /\ stage' = "answered" /\ ~created => items' \cap seen = {}]_vars
  BY <1>1
<1> QED BY <1>2, Invariant, PTL DEF Spec, NothingRepeated

=============================================================================
