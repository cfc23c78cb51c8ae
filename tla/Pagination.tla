------------------------------ MODULE Pagination ------------------------------
(***************************************************************************)
(* The pages of GET /api/v1/tasks (internal/pagination, Handler.List,      *)
(* Service.List and gormRepository.List), and a client that follows them   *)
(* from one page to the next while other requests create and delete tasks. *)
(*                                                                         *)
(* A page is a window of ranks over the live rows by descending id.  Every *)
(* page is counted and read by two statements; the table may change        *)
(* between them and from page to page, and the ranks move with it.         *)
(***************************************************************************)
EXTENDS Integers, FiniteSets

CONSTANTS
  DefaultLimit,  \* 20
  MaxLimit,      \* 100
  MaxInt,        \* the largest Go int
  MaxId,         \* bound: the largest id the table can allocate
  RawPages,      \* the page= a client sends; 0 for none, or for no number
  RawLimits      \* the limit= a client sends; 0 likewise

ASSUME PaginationAssumption ==
  /\ MaxLimit \in Nat /\ DefaultLimit \in 1..MaxLimit
  /\ MaxInt \in Nat /\ MaxLimit <= MaxInt
  /\ MaxId \in 0..MaxInt
  /\ RawPages \subseteq Nat /\ RawLimits \subseteq Nat

VARIABLES
  live,     \* the ids of the tasks every query can see
  nextId,   \* the id the next insert gets
  stage,    \* the client's call: "idle", "count", "find" or "answered"
  q,        \* its PageQuery
  total,    \* what Count returned
  items,    \* the ids of the page, once answered
  first,    \* the page the client began at
  start,    \* the live tasks when it began
  seen,     \* the tasks of the pages so far
  created,  \* a task was created since it began
  deleted,  \* a task was deleted since it began
  slipped   \* a write slipped in between Count and Find of this page

table == <<live, nextId>>
client == <<q, total, items, first, start, seen>>
vars == <<live, nextId, stage, q, total, items, first, start, seen,
          created, deleted, slipped>>

Ids == 1..MaxId
DefaultPage == 1

-----------------------------------------------------------------------------
(***************************************************************************)
(* The arithmetic of pages.                                                *)
(***************************************************************************)
\* strconv.Atoi refuses what does not fit an int.
atoiDefault(raw, def) == IF raw \in 1..MaxInt THEN raw ELSE def

PageQuery == [page : 1..MaxInt, limit : 1..MaxLimit]

\* Mutated: the limit is not capped.
NewPageQuery_Uncapped(page, limit) ==
  [page  |-> IF page < DefaultPage THEN DefaultPage ELSE page,
   limit |-> IF limit < 1 THEN DefaultLimit ELSE limit]

NewPageQuery(page, limit) ==
  [page  |-> IF page < DefaultPage THEN DefaultPage ELSE page,
   limit |-> CASE limit < 1        -> DefaultLimit
               [] limit > MaxLimit -> MaxLimit
               [] OTHER            -> limit]

\* A product of ints, in two's complement.
Wrapped(n) ==
  LET m == n % (2 * (MaxInt + 1)) IN
  IF m > MaxInt THEN m - 2 * (MaxInt + 1) ELSE m

\* Mutated: the offset counts pages, not rows.
Offset_InPages(pq) == Wrapped(pq.page - 1)

\* Mutated: the first page is page 0.
Offset_FromZero(pq) == Wrapped(pq.page * pq.limit)

Offset(pq) == Wrapped((pq.page - 1) * pq.limit)

OffsetFits(pq) == (pq.page - 1) * pq.limit <= MaxInt

\* Mutated: the last, partial page is not counted.
TotalPages_Floor(pq, n) == n \div pq.limit

\* NewPageMeta's total_pages.
TotalPages(pq, n) == (n + pq.limit - 1) \div pq.limit

\* GORM writes no OFFSET that is not positive.
Skipped(pq) == IF Offset(pq) > 0 THEN Offset(pq) ELSE 0

Rank(S, id) == Cardinality({j \in S : j > id})

\* ORDER BY id DESC LIMIT ... OFFSET ...
PageOf(pq, S) ==
  {id \in S : Rank(S, id) \in Skipped(pq)..(Skipped(pq) + pq.limit - 1)}

-----------------------------------------------------------------------------
\* Types; and no page is larger than MaxLimit, whatever limit= asks for
\* (pagination.go:25-27).
TypeOK ==
  /\ live \in SUBSET Ids
  /\ nextId \in 1..(MaxId + 1)
  /\ stage \in {"idle", "count", "find", "answered"}
  /\ q \in PageQuery
  /\ total \in 0..MaxId
  /\ items \in SUBSET Ids /\ Cardinality(items) <= MaxLimit
  /\ first \in 1..MaxInt
  /\ start \in SUBSET Ids
  /\ seen \in SUBSET Ids
  /\ created \in BOOLEAN /\ deleted \in BOOLEAN /\ slipped \in BOOLEAN

Idle == [page |-> DefaultPage, limit |-> DefaultLimit]

Init ==
  /\ live = {}
  /\ nextId = 1
  /\ stage = "idle"
  /\ q = Idle
  /\ total = 0
  /\ items = {}
  /\ first = DefaultPage
  /\ start = {}
  /\ seen = {}
  /\ created = FALSE /\ deleted = FALSE /\ slipped = FALSE

-----------------------------------------------------------------------------
(***************************************************************************)
(* The other requests.                                                     *)
(***************************************************************************)
Create ==
  /\ nextId \in Ids
  /\ live' = live \cup {nextId}
  /\ nextId' = nextId + 1
  /\ created' = (created \/ stage # "idle")
  /\ slipped' = (slipped \/ stage = "find")
  /\ UNCHANGED <<stage, client, deleted>>

Delete ==
  /\ \E id \in live : live' = live \ {id}
  /\ deleted' = (deleted \/ stage # "idle")
  /\ slipped' = (slipped \/ stage = "find")
  /\ UNCHANGED <<nextId, stage, client, created>>

(***************************************************************************)
(* The client and its calls.                                               *)
(***************************************************************************)
\* Handler.List and Service.List up to the repository.
List(page, limit) ==
  /\ stage' = "count"
  /\ q' = NewPageQuery(atoiDefault(page, DefaultPage),
                       atoiDefault(limit, DefaultLimit))
  /\ total' = 0
  /\ items' = {}
  /\ slipped' = FALSE
  /\ UNCHANGED table

Begin ==
  /\ stage = "idle"
  /\ \E page \in RawPages, limit \in RawLimits : List(page, limit)
  /\ first' = q'.page
  /\ start' = live
  /\ seen' = {}
  /\ created' = FALSE /\ deleted' = FALSE

Count ==
  /\ stage = "count"
  /\ stage' = "find"
  /\ total' = Cardinality(live)
  /\ UNCHANGED <<table, q, items, first, start, seen, created, deleted, slipped>>

Find ==
  /\ stage = "find"
  /\ stage' = "answered"
  /\ items' = PageOf(q, live)
  /\ seen' = seen \cup items'
  /\ UNCHANGED <<table, q, total, first, start, created, deleted, slipped>>

AtLastPage == q.page >= TotalPages(q, total)

\* The meta of the answer promises more pages: the client asks for the next.
NextPage ==
  /\ stage = "answered"
  /\ ~AtLastPage
  /\ List(q.page + 1, q.limit)
  /\ UNCHANGED <<first, start, seen, created, deleted>>

Leave ==
  /\ stage = "answered"
  /\ stage' = "idle"
  /\ q' = Idle
  /\ total' = 0
  /\ items' = {}
  /\ first' = DefaultPage
  /\ start' = {}
  /\ seen' = {}
  /\ created' = FALSE /\ deleted' = FALSE /\ slipped' = FALSE
  /\ UNCHANGED table

Next == Create \/ Delete \/ Begin \/ Count \/ Find \/ NextPage \/ Leave

Spec == Init /\ [][Next]_vars

-----------------------------------------------------------------------------
(***************************************************************************)
(* Properties.                                                             *)
(***************************************************************************)
\* A page agrees with the meta it comes with, unless the table changed between
\* the two statements or the offset does not fit an int: pages before the last
\* are full, the last holds the rest, and there is nothing beyond
\* (pagination.go:16, 39-42; repository.go:40-54).
PageHolds ==
  stage = "answered" /\ ~slipped /\ OffsetFits(q) =>
    LET pages == TotalPages(q, total) IN
    /\ q.page < pages => Cardinality(items) = q.limit
    /\ q.page = pages => Cardinality(items) = total - (q.page - 1) * q.limit
                         /\ items # {}
    /\ q.page > pages => items = {}

\* A client that follows the pages from the first to the last misses no task
\* it could have seen from the start, although tasks created meanwhile push the
\* others from page to page - provided nothing was deleted and no create
\* slipped into the last page (pagination.go:16, 39-42; repository.go:40-54).
NothingSkipped ==
  stage = "answered" /\ AtLastPage /\ first = 1 /\ ~deleted /\ ~slipped
    => start \subseteq seen

\* No client is given a task twice, although deletions move the others up,
\* provided nothing was created meanwhile (pagination.go:16,
\* repository.go:48-52).
NothingRepeated ==
  [][stage = "find" /\ stage' = "answered" /\ ~created
       => items' \cap seen = {}]_vars

=============================================================================
