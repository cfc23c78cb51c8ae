# go-fiber-starter in TLA+

A verification development for the HTTP service in this repository: a Go/Fiber
application that serves a `tasks` resource over GORM (postgres, mysql or
sqlite), with optional JWT authentication, rate limiting, metrics, health
probes and a migration CLI. The modules are translated from the source; `map`
in `PROJECT.json` names the lines behind each definition.

To check a run: `tlc -workers 2 -config RowLocks.cfg MCTaskRepository`.
To check the proofs: `tlapm TaskRepositoryProofs.tla`.

## 1. The system

| component | state | operations | hard behaviour | correct when |
|---|---|---|---|---|
| task module (`internal/modules/task`) | the `tasks` table, an id sequence; per request: the statement it is at, `t` of `Update` | Create, Get, List, Update, Delete, each handler -> service -> `gormRepository` | goroutines of several instances interleave between statements; read-modify-write with a full-row `Save`; soft delete; failing commits; crashes | each operation is atomic, no PATCH is lost, deleted tasks stay deleted, no lock or transaction outlives its request |
| connection pool (`internal/database/database.go`) | connections in use | take one, wait, return; `Ping` | a transaction keeps its connection while it waits for a row lock | nobody waits for ever |
| database and GORM (external) | committed rows, row locks or file locks | statements, commit, rollback | three databases with two locking schemes behind one code path | what `repository.go` relies on (section 5) |
| errors (`internal/apperror`, `internal/httpx`, `internal/validator/bind.go`) | none: values that wrap one another | `Is`, `As`, `AsAppError`, `WithCause`, `BindErrorToAppError`, `mapFiberError` | two conversions of one error at two places that must agree | status and `error.code` belong together whatever wraps the error |
| router and middleware (`internal/router`, `internal/middleware`) | limiter counters per address; per request: status, error, what was recorded | recover, cors, limiter, prometheus, request log, routes, `errorHandler` | the order of registration; errors that pass the observers by; panics | what is recorded is what is sent, every failure leaves a trace, probes are never limited |
| auth (`internal/modules/auth`) | none (tokens are stateless) | login, `RequireAuth` | wiring of the guard; expiry in whole seconds, judged by another instance's clock; a secret that changes with a restart | no task handler without a valid token; a token is honoured as long as its client was told |
| health (`internal/modules/health`) | none | livez, readyz | `Ping` shares the pool with the requests, and has the only time limit | readyz answers whatever the database does, and means what it says |
| pagination (`internal/pagination`) | none | clamp, offset, meta | overflow of the offset, pages over a table that changes | offset and page count fit the table |
| configuration (`internal/config`) | read once | `Load`, `Validate` | rules across fields | an invalid configuration never serves |
| start and shutdown (`cmd/api`) | stage of `run`, the signal context, the pool, requests in flight | boot order, listen, drain, close, exit | signals at any stage; a shutdown that drains while `run` goes on; a database that refuses or hangs | nobody is cut off before `run` returns, a signal that is not missed ends the process |
| migrations (`cmd/migrate`, `database/migrator.go`, `db/migrations`) | the objects of the database, version, dirty flag, migration lock | up, down, version, force, auto-migrate | crash between two statements, statements that commit one by one, two operators, builds that know different versions, force to the wrong version | version and dirty flag tell what is in the database; an up that succeeds is done |
| log adapter, test helpers, API text, scripts | none | - | - | - |

**How they interact.** `router.New` registers, from outside in: recover, cors,
the global limiter, Prometheus, the request logger, then the routes; the task
routes sit in a group behind `taskGuard`, the login route behind a limiter of
its own. A handler calls its service, the service the repository, the
repository GORM, which takes connections from the pool of the instance. An
error travels back through the same middlewares as a Go value; the two
observers predict its status (`EffectiveStatus`), then fiber calls
`errorHandler`, which computes it again and answers. Requests share nothing in
memory but the limiters and the pool; instances share nothing but the database.

The places where this is hard to test are the `hazards` of `PROJECT.json`; a
hazard without a property says why.

## 2. The modules

| module | models | how it corresponds to the code |
|---|---|---|
| `TaskData` | `model.go`, `dto.go`, the closure of `Service.Update` | tasks, rows with `deleted_at`, requests, replies; `Mutate` is the closure. A title, a due date is a model value |
| `TaskStore` | the `Repository` interface of `service.go` | the abstract specification: each operation takes effect at one instant between call and answer; List counts at one instant and reads at a later one; a write answered 500 may have taken effect. `AnswersHold` is what clients may rely on |
| `TaskRepository` | `handler.go`, `service.go`, `repository.go`, the pool of `database.go`, the locks of the databases | one action per statement: `Insert`, `FindByID`, `Count`, `Find`, `First`, `Save`, `Delete`, `Commit` with their not-found branches; `GetConn` waits for the pool; `Fail` is any failing statement, `Crash` the death of an instance; `pc` is the point the goroutine has reached, `seen` is `t` of `Update`, `staged` the write of the open transaction. `Blockers(p)` is whom a request waits for |
| `MCTaskRepository` | - | instances for TLC |
| `Pagination` | `pagination.go`, the List of handler, service and repository | the arithmetic of pages with the width of Go's `int`; a page as a window of ranks by descending id; a client that follows `total_pages` while others create and delete. `Count` and `Find` are the two statements |
| `TaskRepositoryProofs`, `TaskRefinementProofs` | - | invariants and action properties, who waits for whom, that every request is answered; the refinement of `TaskStore`, its invariant and what follows from it below |
| `ErrorChains` | `apperror/errors.go`, `validator/bind.go`, `effective_status.go`, the `errorHandler` of `router.go` | an error is the sequence of nodes `errors.Unwrap` walks; `Is` and `As` search it |
| `RequestPipeline` | `router.go`, `wiring.go`, the middlewares, the routes and handlers of the three modules | one action per middleware or handler, `stage` is how deep the request is; `ServerRejects`, `Preflight` and `Panic` are its ways past the observers; `BindErrors` is what `BindErrorToAppError` makes of every kind of cause fiber's binder returns |
| `MCRequestPipeline` | - | instances for TLC |
| `ErrorChainsProofs`, `RequestPipelineProofs` | - | facts about every chain; invariants of the pipeline |
| `Configuration` | `config.go` | the `envDefault` values and every rule of `Validate`, grouped by what they are about; a secret is its length, a duration its seconds |
| `Lifecycle` | `cmd/api/main.go`, `New` and `Ping` of `database.go`, `migrator.go` as `run` calls it, readyz | `stage` is the call `run` is at; `signalled` is the context of `NotifyContext`, `missed` a shutdown that found no listener; `Listen` starts serving, `ListenReturns` is the listener closed, whoever is in flight; requests of the task routes and of readyz compete for the pool (`TakeConn`); the database goes up, down or hangs at any time |
| `MCLifecycle` | - | the configurations: the defaults, one that serves in prod, one in dev, and for every rule one that breaks it (`BrokenAreBroken`, evaluated by TLC) |
| `Migration` | `cmd/migrate/main.go`, `migrator.go`, `embed.go`, the SQL files | `pc[c]` is the call a `migrate` process is at, inside golang-migrate too: lock, read the version, mark it dirty, run the body, clear. A body is one step on postgres and one statement at a time on mysql |
| `SchemaHistory` | what `migrate` promises operators | the abstract specification: migrations one at a time, each from a clean version to a neighbour, touching only its own objects; cut short, the database stays dirty until a force |
| `MCMigration` | - | instances for TLC |
| `Tokens` | `auth/service.go`, `auth/middleware.go` | `Issued` is the claims and the response of a login; `Verify` is `ParseWithClaims`; time passes in ticks, `Second` of them to a second |
| `MCTokens` | - | instances for TLC |
| `MigrationProofs`, `LifecycleProofs`, `TokensProofs` | - | invariants and action properties of the three; the refinement of `SchemaHistory`; that a signal ends the process and every probe ends |
| `PaginationProofs` | - | ranks and windows; what a page holds; what a client misses or sees twice |

`TaskRepository` and `TaskStore` share `TaskData`; `TaskRepository` refines
`TaskStore` by `Phase`. `Migration` refines `SchemaHistory`: schema, version and
dirty flag are the same on both sides, `Body` is the direction the one worker
is going in, and `trusted` is `Honest`; processes, lock, statement counters and
what a build knows are gone. `RequestPipeline` extends `ErrorChains` and treats the
outcome of a handler's body as a choice among what the service can return, so
the task module is in detail in one model and a choice in the other.
`Lifecycle` extends `Configuration`. A handler is two points there, waiting for
a connection and in the database: what the statements do is in `TaskRepository`,
what the answers look like in `RequestPipeline`. `AutoMigrateIfNeeded` appears
twice, as a stage of the start in `Lifecycle` and by its effect on the schema
beside the versions in `Migration`.

Definitions whose comment starts with "Mutated:" stand beside the definition
they vary: plausible bugs, each breaking a property of a run.

## 3. The runs

| run | instance | asks |
|---|---|---|
| `row_locks` | 3 requests, 2 instances (two requests share one, with 1 connection), 1 id, all operations, postgres/mysql locks | `TypeOK`, `SnapshotFresh`, `StagedWrites`, `LocksOfOpenTransactions`, `NoCircularWait`, `BlockersBlock`, `NoLostUpdate`, `DeletedForever`, `ImplementsTaskStore` |
| `sqlite` | 3 requests of 1 instance, 2 connections, 1 id, file locks | `LocksOfOpenTransactions`, `BlockersBlock`, `ImplementsTaskStore`: does the missing `FOR UPDATE` matter? |
| `answered` | 3 requests (create, and update or delete of one task), 1 instance, 2 connections, 2 ids, with fairness | `RequestAnswered`; `FreshIds`: inserts that race, fail and run out; `AnswersAreDurable` |
| `pipeline` | 2 requests of 1 client, auth on and off, limits 2 and 1 | `TypeOK` with `Contract` and its one exception, `UnsupportedBody`; `ObservedIsSent`, `FailuresAreLogged`, `TasksAreGuarded`, `MissingTask`, `ProbesAreFree` |
| `pages` | ids 1..5, limits up to 3 and above, pages up to and beyond an `int` of 0..7 | `TypeOK`, `PageHolds`, `NothingSkipped`, `NothingRepeated` |
| `migrations` | 2 operators, one with a build of version 1, one of version 2; postgres and mysql in dev and prod, sqlite in dev | `TypeOK`, `LockOfTheWorker`, `VersionTellsSchema`, `UpDone`, `ImplementsHistory` |
| `lifecycle` | 3 requests, 31 configurations, with fairness | `TypeOK`, `ServesOnlyChecked`, `CutOffAtTheEndOnly`, `WaitsForNothingElse`, `UnavailableIsReal`, `SignalEnds`, `ProbeEnds` |
| `tokens` | 2 instances, 1 client, 2 secrets, lifetimes below, at, between and above whole seconds | `TypeOK`, `AcceptedInTime`, `RefusedWhenDue` |
| `panic_metrics` | 1 request | violated: `ReachedIsMeasured` |
| `refused_bodies` | 1 request | violated: `RefusedBodies` |
| `version_dirty` | 1 operator, postgres in prod | violated: `VersionShowsDirty` |
| `successful_exit` | 1 request | violated: `SuccessAnswersAll` |

**What they show.** With row locks the repository is atomic: between the locked
read of an `Update` and its `Save` the row does not change, so writing every
column back loses no other PATCH, and GORM's insert-over-conflict, which would
revive a task deleted meanwhile, never meets a deleted row. With sqlite the code
takes no row lock; atomicity then rests on sqlite, which lets any number of
transactions read but refuses the second one that wants to write (`SaveBusy`,
answered 500). Neither scheme leaks a lock after a 404, an error, a failing
commit or a crash. What the client cannot rely on is visible in `TaskStore`: a
500 does not say whether the write took effect, and `total` and `items` of one
List may disagree. What it can rely on is `AnswersHold`: a task it was given
exists, a task it deleted stays deleted, and no two clients were told of the
same creation or the same deletion; `AnswersAreDurable` says it of the
repository.

Nobody waits in a circle. `Blockers(p)` is whom a request waits for: the holders
of its instance's connections, of the row, of sqlite's file, the readers its
commit waits for. Whoever waits, waits for requests in the database that are
further along (`NoCircularWait`): a request without a connection waits for one
with, a statement for a transaction that has its lock, a commit only for
readers about to write, and those for nobody. `BlockersBlock` ties this to the
actions: without blockers the next step is possible, with them none is. That
order is why the pool may be as small as one connection, and it holds only because
a transaction never needs a second one and always lets go: a `Save` outside the
transaction waits for a connection it holds itself, and one early return that
leaves its transaction open makes others wait for a request that is gone. In the
pipeline the two computations of a status agree on every path, the global 429
and a panic, which the observers never see, are logged by `errorHandler`, and
probes neither meet nor use up a budget. Every answer to an error has a code of
the catalogue with the status that belongs to it, but the one to a body fiber's
binder does not take: there the `fiber.Error` behind the `AppError` wins
(`RefusedBodies`).

A client that follows the pages misses a task only if one was deleted meanwhile,
or a create slipped between the two statements of the last page, and is given
one twice only if one was created meanwhile: offsets promise no more. Beyond the
largest `int` the offset wraps, and a page far past the end may answer rows of
the first pages; `PageHolds` speaks of offsets that fit.

Whatever operators do at once and wherever one dies, migrations happen one after
the other (`ImplementsHistory`): from the outside there is at most one body under
way, begun on a clean database, and a dirty one stays as it is until a force.
The version and the dirty
flag say what is in the database (`VersionTellsSchema`), as long as no `force`
named a version the schema was not at and, out of prod, no service migrated
automatically. On postgres a dirty database is exactly at the version or at a
neighbour, so a truthful `force` always exists. On mysql, where statements
commit one by one and `CREATE INDEX` and `DROP INDEX` know no `IF EXISTS`, the
objects may be those of no version, and no `force` recovers without removing
the rest by hand. An `up` of a build older than the database fails rather than
report success (`UpDone`), so a rollback of the service alone does not start
behind the compose file's `migrate`.

The life of a process shows four things an operator should know. While
`gorm.Open` waits for a database that accepts and never answers, SIGTERM has no
effect: `NotifyContext` has taken it over and nobody looks at the context
(`SignalEnds` excepts that stage, and `WaitsForNothingElse` says what else `run`
can wait for: a hung database while it migrates, which a signal ends, and a
signal while it serves; never a handler or the pool). A signal between `New`
and the moment `Serve` has its listener is lost: fiber's shutdown finds nothing
to close and is not tried again, and `NotifyContext` keeps every further SIGTERM,
so only SIGKILL ends the process (`SignalEnds` excepts `missed`). `readyz` shares
the pool, so an instance with its pool full for three seconds reports "database
down"; `UnavailableIsReal` allows that and forbids every other false alarm. And
the shutdown closes the listener first, at which `Listen` returns nil while the
draining goes on in fiber's goroutine: `run` closes the pool under the handlers
in flight and exits with success (`SuccessAnswersAll` is violated). What remains
true is that nobody is cut off as long as `run` has not returned
(`CutOffAtTheEndOnly`).

A token's `exp` loses the part of a second that the client's `expires_at`
keeps: it may be refused up to a second before `expires_at`, plus the skew of the
clocks, and one with a `TTL` below a second, which `Validate` allows, may be over
at its birth. It is never honoured past `expires_at` but for the skew.

**Why the bounds are enough.** Two requests conflict on a row; the third makes
a queue, a writer between two steps of another, or a delete between two PATCHes.
Requests touch one row each, and rows interact through the id sequence and the
lists only, so one id shows every conflict (create, delete, and no id left
included) and two ids the races of inserts: `answered` has the second id, and of
the second task only its creation. It leaves out plain reads, which like a create
wait for a connection only. The two PATCHes send disjoint
fields: a lost field shows. One connection forces requests to queue; two
connections against three requests let the pool and a row lock block each other.
In the pipeline a limit of one is the smallest that both passes and refuses, and
two requests of one address are enough to spend it; requests share nothing
else. `hits` stops one above the limit, where all values mean the same.
Five ids make pages of one, two and three with and without
a remainder, and leave creates and deletes to shift them; an `int` of four bits
is small enough for pages whose offset wraps to negative and back to positive.
`MaxId` bounds the ids the table can allocate: an insert beyond it fails.

Two operators are what the migration lock is about; the second version, for
which the repository has no file yet and which is given the shape of the first,
is what an old build does not know and where `up` goes on from one body to the
next. `force` may name one number no build has a file for. Three requests
exceed the pools of one (`Prod`) and two (`Dev`) connections and fit the pool of
`Default`; a readyz and a task contend, and a third holds what they need. Three
ticks to a second let a lifetime end in any part of a second; `MaxTime` lets the
longest token be issued anywhere in a second, expire and be refused with the
clocks `MaxSkew` apart.

**Symmetry.** Two runs permute requests of the same instance: all they check
are safety properties, and the refinement, whose mapping treats requests alike.
In `row_locks` only the two requests of the shared instance are permuted. The
liveness run uses no symmetry.

**Fairness.** Two runs assume any. `answered` has strong fairness of `GetConn(p)
\/ Step(p)`. A goroutine is scheduled and the database answers (weak fairness); a
row lock and a pool slot may be taken and freed over and over while someone waits,
and it is the queues that make waiting end: postgres and mysql queue the waiters
of a row lock, `database/sql` hands a returned connection to one of those who wait
before anybody new gets it. Which one the package does not promise; that no waiter
is passed over for ever is assumed. sqlite has no such queue (a busy reader polls
and may give up), so the run is about row locks. Nothing makes clients call,
statements fail or instances die. The code gives no context deadline to the
repository, so no wait ends by a timeout of its own; that the database may end one
is `Fail`. `lifecycle` has weak fairness of the steps of `run` and of each readyz:
the process is scheduled, fiber's goroutine closes the listener on the signal, and
the timers of the pings, five and three seconds, fire once they are due. Nothing
is assumed of task handlers, of the database, which may hang for ever, of clients,
or that a hung `gorm.Open` is ever given up.

## 4. The proofs

TLAPS proves the following for every value of the constants.

*Assumptions.* `DataAssumption`: `MaxId` is a natural number, the clients'
requests are well formed, the placeholder is no task. `RepositoryAssumption`:
every request has a home instance, the pool has at least one connection.
`LimitsAssumption`: what `config.Validate` enforces, the login limit is positive
and at most the global one. `PaginationAssumption`: the default limit is at most
the largest, and limits and ids fit an int. `MigrationAssumption`: every build
knows at least version 1, and nobody runs sqlite in prod, which
`config.Validate` refuses.
`LifecycleAssumption`: three settings of any configuration are integers, valid
or not. `TokensAssumption`: a second has ticks, a lifetime is positive
(`config.Validate`), the clocks start within the skew. All are evaluated by TLC
on the runs.

*The repository* (`TaskRepositoryProofs`). `TypeCorrectness`,
`SnapshotIsFresh`, `StagedWritesFit`, `LockDiscipline`, `IdsAreFresh`,
`NoUpdateIsLost`, `DeletionIsFinal`. None of the parts is inductive alone. The
invariant is their conjunction, `TypeOK /\ SnapshotFresh /\ StagedWrites /\
LocksOfOpenTransactions /\ FreshIds`:

- a snapshot stays fresh because whoever else could commit the row would have
  to hold its lock (`LocksOfOpenTransactions`), and on sqlite because a commit
  waits for the readers;
- a staged update was computed from the snapshot, so it fits the row as
  committed if the snapshot was fresh, and keeps fitting by the lock;
- a staged insert is about a row nobody else can reach: `FreshIds`;
- `NoLostUpdate` and `DeletedForever` are action properties; both follow from
  `StagedWrites` in the state before the one action that writes, `Commit`.

`StagedWrites` is proved for both locking schemes, as is `NoCircularWait` below;
TLC checks them under row locks. `PoolIsBounded` says that `DB_MAX_OPEN_CONNS`
is never exceeded: by `PoolStep`, connections in use grow by one at most, and
only while one is idle.

*Who waits for whom* (`TaskRepositoryProofs`), for any number of requests,
instances and connections. `NobodyWaitsInACircle` needs what `IInv` leaves open,
that a database has one locking scheme and the variables of the other stay
empty (`OneLockingScheme`). With it, `WhoBlocks` reads off `Blockers` how far
along a blocker is: a holder of a connection is past the pool, and a holder of a
lock has its statement behind it (`LocksOfOpenTransactions`). `Depth` numbers the
stages accordingly and falls from whoever waits to whom it waits for.
`ThePoolNeverStalls`: among the requests under way one waits for nobody; the
request itself, or, following `Depth` down at most three times, one in the
database. `TheBlockedWait` is the half of `BlockersBlock` that is an action
property: only a request without blockers takes a connection or runs a
statement.

*The refinement* (`TaskRefinementProofs`). `Refinement` proves
`Spec => Store!Spec` by the mapping `Phase`: a request is pending from its
acceptance to its answer, and counted between the two statements of List. Reads
map to the abstract operation where they read, writes where they commit, locks
and connections to stutters. `StagedWrites` is what makes `Commit` an abstract
`Update`: the row written is `Mutate` of the row at the commit.

The refinement then pays: `StoreAnswersHold` proves `AnswersHold` of `TaskStore`,
where there are ten actions and no lock, and `AnswersOutliveCrashes` carries it
to the repository in one step. Its invariant (`StoreInv`) adds the types and that
a 201 and a 204 name an id of the table. `AnswerKeeps` is the step all answers
share: the rows go on (`RowsGoOn`: nothing that is there vanishes, nothing
deleted returns), so earlier answers stay true, and a 201 or a 204 is given in
the step that makes it true, so nobody was told of it before.

*Errors* (`ErrorChainsProofs`), for chains of any length: `ObservationAgrees`
(`EffectiveStatus` predicts the status of `errorHandler`), `WrapIsTransparent`
(wrapping with `%w` changes no answer), `BindContract` (a refused body is 400
or 422 INVALID_REQUEST unless its cause carries a fiber error, which then gives
both status and code). `Has` and `As` are the first
match in a sequence, so no induction is needed.

*The pipeline* (`RequestPipelineProofs`). `EnvelopeContract`, `ObservationIsSent`,
`NoFailureUnlogged`, `GuardHolds`, `MissingTaskCode`, `ProbesPass`. The invariant
says, stage by stage, what a request carries: on its way in neither error nor
record; on its way out an error of the catalogue (`Flow`), with a record that is
either absent or the status `errorHandler` will compute (`ObservationAgrees`); and
a request without a token never gets past the guard (`Guarded`). `ProbesPass` adds
that no probe enters a task handler or carries an error that becomes a 429
(`ProbeFlow`). `EnvelopeContract` also says that the one answer outside the
catalogue, 422 HTTP_422, is given to nothing but an unsupported body. The
properties speak about answers only and say nothing about the stages before, which
is why they are not inductive.

*Migrations* (`MigrationProofs`), for any number of operators, builds and
versions: `TypeCorrectness`, `WorkersHoldTheLock`, `VersionIsHonest`,
`UpIsDone`. `VersionTellsSchema` says only that a dirty schema lies between the
version and a neighbour, which does not tell that clearing the flag is right.
The invariant adds how far the body has come: `Progress` gives the exact schema
from the statement counter and the direction, `Marked` keeps the version of a
running body known and dirty, `AtStart` the counter where a new body expects
it, `Finished` what an `up` read before it ends well. `Frame` and `OthersWait`
carry all of it over the steps of the others: only the holder of the lock
writes. `NoDriftInProd` is what `AutoMigrateIfNeeded` contributes.
`ATruthfulForceExists` draws the conclusion for postgres: the schema is exactly
that of a version at most one away from the recorded one, and one `force` may name.

`MigrationsAreSerial` proves `Spec => History!Spec`. The step that needs all of
the invariant is `Clear`, the abstract `Complete`, which must find the schema at the
version while everybody was honest; `Mark` is `Begin` because a lock holder that got
there read a clean version at which it is still. `BodyIsOfTheWorker` and
`BodyStep` turn the point of one process into the abstract `body`: the lock has
one holder, so `body` changes only as that process enters or leaves the body.
Starts, locks, refusals and reports are stutters; a failure and a crash are
`Abandon` when it was the worker's.

*The process* (`LifecycleProofs`), for any configurations and requests:
`TypeCorrectness`, `OnlyCheckedServes`, `NobodyCutOff`,
`UnavailableMeansIt`. The invariant ties pool and answers to the stage: the
pool is open from the ping to the deferred `Close`, nobody is turned away or
lost before `run` has returned (`RequestsOfStage`), what passed `Load` is valid
and what passed the migration is not blocked (`Checked`).

*Tokens* (`TokensProofs`), for any precision, lifetime, skew and number of
instances: `TypeCorrectness`, `AcceptedNoLater`, `RefusedNoEarlier`. `TypeOK`
is inductive here: it says that the clocks are within the skew and that `exp`
and `expires_at` differ by less than a second (`TruncatedToSeconds`).

*Pages* (`PaginationProofs`), for any table, limits and width of an int:
`TypeCorrectness`, `PageAgrees`, `NobodySkipped`, `NobodyTwice`. First the facts
they rest on: ranks are strictly ordered and onto (`RankOrder`, `RankOnto`), so
a window of ranks has as many tasks as ranks (`WindowSize`); `total_pages` is
the page of the last task (`LastPage`); a page that is not the last is followed
by one whose offset fits an int (`Following`). `NothingSkipped` speaks of the
last page only. The invariant follows the client there: `Bound` is the rank up
to which it has read, whatever was there from the start and ranks below it has
been seen (`FromStart`; creates only raise ranks), and whatever has been seen
ranks below it (`Behind`; deletes only lower them). `CountHolds` links the two
statements, `Fits` keeps the offset of a followed page from wrapping.

*Liveness.* The prover treats `ENABLED` as a name it knows nothing about, so a
fairness condition says nothing until somebody says when its action is possible.
Two invariants do, and TLC checks them: `WaitsForNothingElse` for `run` and the
probes, `BlockersBlock` for the requests. The three liveness theorems have the
form `FairSpec /\ []BlockersBlock => RequestAnswered`; everything else in them
is proved, for every value of the constants. What the two invariants say is also
proved without the word: `RunHasAStep`, `ProbeHasAStep` and `TheUnblockedMayGo`
give, wherever one of them promises a step, a next state, one equation for each
variable, and prove that going there is the step; `WaitingRunStays` and
`TheBlockedWait` are the converse, that who waits takes none. From a next state
to `ENABLED` is the rule the prover lacks.

- `SignalMeansEnd`. `Place` numbers the stages in the order of `run`, which only
  moves on (`MovesOn`: no step goes back, a signal is never forgotten). From
  every stage but two a signal moves it further (`StageIsLeft`, which needs the
  fairness of `run` and that the signal was not missed), so `exited` is reached by
  a chain of stages. The two are
  `load`, where no signal can have been taken yet, and `open`.
- `EveryProbeEnds`. A readyz has two places to be, waiting for a connection and
  at its ping, and goes forward only (`ProbeMovesOn`). `ProbeHasAStep` needs that
  the process and its pool are there as long as it is (`InFlightHavePool`).
- `EveryRequestIsAnswered`, under row locks, where the fairness is justified. A
  request goes on from a stage if it is free there again and again
  (`FreeGoesOn`). Whom it waits for is read off by `BlockedByRows`: an insert, a
  read and a transaction with its lock wait for nobody, so transactions end, and
  with them their row locks (`HoldersEnd`). An update or delete waits for one
  request at most, the holder of its row; a lock is released before anybody else
  gets it (`LockIsReleasedFirst`), so it is free for a moment once the holder
  ended, and strong fairness needs no more than such moments (`StatementsEnd`).
  Now every stage with a connection is left (`ConnectionsReturn`), and who waits
  for the pool waits for all who have one: the first that gives its connection
  back makes it free (`HolderStays`, `ConnectionsAreGiven`). That step counts
  connections and needs `PoolIsBounded`: a pool above its limit would stay full
  after one was returned. The order of the argument - transactions, statements,
  pool - is the order of `Depth`.

*Only model-checked*: the two invariants about `ENABLED`, `BlockersBlock` and
`WaitsForNothingElse`, in the part no formula without `ENABLED` can say. Under
sqlite liveness is neither checked nor proved, as no fairness of the waiters for
its file is justified.

## 5. What is assumed of libraries

- GORM runs a single write in a transaction of its own. `Save` updates the
  visible row and, when no row was affected, inserts it with an overwrite on
  conflict; `Delete` sets `deleted_at`; queries add `deleted_at IS NULL`; an
  `OFFSET` that is not positive is not written. A transaction keeps one
  connection from begin to end.
- postgres and mysql: reads see committed rows; `FOR UPDATE` and writes wait
  for the lock of the row and then look at its latest version. Gap locks and
  deadlock detection are left out: a request locks one row only, and a
  statement that the database aborts is `Fail`. Ids of failed inserts are lost.
- sqlite: a transaction begins deferred. A reader holds SHARED until its
  transaction ends, one writer at a time holds RESERVED, a commit waits for the
  other readers; who holds SHARED and asks for RESERVED while another has it is
  refused at once. Others may wait or time out (`Fail`). The model keeps new
  readers out from the write on, not from the commit on: a read in between sees
  what it would have seen just before the write.
- A commit may succeed although the client is told 500 (the connection broke).
- fiber calls the `ErrorHandler` itself, before any middleware, for a request it
  cannot read; an unmatched path or method is a `fiber.Error` of 404 or 405. The
  limiter counts the requests it refuses, and its estimate falls with time only.
- golang-migrate: a session lock (postgres advisory lock, mysql `GET_LOCK`)
  around `Up`, `Steps` and `Force`, taken at opening too, gone with the
  connection; `Version` takes none and answers `ErrNilVersion` when no version
  is set, dirty or not; a dirty database refuses `Up` and `Steps`, and so does
  one at a version without a file; a body runs between `SetVersion(target,
  dirty)` and `SetVersion(target, clean)`. A postgres body is one implicit
  transaction; on mysql every statement commits by itself.
- `database/sql`: `Close` does not wait for connections in use; who waits for
  one then fails. `gorm.Open` connects and pings without a context.
- fiber's `Listen` with a `GracefulContext` waits for the signal in a goroutine
  of its own, which then shuts the server down: it closes the listener and
  drains, and hands an error of the `ShutdownTimeout` to the post-shutdown
  hooks. `Serve`, and so `Listen`, returns nil as soon as the listener is closed.
  A shutdown before there is a listener does nothing. Handlers are not
  interrupted before the process exits.
- fiber's `Bind().Body` answers a missing or unsupported Content-Type with
  `ErrUnprocessableEntity`, a `fiber.Error` of 422; other refusals are no
  `fiber.Error`.
- `jwt`: `NewNumericDate` truncates to seconds; a token is over when `exp` is
  reached; `iat` is not checked.

## 6. Findings

- `ReachedIsMeasured`: SECURITY.md:38 says the actual status of the requests
  that reach the collecting middlewares is measured. A panic in a handler
  unwinds `prometheus.go:46` and `requestlogger.go:16`, which do not defer, to
  `recover` outside: its 500 is in neither.
- `RefusedBodies`: `bind.go:12-13` and `docs/architecture.md:27` say a body that
  does not parse is 400, one against its tags 422 with details. `bind.go:23`
  keeps the binder's error as the cause, and `router.go:133-137` looks for a
  `fiber.Error` first: a request without a Content-Type is answered 422 HTTP_422.
- `SuccessAnswersAll`: `main.go:69-70` says `Listen` returns after the requests in
  flight are done, with an error when the timeout is over. It returns nil when
  the listener is closed; `run` then closes the pool and exits 0 under them.
- `VersionShowsDirty`: README.md:246 of the repository says `migrate version`
  shows the current version and the dirty state. `main.go:80-83` returns the
  error of `Version` before it prints; a first migration that died on its way
  down leaves no version and a dirty flag, and `version` says "no migration" as
  on a fresh database, while `up` and `down` refuse.

Two more disagreements show as exceptions in properties that hold.
`FailuresAreLogged` excepts what the server refuses to read (413 and the like):
`router.go:130` says errors the request log does not have are logged by
`errorHandler`, but the branch for a `fiber.Error` returns first. `SignalEnds`
excepts a signal that comes before `Serve` has its listener, against `main.go:69`.

## 7. Not modelled, and the plan

The plan was, in the order of importance: the task module with its store, pool
and databases; errors; the pipeline; pagination; migrations; the life of the
process with its configuration; tokens. All of it is built. Every property of
the passing runs is the subject of a theorem but the two invariants that say
`ENABLED`, on which the three liveness theorems rest; both refinements are
proved. A prover with a rule for `ENABLED` would close that gap from
`RunHasAStep`, `ProbeHasAStep` and `TheUnblockedMayGo`.

Not modelled, with the reason: the sliding window of the limiter is code of the
library, of which `RequestPipeline` keeps an estimate; idle connections and
their lifetimes are kept by `database/sql` and no property is about them;
timestamps of tasks are data nothing depends on; reading the environment and
the `.env` file, and the schemes `migrateURL` strips, are formatting of strings.

Left out for good: GORM, the drivers, fiber and golang-migrate beyond the
behaviour above; the log adapter, formats, labels, latencies and security
headers, which no property is about; the API text, scripts and deployment
files; `WithTx`, which nothing calls. Ids are bounded, so an id beyond the
width of the column is out of reach. That the task routes are registered in the
guarded group is the shape of `RequestPipeline`, so `TasksAreGuarded` is about
the guard alone.
