# Formal model of rh-trex-ai

TLA+ modules, TLC configurations and TLAPS proofs about the service template in
`src/`: its database locks, its requests from the client to the rows and back, its lists
and searches, its event controllers, its connection pool and its deployment.  Every
definition is written from the Go code; `PROJECT.json` names, for each one, the file and
the lines it stands for.

## 1. The system and its parts

| Part | State | Operations | Correct when |
|---|---|---|---|
| Advisory locks (`pkg/db/advisory_locks.go`) | `AdvisoryLockFactory.locks` (uuid -> lock); one open transaction per lock; `pg_locks` in the server | `NewAdvisoryLock`, `NewNonBlockingLock`, `Unlock` | one owner per (id, lockType); nothing is left in the server or the map; a call that can be granted returns |
| Request transactions (`pkg/db/transaction_middleware.go`, `transactions.go`, `context.go`) | one `sql.Tx` per request in its context, a rollback flag | `NewContext`, `MarkForRollback`, `Resolve` | every request that reaches its handler is resolved, and its answer is true of the rows |
| Connection pool (`pkg/db/db_session/default.go`, `pkg/config/db.go`) | one `sql.DB` with at most `MaxOpenConnections` (50) connections | `New`, `DirectDB().Begin`, statements | whoever waits for a connection gets one |
| Dinosaur service (`plugins/dinosaurs`) | the `dinosaurs` table | POST, PATCH, DELETE, reads | every change is announced, once, in order |
| Events (`pkg/dao/event.go`, `pkg/services/event.go`) | the `events` table; `pg_notify` | `Create`, `Get`, `Replace`, `Delete` | an event that is notified can be read |
| Controllers (`pkg/controllers/framework.go`) | handlers per source and type; `ReconciledDate` of an event | `Add`, `Handle` | one worker per event, every event handled, the date set only after all handlers |
| Listener (`newListener`, `waitForNotification`) | a `pq.Listener` and its channel | `Listen`, callback, ping | no notification is dropped in silence |
| Generic list service (`pkg/services/generic.go`, `pkg/dao/generic.go`, `pkg/handlers/helpers.go`) | none of its own | `List` and its builders | pages partition the rows, totals fit |
| Search, order (`pkg/db/sql_helpers.go`) | none | `FieldNameWalk`, `cleanOrderBy` | no disallowed field passes; what is found is what the search says |
| REST handlers, presenters, errors (`pkg/handlers`, `pkg/api/presenters`, `pkg/errors`) | none | validations, action, error, reply | the answer tells what happened |
| Authentication (`pkg/auth`) | none; the authorization is a mock | `AuthenticateAccountJWT`, `AuthorizeApi` | nobody without a token changes anything |
| Logging, metrics (`pkg/server/logging`, `pkg/server/metrics.go`) | counters, a response writer per request | the two middlewares | what they say was answered was answered |
| API client (`pkg/api/openapi`, generated) | configuration | list, get, post, patch | a caller is told of what it asked for, and why not |
| Servers, health check (`pkg/cmd/serve.go`, `pkg/server`) | four goroutines: API, metrics, health, controllers | start | the process serves once it has started |
| Migrations (`pkg/db/migrations.go`, `pkg/cmd/migrate.go`, `plugins/*/migration.go`) | the `migrations` table | `Migrate` | each migration is run in the end, whole |
| Environments, configuration, registries, OCM client (`pkg/environments`, `pkg/config`, `pkg/registry`, `pkg/client/ocm`) | globals filled by `init` functions | `Initialize`, `RegisterService` | a process with its settings in order starts |
| Generator (`scripts/generator.go`) | - | a developer's tool | - |

How they interact.  A request passes the removal of a trailing slash, the SDK's
authentication, the routes, then the logging, metrics and transaction middlewares and the
plugin's authentication, then `handlers.Handle`, which calls the service.  The service takes
an advisory lock (PATCH only), calls its DAO and the event service; each DAO call is one
statement on `sessionFactory.New(ctx)`, committed by itself on a connection of its own.
The event DAO inserts the event and then calls `pg_notify`.  Each serving process listens;
the listener's goroutine calls `KindControllerManager.Handle` with one event id after the
other, which takes the event's nonblocking advisory lock, reads the event, runs the
handlers and saves the reconciled date.  Handlers call services, which use the same pool.
Before a process serves, another one of the same pod has migrated the database.

What is hard here: requests and workers of several processes meet only in the
database; contexts are cancelled and sessions are lost in the middle of a critical
section; the three statements of a change commit one by one; notifications reach only
those that listen at that moment; a request occupies up to three connections of the
pool, which it takes one after the other; pods of several releases migrate one database
without a lock or a transaction; and a client and a server that decode with the same
models meet at addresses that either of them may change.  `PROJECT.json` lists each hazard
at its line.

## 2. Modules

| Module | Models | Notes |
|---|---|---|
| `LockService` | what `LockFactory` promises | abstract: a phase per call |
| `AdvisoryLocks` | `AdvisoryLockFactory` over PostgreSQL | instance `Service` of `LockService` with the refinement mapping `PhaseOf` |
| `Dinosaurs` | middleware, service, DAOs, event DAO for POST, PATCH, DELETE | the advisory lock is reduced to its owner, which `AdvisoryLocks` justifies |
| `Controllers` | listener, `Handle`, `handle`, several processes | the same reduction |
| `Announcements` | `Dinosaurs` and `Controllers` on one database | a request's event is `Controllers`' event; the handlers are `OnUpsert` and `OnDelete` |
| `ConnectionPool` | who holds and who waits for connections | the operations of the tasks are counted, not interpreted |
| `Listing` | a GET of a list: the parameters, the two statements, the reply, other requests' writes | the search is the set of rows it selects |
| `Search` | the builders of the generic service, and what PostgreSQL makes of their statement | a tree is a function from positions to nodes |
| `OpenAPIClient` | the generated client and the models it shares with the server | operators, no state |
| `Requests` | a call from the client through all middlewares to its outcome | EXTENDS `OpenAPIClient`; the service is one step |
| `Deployment` | migrate and serve in the pods of a rollout | configurations are records |
| `...Proofs` | - | the theorems about `AdvisoryLocks`, `ConnectionPool`, `Dinosaurs` and `Announcements` (in `DinosaursProofs`), `Controllers`, `Listing`, `Search`, `Requests`, `Deployment` |
| `MC...` | instances for TLC | constants only |

An operator whose comment begins with "Mutant of" is a plausible bug in the definition
that follows it.  No specification uses it; it is there to be put in the place of that
definition, which must break the property `PROJECT.json` names.

### AdvisoryLocks

`Call` is a set of activations: a call of `NewAdvisoryLock` or `NewNonBlockingLock`
together with the `Unlock` of its caller.  `newLock` makes a fresh uuid and a
transaction for each, so the call stands for both.  `pc` follows the code, `tx` is the
transaction, `granted` is `pg_locks`, `registered` is `f.locks`, `cancelled` are the
contexts net/http has cancelled.  The caller's side is in the constants: `Outer` (calls
inside another call's critical section), `DeferFirst` (`Handle` defers `Unlock` before
it looks at the result, `Replace` after), `Ctx`.  `Hash` is a constant function, so the
theorems hold for every collision pattern.

The mutex of the factory is not modelled: each critical section is one map operation,
and an action.  `txid` is only logged.  COMMIT and the release of the lock are one step.
A server that answers COMMIT late changes nothing that a caller can see.  Under a context
that is done `Tx.Commit` of `database/sql` returns the context's error and sends nothing:
`UnlockCommit` then leaves transaction and lock alone, the entry of `f.locks` goes all the
same, and `RollbackCancelled` ends the transaction some time later, perhaps long after the
caller has returned.  `NoUnreleasedLocks` says that this is all that is ever left, and
`RequestTxEnds` that it goes.

### Dinosaurs

One action per statement: `Lock`, `ReadRow`, `SaveRow` (`InsertRow`, `DeleteRow`),
`InsertEvent`, `Notify`, `Unlock`, `Resolve`, and what can happen instead of or between
them: `StatementFails` (no effect), the second alternative of each write (committed, but
the reply is lost), `Disconnect`, `LoseLock`.  As above, the `Unlock` of a request whose
client is gone frees nothing; `LoseLock` is the rollback that does, as well as the loss of
a session.  `changes` and `notices` are history
variables: the order in which rows were written and events were notified.

### Controllers

`inbox` is a process's `pq.Listener`, in the order PostgreSQL sends; a process that does
not listen misses the notification (`missed`).  After a reconnection pq sends nil
(`Reconnected`), which `waitForNotification` dereferences: the process dies.  `touched`
are the events in whose processing something failed; the safety properties are stated
for the others, so each says exactly which failures it survives.  The handlers are the
registered functions: the first one looks at `ReconciledDate`, as the handler of the
controllers' integration test does, and its effects are counted.

### Announcements

The state of `Dinosaurs` and that of an instance `C` of `Controllers` whose events are the
requests, side by side.  `CreateEvent` and `NotifyEvent` are the steps they share: the
statement of the request is the one that creates, or announces, the event.  `OnUpsert` is
`C!RunHandler` with the `Get` of the row, `OnUpsertFindsNothing` its error, which is no
fault: a dinosaur may be deleted before the event of its creation is handled.  `seen` is a
history variable, the species read last.  This is where the order of the requests (kept by
the advisory lock of the dinosaur, but not by `Delete`) meets the order of the workers
(kept by nothing).

### ConnectionPool

`use` holds a pair of a task and a role for each connection checked out (`tx`: the
middleware's, `lock`: the advisory lock's, `op`: a DAO operation's).  A task may be at a
place where it needs another one while the pool has none (`Free`), and nothing but the
end of the request context ends that wait.  `gone` are the requests whose client has
disconnected, `leaked` those whose transaction `newTransaction` began and dropped, and
`dropped` the tasks whose lock statement failed (`LockFails`).  The lock's transaction of the
latter is not in `f.locks`, and no `Unlock` ends it.  A request's is rolled back when its
context is done (`RollbackLock`), which it is when its client has gone or its reply is sent;
a worker's, under `context.Background()`, keeps its connection for good.  The lock's
transaction of a request whose client has gone is ended by `RollbackLock` too, for `Unlock`
sends no COMMIT.

### Listing

`Count` and `Fetch` are the two statements of `loadList`, each on a connection of its own,
so that a `Write` may come between them; `tables` keeps every committed state of the
table, and a reply keeps the two it was read from (`count`, `fetch`).  `Page`, `Size` and
`Offset` are the arithmetic of `NewListArguments` and `loadList`, with the widths of
Go's `int`, `int32` and `int64` and the errors of `Atoi` dropped as the code drops them.
`Pages` is what PostgreSQL may answer to ORDER BY, OFFSET and LIMIT: one page when the
order is total, any rows of the right number when there is none.  Row ids are numbered in
the order of "id asc".  A list changes nothing, so one client that asks for one list after
the other stands for all clients; `script` is what it asks for.

### Search

One action per builder, in the order of `List`: `BuildOrderBy`, `BuildSearch` (with the
joins it finds, the renaming of related resources, the tables added to free names and
`FieldNameWalk`) or the ways to leave it, then the two executions.  A tree of the TSL
library is a function from positions (the arguments that lead to a node) to nodes, so that
a walk that renames identifiers is an operator on functions without recursion; `Truth`,
SQL's three-valued WHERE, is a recursive function on the positions.  The empty search is
the tree without nodes.  `SearchSelects` compares the rows delivered with `Says`, a reading
of the search that knows neither joins nor GROUP BY.
No kind of the repository has a relation, so the model's constants supply them
(`Association`), in the shape the generic service's tests use.

### OpenAPIClient and Requests

A JSON object is a function on its keys, a struct a function on all its fields; `ToMap`,
`UnmarshalJSON` and the getters are operators on them.  A path is the sequence of its
segments and an id that of the segments between its slashes, since the client escapes a
slash and the server's router reads the path unescaped: `d1/` is `<<"d1", "">>`.
`Requests` takes a call of the
client (or a request of `Raw`) through the server: `RemoveTrailingSlash`, `Refuse`
(authentication), `Moved` (mux's 301 to the clean path, before any route), `NotRouted` (404
and 405, which with the 301 and the SDK's 401 pass no middleware),
`Begin`, `Validate`, the action, `Resolve`, `MetricsMiddleware`, `RequestLogging`, and the
client's reading of the reply.  `Follow` is what `http.DefaultClient` does on a 301: it asks
again with a GET, whatever the method was.  Its loop on the path "/", which
`RemoveTrailingSlash` makes empty and mux sends to "/" again, ends with the error of the
tenth redirect (`Lose`).  What the models say of the code on the way: a `get` of the
id "" asks for the list, whose reply the strict decoding of a dinosaur refuses; an id with a
slash at its end is that without it, and one that begins with a slash or has dot segments is
redirected, so that the caller of a `patch` of `/d1` is told of d1 as it is and has changed
nothing (section 5); a panic is
counted and logged by nobody; the metadata handler writes without `WriteHeader`, so that
its logged status would be 0 had its path a log line; the 400 of a list is not in the API's
description, and the client returns it without its error; the conflict (409) cannot come
from a table without unique columns.

### Deployment

A pod is its init container's `trex migrate`, then its `trex serve`.  The database is
gormigrate's table, the tables and their indexes; each statement is an action, and
`Fault` (a statement that fails, a container that is killed) can come between any two.
`Release` gives each pod the kinds its program imports, and `Id` the IDs of their
migrations, which the generator draws with one minute's resolution, so two may be equal;
gormigrate then refuses the program.  `DeploymentAssumption` says that kinds with one ID
occur in the same releases: without it a release that has one of them would take the
record of the other for its own.  `setting` is what a process is started with; `Config` is
the order of defaults, the environment's flags, the command line and the overrides.  An
unknown environment panics in every command; production switches Sentry on and needs its
key; development switches JWT and HTTPS off after the command line.  The health server
answers without looking at the API server.

## 3. Runs

Sizes are distinct states; each run takes less than two minutes on two workers.

| Run | Shows | Bounds |
|---|---|---|
| LocksRequests | exclusion, the registry, refinement of `LockService`; every call returns, every request's transaction ends | two blocking requests and a nonblocking one on one key, each with its context: queueing, refusal, cancellation and session loss meet; 159 k |
| LocksWorkers | when callers return, no lock is left but to a rollback that is due; what a transaction left behind is; a refusal has a cause | two workers on one event (symmetric: they do the same), a request, a call nested in it, and a nonblocking request for the same dinosaur: the least in which workers and requests are refused, the lock of a cancelled request still stands, and an unrelated lock and a nested call occur; 4.9 M |
| DinosaursUpdates | updates are neither redundant nor announced out of order; every request is answered | any three of: three PATCHes, two of which want one species, and a DELETE of the same dinosaur, a POST of another; one fault; 236 k |
| Announcements | what "ok" means; no event ahead of its change; `OnUpsert` sees the change it is called for; where nothing failed, it has seen the dinosaur as it is in the end; what was answered "ok" is dated | a POST, a PATCH and a DELETE of one dinosaur, two workers, one fault of a request or a worker, at most three requests and faults together; 632 k |
| Controllers | one worker per event, effects at most once, the date only after all handlers, no event dropped in silence, every notified event reconciled unless something failed, locks released | two workers, three events (of two handlers, of one, unmanaged), one fault; 142 k |
| Pool | which connections are checked out, to the last exception; tasks never all wait for each other; all finish | two PATCHes (2 each) and two workers (1 each): 6 held while waiting, 7 connections, two faults, so that a lock statement fails or a client leaves while another task's has; 310 k |
| PoolExhausted | finding (section 5) | two GETs, two connections |
| Listing | a walk misses no row unless one before it was deleted and repeats none unless one before it was inserted; Total and page agree; a page number that looks right is right | a walk of three pages, six odd requests, one with `fields`; six ids, four of them there, three writes, one failing statement; 2.2 M |
| Search | disallowed fields never pass; what is delivered is what the search says, and as many as Total; a statement fails on names only where no search could name them | every tree of at most two comparisons over ten field names, negated, "and", "or", with four orders and two sets of disallowed fields; a has_many, a belongs_to and an unsupported has_one, with deleted rows in each table; 45 k |
| Requests | what the client is told is true, and is what it asked for if the id is plain; a refusal has changed nothing; metrics and log agree with the reply; errors keep their type | two callers with one call each, of 29 calls and 16 plain requests that reach every branch, with ids that are empty, begin or end with a slash, hold one or are dot segments; JWT on or off; 945 k |
| Deployment | what is recorded is complete; who serves finds its tables; every pod is migrated in the end | an old release, a new one whose migration sorts between the recorded ones, one that gormigrate refuses; twelve settings; two faults; 334 k |
| ServeStays | finding | one pod, no faults |

Each request, call, task and caller acts once, so no counter is cut off.  `MaxRequests`
bounds how many of a set of requests are made (`Another`, a guard of `Start`), `MaxFaults`
the failures (a lost reply, a failing statement, a disconnection, a lost session, a dead
process or container).  One or two are enough to put a failure between any two steps of a
request, a worker or a migration while the others run.  `MaxMoves` in `Announcements`
trades a request for a fault: either all three requests, or two of them and one fault.
`MaxWrites` bounds the rows inserted and deleted while lists are read.  In `Listing` small
numbers stand for large ones that keep their order: 2 and 4 for the default and the
largest size (100, 65500), 8 for 2^31, 32 for 2^63; the odd requests then cross every
limit, and the theorems hold for the real ones.  Deadlock checking is off where the
instance ends by itself; it is on for `Deployment`, whose pods are restarted for ever.

## 4. Fairness

`AdvisoryLocks`: weak fairness of each call's own steps (goroutines run, statements
return, critical sections end, PostgreSQL grants a free lock), of the rollback of a
cancelled transaction (`database/sql` does it in a goroutine of its own), and of the
cancellation of a request context when the request is over, which net/http guarantees.
Disconnections, session losses and errors of statements are never fair.
`Dinosaurs`: weak fairness of a request's steps, and under a context that is done of the
failure of its lock call and of the rollback of its lock (`Abandoned`).  `Controllers`: weak fairness of each worker, with the
reconnection of pq and the restart of a process (the deployment restarts it).
`Announcements`: less than both, some request that can go on does, and some worker; a
request ends and a worker's inbox gets empty, so none of them keeps the others out.
`ConnectionPool`: weak fairness of each task, of the failure of its lock's statements once
its client has gone, and of the rollback of `database/sql`, which serves waiters in turn.
`Deployment`: weak fairness of each pod's steps; the kubelet restarts what has died.
Faults need not come, and there are finitely many: a database that fails for ever leaves
nothing migrated.  `Listing`, `Search` and `Requests` have safety properties only: their
steps are a sequence that nothing but a failing statement or a client can end, and what
happens between them is in the modules above.
Nothing is assumed about `BeginTx`, whose wait has no context and so no timeout.

## 5. What the code does otherwise than its documents say

Two are runs that TLC must find violated.

* `ServeStays`: `NewDefaultControllersServer` asserts that the events service is a
  `func() services.EventService`, the plugin registers a `ServiceLocator`, and the panic
  ends the process (`controllers.go:28`, `README.md:96`).  The models of controllers and
  listeners are those of the code behind that line.
* `PoolExhausted`: as many requests as connections block each other (`default.go:40`).

The models contain these as well, without a run:

* the uuid that comes with an error of the lock statement cannot be unlocked, and its
  transaction stays open (`advisory_locks.go:65`; `AbandonedTxHolds` proves that this is the
  only leak of a lock's transaction); the worker's connection is lost to the pool
  (`ConnsFollowTasksHolds`);
* `Unlock` does not release the lock of a request whose client has gone; the rollback of its
  transaction does, later, and a nonblocking call may be refused in between
  (`advisory_locks.go:256`);
* a `patch` whose id begins with a slash or has a dot segment is answered with success and
  changes nothing, as `http.DefaultClient` follows mux's redirect with a GET
  (`api_default.go:405`);
* a nested call for the same lock waits for its caller for good (`advisory_locks.go:166`);
* a transaction marked for rollback contains no write, so nothing is rolled back
  (`context.go:47`);
* a change is not announced when the event's statement fails (`framework.go:23`);
* processed events are dated and not removed (`framework.go:27`), and failed ones are never
  processed again: there is no periodic process (`framework.go:29`);
* a lock is per hash and not per id (`framework.go:83`), so that an unrelated owner can have
  an event dropped;
* an event whose dinosaur is deleted before its handler runs stays undated; so does it when
  an update that read the row before the deletion brings it back by saving its null
  `deleted_at` (`service.go:127`, `service.go:144`; the last case of `AnnouncedIsDated`);
* a list that is asked for with `fields` gets no answer, for `SliceFilter` panics on the
  items it is given (`dinosaurs/handler.go:103`, `openapi/openapi.yaml:158`);
* `templates/service-template.yml:260` sets `AMS_ENV` where the program reads `OCM_ENV`, so that it runs the
  development environment, without JWT.

## 6. Proofs

TLAPS proves, for every value of the constants that the named assumptions allow:

* `AdvisoryLocksProofs`.  `IInv` is `TypeOK`, `LockTableOK` (a granted lock belongs to a
  live transaction at a place of the code where it may be held, and there is one per
  key) and `BookkeepingOK` (what `result`, `registered` and `tx` are at each place).
  None of the properties is inductive alone: exclusion needs that a `pc` of "holding"
  with an open transaction means the lock is granted, and the registry's property needs
  the results.  `NoUnreleasedLocks` needs that the transaction of a call that is about to
  leave the map has ended or has a context that is done.
  From `IInv` follow `TypeCorrect`, `MutualExclusionHolds`,
  `NoUnreleasedLocksHolds`, `AbandonedTxHolds`, `RegistryCleanHolds`, and the step
  simulation behind `Refinement`.  `RefusedByItsOwnLockHolds`, an action property, adds
  `DeniedMeetsARival`: only `TryLock` denies, and it meets a call that has or awaits the
  same key, or that has returned and left its lock to the rollback of its context.  That this is a call for the same lock is `NoCollision`, the theorem's
  hypothesis, which 64 bits of FNV-1a make likely and nothing makes certain (section 5).
  Assumptions: `CallAssumption`, `BackgroundDefers`.
* `DinosaursProofs`.  `IInv` is `TypeOK`, `StageOK` (what a request has written at each
  place), `HolderOK` (who has a dinosaur's lock is between its lock and
  its unlock, or its client had left before it was unlocked), `HeldOK` (who is there has the lock, or is lockless), `RowsOK` (what a request has
  read is still there while its lock holds), `LastOK` (the change of a request that has
  not yet notified is the last one of its dinosaur) and `NoticesInOrder` itself.  Order is
  not inductive alone: that a new notification is later than the others needs `LastOK`,
  which needs that two requests are never both inside (`OneInside`).  From it follow
  `TypeCorrect`, `OkMeansPublishedHolds`, `ChangeBeforeEventHolds`,
  `NoLockLeftBehindHolds`, `NoticesInOrderHolds` and `NoRedundantUpdateHolds`.
  `ImageOfAppend` and `BeforeInAppend` say what a history's next entry adds.
  Assumption: `DinosaurAssumption`.
  The second half is about `Announcements`.  A step of a request is a step of `Dinosaurs` and
  a step of a worker leaves its variables alone (`StepImplements`), so `AllSpec` implements
  `Spec` (`ImplementsDinosaurs`) and all of the above holds there too
  (`InheritedInvariantsHold`).  `AllInv` adds `HeardOK` (inboxes and hands contain only what
  was sent, and what was sent is among the notices) and `NewestOK` (the row of every create
  or update has its species, or that of a request of the same dinosaur that changed it
  later).  `SeesTheChangeHolds` follows: what a worker has in hand was notified, so its
  change is made (`StageOK`), so `NewestOK` names the change that `OnUpsert` reads.  `NewestOK`
  does not rest on the lock: it holds of racing writes as well.
* `ControllersProofs`, in layers, each of which uses the ones before: `LockInv` (`TypeOK`;
  what a worker has in hand at each place; whose the locks are; that a worker busy with an
  event nothing has failed for has its lock) gives `TypeCorrect`, `OneWorkerPerEventHolds`
  and `NoLockLeftBehindHolds`.  `HandlerInv` (the handlers run so far are those before
  `next`) gives `ReconciledIsHandledHolds`; `EffectInv` (an effect without a date belongs to
  a worker that still has the lock) gives `EffectOnceHolds`; `PendingInv` (an event that
  was sent is in an inbox, in a worker's hands or dated) gives `PendingIsExplainedHolds`.
  Assumption: `ControllersAssumption`.
* `ConnectionPoolProofs`.  `IInv` is `TypeOK`, `PlaceOK` (where a task of each kind can be,
  and that it still has operations to do there), `OwnerOK` (the owner of an advisory lock
  has got past the wait for it, or its rollback is due), `LostOK` (`LeakedOK`, `GoneOK` and
  `DroppedOK`: where a task can be whose transaction was dropped, whose client has gone or
  whose lock statement failed) and `ConnsFollowTasks`.  From it follow
  `TypeCorrect` and `ConnsFollowTasksHolds`.  `NeverAllWaitingHolds` needs two arguments
  on top: a task that waits for an advisory lock waits for an owner that does not
  (`OwnerIsAhead`, from `OwnerOK`), and while no operation runs, the connections checked
  out are among `MayHold` (`QuietPoolHasRoom`, from `ConnsFollowTasks`), so a pool with
  more than those has one left.  Assumption: `PoolAssumption`; finiteness of `Task` is
  used for the cardinalities only.
* `ListingProofs`.  `IInv` is `TypeOK`, `TablesOK` (a row that is in two committed states is
  in every one between them: what is deleted stays deleted), `RequestOK` (the rows fetched
  are a page of one committed state, for the query that is being answered) and `RepliesOK`
  (so are those of each answer, its page number is the int32 of the page asked for, and the
  answers' states do not go back). The properties look at the answers alone and are not
  inductive: which state a page was read from is known only while the request is under way.
  From `IInv` follow `TypeCorrect` and, with `OffsetExact`, `LabelIsPageHolds`: a page
  number that survives the conversion to int32 is below `Int32`, so its offset is below
  `Int32 * MaxListSize` and does not overflow. The rest is about positions. `Rank` numbers
  the rows of a finite table from 0 (`RankBijection`), so OFFSET and LIMIT cut out the rows
  with a range of ranks and a page has as many as the range has in the table (`PageLength`):
  `TotalAccountsHolds`.  Page i of a walk is that range for (i - 1) * size (`WalkPage`), and
  a row's rank is higher in a later state only if a row before it was inserted
  (`RankGrows`): `NothingRepeatedHolds`.  A row that is on no page read so far has a rank at
  or beyond the end of each of them, by the least page for which it had not (`LeastNatural`,
  from the well-foundedness of the naturals): `NothingMissedHolds`.
  Assumptions: `ListingAssumption` and `WidthAssumption` (2^31 * 65500 <= 2^63, 65500 < 2^31).
  `TotalAccounts` is stated for tables of fewer than 2^31 rows and walks for page numbers
  below 2^31, because the code converts both to int32 (`presentList`): beyond that a total
  is negative and a walk starts again.
* `SearchProofs`.  `IInv` is `StageOK`, `OrderOK`, `StatementOK` (the tree and the joins in the
  DAO are those of the search, `Built`, or there are none, `Unbuilt`), `CountedOK` and
  `FetchedOK` (what the two statements have found).  With the guards of the builders it gives
  `DisallowedNeverReachesHolds`.  GROUP BY every id groups nothing (`GroupsAreRows`), so
  `TotalIsFetchedHolds`.  The three walks leave names of two parts, table first, that are what
  a reader takes the search for (`SqlIsMeant`), each table is joined once (`JoinedTables`), and
  the rows joined depend on the tables only (`SameTablesSameRows`): `SearchSelectsHolds` and
  `FailsOnNamesOnlyHolds`.  Nothing has to be proved of `Truth`: both sides apply it to the
  same tree.  Assumptions: `SearchAssumption`, `RequestAssumption`.  Two hypotheses stand in
  the theorems, and TLC has counterexamples without them.  `NoPropertiesTable`: the names of
  a table `properties` become JSON operators, so searches of a kind called Property fail.
  `OneRelationPerTable`: of two relations to one table (an author and an owner, say) `addJoins`
  joins whichever it meets first, and the rows are then those of the wrong one.  No kind of
  the repository has either.
* `RequestsProofs`.  `IInv` is `ShapeOK`, `ChangeOK` (a request that has changed a row is
  past its action and is not answered with a 4xx), `ObservedOK` (what is counted or
  logged at each place, and that a reply without `WriteHeader` is the metadata's), `HeldOK`
  (what a row has it has held) and `ClientOK`, which follows a call of the generated client:
  `RequestOK` (its request is the one that the client makes of the call, with the slash
  trimmed, `Prepared`, or, if the id is not plain, the GET that followed a redirect,
  `Followed`, and has been routed and validated at the places behind that), `ReplyOK` (the
  reply is an error that the operation declares or that has no body, a redirect for an id
  that is not plain, a list, something else of the API, or a dinosaur, the one asked for if
  the id is plain) and, when it is over, what the client has told (`Told`, `Typed`).  `ToldIsTrue`
  and `ErrorsAreTyped` look at finished calls only; what makes them true is what the server
  may have answered to which operation.  `ListReply` is possible for a `get`, of the id "";
  that no reply of one type is taken for another is a fact about the decoders
  (`ErrorOutcome`, `ListOutcome`, `DinosaurOutcome`).  From `IInv` follow
  `RejectedChangesNothingHolds`, `ObservedAsAnsweredHolds`, `ToldIsTrueHolds` and
  `ErrorsAreTypedHolds`, for every set of callers, calls and bodies.
  Assumptions: `RequestsAssumption` (finitely many rows, ids and species are strings),
  `CallsAssumption` and `RawAssumption` (the struct types of the client, ids of one segment or
  more; a JSON species that
  is set is a string, for another one fails to decode and is `Garbage`), `ObjectsAssumption`
  (what stands for no value or no object is none).  `StringsAssumption`, that the string
  constants are strings, is a fact of TLA+ which the provers do not have.
  `CleanPath`, a fold, stays closed in the proofs, which hold for any path that a redirect
  may name: what is told after a redirect is true of the rows whichever it is.  That `Clean`
  holds of exactly the paths that `CleanPath` leaves alone is `CleanPathAssumption` of
  `MCRequests`, which TLC evaluates for every path of up to four segments.
* `DeploymentProofs`.  `IInv` is `TypeOK`, `PlaceOK` (for each pod: its release is
  unambiguous once checked; the kind it migrates is its own, with its table from the index
  on and its index when it records; what it has looked at is complete) and
  `RecordedIsComplete`.  That a record stands for a table needs what its writer has done,
  and that a pod may skip a recorded ID needs `RecordedIsComplete` for every kind with that
  ID, which is where `DeploymentAssumption` and `Unambiguous` are used.  From it follow
  `TypeCorrect`, `RecordedIsCompleteHolds` and `ServingIsMigratedHolds`.

Every invariant and every action property that a run checks is the statement of a theorem.
Only model-checked is liveness (`EveryCallReturns`, `RequestTxEnds`, `EveryRequestAnswered`,
`Converges`, `AnnouncedIsDated`, `NotifiedIsReconciled`, `EveryLockReleased`,
`EveryTaskFinishes`, `MigratedInTheEnd`): fairness and ENABLED are out of the prover's reach.
So is induction over data with an operator parameter.  Where an argument needed one, a least
counterexample did (`LeastNatural`), or the data were put as functions (the trees of `Search`).

## 7. What is left

* the reduction of the advisory lock to its owner in `Dinosaurs` and `Controllers` as a step
  simulation from `LockService`, which `AdvisoryLocks` implements;
* invariants of `Controllers` for the workers of `Announcements`: `OnUpsertFindsNothing` is no
  step of `C`, for a handler that fails there is no fault, so the invariants have to be shown
  for it separately;
* the safety half of `Converges`: what a worker that still has an event in its inbox will read;
* preloads and many-to-many relations of the generic service, once a kind has one.

## 8. Not modelled

* The code generator: a developer's tool that keeps no state.  What it leaves in a program
  is `Release` and `Id` of `Deployment`.
* Code without a caller: `determineListRange`, `MigrateTo`, `UpStatus` and `DownStatus`, the
  `Stop` of the servers, `Delete`, `FindByIDs` and `All` of the events, the authorization
  of the OCM client.  No state of the running program comes from them.
* That a deferred COMMIT fails after the reply: the transaction contains no write, and the
  failure reaches the log only.
* Pure I/O and layout: the gauges of the database, log formats, hrefs and timestamps,
  compression, CORS, profiling.
* Of the generated client: XML, forms, files and the models nothing uses.
* The environments of the tests, and the test helpers.
* That `AutoMigrate` fails on one of several indexes: `Deployment` has one index for a kind,
  where the real tables have two and four.
