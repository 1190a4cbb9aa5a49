# sealos-notify: models and proofs

TLA+ models of sealos-notify, a notification service: an HTTP API accepts a
notification, an engine turns it into delivery tasks in PostgreSQL, and the
dispatchers of all replicas claim, deliver, retry and bury these tasks through
adapters to Feishu. A reload of the configuration may change channels, providers
and credentials under all of them. The models are checked by TLC on small
instances (`MC*.tla`, `*.cfg`); the safety properties are theorems
(`*Proofs.tla`, `QueueRefinement`, `ServiceRefinement`), proved by TLAPS for every
value of the constants.

## 1. Inventory

| Component (source) | State it keeps | Operations | Model |
| --- | --- | --- | --- |
| Dispatcher (`pkg/dispatcher`) | `leaseOwner`, adapters, a wait group, a cancellable context | loop: expire, refresh, acquire pending ‖ acquire retry; one goroutine per task: prepare, `Send`, record, update, refresh; `Stop`, `UpdateAdapters` | `Dispatcher`; adapters and backoff in `HotReload` |
| Delivery task store (`pkg/storage/delivery.go`) | tables `delivery_tasks`, `delivery_attempts` | `Create`, `AcquirePendingTasks`, `AcquireRetryTasks`, `ExpireProcessingTasks`, `UpdateSuccess`, `UpdateFailure` | `DeliveryTaskStore`, `Dispatcher` |
| Notification and recipient stores (`pkg/storage/notification.go`) | tables `notifications`, `notification_recipients` | `Create` (on conflict, load), `RefreshStatusFromDeliveryTasks` | `Engine`, `Dispatcher` |
| Engine (`pkg/engine`) | none; reads the shared configuration | `SendNotification`: validate, three inserts; `GetNotificationStatus` | `Engine`, `Notify` |
| Template store and API (`pkg/storage/template.go`, `server/handlers.go`) | table `templates` | create, list, get, update, delete | `Engine`, `Notify` |
| Configuration and hot reload (`pkg/config`, `Server.Reload`, `main.go`) | one `GlobalConfig` shared by all goroutines; the file watch; two maps of adapters | load, validate, watch, `ApplyHotReload`, rebuild adapters, update credentials | `HotReload` |
| App credentials (`pkg/auth`, `server/auth.go`) | credentials, path, enabled flag, watcher | `Authenticate`, `Reload`, `Update`, `Start`, `Stop` | `Credentials`, but for `Authenticate` |
| Adapters (`pkg/adapter/...`) | an HTTP or SDK client; within a call the message ID | `New`, `Send`, urgent follow-up; `RecipientIdentifierKeys` | `Adapters`; the matching in `Engine` |
| Server and main (`server`, `main.go`) | life cycle | `Init`, `Serve`, `Shutdown`, `Reload`, signals | `HotReload`, `Dispatcher`; handlers in `Engine`, `Notify` |
| Rendering (`pkg/renderer`), logger, schema, deployment | - | - | section 7 |

How they interact. The engine and the dispatchers share only the database; the
dispatcher polls it and nothing wakes it. The dispatchers of several replicas
exclude each other by row locks (`FOR UPDATE SKIP LOCKED`) while they claim and
by the columns `lease_owner` and `lease_expire_at` afterwards. The goroutines of
a process share the context that SIGTERM cancels, the configuration that a hot
reload overwrites without a lock, and the adapters and credentials that it
replaces under one. A provider knows nothing of tasks: a message that is sent
twice is received twice.

What is hard here, and where it bites, is the list `hazards` of `PROJECT.json`.
In short: a worker may outlive its lease; a commit may go through although the
caller sees an error; the status of a notification is counted in one statement
and written in another; the three inserts of the engine are not one transaction;
the configuration changes under a running request; a reload fails half way; the
credential file is read outside the lock by two goroutines; a provider's answer
is lost, cut or late; a shutdown cancels the very calls that would write the
results down.

What makes each component correct:

- *queue*: a task is claimed by one dispatcher at a time; claims and retries are
  counted exactly; a task that is over stays so; a task is given up only when
  its budget is used up; no task is stranded; every task gets over;
- *notification status*: a verdict is announced only when it is true, an announced
  verdict is never followed by the opposite one, and a query never contradicts
  itself about one;
- *engine*: one key gets tasks at most once, and is used up without a result only by a
  failure; an accepted request has exactly its tasks;
- *engine with dispatchers*: the engine is the client the dispatchers assume;
  nothing is delivered twice for one key; a worker finds what its task refers to;
- *templates*: a message is rendered with a template of its channel;
- *hot reload*: adapters and authentication change together, or not at all; a
  change that was watched is not missed;
- *credentials*: what is in memory at rest is what the configured file says;
- *adapters*: `Send` reports neither a success that was refused (but for an answer
  without a word, section 6) nor a failure that is known to be a success; a message reaches no other bot than it names.

## 2. Modules

### DeliveryTaskStore

A row of `delivery_tasks` and what each statement of `pkg/storage/delivery.go`
does to one row: `Selects` is the WHERE clause of the three SELECTs, `Acquired`,
`Expired`, `Succeeded` and `Failed` are the UPDATEs, `LeaseHeld` the guard of
the two updates of a worker. A timestamp column is a timer: the ticks left until
it is reached, 0 when it is, `Null` when the column is NULL. Ordering and
formatting of timestamps, `last_error` and the columns that only carry payload
are left out.

### Dispatcher

Any number of processes, each a dispatch loop plus a set of jobs (the goroutines
of `processTask`).

| Model | Code |
| --- | --- |
| `task`, `notif`, `attempts` | the three tables |
| `tx[d][k]` | the open transaction of kind `k` of dispatcher `d`: what it will write; its rows are locked |
| `loop[d]` | where `dispatchBatch` is: polling, refreshing after an expiry, which of the two acquiring goroutines are still at work |
| `jobs` | local state of each `processTask`: the `retry_count` it read, the answer, the status it counted |
| `phase[d]` | `new`, `running`, `stopping` (context cancelled), `stopped`, `crashed` |
| `claims`, `delivered` | history, read by properties only; `delivered` of a task is "no", "yes", or "blank" when all that was heard of it is a 2xx answer without a body |
| `ExpireSelect`/`ExpireEnd`, `AcquireSelect`/`AcquireEnd` | a transaction in two steps: the locking SELECT, the UPDATE with the commit |
| `LoopCount`/`LoopWrite`, `JobCount`/`JobWrite` | `RefreshStatusFromDeliveryTasks` in its two statements |
| `PrepareOk`, `PrepareFails`, `SendReturns`, `RecordAttempt`, `UpdateTask` | `processTask` |
| `Enqueue`, `Start`, `Terminate`, `LoopExit`, `StopReturns`, `Crash`, `Tick` | the engine's insert, the life of a process, time |

Every database call ends in one of `Outcomes(d)`: `ok`, `failed` (no effect), or
`unacknowledged` (done, but the caller sees an error). In a process that was told
to stop the context is cancelled and `ok` is out of reach. A `Send` may deliver
although its caller sees an error. Its success is a delivery, with one exception that
the code has: the adapter of the `feishu_webhook` type ignores the error of reading the
body and takes a 2xx without one for a success, whatever the bot made of the message.
The tasks to which this may happen are the constant `Webhooks`. (`dispatcher.go:283-292`
would take a nil response with a nil error for a success, too; neither adapter returns
that.) `Faults` says which of
delays, database errors, SIGTERM and crashes an instance has.

### RetryQueue

What the queue promises without dispatchers, leases, transactions or time:
submit, take, deliver, give up, announce; "delivered" is what the answer of the
adapter says. `Dispatcher` implements it
(`ImplementsQueue`) under the mapping `QueueState`: a failed task waits again.

### Engine

`SendNotification` statement by statement for concurrent requests: validation
(configuration, then template, channel by channel; a channel may be asked for without
the name of a template, and is refused), the insert of the
notification with its conflict branch, the recipients, the generation of tasks
pair by pair, the insert of the tasks. Around it: hot reloads of
`config.Channels`, the creation and the deletion of templates. A request is
named by the notification ID made for it, so a fresh UUID is unique by
construction; `PUT` of a template never changes its channel and is no action. A
pair of a recipient and a channel is looked at in any order, where the code goes
recipient by recipient. `LoadExisting` has gorm's behaviour in it: `First` on a
struct with a primary key adds that key to the WHERE clause.

### Notify

The composition. `E == INSTANCE Engine` and `D == INSTANCE Dispatcher` share the
tables: a task is a triple of request, recipient position and channel, the
engine's `tasks` are the rows that are not `absent`, and the engine's insert is
the only thing that makes one (`InsertTasks`, which replaces `Enqueue`). `Serve`
is every other step of a request, `Administer` the reloads and the template API,
`PrepareOk` the worker's step of `Dispatcher` with the lookups it makes (the
recipient, the template, whose channel is not compared), `Dispatch` the rest of
the dispatchers. `Query` is a client that asks for the status of a notification
it was given the ID of (`Asks`): `GetNotificationStatus` reads the row, then the
tasks (`Read`, step by step). `replaced` and `misrendered` are history.

### NotificationService

What the service promises its clients: of the requests with one key, all of which may
be accepted, at most one is carried out; its tasks are sent until they are delivered or
given up; and what a client is told is true. It knows no engine, no database and no
failure. That a repeat may be accepted is what docs/notification-center-workflow.md:225
and README.md:152 say and what `engine.go:129-134` is written for: it answers with the
notification that is there, and adds no task. That the code answers it with an error
(`duplicate`, section 6) is a bug, and the promise does not rest on it: with
`LoadExisting` corrected TLC finds `ImplementsService` kept just as well (645,132
states). `Notify`
implements it (`ImplementsService`); the abstract state is read off the concrete:

| `NotificationService` | `Notify` | hides |
| --- | --- | --- |
| `stage` | `Stage`: `pc` of the request through `StageName` | the inserts; an error and a crash both look like a refusal |
| `key` | `Key`: of the body, once it came | the rest of the request |
| `progress` | `Progress`: `status` of the row through `ProgressName` | claims, leases, retries: all are "due" |
| `sent` | `delivered` | attempts, how often a message came |
| `told` | `Told`: the answered query | the two reads |

A refused request may still have tasks (the commit of its last insert was not
acknowledged); the specification says so, and that no other request with the key gets
tasks then. "Delivered" is as true as the provider's answer: a task of `Webhooks` may be
called delivered on a 2xx that says nothing (`Blank`).

### Credentials

`auth.Manager`. Two goroutines may be in `Reload` at a time, the watch loop and
whoever calls `NewManager` or `Update` (`reader`); `Reload` is three steps,
because it holds the lock while it reads `m.path` (`TakePath`) and while it
stores the result (`Store`), not while it reads the file (`ReadFile`). `Update`
sets path and flag, reloads, and either goes back (`Rollback`) or moves the watch
(`Rewatch`). The files of all configurations change at any time
(`EditCredentials`); a change of a watched file leaves an event. `missed` and
`overlapped` are history: they name the two circumstances in which the code lets
memory and file disagree, a change that nobody watched and an `Update` that
overlaps the watch loop.

### HotReload

A process from the loaded configuration to its exit, with `Credentials` inside.

| Model | Code |
| --- | --- |
| `stage`; `StartAdapters`, `StartManager`, `StartWatching`, `StartReloader`, `Terminate`, `Shutdown`, `Exit` | `main.run`, `Server.Init`, `Server.Shutdown`, `Reloader.Stop`, in their order and with their error exits |
| `configFile`, `configWatched`, `configEvent`; `EditConfig` | the file, the watch (a rename over the file removes it) and its channel of events |
| `reload`; `HandleEvent`, `ReadConfig`, `ReloaderExits` | the loop of `config.Reloader` |
| `config`; `ApplyField` | `GlobalConfig`, field by field in the order of `ApplyHotReload`; a slice is two words, `length` and `array` |
| `built`, `shared`, `adapters`; `NewMap`, `MakeAdapter`, `UpdateAdapters` | the maps `Server.adapters` and `Dispatcher.adapters`, and whether they are one |
| `UpdateAuth`, `AuthUpdated` | `Server.Reload` calling `Manager.Update` and looking at its answer |
| `backoff`; `BackoffStart`, `BackoffClamp`, `BackoffLoad` | a job in `retryBackoffDuration`, read by read |
| `active`, `configMissed`, `edits` | history, and the bound |

A content of the file is what the code distinguishes of it: whether it loads and
validates, which credential file it names, whether authentication is on, its
providers and the length of the backoff list.

### Adapters

One message on its way: `New` and `Send` of `feishu_webhook` and `feishu_app`
against a provider. A try resolves the address and builds the payload
(`WebhookSend`, `AppSend`); the provider takes or refuses it (`Arrives`); the
answer reaches the caller whole, in part or not at all (`WebhookAnswer`,
`AppAnswer`); the app adapter may follow up (`Urge`); the call fails, or its
process dies, at any point (`Abandon`), and what was on its way may still arrive
(`ArrivesLate`). A failed try is made again, by the adapter that a `Reload` may
have put in the place of the old one. `untold` is history: the tries whose end
the caller did not hear. The provider is external; what it may do is all that
the code provides for.

### Invariants, proofs, instances

`DispatcherInvariant`, `EngineInvariant`, `HotReloadInvariant`,
`AdaptersInvariant` and `NotifyInvariant` state the inductive invariants;
`DispatcherProofs`, `RetryBudgetProofs`, `QueueRefinement`, `EngineProofs`,
`NotifyProofs`, `ServiceRefinement`, `HotReloadProofs` and `AdaptersProofs` hold the
theorems (section 5); `MCDispatcher`, `MCEngine`, `MCNotify`, `MCHotReload` and
`MCAdapters` the instances for TLC. `RetryBudgetProofs` extends
`DispatcherProofs`, `QueueRefinement` and `NotifyProofs` use them, and
`ServiceRefinement` extends `NotifyProofs`.

Operators named `X_Something` that stand before `X` are plausible mistakes in
`X`; each property is known to fail when its mistake replaces the original.

## 3. Runs

| Run | Instance | States | Shows |
| --- | --- | --- | --- |
| `lease` | 1 task, 2 dispatchers, budget 1, backoff 1, lease 1; delays, database errors, crashes | 918,739 | types; no stranded row; exact accounting of claims; burial only past the budget, and the true bound on retries; unique attempt numbers; success means that the provider delivered; a lease changes hands only when released; finished tasks stay so; the dispatchers implement `RetryQueue` |
| `batch` | 2 tasks of 1 notification, one of them for a bot, batches of 2, 1 dispatcher, no failures | 270,494 | success means delivered, or for the bot that it answered 2xx; verdicts are sound, a verdict is never followed by the opposite one, and `RetryQueue` is implemented when rows are claimed and announced together; no deadlock |
| `live` | 1 task, 2 dispatchers, one process after the other; SIGTERM; leases that run out at once | 288,383 | every task settles, and `Stop` returns |
| `submit` | 2 requests out of 6 payloads (one without the name of its template), 2 keys, 2 channels, 2 templates; database errors, crashes, reloads | 707,697 | one key gets tasks once, however often it comes; acceptance is exact; a key is lost only by a failure |
| `notify` | 2 requests with one key, 1 recipient, 1 channel in use, 1 template that may come back for another channel, 1 dispatcher; database errors of the engine | 610,544 | messages are sent for one request of a key only; workers find recipients; templates are of their channel; queries are consistent; the composition behaves as `Dispatcher` says, and as `NotificationService` promises |
| `reload` | 5 contents of the configuration, 2 credential files, 2 secrets, 3 providers (one that cannot be made, one of an unknown type), 2 changes, jobs | 415,148 | adapters are whole; a reload is all or nothing; configuration and credentials settle; backoffs are in the list; a process told to stop exits |
| `send` | 7 provider data, 48 messages, 3 tries | 121,584 | success is taken; needless copies are not sent; a named bot is the only one reached; urgent follow-ups fit; the webhook's `Send` returns |
| `retry_budget`, `settles`, `graceful_stop`, `duplicate`, `retry` | minimal instances | - | the disagreements of section 6 |

Nothing else is cut off: there is no state constraint, the graphs are finite and
explored completely. Why the bounds are enough:

- *lease, batch.* One task with two dispatchers has all the races about a row: a
  stale worker of the same process, a stale worker of another, an expiry and a
  claim against each. Budget 1 gives every task a retry and a burial; the lease
  and the backoff of 1 tick separate "not yet" from "now". Two tasks are needed
  only where a statement works on several rows (batches, the aggregate); failing
  calls are left to `lease` there, and a batch that expires to the proofs. `lease` has
  no bot, so that its success is a delivery without exception; in `batch` one task has
  one, and is kept apart from the other.
  `retryCount` is bounded by the model itself (`RetriesBounded`), and with it
  `claims` and the attempt numbers.
- *live* uses leases of length 0, so that every worker may be late without a clock.
- *notify* has what only the composition has: two requests racing for a key while
  the rows of the winner are worked on, a template replaced in between, a query
  between any two steps. The database errors of the engine are there; its crashes are
  left to `submit`, the faults of the dispatchers to `lease` and a bot to `batch`, and the theorems of
  `NotifyProofs` and `ServiceRefinement` have all of them at once.
- *reload.* Two changes give a change during a reload, and a truncation followed
  by a write (`Half`, then any other content). The contents differ in every field
  that a property speaks of. The safety properties were also explored with three
  changes and no jobs. Two files let an `Update` move from one to the other while
  the watch loop reads the first.
- *send.* Three tries give a message that was lost, one that is late and one that
  succeeds; the data have a provider of either kind with and without a bot,
  urgency, an e-mail receiver, an unusable configuration.

Deadlock is checked in `batch`, `send` and the minimal instances that have
neither crash nor stop: there a running dispatcher polls for ever, and providers
may be reloaded for ever. In the other instances every process may crash, stop or
exit, or every request be answered, and the system then really rests.

Symmetry: permutations of dispatchers (`lease`) or of requests (`submit`, `notify`,
`duplicate`, `retry`); their order is nowhere looked at. The runs with liveness, and
`batch` with its box inside a box (`VerdictStands`), have none, because symmetry is
not sound for such properties in TLC.

## 4. Fairness

`Dispatcher!FairSpec` assumes that every goroutine that can run does (weak
fairness of the loop, of each acquiring goroutine and of the jobs of a process),
that time passes, and that adapter and database calls return. The webhook adapter
has a client with a timeout, and the driver honours the context; the client of
the app adapter's SDK is made without a timeout (`feishu_app/adapter.go:65`), so
that for it "calls return" is an assumption on the provider, or on SIGTERM.
`LoopExit` is strongly fair: when the ticker and `ctx.Done` are both ready, Go's
`select` chooses at random, so the loop cannot overlook the cancellation for
ever. No fairness is assumed of `Start`, `Terminate`, `Crash`, `Enqueue` or of
the outcome of any call; a provider that always fails is fine, since the budget
ends the retries. `EveryTaskSettles` is for a dispatcher that eventually stays
up. The database may not fail for ever: instances for liveness have no database
errors, because a database that refuses every claim settles nothing.

`HotReload!FairSpec` schedules main, the loop of the reloader, the watch loop,
the caller of the manager and a job that has begun a backoff (weak fairness of
each). `Shutdown` is strongly fair: it waits for the jobs in flight, which are
finitely many once the dispatcher is told to stop, while the model has one after
the other. Neither changes of files nor the signal are fair.

`Adapters!FairSpec` has only `TimesOut`: the provider need never answer.

## 5. Proofs

Assumptions, all of them types and distinctness of constants: `StoreAssumption`,
`DispatcherAssumption` (a budget of at least 1: gorm stores a 0 as the column
default 3, and `Webhooks` among the tasks), `EngineAssumption`, `NotifyAssumption` (tasks are triples, and the
assumptions of both parts), `CredentialsAssumption`, `HotReloadAssumption`,
`AdaptersAssumption` (a configured `urgentUserIdType` is one of the three that
README.md:348 allows). No theorem needs a finite number of tasks, dispatchers,
requests, providers, files or changes. All safety and action properties of the
passing runs are proved, both refinements, and two consequences of the abstract
specification of the service.

### The queue (`DispatcherProofs`, `RetryBudgetProofs`, `QueueRefinement`)

`DispatcherInvariant!IInv` is inductive:

- `LeaseInv`: lease columns and status agree row by row, and an open transaction
  holds rows that still satisfy its SELECT - this is what the lock gives, and
  `LocksExclusive` that no two transactions hold a row;
- `JobsInv`, `AttemptsInv`: a job's claim number and the count it read are at
  most those of the row; attempts are numbered by a claim number that is not
  above the row's. `AttemptNumbersUnique` is not inductive without them;
- `CountInv`: the accounting, for the rows and for the uncommitted writes;
- `Sound`, `VerdictInv`: a counted, not yet written status can only be outdated
  towards `processing`, never wrong as a verdict, because finished tasks stay
  finished. `VerdictSound` alone says nothing of what is about to be written;
- `RefreshInv`: only notifications with rows are refreshed, so what is announced
  is never "pending"; the refinement needs it;
- `BudgetInv`: `Late(t)` are the claims within the budget whose workers have not
  settled the task. Beyond the budget only such a worker can reopen a task, and
  each can once; so `retryCount + Cardinality(Late(t))` does not grow there, and
  `retryCount` stays within `2 * maxRetry + 1`.

The proofs first classify a step (`DispatchStep`): which rows change, and how
(`TableStep`, `RowStep`). From `Spec => []IInv` follow `TypeCorrect`,
`NoRowStranded`, `ClaimsCounted`, `AttemptsNumbered`, `DeathNeedsBudget`,
`SuccessDelivered`, `VerdictsSound`, `RetriesAreBounded`; `Finality` and
`LeasesHandedOver` are action properties proved from it. `SuccessDelivered` says what
the dispatchers add to an answer and what they do not: a row says success only if some
`Send` of that very task was answered with one, through late workers, expired leases
and reused claims (`Vouched`; in `JobsInv` for an answer that is still to be recorded),
which is a delivery, or for a bot a 2xx without a body. What an answer is
worth is the subject of `Adapters`.

`VerdictsStand` is the one with memory: once a success was announced no failure ever
is, and conversely, although two refreshes may overlap and the older count be
written last. What is remembered is the tables, not the announcement: `Sound`, that
the tasks bear the verdict out, is stable under every step (tasks that are over stay
so, and a notification with tasks gets no new ones), and no table bears out both.

`TimelyRetryBudget` is about the budget that README.md states and the code exceeds
(`retry_budget`, section 6). It is kept, exactly, in every behaviour in which no
lease runs out on a worker that has not settled its task:
`Spec /\ []WorkersTimely => []RetryBudget`. `WorkersTimely` is a hypothesis of this
theorem, not an assumption about the code: nothing in the code guarantees it (the
lease is not renewed, and a call of an adapter may last longer), and the run shows
what happens without it. So the theorem names the lease as the only cause, and a
lease longer than the slowest `Send` as the remedy. `TimelyInv` is the invariant
behind it: the row of a worker is still its own, with the count it read, and no
expiry is about to release it. It was checked by TLC on the instance of `lease`
restricted to such behaviours (22,857 states). `TimelyClaims` adds that a task then
has one worker at a time and at most `maxRetry + 1` claims.

`DispatchersImplementQueue` is the refinement: each action of `Dispatcher`, under
`QueueState`, is the one action of `RetryQueue` it should be or a stutter - a
committed claim takes the rows of its transaction, a committed expiry or a
recorded failure gives up, a recorded success delivers, a refresh announces.

`StatusFollowsTasks` is the counterpart of `TimelyRetryBudget` for the other promise
that the dispatchers break (`settles`, section 6): with no failing call, and in every
behaviour in which no two refreshes of a notification are between their count and
their write at a time, a notification whose tasks are over and which nobody is
refreshing has the status of its tasks:
`Spec /\ []RefreshesApart => []NotificationSettles`, for `Faults` within `{"delay"}`.
`RefreshesApart` is a hypothesis again; a refresh in one statement, or one that locks
the notification's row, would fulfil it. The invariant is `ApartInv`: once the tasks
are over, a refresh has yet to count, or the one that has counted holds the verdict,
or it is written (`Attended`); `PlaceInv` adds that a loop refreshes all it has to
before it goes on. TLC checked both on the instance of `settles`, restricted to such
behaviours (108,298 states, among them those in which the verdict is written), and
with leases that run out and two dispatchers (472,664).

### The engine (`EngineProofs`)

`EngineInvariant!IInv` follows a request through `SendNotification`: what is
stored at each point (`StoredInv`, `KeyInv`), which channels have been validated
and are enabled or were turned off since (`ValidatedInv`), which pairs have their
task (`GeneratedInv`). From it follow `EngineTypeCorrect`, `KeysRunOnce` and
`AcceptanceIsExact`. `KeptInv` is for `KeysNotLost`: the row that keeps a request out
belongs to a request that is on its way, was accepted, or met a failure after its
insert; a request that was refused for its form never inserted one. So a key is
lost only by a failure - which the run `retry` shows to happen.

### The composition (`NotifyProofs`)

Every step of `Notify` is a step (or a stutter) of the engine, and one of the
dispatchers, where the engine's insert is their `Enqueue`. So both invariants are
preserved (`PartsInv`); the theorems of `EngineProofs` and `RetryBudgetProofs` are
instantiated for that. `EngineServesDispatchers` is the second half: the
composition implements `Dispatcher!Spec`, and every theorem about dispatchers
holds of it. `NotifyInvariant!JointInv` adds what relates the two:

- `RecipientsInv`: recipients are stored before tasks are generated (the order of the
  inserts; the schema's foreign key, postgres.go:162, secures it as well and is not
  modelled);
- `TemplatesInv`: a template that was looked up fits its channel or was deleted
  since, at every point of a request, of a row and of a rendered message;
- `DeliveredInv`: only rows are delivered, which with the engine's `KeysRunOnce`
  gives `KeysDeliverOnce`;
- `QueryInv`: a final verdict that was read stays true until the tasks are read,
  because the dispatchers' `Sound` verdicts are stable.

### The service (`ServiceRefinement`)

`ServiceIsImplemented` is `Spec => ImplementsService`: the composition, with any
number of requests, tasks and dispatchers and every fault of either half, is one of
the behaviours `NotificationService` allows. Most steps of the engine and of the
dispatchers are stutters; `VisibleSteps` (`DispatcherProofs`) says what the others can
be: a row that goes from due to delivered or dead, one batch at a time, or a message
that arrives. The step with content is the insert of the tasks: that no other
request with the key has any follows from the engine's `KeyInv` and `StoredInv` (rows
with a key are unique, and tasks have a row). Whether a repeat is refused or accepted
is of no account to it. `Tell` needs `QueryInv`.

Two theorems are then about `NotificationService` alone and hold of the code through
the refinement. `OneOrderForAKey`: however many requests with a key are accepted,
tasks are taken on and messages sent for one of them; by `OrderInv` (a request that
was not answered has no tasks, and only tasks that were taken on are sent).
`AnswersNeverTurn`: a client that was told one end of its notification is never told
the other, however its queries, the refreshes and the dispatchers interleave; by
`ToldInv` and `EndStays` (what may be told as final may be told for ever). TLC agreed
with both on the abstract specification before they were proved.

### Reload and credentials (`HotReloadProofs`)

`HotReloadInvariant!IInv` says for each stage of a reload what it has done:
`FieldsInv` (which fields come from the new content), `AdaptersInv` (the map being
filled is not the dispatcher's, and holds exactly the adapters made so far),
`FileInv` (with no event left, what is applied is what the file says), `AuthInv`
(what the manager has, and what an `Update` that fails can go back to),
`BackoffInv` (an undisturbed job has one list before it). `ReadersInv` and
`StoredInv` are about the credential file: a goroutine that overlapped nothing
stores the file as it is or as it was before a change whose event is unread; the
same holds of the credentials kept for a rollback, which is why it is inductive.
From it: `AdaptersNeverMixed`, `ReloadAllOrNothing`, `ConfigurationCurrent`,
`CredentialsCurrent`, `BackoffBounded`.

### Adapters (`AdaptersProofs`)

`AdaptersInvariant!IInv` speaks of the messages that still may arrive besides
those that have: each try sends at most one (`NumbersInv`), all but the last one's
were given up with nobody knowing (`TakenInv`), all go where the message may
(`AddressInv`), an urgent follow-up has its message (`UrgedInv`), and the call in
progress belongs to an adapter made by `New` (`CallInv`).

Only model-checked, because fairness and ENABLED are outside the prover's reach:
`EveryTaskSettles`, both `StopTerminates`, `WebhookReturns`.

## 6. Where documents and code disagree

Each of these is a run that TLC ends with a counterexample.

- `retry_budget`: a worker that outlives its lease writes its failure into a
  later claim of the same process (`lease_owner` names the process, not the
  claim). The task becomes `failed`, with a retry scheduled, beyond `maxRetry`.
  `RetriesBounded` is what holds: at most `2 * maxRetry + 1` failures. Nothing else
  exceeds the budget: `TimelyRetryBudget` (section 5).
- `settles`: of two overlapping refreshes the older count may be written last;
  the notification stays `processing` for good. The overlap is the only cause, apart
  from failing calls: `StatusFollowsTasks` (section 5).
- `graceful_stop`: SIGTERM cancels the context of the jobs that `Stop` waits
  for; their tasks stay `processing` until another process expires them.
- `duplicate`: a repeated request is answered with an internal error.
- `retry`: a request that fails between its inserts uses up its key.

Seen while modelling, without a run of their own. The properties name some of
them as the exception that holds instead.

- Reload. Renaming a file over the configuration, as most editors do, removes the
  watch, and no later change is seen (reloader.go:94, against README.md:14); a
  change between the load and the watch at startup is not seen either
  (`configMissed`). A failing reload leaves the new channels with the old adapters,
  since the configuration is applied first (server.go:304-326). `Update` and the
  watch loop may store the older content last (auth.go:82-125, against
  README.md:142, `overlapped`). Authentication that a reload turns on has no
  watcher (auth.go:193). The backoff list is read several times without a lock; a
  job may index past a list that was replaced meanwhile (`BackoffInList`).
- Engine. A channel turned off between the validation and the generation of tasks
  is skipped silently (README.md:26). An accepted notification without any task
  stays `pending`. Any error of the template query is answered as an invalid
  request (engine.go:197). An explicit `maxRetry: 0` is stored as 3. template.go:69
  says only non-zero fields are updated, but `Update` passes a map, which writes
  empty values too.
- Dispatcher. A failure before `adapter.Send` and an expired lease count a retry
  without a row in `delivery_attempts` (docs/notification-center-workflow.md:373-375),
  and so does a delivery whose recording is cut off by SIGTERM (line 408). The
  `urgent_error` of README.md:357 is in an answer that the dispatcher drops.
- Adapters. A 2xx answer without a body counts as a success, also when the body was
  lost and would have been a refusal (feishu_webhook/adapter.go:101; the exception in
  `SuccessIsTaken`, `SuccessWasDelivered` and `Deliver` of `NotificationService`). The card made of a plain
  body does not have the template's subject
  (docs/notification-center-workflow.md:450-452).
- Life cycle. When `ListenAndServe` fails the process stays up without an API
  (main.go:115-119).

Hazards that no property covers, or not in full: the code has no defence there, and the
property that comes near names the case as its exception. So it says nothing against a
change that makes the case worse.

- LIMIT with a remainder (delivery.go:58): `Batches` takes any full batch, in any order.
  That the oldest row comes first, and that none starves, is stated nowhere.
- Reads of the configuration while a reload overwrites it (config.go:250): a reader may
  mix two versions, and `BackoffInList` excepts a job that a reload disturbed.
- The new configuration with the old adapters after a failed reload (server.go:312):
  `AllOrNothing` is about adapters and authentication only.
- Overlapping reads of the credential file (auth.go:107), and a file that nobody watched
  after a failed or disabling `Update` (auth.go:115): excepted by `CredentialsSettle`.
- A configuration that is renamed into place (reloader.go:94), or changed before it is
  watched (main.go:101): excepted by `ConfigSettles`.
- A template replaced between validation and dispatch (dispatcher.go:215): excepted by
  `RenderedForItsChannel`.

## 7. Simplifications, and what is not modelled

Simplifications, by module:

- *Dispatcher*: the causes of a failure before `Send` are one action,
  `PrepareFails`, which is possible in every state: more than the code can do, and
  safe for the properties stated. The order of a SELECT with LIMIT is left open. The
  foreign keys of the schema (postgres.go:151-186) are not modelled: an insert that they
  refuse would be one that the order of the code's inserts excludes.
- *Notify*: a client asks for a notification whose ID it got. A query one of whose
  reads fails is answered with an error that tells nothing, and is no action.
  `PrepareFails` is unrestricted here, too.
- *Credentials, HotReload*: it begins with a configuration that was loaded and
  validated. A signal comes once the process is running. A failing `Add` of a path
  or of its directory leaves nothing watched. Unread events of one file are one
  event. The watch loop reads `m.path` without the lock: a torn read matches no
  file, and the event is ignored as if it had come before the `Update`. Each credential file has a directory of its
  own. Parsing and validation are what they answer for a content. The reload of the
  logger is left out.
- *Adapters*: one message, one `Send` at a time (the overlap of a late `Send` with
  the next, after an expired lease, is `Dispatcher`'s); a message is rendered the
  same in every try. Signatures, redirects and a `webhook` parameter that is no
  address are left out, and so is the late arrival of an urgent follow-up whose
  `Send` was given up.

Not modelled: the text of messages, JSON, HTTP and SQL syntax, and logging, because
no property here is about them; `renderer` (Go's `text/template`), whose failure is
one of `PrepareFails`; `Authenticate` and the handlers that only read, which change
no state; routing; the connection pool; `batchSize` of 0 (gorm then fetches no row)
and negative settings; the Helm chart and the image.

## 8. Plan

Done: the queue with its abstract specification, the refinement and the retry bound;
the engine; their composition with the template API and the status query, and its
refinement of the service; the configuration's reload with the credentials and the
process's life; the adapters.

What is left, in this order:

1. An abstract specification of a reload, one switch of configuration, adapters and
   authentication together, and `HotReload` shown to implement it as far as it does.
2. An abstract channel that delivers at least once, implemented by `Adapters`, as the
   meaning of `SendReturns` and of `Webhooks` in `Dispatcher`.
3. `Authenticate` and the middleware over `Credentials`: a request judged while the
   credentials are swapped or a failed `Update` is rolled back.
4. Several messages and overlapping calls in `Adapters`, and `Adapters` composed with
   `Dispatcher` in the place of `SendReturns`.
5. Liveness of the composition: an accepted request with a task gets over.
6. Larger instances of `Notify`, with two channels and dispatcher faults.
