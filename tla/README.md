# TLA+ models of the Financial Notification Platform

This directory holds TLA+ specifications of the platform, the TLC
configurations that check them on small instances, and TLAPS proofs of the
main results for every value of the constants. `PROJECT.json` links
definitions to source lines, runs to properties, properties to mutants of the
code, and hazards to the properties that watch them.

## The system

The platform turns financial events into notifications.

    API  --event-->  Kafka  -->  consumer / handler  --row + task-->  Celery workers  -->  provider
     |                             |        |                             ^    |
     +--> RabbitMQ queues     DLQ topic   Redis caps,               beat job    +--> receipts (webhooks)
          --> Celery                      DND cache

| Component | State it keeps | Operations | Modelled in |
|---|---|---|---|
| Event API (`endpoints/events.py`, `notifications.py`) | – | publish events to Kafka and RabbitMQ | `Routing` |
| Event taxonomy (`core/event_taxonomy.py`) | a table of coded events | priority, exemptions, mandatory channels | `Taxonomy` |
| RabbitMQ topology, publisher, consumer (`rabbitmq/`) | priority queues, dead-letter queue | declare, publish, hand over to Celery | `Routing` |
| Circuit breaker (`rabbitmq/circuit_breaker.py`) | state, failure times | open, half-open, close | `CircuitBreaker` |
| Kafka consumer and handler (`kafka/`) | position, committed offset | poll, handle, dead-letter, commit | `Ingestion` |
| Factory, dispatcher (`services/notification_*.py`) | uncommitted rows | one row per channel; skip, or queue and publish a task | `Ingestion`, `Delivery` |
| Compliance (`services/compliance_service.py`) | DND cache in Redis | quiet hours, DND registry | `Compliance` |
| Frequency caps (`redis/frequency_cap.py`) | Redis counters per user, channel, period | check-and-increment, reset | `FrequencyCap` |
| Celery tasks (`celery/tasks.py`) | rows, delivery logs, queues | send, retry | `Delivery` |
| Beat jobs (`celery/scheduled_tasks.py`) | – | re-queue retries, clean up, aggregate | `Delivery`, `BackOffice` |
| Receipts (`services/delivery_tracking_service.py`) | rows, delivery logs | write a provider's verdict | `Delivery` |
| Notifications API | rows | cancel, retry | `Delivery` |
| Dead-letter endpoints (`endpoints/dlq.py`) | `dead_letter_queue` | retry, discard, bulk-retry | `BackOffice` |
| Analytics (`services/analytics_service.py`) | one row per day, event, channel | aggregate, upsert | `BackOffice` |
| Auth, users, preferences, device tokens | their tables, issued tokens | register, log in, refresh, update, delete, reset | `Accounts` |
| Templates (`main.py`, `endpoints/templates.py`) | `notification_templates` | seed at start, create, update, delete | `Templates` |
| Rate limit (`middleware/rate_limit.py`) | Redis counters per address | admit or refuse | `RateLimit` |
| Admin API | – | purge, flush, broadcast, create administrators | in the modules whose state it changes |

**What is hard.** Celery, Kafka, RabbitMQ, Redis and PostgreSQL have no common
transaction: tasks are published before their rows are committed, offsets are
committed after the database, a worker may die between the provider's answer
and the commit. Every request reads, decides, and writes at the end of its
session, when what it read may be gone. Retries have three sources (countdown
task, beat job, API). Counters are read and incremented in separate Redis
transactions. Cached verdicts and tokens outlive what they were made from.
Replicas seed the same tables at the same time. `PROJECT.json` lists the
hazards by line.

**What makes it correct.** No accepted event disappears; a key gets one set of
rows and tasks; one send at a time per row; an accepted send is recorded;
verdicts rest on a provider's answer; a retry comes to an end and is not
forgotten; a user is not sent more than the caps allow, nor at hours or on
channels he has excluded, but for an explained lapse; rights and cached verdicts
end in bounded time; tables keep their uniqueness under concurrent requests;
the processes start and the queues drain.

## Modules

| Module | Models | Proofs |
|---|---|---|
| `NotificationLifecycle` | abstract: the notifications table as readers see it | – |
| `Delivery` | send and retry tasks, beat, clean-up, purge, cancel, retry, receipts | `DeliveryProofs` |
| `FrequencyCap` | the Redis counters of one user and channel | `FrequencyCapProofs` |
| `Ingestion` | producer, consumer group, handler, factory, dispatcher, DLQ topic | `IngestionProofs` |
| `Compliance` | quiet hours and the DND cache, for concurrent dispatches | `DispatcherProofs` |
| `RateLimit` | the counters of one client | `LimiterProofs` |
| `CircuitBreaker` | the breaker of one provider | `LimiterProofs` |
| `Taxonomy`, `Routing` | event codes; event endpoints, RabbitMQ, its consumer | `RoutingProofs` |
| `Accounts` | users, tokens, preferences, devices | `AccountsProofs` |
| `Templates` | seeding by replicas, administrators' requests | `DispatcherProofs` |
| `BackOffice` | dead-letter endpoints, daily analytics | `BackOfficeProofs` |
| `MCApi` | `RateLimit`, `CircuitBreaker` and `Templates` in one run | – |
| other `MC...` | values and symmetry for TLC | – |

`LimiterProofs` and `DispatcherProofs` each extend two specifications that share
no state; their second one has prefixed names (`BreakerSpec`, `TemplatesSpec`)
so that they can stand side by side.

### Delivery

*State.* `status`, `retry_count`, `next_retry_at`, `provider_message_id` are
the committed columns of `notifications`; `rowlock` is PostgreSQL's row lock.
`origin` follows the transaction that inserts the row. `queue` and `retries`
count the messages waiting in the two Celery queues. `beat` holds the rows the
beat job has selected. `phase`, `job`, `count` are a worker's local state:
`count` is the `retry_count` it read, which stays stale while it waits for
the lock. `call`, `target`, `seen` are a request's local state. `unlogged` is a
ghost: accepted sends without a committed log.

*Actions.* `_send_notification_async` is cut where another process can see or
do something: reading the row (`TakeSend`, `TakeSendIgnored`), the update to
PROCESSING that takes the lock (`MarkProcessing`), the provider's answer
(`ProviderAccepts`, `ProviderRejects`, `ProviderAnswerLost`), the commit
(`RecordDelivered`, `RecordRejected`) and the publication after it
(`PublishRetry`). What the two commits write is `WriteDelivered` and
`WriteRejected`, used again by `CommitAnswerLost`, where the commit takes effect
and the worker sees an exception. The except block is `SendRaises`,
`ReloadFailed`, `RecordException`. A row enters the table with a task
(`Dispatch`, `CommitInsert`) or held back without one (`InsertSkipped`).
`retry_notification_task` is `TakeRetry`, `MarkPending`,
`PublishSend`. Lost workers return the message (`task_reject_on_worker_lost`),
raised tasks do not (`TaskError`), and a long countdown can outlive the
broker's visibility timeout (`VisibilityTimeout`). Requests are a read and a
write, with the retry request publishing between its update and its commit.

*Simplifications.* An UPDATE and its COMMIT are one step where nothing visible
lies between. Receipt kinds that only add a log row are no step. A SendGrid
batch is one receipt after another. A countdown may elapse at any time. Two
beat jobs do not overlap (they run every five minutes), and the beat job's
query selects nothing while `QueueBound` tasks of a row wait. A notification's
user cannot be missing: the foreign key deletes the one with the other. `age`
of a row is not kept: the clean-up job may consider any set of rows old. Rows
meet each other only through the beat job's LIMIT, so the runs have one row.

### NotificationLifecycle and the refinement

The abstract table moves in whole transitions: inserted once, queued or
skipped, delivered with a provider id, retried later with a count below the
maximum, given up, started over, cancelled, marked by a receipt if it has a
provider id, deleted only when finished. PROCESSING is never visible. `Delivery`
implements it (`ImplementsLifecycle`): the mapping is the identity on the columns, and
`inserted` is the set of rows whose inserting transaction has ended.

### FrequencyCap

*State.* `count` are the Redis counters by window and key, `phase` and `keyed`
each caller's position in `check_and_increment` and the hour of its keys;
`passed` is a ghost, the calls that returned normally per true calendar period.
*Actions.* `Check` is the reading pipeline and the comparisons, `Increment` the
second pipeline, `IncrementFails` a Redis error before or after it took
effect, `Raise` the rejection, `Reset` and `FlushCache` the deletions, `Tick`
the clock. The weekly key follows arrow's `W` token, which contains the weekday.
*Simplifications.* One user and channel (others share no key); a call computes
its keys at one instant; a key's TTL is never shorter than its period, so
expiry cannot be observed; the caps do not change during a run. `Limit` is the
code's: a cap of 0 selects the default.

### Ingestion

*State.* `published`, `committed`, `assigned` are Kafka's; `position`, `phase`,
`entry`, `built` a consumer's, `built` being the rows of its open transaction;
`row` the committed rows, `tasks` the send tasks published, by key and channel;
`outcome` is a ghost: how handlings of an event have ended. `Invalid` are the
events the factory cannot turn into rows: a coded type, the channel "call", a
priority outside the scale.
*Actions.* `Poll`, the handler's steps (`RejectPayload`, `BuildNothing`,
`build_notifications`, `Insert`, `InsertRefused`, `DispatchSkip`,
`DispatchQueue`, `Commit`), `publish_to_dlq`, `CommitOffset`, and their
failures; `Assign`, `Revoke`, `Shutdown`, `Crash`, `Restart` for the group. A
consumer that loses the partition goes on with its event beside its successor.
An insert waits for an uncommitted row with the same unique key and is refused
by a committed one.
*Simplifications.* One partition (a user's events share one). The inserts of
one event are one step: the channels come in the same order for the same event,
and where the orders differ PostgreSQL aborts one side, which is
`HandlerRaises`. Channels are dispatched in any order. The verdict of
compliance and caps is an input (both have modules of their own). A row's
deletion by the clean-up job, which frees its key after 90 days, is left out.
`RetryEventHandler` is left out since nothing publishes to the retry topic.

### Compliance

*State.* The hour, the user's quiet hours, whether he has enabled them and has
a phone number, the registry, the cache entry and its time to live, and each
dispatch's stage, event and registry answer. Ghosts: the hours since the
registry listed the number (`sinceListed`), and since it did not or gave no
answer (`sinceExcuse`). *Actions.* `DispatchStep` (the order of the checks, and
which events and users skip them), `check_quiet_hours`, `check_dnd` (exempt,
cached or asked), `_query_dnd_registry` and its failure, which counts as "not
registered", `FillCache`, `Finish`; the registry changes, the cache is flushed,
Redis fails and hours pass in between. *Simplifications.* The SMS of one user;
time in hours, with at most one change of hour during a dispatch, as the query
times out after five seconds.

### CircuitBreaker and RateLimit

Both keep times as ages, which makes their state finite. `CircuitBreaker` has
the breaker's fields, the number of calls under way (`inflight`) and a provider
that works or not; results are recorded whenever they arrive. No code calls the
breaker at this commit: the callers follow the flow that `ARCHITECTURE.md`
describes. `RateLimit` has the two counters of a client with their times to
live, which every request renews, refused ones included; requests that Redis
failures let through unchecked are not counted as admitted. Its ghosts are the
client's silence and the ages of the last requests let through, youngest first
(`admitted`), as many as tell whether a limit was exceeded.

### Taxonomy and Routing

`Taxonomy` is the table of event codes, entry by entry, the registry made from
it and the lookup functions. `Routing` follows a request through the Kafka
publication and one RabbitMQ publication per channel to the queue of its
priority, the consumer, Celery and the acknowledgement. *State.* How much of
the topology is declared, the state of the API and consumer processes, each
request's stage, event and channels still to publish, and per request and
channel where the message is and how many tasks were made from it. *Actions.*
`setup_topology` (one declaration), `lifespan` (which serves also when
declaring failed), `consume_all_queues`, `ingest_event` and the endpoints that
publish to Kafka only, `publish`, `PublishFails` (the remaining channels get
nothing), `Deliver`, `process_delivery_message`, `HandoverFails`, `Expire`,
`ConsumerStops`. *Simplifications.* A queue is a set, as its messages have one
priority; `Prefetch` gives each queue its own limit, smaller than the code's in
the runs. The entry of the taxonomy that does not evaluate (`REGX-005`) is
taken as mended, as otherwise there would be no API: `Templates` has the start
that fails. An idempotency key and the message's texts play no part.

### Accounts

*State.* `users`, the number of preference rows and device rows of each, the
tokens that have not expired, each slot's request and whether it was under way
before the last tick (`late`), and as ghosts the time since a user was active
and had each role. *Actions.* One operator per endpoint for
the reading part, with its early returns and authorisation by token
(`AccessOf`, `Authorised`: the user's row is not read), and one for the commit,
against the unique indexes and foreign keys. `Tick` ages tokens.
Roles are USER, ANALYST, MANAGER and ADMIN, with the endpoints each may use.
*Simplifications.* A request takes less than two units of time; one device
token; passwords, names and preference values are not told apart.

### Templates

*State.* The committed row of each key, a number that tells a row from its
successor, each replica's position in the defaults and its uncommitted rows,
each administrator's request; a ghost (`gap`) for the keys an administrator took
out of service. The replicas are the workers of one gunicorn. *Actions.* `Fork`,
`lifespan` (after importing the application, if that is `Importable`),
`SeedLookup`, `SeedCreate` (which waits for another transaction's row of the
same key), `SeedFails`, `SeedCommit`, `Crash`, and create, update and delete as
read and commit. A worker that is killed goes down alone; one that does not boot
makes gunicorn stop the others (`Halt`), and the container is restarted. The
lookup's fallback to English is part of `get_by_event_channel_locale`. The
assumption that a default in another language comes after its English one is
true of the list in `main.py`.

### BackOffice

*State.* Status, skip reason and dead-letter entry of the notifications of one
day, event type and channel; waiting tasks; the analytics rows; requests.
*Actions.* Retry is four steps (the entry is read, the notification is read,
flush and publication, commit), bulk retry one step per entry and one commit,
analytics are tally, lookup and upsert; the ORM writes only columns that differ
from what it read (`Merged`, `Reset`). Workers, receipts and the purge move the
rows meanwhile. *Simplifications.* A worker's attempt is one step (`Delivery`
shows its inside). Nothing inserts dead-letter entries at this commit, so
`DeadLettered` is an assumption.

## Runs

| Run | Checks | Shows |
|---|---|---|
| `delivery` | TypeOK, OneSenderPerRow, AcceptedSendsAccountedFor, VerdictHasProviderId, ImplementsLifecycle | two workers, a client, beat, every receipt kind and one fault around a row |
| `delivery_retry` | RetryingIsRecoverable, RetryingLeaves, RetriesDieOut, VisibleTaskSettles | with a fault anywhere, retries are found, go on and come to an end; until a fault, a task for a committed row settles it |
| `frequency_cap` | TypeOK, OvershootBounded, CountsAreEarned | racing callers exceed the hourly and daily limits by at most one each, also where a cap of 0 selects the default |
| `ingestion` | TypeOK, EventsAccountedFor, OneTaskPerKey, QueuedRowHasTask, EventuallyHandled | a duplicated event, one that is refused, a rebalance and a fault lose and duplicate nothing else, and every event is handled to an end |
| `compliance` | QuietHoursKept, VerdictIsRecent | quiet hours are exact for every window; a cached verdict is wrong for a day and an hour at most |
| `routing` | AcceptedIsOnKafka, ExemptIsUrgent, LostOnlyByFault, HandedOver, QueuesDrain | requests during start-up, a failing call and a stopped consumer: what is accepted is on Kafka, and the queues drain |
| `accounts` | OneUserPerAddress, RowsHaveTheirUser, StandingIsRecent, FewDeviceRows | racing requests keep addresses unique and rows owned; rights end with the access token |
| `api` | TypeOK, LimitsHoldInEveryWindow, RetryAfterSuffices (`RateLimit`), ClosedMeansFewFailures, OpensForCause, Recovers (`CircuitBreaker`), ReadyMeansResolvable, SeedingSettles (`Templates`) | the limits hold in every sliding window, and waiting as told is enough; late results neither hide failures nor open the breaker without cause nor keep it from closing; workers that race, fail, stop each other and restart serve only when their defaults resolve, and their seeding comes to an end unless a default is blocked |
| `back_office` | RetriedWasQueued, RetriesBounded, RecordIsOneCount | no retried entry without a task, tasks do not multiply, one consistent analytics row unless aggregations overlap |

`api` is about three components that share no state (`MCApi`): in each behaviour
one of them moves and the others rest, since their interleavings would only
multiply the states.

These runs check a claim of the documentation or of a test, and fail; see
*Findings*.

| Run | Claim | The trace |
|---|---|---|
| `lost_dispatch` | QueuedIsAttempted | a worker quicker than the inserting commit drops the task; the row stays QUEUED |
| `cap_zero` | ZeroIsUnlimited | with all caps 0 a call is refused |
| `start_up` | StartsUp | the application cannot be imported; no worker gets ready |

### Bounds, and why they are enough

*Delivery*: one row, two workers (two tasks for a row race), `MaxRetries = 2`
(a first, a middle and a last attempt), one client with two requests, one
fault, which may strike any step. `QueueBound` stops the beat job, not the
workers, from adding tasks without end while nobody consumes them; tasks from
other sources are not bounded. `lost_dispatch` needs no request and no fault.
*FrequencyCap*: two callers, a calendar of two hours a day and two days a week
over five hours, so that hours, days and weeks change under a call; the hourly
cap is 1, the daily and weekly caps are 0 and stand for defaults of 2 and 3,
and the first two limits are reached. `cap_zero` sets all three to 0.
*Ingestion*: two consumers, two channels, three events of which the first is
invalid and the last two are one event published twice, one move and one fault.
*Compliance*: a day of four hours, all sixteen quiet-hours windows, enabled or
not, users with and without a phone, a timezone that wraps, a cache of one day,
two dispatches. *CircuitBreaker*: thresholds 3 and 2 (above 1, so that counting
matters), four units of window and timeout, four calls under way. *RateLimit*:
windows of 3 and 7 units, limits of 2 and 4, so that either limit may be the
one that refuses. *Routing*: two requests, a critical code with mandatory
channels and an unknown one, with and without channels asked for, prefetches of
1, 2, 2 and 3 in the order of the code's 2, 5, 10 and 20, one fault and one
stop. *Accounts*: two ids, three addresses of which two differ in case, two
slots, six requests; an access token lives for two units and a refresh token
for four, so that a chain of refreshes outlives both. *Templates*: two workers,
two administrators, two events, one of them in two languages, a default for
each key, three requests, one crash; `start_up` differs by an application that
cannot be imported. *BackOffice*: two notifications, two
slots, three requests, one fault.

Symmetry is used over interchangeable model values, in runs without liveness
properties only.

Deadlock is not checked where the system may come to rest: when every task is
finished (Delivery), at the end of the finite log (Ingestion), and when the
bounded requests are used up (Routing, Accounts, Templates, BackOffice).

### Fairness

*Delivery*: an open inserting transaction ends, a waiting message is taken by
some idle worker, started tasks and requests go on, the clock advances, the
beat job runs. These are weak fairness conditions on steps that a running
process, the broker's delivery and the scheduler take without outside help.
*Ingestion*: a free partition is assigned, a consumer that is up polls and
continues, a stopped one is restarted (`restart: unless-stopped` in
docker-compose). *Routing*: a started process goes on, a stopped consumer is
restarted, a delivered message is processed. *CircuitBreaker*: time passes,
results arrive, and there is always something to send. *Templates*: a worker
that ended is forked again, by gunicorn's arbiter or with the container
(`restart: unless-stopped`), and goes on seeding. Requests, purges, revocations
and faults are never required to happen; nor are publications by clients.

## Proofs

All theorems hold for every value of the constants under the named assumptions
of the modules (`MaxRetriesAssumption`, `NamesAssumption`, `CapsAssumption`,
`LogAssumption`, `RateAssumption`, `ComplianceAssumption`,
`BreakerAssumption`, `TemplatesAssumption`, `BackOfficeAssumption`,
`AccountsAssumption`, `RoutingAssumption` and so on): positive `MaxRetries`,
thresholds and windows, English defaults before their translations, disjoint
names, finite sets of callers and requests, natural caps and bounds, an
idempotent lower case.

* **DeliveryProofs.** The inductive invariant `Inv` adds to the types: a busy
  worker has a notification (`JobInv`), an open request a target (`CallInv`),
  rows exist only after their insertion (`OriginInv`), and `LockInv`: the
  worker inside its transaction, or the retry request before its commit, holds
  the lock of its row if the row exists. `OneSender` follows from `LockInv`,
  since a lock has one holder. `AcceptedSendsLogged` needs `UnloggedInv` and
  the fact that only the holder can add to an existing row's unlogged sends;
  `VerdictsAreBacked` is inductive with `CallInv`, because a receipt is opened
  only on a row with a provider id and an id is never removed.
  `RetryingFoundByBeat` is for channels without OPENED receipts, where no
  request carries a stale RETRYING. What a refused attempt writes, by a commit
  whose answer arrives or not, is one lemma (`RejectedRow`). `Refinement` maps
  each action to one action of `NotificationLifecycle` or a stutter.
* **FrequencyCapProofs.** `Overshoot` is not inductive: `PendingBounded` is. A
  counter plus the calls that have passed the check and not yet counted is at
  most limit − 1 + callers, because a call passes only below the limit, and at
  that moment the calls in flight are at most the callers. `CountsEarned` ties
  the counters to what was sent.
* **IngestionProofs.** `EventsAccounted` rests on `OwnerInv` (every event up to
  the committed offset has an outcome; the owner's position is not behind it;
  what the owner has passed, except the event in hand, has an outcome) and on
  `LostInv`, an induction on the cardinality of the lost events.
  `TaskOncePerKey` rests on `TaskInv`: of a key and channel at most one row is
  uncommitted or committed, so a second task needs a rolled-back first one.
* **DispatcherProofs**, on `Compliance`. `RecentVerdicts`: a verdict's age has
  three parts, each bounded by an invariant. The registry's answer held by a
  dispatch is no older than the dispatch (`AnswerInv`), an entry's age and its
  time to live add up to at most the lifetime and one hour (`CacheInv`), and a
  verdict waits no longer than its dispatch lives (`VerdictInv`).
  `QuietHoursAreKept` is about arithmetic modulo the length of the day.
  `QuietInv` says the same with the code's comparisons (`InQuiet`), and is
  inductive because a dispatch sees one change of hour at most, which `Began`
  takes back; `WindowsAgree` shows that the comparisons and the set of the
  window's hours agree, whether or not the window contains midnight. Both rest
  on lemmas on `%` (`ModWithin`, `ModOfSum`, `ModDay`).

  On `Templates`, `ReadyReplicasResolve` needs what a replica knows before it
  commits (`ScannedInv`): every default it has passed is served by what it sees,
  committed rows and its own, or was taken away since. That an own row stays its
  own until the commit needs the rows of other transactions kept apart, which
  the type invariant says. A localised row appears only after its English one
  was taken out of service (`LocalisedInv`), which takes that nobody is about to
  insert one: not a replica that found a default missing (`MissingInv`), nor one
  with rows to commit (`PendingInv`), nor a create request past its check
  (`CreateInv`).
* **LimiterProofs**, on `RateLimit`. `RetryAfterTrue` rests on `RenewedByLast`:
  a counter that exists was renewed by the client's last request or before, so
  its time to live and the client's silence make up at most one window.
  `LimitsHold` rests on `CountsAdmitted`: as long as a request let through is
  younger than the window, the counter has not expired and counts it and all
  that came after.

  On `CircuitBreaker`, `ClosedBreakerHasFewFailures` and `BreakerOpensForCause`
  need that while the breaker is CLOSED the timestamps it keeps are, at every
  age below the window, the failures there were: the clean-up drops only what is
  older, and leaving CLOSED is the only way for the two to part. The rest is
  arithmetic of sums over ages (`SumUpTo`, `SumShifted`, `CleanSum`, `OlderSum`):
  recording adds one, cleaning leaves the young ages alone, the clock adds none.
  `SumFunction` folds over a set in an unspecified order; its recursion is
  unfolded and the facts about sums are proved by taking the least
  counterexample, which exists since `<` on the naturals is well-founded.
* **BackOfficeProofs.** `RetriedQueued` needs `QueuedInv`: a flushed retry and
  every entry a bulk retry has read have their tasks published, and the row a
  flushed retry has locked still exists, since the purge waits for it. The last
  part is also what makes the type invariant (no entry without its row)
  inductive. `RecordsAreOneCount` needs `CountInv`: without overlap there is
  one aggregation at a time, and what it found is still the record.
  `RetriesAreBounded` is far from inductive. `RetryInv` weighs the requests by
  what they may still do to an entry: those that read it as open and may publish
  (`Waiting`), those that have published and not committed (`Holding`), and
  those a purge has condemned to fail (`DoomedSlots`), each of which the bound
  has already paid for.
* **AccountsProofs.** One invariant of four parts. `AddressInv`: stored
  addresses are their own lower case, so that an index on the stored form
  compares them in any case. `RowsHaveTheirUser` is inductive with the types.
  `StandingInv`: a live user's standing is up to date, and the user of a login
  under way was active a unit of time ago at most, which is what its token may
  add to its own age; a refresh reads the row and adds nothing. `DeviceInv`: the
  rows of a device and the registrations that found none add up to no more than
  the slots.
* **RoutingProofs.** `TableIsSound` goes through the entries of the taxonomy:
  what ignores quiet hours ignores DND and is CRITICAL. `PromiseInv` carries
  that, and the mandatory channels, to the events of requests, and says that a
  request past Kafka has its event there. `ServingInv`: requests exist only
  while the API is up, and without a fault it is up only with the whole topology.
  `MessageInv` bounds a message's tasks by its place (`Paid`): a message back in
  its queue has had no more tasks than there were crashes.

*Only model-checked:* the liveness properties (fairness and ENABLED are beyond
the prover). Apart from the claims that fail, every safety invariant and every
action property of the runs is the statement of a theorem
(`RetryingIsRecoverable` for channels without OPENED receipts). The
type invariants of `Compliance`, `BackOffice`, `Accounts`, `Routing` and
`Templates` are proved and in no run; that of `CircuitBreaker` is a part of the
proof's `BreakerInv`.

## Findings

Where the code does something else than its documents, tests or answers say.
Three are shown by a run of their own, and the texts they contradict are quoted
under `findings` in `PROJECT.json`:

* `lost_dispatch` (`notification_dispatcher.py:103`): the task is published
  inside the transaction that inserts the row. A worker that takes it before the
  commit answers "not found", and beat re-queues RETRYING rows only.
* `cap_zero` (`frequency_cap.py:23`): `cap or default`; a test says that 0 means
  unlimited. `OvershootBounded` is about the limit the code derives.
* `start_up` (`event_taxonomy.py:339`): an entry names a member its enumeration
  does not have, which fails at import. All other runs on the API suppose that
  it starts.

The others have no run. The models contain their behaviours, and the properties
are stated so as to hold beside them:

* `notifications.py:182`, "Cannot cancel an already sent notification": the
  status is checked when it is read; the update by id waits for the worker's
  lock and overwrites DELIVERED.
* `tasks.py:184`: the countdown task sets PENDING whatever the status is, and a
  notification that the API has answered to be cancelled is sent.
* `notifications.py:160`, "Notification queued for retry": the task is published
  before the commit; when two managers retry one row, the second task may find
  it delivered, be dropped, and leave PENDING behind.
* `delivery_tracking_service.py:64`: an OPENED receipt writes back the RETRYING
  it read although the last attempt failed in between, against
  `ARCHITECTURE.md:127`; beat and the retry endpoint both refuse the row.
  `delivery_retry` and `RetryingFoundByBeat` are therefore about channels without
  OPENED receipts.
* `notification_factory.py:57`: the factory's enumeration has no coded types,
  which `events.py:135` accepts; they all end in the dead-letter topic.
* `rate_limit.py:27`: each request renews the expiry, so that the counter holds
  all requests since the last silent minute, not those of the sliding window of
  `CHANGELOG.md:146`; a client that never pauses for a minute stays refused.
* `main.py:183`: the lookup before the insertion falls back to English, so the
  Hindi default of `main.py:111` is never seeded beside the English one, and a
  POST for another locale gets 409.

## Observations

The following were met while modelling and contradict no text; the models
contain them, and the properties are stated so as to hold in spite of them.

* Beat's and the countdown's task for one retry: `retry_count` can pass
  `max_retries` and a DEAD row be sent again (`tasks.py:56`,
  `scheduled_tasks.py:54`). The except path marks a row DEAD without writing the
  last count (`tasks.py:149`).
* Two calls pass the hourly cap on the same count (`frequency_cap.py:36`); the
  weekly key changes every day (`redis/client.py:111`); the counters are
  incremented before the transaction that queues the notification commits
  (`notification_dispatcher.py:79`).
* A repeated event ends in the dead-letter topic instead of being skipped, as
  the handler looks up the key without its channel (`kafka/handlers.py:37`).
* The API serves although the topology was not declared (`main.py:48`), and
  what is published to an unbound key is dropped silently. The notification id
  of a RabbitMQ message has no row, so its send task ends with "not found".
  Bulk events keep the given priority and carry no exemptions.
* A refusal raised inside the rate-limit middleware surfaces as a 500 response,
  since exception handlers run inside it.
* HALF_OPEN admits every caller (`circuit_breaker.py:42`).
* A deactivated default makes every later start of a worker fail
  (`SeedingSettles` excludes it as `Blocked`), and each worker that fails takes
  the ready ones down.
* Tokens of deleted or deactivated users stay valid until they expire; racing
  device registrations leave two rows, after which every registration raises;
  deactivating a device leaves the user's `firebase_token`; a registration that
  races the seeding of the first user aborts the start.
* Overlapping aggregations can leave a row that mixes two counts; a retry and a
  discard of one entry leave the last writer's resolution though a task was
  published; a dead-letter retry's task may be taken before its commit, and the
  DELIVERED row then ends as PENDING; a day whose rows are gone keeps its old
  record.

## Not modelled

* `frequency_cap_v2.py`, the state log service and the personalization service:
  no code calls them at this commit.
* Password hashing, tokens' cryptography, template rendering, translations,
  version numbers of templates, provider request formats and credentials,
  logging, metrics, health, migrations and data generation: no
  interleaving of their own. Of the deployment, the models use gunicorn's workers
  and the restart policies.
* Statistics, dashboards, compliance reports and other read-only queries, and
  `mark_notifications_read`, which sets a timestamp only unread counts read.
* The event loop that each Celery task creates while the connection pool is
  shared (`tasks.py:20`): a matter of the database driver.

## Plan

Done: the modules above. Next:

1. `Platform`: Ingestion, FrequencyCap and Delivery composed, for properties
   that span them (counts of rolled-back dispatches, an event's way to a settled
   notification), and an abstract at-least-once specification that `Ingestion`
   implements.
2. `SpecFrequencyCap`, once `frequency_cap_v2.py` has callers.
