------------------------------ MODULE Delivery ------------------------------
(***************************************************************************)
(* The life of a notification row from the moment its send task is         *)
(* published: the Celery send and retry tasks (app/celery/tasks.py), the   *)
(* beat job that re-queues due retries and the clean-up job                *)
(* (app/celery/scheduled_tasks.py), the manager's cancel, retry and purge  *)
(* requests, and the provider's delivery receipts                          *)
(* (app/services/delivery_tracking_service.py).                            *)
(*                                                                         *)
(* PostgreSQL runs at READ COMMITTED.  A read sees the committed row; an   *)
(* UPDATE takes the row's lock and keeps it until its transaction ends,    *)
(* and waits while another transaction has it.  The row variables hold the *)
(* committed row, so a worker that reads a row and then waits for its lock *)
(* goes on with the retry_count it read (SQLAlchemy's identity map does    *)
(* not refresh it).  A transaction's UPDATE and COMMIT are one step where  *)
(* the code does nothing visible between the two.                          *)
(***************************************************************************)
EXTENDS Naturals, FiniteSets

CONSTANTS
    Notifications,  \* notification ids
    Workers,        \* Celery worker processes
    Clients,        \* concurrent API requests (cancel, retry, receipts)
    None,           \* "no lock owner", "no job"
    MaxRetries,     \* notification.max_retries of the channel
    Receipts,       \* receipt kinds the channel's webhook translates
    RetryLimit,     \* limit of get_pending_retries (100 in the code)
    QueueBound,     \* bound: beat adds no task above this many waiting
    MaxRequests,    \* bound: API requests that pass their checks
    MaxFaults       \* bound: worker losses, database and broker errors

ASSUME MaxRetriesAssumption == MaxRetries \in Nat \ {0}

ASSUME NamesAssumption ==
    /\ Workers \cap Clients = {}
    /\ None \notin Notifications \cup Workers \cup Clients

ASSUME ReceiptsAssumption == Receipts \subseteq {"DELIVERED", "FAILED", "OPENED"}

ASSUME BoundsAssumption ==
    /\ RetryLimit \in Nat \ {0}
    /\ QueueBound \in Nat
    /\ MaxRequests \in Nat
    /\ MaxFaults \in Nat

VARIABLES
    \* the notifications table, as committed
    status, retry_count, next_retry_at, provider_message_id,
    rowlock,            \* transaction holding the row's lock
    origin,             \* progress of the transaction inserting the row
    \* Celery messages waiting, per notification
    queue, retries,
    beat,               \* rows selected by the beat job, not yet published
    \* workers: phase of the task, its notification, the retry_count it read
    phase, job, count,
    \* API requests: phase, notification, status to write back
    call, target, seen,
    requests, faults,
    unlogged            \* ghost: sends the provider accepted with no
                        \* committed DELIVERED delivery log

row == <<status, retry_count, next_retry_at, provider_message_id>>
broker == <<queue, retries>>
worker == <<phase, job, count>>
client == <<call, target, seen, requests>>
vars == <<row, rowlock, origin, broker, beat, worker, client, faults, unlogged>>

NotificationStatus ==
    {"PENDING", "QUEUED", "PROCESSING", "SENT", "DELIVERED",
     "FAILED", "RETRYING", "CANCELLED", "SKIPPED", "DEAD"}

\* "absent": no committed row (not inserted yet, rolled back, or deleted)
Exists(n) == status[n] # "absent"

\* phases of _send_notification_async that hold the row's open transaction
InTransaction == {"sending", "accepted", "rejected"}
SendPhases == InTransaction \cup {"loaded", "publish", "failed", "failed_loaded"}
RetryPhases == {"retry_loaded", "requeue"}
CallPhases == {"idle", "cancel", "retry", "retry_commit", "receipt"}

TypeOK ==
    /\ status \in [Notifications -> NotificationStatus \cup {"absent"}]
    /\ retry_count \in [Notifications -> Nat]
    /\ next_retry_at \in [Notifications -> {"null", "future", "past"}]
    /\ provider_message_id \in [Notifications -> {"null", "set"}]
    /\ rowlock \in [Notifications -> Workers \cup Clients \cup {None}]
    /\ origin \in [Notifications -> {"new", "dispatched", "closed"}]
    /\ queue \in [Notifications -> Nat]
    /\ retries \in [Notifications -> Nat]
    /\ beat \subseteq Notifications
    /\ phase \in [Workers -> {"idle"} \cup SendPhases \cup RetryPhases]
    /\ job \in [Workers -> Notifications \cup {None}]
    /\ count \in [Workers -> Nat]
    /\ call \in [Clients -> CallPhases]
    /\ target \in [Clients -> Notifications \cup {None}]
    /\ seen \in [Clients -> NotificationStatus \cup {"absent"}]
    /\ requests \in 0..MaxRequests
    /\ faults \in 0..MaxFaults
    /\ unlogged \in [Notifications -> Nat]

Init ==
    /\ status = [n \in Notifications |-> "absent"]
    /\ retry_count = [n \in Notifications |-> 0]
    /\ next_retry_at = [n \in Notifications |-> "null"]
    /\ provider_message_id = [n \in Notifications |-> "null"]
    /\ rowlock = [n \in Notifications |-> None]
    /\ origin = [n \in Notifications |-> "new"]
    /\ queue = [n \in Notifications |-> 0]
    /\ retries = [n \in Notifications |-> 0]
    /\ beat = {}
    /\ phase = [w \in Workers |-> "idle"]
    /\ job = [w \in Workers |-> None]
    /\ count = [w \in Workers |-> 0]
    /\ call = [c \in Clients |-> "idle"]
    /\ target = [c \in Clients |-> None]
    /\ seen = [c \in Clients |-> "absent"]
    /\ requests = 0
    /\ faults = 0
    /\ unlogged = [n \in Notifications |-> 0]

-----------------------------------------------------------------------------
(* Building blocks                                                         *)

Free(n) == rowlock[n] = None

\* The lock owner's transaction ends (commit or rollback).
Release(owner) ==
    rowlock' = [n \in Notifications |-> IF rowlock[n] = owner THEN None ELSE rowlock[n]]

\* The task is over, returned or not, and the worker process is free.
Finish(w) ==
    /\ phase' = [phase EXCEPT ![w] = "idle"]
    /\ job' = [job EXCEPT ![w] = None]
    /\ count' = [count EXCEPT ![w] = 0]

GoTo(w, p) ==
    /\ phase' = [phase EXCEPT ![w] = p]
    /\ UNCHANGED <<job, count>>

Start(w, n, p) ==
    /\ phase' = [phase EXCEPT ![w] = p]
    /\ job' = [job EXCEPT ![w] = n]
    /\ count' = [count EXCEPT ![w] = retry_count[n]]

Publish(q, n) == [q EXCEPT ![n] = @ + 1]
Consume(q, n) == [q EXCEPT ![n] = @ - 1]

Fault ==
    /\ faults < MaxFaults
    /\ faults' = faults + 1

\* NotificationRepository.update_status: by id, whatever the current status.
update_status(n, s) == status' = [status EXCEPT ![n] = s]

-----------------------------------------------------------------------------
(* Insertion: NotificationDispatcher.dispatch publishes the send task      *)
(* inside the transaction that inserts the row; the Kafka handler (or      *)
(* get_db) commits afterwards, or rolls back when a later step fails.      *)

Dispatch(n) ==
    /\ origin[n] = "new"
    /\ origin' = [origin EXCEPT ![n] = "dispatched"]
    /\ queue' = Publish(queue, n)
    /\ UNCHANGED <<row, rowlock, retries, beat, worker, client, faults, unlogged>>

CommitInsert(n) ==
    /\ origin[n] = "dispatched"
    /\ origin' = [origin EXCEPT ![n] = "closed"]
    /\ update_status(n, "QUEUED")
    /\ UNCHANGED <<retry_count, next_retry_at, provider_message_id,
                   rowlock, broker, beat, worker, client, faults, unlogged>>

\* A compliance check holds the notification back: its row is SKIPPED and no
\* task is published (notification_dispatcher.py, _skip).
InsertSkipped(n) ==
    /\ origin[n] = "new"
    /\ origin' = [origin EXCEPT ![n] = "closed"]
    /\ update_status(n, "SKIPPED")
    /\ UNCHANGED <<retry_count, next_retry_at, provider_message_id,
                   rowlock, broker, beat, worker, client, faults, unlogged>>

RollbackInsert(n) ==
    /\ origin[n] = "dispatched"
    /\ origin' = [origin EXCEPT ![n] = "closed"]
    /\ UNCHANGED <<row, rowlock, broker, beat, worker, client, faults, unlogged>>

-----------------------------------------------------------------------------
(* send_notification_task                                                  *)

\* The row is not there, or is DELIVERED or CANCELLED: nothing to send.
TakeSendIgnored(w, n) ==
    /\ phase[w] = "idle"
    /\ queue[n] > 0
    /\ status[n] \in {"absent", "DELIVERED", "CANCELLED"}
    /\ queue' = Consume(queue, n)
    /\ UNCHANGED <<row, rowlock, origin, retries, beat, worker, client, faults, unlogged>>

\* Mutant: a task runs with no message waiting.
TakeSend_NoMessage(w, n) ==
    /\ phase[w] = "idle"
    /\ status[n] \notin {"absent", "DELIVERED", "CANCELLED"}
    /\ queue' = Consume(queue, n)
    /\ Start(w, n, "loaded")
    /\ UNCHANGED <<row, rowlock, origin, retries, beat, client, faults, unlogged>>

TakeSend(w, n) ==
    /\ phase[w] = "idle"
    /\ queue[n] > 0
    /\ status[n] \notin {"absent", "DELIVERED", "CANCELLED"}
    /\ queue' = Consume(queue, n)
    /\ Start(w, n, "loaded")
    /\ UNCHANGED <<row, rowlock, origin, retries, beat, client, faults, unlogged>>

\* Mutant: PROCESSING is committed at once, which releases the lock.
MarkProcessing_Committed(w) ==
    LET n == job[w] IN
    /\ phase[w] = "loaded"
    /\ Free(n)
    /\ IF Exists(n) THEN update_status(n, "PROCESSING") ELSE UNCHANGED status
    /\ GoTo(w, "sending")
    /\ UNCHANGED <<retry_count, next_retry_at, provider_message_id, rowlock,
                   origin, broker, beat, client, faults, unlogged>>

\* UPDATE ... PROCESSING, not committed: the row keeps its committed status
\* and the worker keeps the row's lock during the provider call.  A row
\* deleted since it was read matches nothing and takes no lock.
MarkProcessing(w) ==
    LET n == job[w] IN
    /\ phase[w] = "loaded"
    /\ Free(n)
    /\ rowlock' = IF Exists(n) THEN [rowlock EXCEPT ![n] = w] ELSE rowlock
    /\ GoTo(w, "sending")
    /\ UNCHANGED <<row, origin, broker, beat, client, faults, unlogged>>

ProviderAccepts(w) ==
    /\ phase[w] = "sending"
    /\ GoTo(w, "accepted")
    /\ unlogged' = [unlogged EXCEPT ![job[w]] = @ + 1]
    /\ UNCHANGED <<row, rowlock, origin, broker, beat, client, faults>>

ProviderRejects(w) ==
    /\ phase[w] = "sending"
    /\ GoTo(w, "rejected")
    /\ UNCHANGED <<row, rowlock, origin, broker, beat, client, faults, unlogged>>

\* The provider accepted the message but its answer is lost (a timeout):
\* channel.send catches the exception and reports a failure.
ProviderAnswerLost(w) ==
    /\ phase[w] = "sending"
    /\ Fault
    /\ GoTo(w, "rejected")
    /\ unlogged' = [unlogged EXCEPT ![job[w]] = @ + 1]
    /\ UNCHANGED <<row, rowlock, origin, broker, beat, client>>

\* Mutant: DELIVERED is committed without its delivery log.
RecordDelivered_NoLog(w) ==
    LET n == job[w] IN
    /\ phase[w] = "accepted"
    /\ Exists(n)
    /\ update_status(n, "DELIVERED")
    /\ provider_message_id' = [provider_message_id EXCEPT ![n] = "set"]
    /\ Release(w)
    /\ Finish(w)
    /\ UNCHANGED <<retry_count, next_retry_at, origin, broker, beat, client, faults, unlogged>>

\* Delivery log and DELIVERED, committed together.
WriteDelivered(n) ==
    /\ update_status(n, "DELIVERED")
    /\ provider_message_id' = [provider_message_id EXCEPT ![n] = "set"]
    /\ unlogged' = [unlogged EXCEPT ![n] = @ - 1]
    /\ UNCHANGED <<retry_count, next_retry_at>>

RecordDelivered(w) ==
    /\ phase[w] = "accepted"
    /\ Exists(job[w])
    /\ WriteDelivered(job[w])
    /\ Release(w)
    /\ Finish(w)
    /\ UNCHANGED <<origin, broker, beat, client, faults>>

\* The row of a refused send whose count is `attempts`; `spent` says the
\* budget is used up.
WriteRejected(n, attempts, spent) ==
    /\ retry_count' = [retry_count EXCEPT ![n] = attempts]
    /\ \/ /\ spent
          /\ update_status(n, "DEAD")
          /\ UNCHANGED next_retry_at
       \/ /\ ~spent
          /\ update_status(n, "RETRYING")
          /\ next_retry_at' = [next_retry_at EXCEPT ![n] = "future"]
    /\ UNCHANGED <<provider_message_id, unlogged>>

Reject(w, attempts, spent) ==
    /\ phase[w] = "rejected"
    /\ Exists(job[w])
    /\ WriteRejected(job[w], attempts, spent)
    /\ IF spent THEN Finish(w) ELSE GoTo(w, "publish")
    /\ Release(w)
    /\ UNCHANGED <<origin, broker, beat, client, faults>>

\* Mutant: the budget is compared before the attempt is counted.
RecordRejected_OffByOne(w) == Reject(w, count[w] + 1, count[w] >= MaxRetries)

\* Mutant: the attempt is not counted.
RecordRejected_NoCount(w) == Reject(w, count[w], count[w] >= MaxRetries)

\* A refused send: one more retry_count, then DEAD or RETRYING.
RecordRejected(w) == Reject(w, count[w] + 1, count[w] + 1 >= MaxRetries)

\* After the commit: retry_notification_task with the delay as countdown.
PublishRetry(w) ==
    /\ phase[w] = "publish"
    /\ retries' = Publish(retries, job[w])
    /\ Finish(w)
    /\ UNCHANGED <<row, rowlock, origin, queue, beat, client, faults, unlogged>>

\* The delivery log of a deleted row violates its foreign key.
LogOfDeletedRow(w) ==
    /\ phase[w] \in {"accepted", "rejected"}
    /\ ~Exists(job[w])
    /\ GoTo(w, "failed")
    /\ UNCHANGED <<row, rowlock, origin, broker, beat, client, faults, unlogged>>

\* Any exception inside the try block, publishing the retry included: the
\* transaction is rolled back and the except block starts a new session.
SendRaises(w) ==
    /\ phase[w] \in InTransaction \cup {"publish"}
    /\ Fault
    /\ Release(w)
    /\ GoTo(w, "failed")
    /\ UNCHANGED <<row, origin, broker, beat, client, unlogged>>

\* The commit takes effect but its answer is lost: for the program this is
\* one more exception inside the try block.
CommitAnswerLost(w) ==
    /\ phase[w] \in {"accepted", "rejected"}
    /\ Exists(job[w])
    /\ Fault
    /\ \/ /\ phase[w] = "accepted"
          /\ WriteDelivered(job[w])
       \/ /\ phase[w] = "rejected"
          /\ WriteRejected(job[w], count[w] + 1, count[w] + 1 >= MaxRetries)
    /\ Release(w)
    /\ GoTo(w, "failed")
    /\ UNCHANGED <<origin, broker, beat, client>>

\* Except block: the row is read again ...
ReloadFailed(w) ==
    LET n == job[w] IN
    /\ phase[w] = "failed"
    /\ IF Exists(n) THEN Start(w, n, "failed_loaded") ELSE Finish(w)
    /\ UNCHANGED <<row, rowlock, origin, broker, beat, client, faults, unlogged>>

\* ... and marked DEAD (retry_count is not written) or RETRYING; no retry
\* task is published.
RecordException(w) ==
    LET n == job[w]
        attempts == count[w] + 1 IN
    /\ phase[w] = "failed_loaded"
    /\ Free(n)
    /\ \/ /\ ~Exists(n)
          /\ UNCHANGED <<status, retry_count, next_retry_at>>
       \/ /\ Exists(n)
          /\ attempts >= MaxRetries
          /\ update_status(n, "DEAD")
          /\ UNCHANGED <<retry_count, next_retry_at>>
       \/ /\ Exists(n)
          /\ attempts < MaxRetries
          /\ update_status(n, "RETRYING")
          /\ retry_count' = [retry_count EXCEPT ![n] = attempts]
          /\ next_retry_at' = [next_retry_at EXCEPT ![n] = "future"]
    /\ Finish(w)
    /\ UNCHANGED <<provider_message_id, rowlock, origin, broker, beat, client, faults, unlogged>>

-----------------------------------------------------------------------------
(* retry_notification_task                                                 *)

TakeRetryIgnored(w, n) ==
    /\ phase[w] = "idle"
    /\ retries[n] > 0
    /\ ~Exists(n)
    /\ retries' = Consume(retries, n)
    /\ UNCHANGED <<row, rowlock, origin, queue, beat, worker, client, faults, unlogged>>

TakeRetry(w, n) ==
    /\ phase[w] = "idle"
    /\ retries[n] > 0
    /\ Exists(n)
    /\ retries' = Consume(retries, n)
    /\ Start(w, n, "retry_loaded")
    /\ UNCHANGED <<row, rowlock, origin, queue, beat, client, faults, unlogged>>

\* PENDING whatever the status is now; committed before the publication.
MarkPending(w) ==
    LET n == job[w] IN
    /\ phase[w] = "retry_loaded"
    /\ Free(n)
    /\ IF Exists(n) THEN update_status(n, "PENDING") ELSE UNCHANGED status
    /\ GoTo(w, "requeue")
    /\ UNCHANGED <<retry_count, next_retry_at, provider_message_id,
                   rowlock, origin, broker, beat, client, faults, unlogged>>

\* Mutant: the row is PENDING again but its send task is not published.
PublishSend_Forgotten(w) ==
    /\ phase[w] = "requeue"
    /\ Finish(w)
    /\ UNCHANGED <<row, rowlock, origin, broker, beat, client, faults, unlogged>>

PublishSend(w) ==
    /\ phase[w] = "requeue"
    /\ queue' = Publish(queue, job[w])
    /\ Finish(w)
    /\ UNCHANGED <<row, rowlock, origin, retries, beat, client, faults, unlogged>>

-----------------------------------------------------------------------------
(* What Celery does to a task that does not return (acks_late,             *)
(* reject_on_worker_lost).                                                 *)

\* An exception outside the try block, in the except block or in the retry
\* task, or the hard time limit: the message is acknowledged and lost.
TaskError(w) ==
    /\ phase[w] # "idle"
    /\ Fault
    /\ Release(w)
    /\ Finish(w)
    /\ UNCHANGED <<row, origin, broker, beat, client, unlogged>>

\* The worker process dies: the database rolls back, the message returns.
WorkerLost(w) ==
    LET n == job[w] IN
    /\ phase[w] # "idle"
    /\ Fault
    /\ Release(w)
    /\ Finish(w)
    /\ IF phase[w] \in SendPhases
       THEN queue' = Publish(queue, n) /\ UNCHANGED retries
       ELSE retries' = Publish(retries, n) /\ UNCHANGED queue
    /\ UNCHANGED <<row, origin, beat, client, unlogged>>

\* A countdown longer than the broker's visibility timeout: Redis hands the
\* waiting message out a second time.
VisibilityTimeout(n) ==
    /\ retries[n] > 0
    /\ Fault
    /\ retries' = Publish(retries, n)
    /\ UNCHANGED <<row, rowlock, origin, queue, beat, worker, client, unlogged>>

-----------------------------------------------------------------------------
(* Scheduled jobs                                                          *)

TimePasses(n) ==
    /\ next_retry_at[n] = "future"
    /\ next_retry_at' = [next_retry_at EXCEPT ![n] = "past"]
    /\ UNCHANGED <<status, retry_count, provider_message_id, rowlock, origin,
                   broker, beat, worker, client, faults, unlogged>>

\* Mutant: the last retry is not selected.
PendingRetries_OffByOne ==
    {n \in Notifications :
        /\ status[n] = "RETRYING"
        /\ next_retry_at[n] = "past"
        /\ retry_count[n] + 1 < MaxRetries}

PendingRetries ==
    {n \in Notifications :
        /\ status[n] = "RETRYING"
        /\ next_retry_at[n] = "past"
        /\ retry_count[n] < MaxRetries}

\* The select has a LIMIT and no ORDER BY: any rows, as many as it allows.
RetryFailedSelect ==
    /\ beat = {}
    /\ \E n \in PendingRetries : queue[n] < QueueBound
    /\ beat' \in SUBSET PendingRetries
    /\ beat' # {}
    /\ Cardinality(beat') <= RetryLimit
    /\ beat' # PendingRetries => Cardinality(beat') = RetryLimit
    /\ UNCHANGED <<row, rowlock, origin, broker, worker, client, faults, unlogged>>

RetryFailedPublish(n) ==
    /\ n \in beat
    /\ beat' = beat \ {n}
    /\ queue' = Publish(queue, n)
    /\ UNCHANGED <<row, rowlock, origin, retries, worker, client, faults, unlogged>>

\* An error while publishing: the other selected rows wait for the next run.
RetryFailedAborts ==
    /\ beat # {}
    /\ Fault
    /\ beat' = {}
    /\ UNCHANGED <<row, rowlock, origin, broker, worker, client, unlogged>>

\* DELETE waits for the locked rows; nobody else sees a deletion before its
\* commit.
DeleteRows(doomed) ==
    /\ doomed # {}
    /\ \A n \in doomed : Free(n)
    /\ status' = [n \in Notifications |-> IF n \in doomed THEN "absent" ELSE status[n]]
    /\ UNCHANGED <<retry_count, next_retry_at, provider_message_id, rowlock,
                   origin, broker, beat, worker, client, faults, unlogged>>

\* old: the rows created before the 90-day cutoff.
CleanupOldNotifications ==
    \E old \in SUBSET Notifications :
        DeleteRows({n \in old : status[n] \in {"DELIVERED", "SKIPPED", "DEAD", "CANCELLED"}})

PurgeDeadLetters ==
    DeleteRows({n \in Notifications : status[n] = "DEAD"})

-----------------------------------------------------------------------------
(* API requests: each reads the row, checks it, and writes later.          *)
(* A request that fails its checks changes nothing and is no step.         *)

Open(c, n, p, s) ==
    /\ call[c] = "idle"
    /\ requests < MaxRequests
    /\ requests' = requests + 1
    /\ call' = [call EXCEPT ![c] = p]
    /\ target' = [target EXCEPT ![c] = n]
    /\ seen' = [seen EXCEPT ![c] = s]
    /\ UNCHANGED <<row, rowlock, origin, broker, beat, worker, faults, unlogged>>

Close(c) ==
    /\ call' = [call EXCEPT ![c] = "idle"]
    /\ target' = [target EXCEPT ![c] = None]
    /\ seen' = [seen EXCEPT ![c] = "absent"]
    /\ UNCHANGED requests

CancelRead(c, n) ==
    /\ status[n] \notin {"absent", "DELIVERED", "SENT"}
    /\ Open(c, n, "cancel", "absent")

CancelWrite(c) ==
    LET n == target[c] IN
    /\ call[c] = "cancel"
    /\ Free(n)
    /\ IF Exists(n) THEN update_status(n, "CANCELLED") ELSE UNCHANGED status
    /\ Close(c)
    /\ UNCHANGED <<retry_count, next_retry_at, provider_message_id, rowlock,
                   origin, broker, beat, worker, faults, unlogged>>

RetryRead(c, n) ==
    /\ status[n] \in {"FAILED", "DEAD"}
    /\ Open(c, n, "retry", "absent")

\* UPDATE ... PENDING, then the send task is published; get_db commits later.
RetryPublish(c) ==
    LET n == target[c] IN
    /\ call[c] = "retry"
    /\ Free(n)
    /\ queue' = Publish(queue, n)
    /\ \/ /\ Exists(n)
          /\ rowlock' = [rowlock EXCEPT ![n] = c]
          /\ call' = [call EXCEPT ![c] = "retry_commit"]
          /\ UNCHANGED <<target, seen, requests>>
       \/ /\ ~Exists(n)
          /\ Close(c)
          /\ UNCHANGED rowlock
    /\ UNCHANGED <<row, origin, retries, beat, worker, faults, unlogged>>

RetryCommit(c) ==
    LET n == target[c] IN
    /\ call[c] = "retry_commit"
    /\ update_status(n, "PENDING")
    /\ retry_count' = [retry_count EXCEPT ![n] = 0]
    /\ Release(c)
    /\ Close(c)
    /\ UNCHANGED <<next_retry_at, provider_message_id, origin, broker, beat,
                   worker, faults, unlogged>>

\* The commit in get_db fails: rolled back, the published task stays.
RetryRollback(c) ==
    /\ call[c] = "retry_commit"
    /\ Fault
    /\ Release(c)
    /\ Close(c)
    /\ UNCHANGED <<row, origin, broker, beat, worker, unlogged>>

\* A receipt finds the row by provider_message_id.  OPENED has no status of
\* its own: the status read here is written back.
ReceiptStatus(kind, n) ==
    IF kind = "OPENED" THEN status[n] ELSE kind

\* Mutant: the row is found without its provider_message_id.
ReceiptRead_AnyRow(c, n, kind) ==
    /\ Exists(n)
    /\ Open(c, n, "receipt", ReceiptStatus(kind, n))

ReceiptRead(c, n, kind) ==
    /\ Exists(n)
    /\ provider_message_id[n] = "set"
    /\ Open(c, n, "receipt", ReceiptStatus(kind, n))

ReceiptWrite(c) ==
    LET n == target[c] IN
    /\ call[c] = "receipt"
    /\ Free(n)
    /\ IF Exists(n) THEN update_status(n, seen[c]) ELSE UNCHANGED status
    /\ Close(c)
    /\ UNCHANGED <<retry_count, next_retry_at, provider_message_id, rowlock,
                   origin, broker, beat, worker, faults, unlogged>>

-----------------------------------------------------------------------------
InsertStep(n) ==
    Dispatch(n) \/ InsertSkipped(n) \/ CommitInsert(n) \/ RollbackInsert(n)

TakeStep(w, n) ==
    \/ TakeSendIgnored(w, n)
    \/ TakeSend(w, n)
    \/ TakeRetryIgnored(w, n)
    \/ TakeRetry(w, n)

TaskStep(w) ==
    \/ MarkProcessing(w)
    \/ ProviderAccepts(w)
    \/ ProviderRejects(w)
    \/ RecordDelivered(w)
    \/ RecordRejected(w)
    \/ PublishRetry(w)
    \/ LogOfDeletedRow(w)
    \/ ReloadFailed(w)
    \/ RecordException(w)
    \/ MarkPending(w)
    \/ PublishSend(w)

FaultStep ==
    \/ \E w \in Workers :
          \/ ProviderAnswerLost(w)
          \/ SendRaises(w)
          \/ CommitAnswerLost(w)
          \/ TaskError(w)
          \/ WorkerLost(w)
    \/ \E n \in Notifications : VisibilityTimeout(n)
    \/ \E c \in Clients : RetryRollback(c)
    \/ RetryFailedAborts

BeatStep ==
    \/ RetryFailedSelect
    \/ \E n \in Notifications : RetryFailedPublish(n)

RequestStep(c, n) ==
    \/ CancelRead(c, n)
    \/ RetryRead(c, n)
    \/ \E kind \in Receipts : ReceiptRead(c, n, kind)

ResponseStep(c) ==
    \/ CancelWrite(c)
    \/ RetryPublish(c)
    \/ RetryCommit(c)
    \/ ReceiptWrite(c)

Next ==
    \/ \E n \in Notifications : InsertStep(n) \/ TimePasses(n)
    \/ \E w \in Workers, n \in Notifications : TakeStep(w, n)
    \/ \E w \in Workers : TaskStep(w)
    \/ FaultStep
    \/ BeatStep
    \/ CleanupOldNotifications
    \/ PurgeDeadLetters
    \/ \E c \in Clients, n \in Notifications : RequestStep(c, n)
    \/ \E c \in Clients : ResponseStep(c)

Spec == Init /\ [][Next]_vars

\* What runs keeps running: the inserting transaction ends, an idle worker
\* takes a waiting message, a started task and a started request go on, the
\* clock advances, beat fires.  No request and no fault has to happen.
Fairness ==
    /\ \A n \in Notifications :
          /\ WF_vars(CommitInsert(n) \/ RollbackInsert(n))
          /\ WF_vars(TimePasses(n))
          /\ WF_vars(\E w \in Workers : TakeSend(w, n) \/ TakeSendIgnored(w, n))
          /\ WF_vars(\E w \in Workers : TakeRetry(w, n) \/ TakeRetryIgnored(w, n))
    /\ \A w \in Workers : WF_vars(TaskStep(w))
    /\ \A c \in Clients : WF_vars(ResponseStep(c))
    /\ WF_vars(BeatStep)

FairSpec == Spec /\ Fairness

-----------------------------------------------------------------------------
(* Properties                                                              *)

\* While the row exists, at most one task is between its UPDATE ... PROCESSING
\* and its commit, so two tasks for the same notification never talk to the
\* provider at the same time (tasks.py: the lock of line 59 is kept to the
\* commit).
OneSenderPerRow ==
    \A v, w \in Workers :
        (/\ v # w
         /\ phase[v] \in InTransaction
         /\ phase[w] \in InTransaction
         /\ job[v] = job[w]) => ~Exists(job[v])

\* Nothing but a fault makes the platform forget a send the provider has
\* accepted: of an existing row, the accepted sends without a committed
\* DELIVERED log are the one being recorded now and at most one per fault.
AcceptedSendsAccountedFor ==
    \A n \in Notifications :
        Exists(n) =>
            unlogged[n] <= faults + (IF \E w \in Workers : phase[w] = "accepted" /\ job[w] = n
                                     THEN 1 ELSE 0)

\* A row in RETRYING is one that beat's query will find when its time comes:
\* it has a next_retry_at and retries left.
RetryingIsRecoverable ==
    \A n \in Notifications :
        status[n] = "RETRYING" => /\ next_retry_at[n] # "null"
                                  /\ retry_count[n] < MaxRetries

\* The verdicts DELIVERED and FAILED stand only on rows for which a provider
\* has acknowledged a message: no race of receipts, retries and stale writes
\* reports an outcome for a notification that was never handed over.
VerdictHasProviderId ==
    \A n \in Notifications :
        status[n] \in {"DELIVERED", "FAILED"} => provider_message_id[n] = "set"

\* A row in RETRYING is attempted again or settled by somebody, whatever
\* tasks are lost on the way: beat keeps finding it.
RetryingLeaves ==
    \A n \in Notifications : status[n] = "RETRYING" ~> status[n] # "RETRYING"

Settled(n) ==
    status[n] \in {"absent", "DELIVERED", "FAILED", "CANCELLED", "SKIPPED", "DEAD"}

\* As long as no fault occurs, a send task that waits for a visible row brings
\* the row to a settled status, through however many retries and whatever the
\* API and the receipts do meanwhile.
VisibleTaskSettles ==
    \A n \in Notifications :
        (Exists(n) /\ queue[n] > 0 /\ faults = 0) ~> (Settled(n) \/ faults > 0)

\* Retries die out: duplicated tasks, leftovers of dead notifications and
\* redeliveries do not feed on each other for ever.
RetriesDieOut ==
    <>[](/\ \A n \in Notifications : queue[n] = 0 /\ retries[n] = 0
         /\ \A w \in Workers : phase[w] = "idle")

\* The rows as their readers see them follow NotificationLifecycle: whatever
\* the interleaving, each step is one complete transition of the table.
Lifecycle == INSTANCE NotificationLifecycle
                 WITH inserted <- {n \in Notifications : origin[n] = "closed"}
ImplementsLifecycle == Lifecycle!Spec

-----------------------------------------------------------------------------
(* A claim of the repository that the code does not keep                   *)

\* CHANGELOG.md: at-least-once; a dispatched notification whose row is
\* committed is attempted, so it does not stay QUEUED.
QueuedIsAttempted ==
    \A n \in Notifications : status[n] = "QUEUED" ~> status[n] # "QUEUED"

=============================================================================
