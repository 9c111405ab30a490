----------------------------- MODULE Ingestion -----------------------------
(***************************************************************************)
(* From an accepted event to its notification rows and send tasks: the API *)
(* publishes events to a Kafka topic, the consumer (app/kafka/consumer.py) *)
(* hands each one to NotificationEventHandler (app/kafka/handlers.py),     *)
(* which builds a row per channel (NotificationFactory), dispatches each   *)
(* row (NotificationDispatcher) and commits, and sends the event to the    *)
(* dead-letter topic when anything raises.  The consumer then commits its  *)
(* offset, whatever happened.                                              *)
(*                                                                         *)
(* One partition is modelled: the events of a user share one (the producer *)
(* uses user_id as the key).  The partition can be taken from a consumer   *)
(* that is still handling an event; that consumer goes on, next to its     *)
(* successor.  What the compliance checks and the frequency cap decide is  *)
(* an input here (see FrequencyCap).                                       *)
(***************************************************************************)
EXTENDS Naturals, FiniteSets

CONSTANTS
    Consumers,      \* consumer processes of the group
    Channels,       \* target channels of an event
    Keys,           \* idempotency keys
    NoKey,          \* the event has no idempotency key
    None,           \* "no consumer has the partition"
    LogLength,      \* bound: events ever published
    KeyOf,          \* idempotency key of the event at each offset
    Invalid,        \* offsets of events that cannot become rows
    MaxMoves,       \* bound: revocations and shutdowns
    MaxFaults       \* bound: crashes and failed calls

Offsets == 1..LogLength

ASSUME LogAssumption ==
    /\ LogLength \in Nat
    /\ NoKey \notin Keys
    /\ KeyOf \in [Offsets -> Keys \cup {NoKey}]
    /\ Invalid \subseteq Offsets

ASSUME IngestionBounds ==
    /\ None \notin Consumers
    /\ MaxMoves \in Nat
    /\ MaxFaults \in Nat

VARIABLES
    \* Kafka: events published, the group's committed offset, the owner
    published, committed, assigned,
    \* consumers: next offset less one, phase, event being handled, the
    \* rows of the handler's transaction
    position, phase, entry, built,
    row,            \* committed rows by key and channel
    tasks,          \* Celery send tasks published by key and channel
    outcome,        \* ghost: how handlings of each event have ended
    moves, faults

kafka == <<published, committed, assigned>>
consumer == <<position, phase, entry, built>>
vars == <<kafka, consumer, row, tasks, outcome, moves, faults>>

Open == {"handling", "inserting", "dispatching"}
Busy == Open \cup {"dlq"}
RowStatus == {"none", "PENDING", "QUEUED", "SKIPPED"}
Outcomes == {"rows", "empty", "dlq", "lost"}

TypeOK ==
    /\ published \in 0..LogLength
    /\ committed \in 0..published
    /\ assigned \in Consumers \cup {None}
    /\ position \in [Consumers -> 0..LogLength]
    /\ phase \in [Consumers -> {"down", "idle", "done"} \cup Busy]
    /\ entry \in [Consumers -> 0..LogLength]
    /\ \A c \in Consumers : phase[c] \in Busy \cup {"done"} => entry[c] \in Offsets
    /\ built \in [Consumers -> [Channels -> RowStatus]]
    /\ row \in [Keys -> [Channels -> {"none", "QUEUED", "SKIPPED"}]]
    /\ tasks \in [Keys \cup {NoKey} -> [Channels -> Nat]]
    /\ outcome \in [Offsets -> SUBSET Outcomes]
    /\ moves \in 0..MaxMoves
    /\ faults \in 0..MaxFaults

NoRows == [ch \in Channels |-> "none"]

Init ==
    /\ published = 0
    /\ committed = 0
    /\ assigned = None
    /\ position = [c \in Consumers |-> 0]
    /\ phase = [c \in Consumers |-> "idle"]
    /\ entry = [c \in Consumers |-> 0]
    /\ built = [c \in Consumers |-> NoRows]
    /\ row = [k \in Keys |-> NoRows]
    /\ tasks = [k \in Keys \cup {NoKey} |-> [ch \in Channels |-> 0]]
    /\ outcome = [e \in Offsets |-> {}]
    /\ moves = 0
    /\ faults = 0

-----------------------------------------------------------------------------
(* Building blocks                                                         *)

Key(c) == KeyOf[entry[c]]

GoTo(c, p) == phase' = [phase EXCEPT ![c] = p]

\* The handler's transaction ends, with or without its rows.
CloseTransaction(c) == built' = [built EXCEPT ![c] = NoRows]

Ended(c, how) == outcome' = [outcome EXCEPT ![entry[c]] = @ \cup {how}]

Fault ==
    /\ faults < MaxFaults
    /\ faults' = faults + 1

Move ==
    /\ moves < MaxMoves
    /\ moves' = moves + 1

\* The consumer leaves the group, if it was in it.
Leave(c) == assigned' = IF assigned = c THEN None ELSE assigned

-----------------------------------------------------------------------------
(* Kafka                                                                   *)

\* POST /events, /notifications/events, their bulk forms and the broadcast:
\* the event is in the log when the request is answered.
publish_notification_event ==
    /\ published < LogLength
    /\ published' = published + 1
    /\ UNCHANGED <<committed, assigned, consumer, row, tasks, outcome, moves, faults>>

\* A consumer gets the partition and starts at the committed offset.
Assign(c) ==
    /\ assigned = None
    /\ phase[c] # "down"
    /\ assigned' = c
    /\ position' = [position EXCEPT ![c] = committed]
    /\ UNCHANGED <<published, committed, phase, entry, built, row, tasks, outcome, moves, faults>>

\* Session timeout or rebalance; the consumer may be in the middle of an event.
Revoke ==
    /\ assigned # None
    /\ Move
    /\ assigned' = None
    /\ UNCHANGED <<published, committed, consumer, row, tasks, outcome, faults>>

\* async for msg in consumer
Poll(c) ==
    /\ assigned = c
    /\ phase[c] = "idle"
    /\ position[c] < published
    /\ position' = [position EXCEPT ![c] = @ + 1]
    /\ entry' = [entry EXCEPT ![c] = position[c] + 1]
    /\ GoTo(c, "handling")
    /\ UNCHANGED <<kafka, built, row, tasks, outcome, moves, faults>>

\* A SIGTERM is noticed when the next message arrives; that one is left alone.
Shutdown(c) ==
    /\ assigned = c
    /\ phase[c] = "idle"
    /\ position[c] < published
    /\ Move
    /\ GoTo(c, "down")
    /\ Leave(c)
    /\ UNCHANGED <<published, committed, position, entry, built, row, tasks, outcome, faults>>

-----------------------------------------------------------------------------
(* NotificationEventHandler.handle                                         *)

\* The idempotency check reads the row stored under the bare key; rows are
\* stored under "key:channel", so it finds none and handling goes on.
\* A coded event type (TXNX-001 ...) is no FinancialEventType, "call" is no
\* NotificationChannel, a priority may be no NotificationPriority: raises.
RejectPayload(c) ==
    /\ phase[c] = "handling"
    /\ entry[c] \in Invalid
    /\ GoTo(c, "dlq")
    /\ UNCHANGED <<kafka, position, entry, built, row, tasks, outcome, moves, faults>>

\* Unknown or inactive user (looked up before the event type is converted), or
\* no channel has a template: nothing to insert.
BuildNothing(c) ==
    /\ phase[c] = "handling"
    /\ GoTo(c, "done")
    /\ Ended(c, "empty")
    /\ UNCHANGED <<kafka, position, entry, built, row, tasks, moves, faults>>

\* What the factory inserts per channel: a PENDING row, a SKIPPED one (the
\* channel is off, the event opted out, no recipient) or none (no template).
Plans == {plan \in [Channels -> {"none", "PENDING", "SKIPPED"}] :
             \E ch \in Channels : plan[ch] # "none"}

build_notifications(c) ==
    /\ phase[c] = "handling"
    /\ entry[c] \notin Invalid
    /\ \E plan \in Plans : built' = [built EXCEPT ![c] = plan]
    /\ GoTo(c, "inserting")
    /\ UNCHANGED <<kafka, position, entry, row, tasks, outcome, moves, faults>>

\* The rows that a transaction has inserted and not yet committed.
Inserted(d, ch) == phase[d] # "inserting" /\ built[d][ch] # "none"

\* Another open transaction has inserted one of the rows: INSERT waits.  Rows
\* without a key neither wait nor fail, since NULLs are never equal.
MustWait(c) ==
    /\ Key(c) # NoKey
    /\ \E d \in Consumers \ {c}, ch \in Channels :
          /\ Inserted(d, ch)
          /\ Key(d) = Key(c)
          /\ built[c][ch] # "none"

\* The UNIQUE index on idempotency_key refuses one of the rows.
Refused(c) ==
    /\ Key(c) # NoKey
    /\ \E ch \in Channels : built[c][ch] # "none" /\ row[Key(c)][ch] # "none"

\* Mutant: the idempotency key is not stored, so no INSERT waits or fails.
Insert_NoUniqueKey(c) ==
    /\ phase[c] = "inserting"
    /\ GoTo(c, "dispatching")
    /\ UNCHANGED <<kafka, position, entry, built, row, tasks, outcome, moves, faults>>

Insert(c) ==
    /\ phase[c] = "inserting"
    /\ ~MustWait(c)
    /\ ~Refused(c)
    /\ GoTo(c, "dispatching")
    /\ UNCHANGED <<kafka, position, entry, built, row, tasks, outcome, moves, faults>>

\* IntegrityError: the event has been handled before.
InsertRefused(c) ==
    /\ phase[c] = "inserting"
    /\ ~MustWait(c)
    /\ Refused(c)
    /\ CloseTransaction(c)
    /\ GoTo(c, "dlq")
    /\ UNCHANGED <<kafka, position, entry, row, tasks, outcome, moves, faults>>

\* Rows are dispatched once all are built, in the order of the payload, which
\* is any.  Quiet hours, DND or frequency cap: SKIPPED.  (The row's foreign
\* key keeps the user, so dispatch finds it.)
DispatchSkip(c, ch) ==
    /\ phase[c] = "dispatching"
    /\ built[c][ch] = "PENDING"
    /\ built' = [built EXCEPT ![c][ch] = "SKIPPED"]
    /\ UNCHANGED <<kafka, position, phase, entry, row, tasks, outcome, moves, faults>>

\* Mutant: QUEUED without a send task.
DispatchQueue_NoTask(c, ch) ==
    /\ phase[c] = "dispatching"
    /\ built[c][ch] = "PENDING"
    /\ built' = [built EXCEPT ![c][ch] = "QUEUED"]
    /\ UNCHANGED <<kafka, position, phase, entry, row, tasks, outcome, moves, faults>>

\* QUEUED, and the send task is published, before the transaction commits.
DispatchQueue(c, ch) ==
    /\ phase[c] = "dispatching"
    /\ built[c][ch] = "PENDING"
    /\ built' = [built EXCEPT ![c][ch] = "QUEUED"]
    /\ tasks' = [tasks EXCEPT ![Key(c)][ch] = @ + 1]
    /\ UNCHANGED <<kafka, position, phase, entry, row, outcome, moves, faults>>

\* The rows of the transaction become visible, all of them at once.
InsertRows(c) ==
    row' = IF Key(c) = NoKey THEN row
           ELSE [row EXCEPT ![Key(c)] =
                    [ch \in Channels |-> IF built[c][ch] # "none" THEN built[c][ch] ELSE @[ch]]]

Commit(c) ==
    /\ phase[c] = "dispatching"
    /\ \A ch \in Channels : built[c][ch] # "PENDING"
    /\ InsertRows(c)
    /\ CloseTransaction(c)
    /\ Ended(c, "rows")
    /\ GoTo(c, "done")
    /\ UNCHANGED <<kafka, position, entry, tasks, moves, faults>>

\* Mutant: the transaction is left open after an exception.
HandlerRaises_NoRollback(c) ==
    /\ phase[c] \in Open
    /\ Fault
    /\ GoTo(c, "dlq")
    /\ UNCHANGED <<kafka, position, entry, built, row, tasks, outcome, moves>>

\* Redis, the broker or the database fails: rollback, then the DLQ.
HandlerRaises(c) ==
    /\ phase[c] \in Open
    /\ Fault
    /\ CloseTransaction(c)
    /\ GoTo(c, "dlq")
    /\ UNCHANGED <<kafka, position, entry, row, tasks, outcome, moves>>

\* The commit is done but its answer is lost: rows, and a DLQ record as well.
CommitAnswerLost(c) ==
    /\ phase[c] = "dispatching"
    /\ \A ch \in Channels : built[c][ch] # "PENDING"
    /\ Fault
    /\ InsertRows(c)
    /\ CloseTransaction(c)
    /\ Ended(c, "rows")
    /\ GoTo(c, "dlq")
    /\ UNCHANGED <<kafka, position, entry, tasks, moves>>

\* The rollback raises as well: the exception reaches the consumer loop,
\* which commits the offset all the same.
RollbackRaises(c) ==
    /\ phase[c] \in Open
    /\ Fault
    /\ CloseTransaction(c)
    /\ Ended(c, "lost")
    /\ GoTo(c, "done")
    /\ UNCHANGED <<kafka, position, entry, row, tasks, moves>>

publish_to_dlq(c) ==
    /\ phase[c] = "dlq"
    /\ Ended(c, "dlq")
    /\ GoTo(c, "done")
    /\ UNCHANGED <<kafka, position, entry, built, row, tasks, moves, faults>>

\* publish_to_dlq swallows the KafkaError: the event is only in the log file.
DlqFails(c) ==
    /\ phase[c] = "dlq"
    /\ Fault
    /\ Ended(c, "lost")
    /\ GoTo(c, "done")
    /\ UNCHANGED <<kafka, position, entry, built, row, tasks, moves>>

-----------------------------------------------------------------------------
(* Back in the consumer loop                                               *)

\* Mutant: the offset is committed while the event is being handled.
CommitOffset_Early(c) ==
    /\ phase[c] \in Busy \cup {"done"}
    /\ phase' = IF phase[c] = "done" THEN [phase EXCEPT ![c] = "idle"] ELSE phase
    /\ committed' = IF assigned = c THEN position[c] ELSE committed
    /\ UNCHANGED <<published, assigned, position, entry, built, row, tasks, outcome, moves, faults>>

\* Mutant: the offset after the next event is committed.
CommitOffset_OffByOne(c) ==
    /\ phase[c] = "done"
    /\ GoTo(c, "idle")
    /\ committed' = IF assigned = c THEN position[c] + 1 ELSE committed
    /\ UNCHANGED <<published, assigned, position, entry, built, row, tasks, outcome, moves, faults>>

\* The position is committed; the group refuses a consumer that has lost the
\* partition, and the loop ignores that.
CommitOffset(c) ==
    /\ phase[c] = "done"
    /\ GoTo(c, "idle")
    /\ committed' = IF assigned = c THEN position[c] ELSE committed
    /\ UNCHANGED <<published, assigned, position, entry, built, row, tasks, outcome, moves, faults>>

\* Both attempts to commit fail: the next event's commit covers this one.
CommitOffsetFails(c) ==
    /\ phase[c] = "done"
    /\ Fault
    /\ GoTo(c, "idle")
    /\ UNCHANGED <<kafka, position, entry, built, row, tasks, outcome, moves>>

Crash(c) ==
    /\ phase[c] # "down"
    /\ Fault
    /\ GoTo(c, "down")
    /\ CloseTransaction(c)
    /\ Leave(c)
    /\ UNCHANGED <<published, committed, position, entry, row, tasks, outcome, moves>>

\* restart: unless-stopped
Restart(c) ==
    /\ phase[c] = "down"
    /\ GoTo(c, "idle")
    /\ UNCHANGED <<kafka, position, entry, built, row, tasks, outcome, moves, faults>>

-----------------------------------------------------------------------------
HandlerStep(c) ==
    \/ RejectPayload(c)
    \/ BuildNothing(c)
    \/ build_notifications(c)
    \/ Insert(c)
    \/ InsertRefused(c)
    \/ \E ch \in Channels : DispatchSkip(c, ch) \/ DispatchQueue(c, ch)
    \/ Commit(c)
    \/ publish_to_dlq(c)
    \/ CommitOffset(c)

FaultStep(c) ==
    \/ HandlerRaises(c)
    \/ CommitAnswerLost(c)
    \/ RollbackRaises(c)
    \/ DlqFails(c)
    \/ CommitOffsetFails(c)
    \/ Crash(c)

GroupStep(c) == Assign(c) \/ Poll(c) \/ Shutdown(c) \/ Restart(c)

Next ==
    \/ publish_notification_event
    \/ Revoke
    \/ \E c \in Consumers : GroupStep(c) \/ HandlerStep(c) \/ FaultStep(c)

Spec == Init /\ [][Next]_vars

\* The group gives a free partition to somebody, a consumer that is up polls
\* and goes on with what it started, a stopped one is restarted.
Fairness ==
    /\ WF_vars(\E c \in Consumers : Assign(c))
    /\ \A c \in Consumers :
          /\ WF_vars(Poll(c))
          /\ WF_vars(HandlerStep(c))
          /\ WF_vars(Restart(c))

FairSpec == Spec /\ Fairness

-----------------------------------------------------------------------------
(* Properties                                                              *)

\* The committed offset never passes an event whose handling has not ended,
\* whoever had the partition: with rows, with nothing to send, in the
\* dead-letter topic, or given up by a failing call; and each fault makes at
\* most one event disappear.
EventsAccountedFor ==
    /\ \A e \in Offsets : e <= committed => outcome[e] # {}
    /\ Cardinality({e \in Offsets : outcome[e] = {"lost"}}) <= faults

\* Redelivered and repeated events, and a consumer that goes on after losing
\* the partition, publish no second send task for a key and a channel; only
\* faults do, one each (the task of a row that was rolled back).
OneTaskPerKey ==
    \A k \in Keys, ch \in Channels : tasks[k][ch] <= 1 + faults

\* Every QUEUED row that readers see has its send task: the commit comes
\* after the publication.
QueuedRowHasTask ==
    \A k \in Keys, ch \in Channels : row[k][ch] = "QUEUED" => tasks[k][ch] > 0

\* Every published event is handled to an end, through crashes, moves of the
\* partition and waits for each other's rows.
EventuallyHandled ==
    \A e \in Offsets : published >= e ~> outcome[e] # {}

=============================================================================
