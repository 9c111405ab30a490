----------------------------- MODULE BackOffice -----------------------------
(***************************************************************************)
(* What works on notifications after the fact: the dead-letter endpoints   *)
(* (/dlq retry, discard, bulk-retry) and the daily analytics               *)
(* (upsert_daily_aggregates, from the beat job and from POST               *)
(* /analytics/aggregate).  Requests read, then write at the end of their   *)
(* transaction, while workers move the rows and an administrator purges    *)
(* them; the retries publish their tasks before they commit.               *)
(*                                                                         *)
(* The notifications are those of one day, event type and channel: the     *)
(* analytics of others have nothing in common with theirs.  A worker's     *)
(* attempt is one step here; Delivery shows its inside.                    *)
(***************************************************************************)
EXTENDS Naturals, Sequences, FiniteSets

CONSTANTS
    Notifications,
    Slots,          \* concurrent requests, the beat job among them
    MaxRequests,    \* bound: requests in a behaviour
    MaxFaults       \* bound: failed calls of the broker or the database

ASSUME BackOfficeAssumption ==
    /\ IsFiniteSet(Notifications)
    /\ IsFiniteSet(Slots)
    /\ MaxRequests \in Nat
    /\ MaxFaults \in Nat

VARIABLES
    status,         \* of each row; "absent" when it is deleted
    reason,         \* the skip_reason of a SKIPPED row
    entry,          \* its dead_letter_queue row: "none", "open" or resolved
    queue,          \* send tasks waiting
    records,        \* the notification_analytics rows
    req, spent, faults,
    published,      \* ghost: tasks published by the dead-letter endpoints
    last,           \* ghost: what the last aggregation counted
    overlap         \* ghost: two aggregations have overlapped

rows == <<status, reason, entry>>
ghosts == <<published, last, overlap>>
vars == <<rows, queue, records, req, spent, faults, ghosts>>

Idle == [op |-> "idle"]
Statuses == {"PENDING", "DELIVERED", "FAILED", "RETRYING", "DEAD", "CANCELLED", "SKIPPED"}
SkipReason == {"dnd_registered", "channel_disabled"}
Resolutions == {"retried", "discarded"}
Exists(n) == status[n] # "absent"

\* The counters of an analytics row.  (total_sent includes SENT, which no
\* code writes; the other skip reasons are counted like skip_dnd.)
Counters == {"total_sent", "total_delivered", "total_failed", "total_skipped",
             "total_retried", "total_dead", "skip_dnd"}

TypeOK ==
    /\ status \in [Notifications -> Statuses \cup {"absent"}]
    /\ reason \in [Notifications -> SkipReason]
    /\ entry \in [Notifications -> {"none", "open"} \cup Resolutions]
    /\ \A n \in Notifications : ~Exists(n) => entry[n] = "none"
    /\ queue \in [Notifications -> Nat]
    /\ Len(records) <= 1
    /\ \A i \in DOMAIN records : records[i] \in [Counters -> Nat]
    /\ spent \in 0..MaxRequests
    /\ faults \in 0..MaxFaults
    /\ published \in [Notifications -> Nat]
    /\ overlap \in BOOLEAN

\* Some notifications were skipped, and some have failed for good.
Init ==
    /\ status \in [Notifications -> {"DEAD", "SKIPPED"}]
    /\ reason \in [Notifications -> SkipReason]
    /\ entry = [n \in Notifications |-> "none"]
    /\ queue = [n \in Notifications |-> 0]
    /\ records = <<>>
    /\ req = [q \in Slots |-> Idle]
    /\ spent = 0
    /\ faults = 0
    /\ published = [n \in Notifications |-> 0]
    /\ last = <<>>
    /\ overlap = FALSE

-----------------------------------------------------------------------------
(* Requests in general                                                     *)

Begin(q, r) ==
    /\ req[q] = Idle
    /\ spent < MaxRequests
    /\ spent' = spent + 1
    /\ req' = [req EXCEPT ![q] = r]

End(q) == req' = [req EXCEPT ![q] = Idle]
Fault == faults < MaxFaults /\ faults' = faults + 1

\* A flushed, uncommitted UPDATE holds the row.
Locked(n) == \E q \in Slots : req[q].op = "retrying" /\ req[q].n = n

Publish(n) ==
    /\ queue' = [queue EXCEPT ![n] = @ + 1]
    /\ published' = [published EXCEPT ![n] = @ + 1]

\* Status PENDING, unless that is what was read: the ORM writes what differs.
Reset(n, read) == IF read = "PENDING" THEN status[n] ELSE "PENDING"

-----------------------------------------------------------------------------
(* The dead-letter endpoints                                               *)

\* Mutant: the entry is not looked at.
BeginRetry_Unchecked(q, n) ==
    /\ entry[n] # "none"
    /\ Begin(q, [op |-> "entry", n |-> n])
    /\ UNCHANGED <<rows, queue, records, faults, ghosts>>

BeginRetry(q, n) ==
    /\ entry[n] = "open"
    /\ Begin(q, [op |-> "entry", n |-> n])
    /\ UNCHANGED <<rows, queue, records, faults, ghosts>>

\* The notification is read after the entry.
ReadNotification(q) ==
    LET n == req[q].n IN
    /\ req[q].op = "entry"
    /\ req' = [req EXCEPT ![q] = [op |-> "retry", n |-> n, read |-> status[n]]]
    /\ UNCHANGED <<rows, queue, records, spent, faults, ghosts>>

\* flush, then apply_async; a row that is gone makes the flush fail.
retry_dlq_entry(q) ==
    LET n == req[q].n IN
    /\ req[q].op = "retry"
    /\ ~Locked(n)
    /\ IF Exists(n)
       THEN Publish(n) /\ req' = [req EXCEPT ![q].op = "retrying"]
       ELSE End(q) /\ UNCHANGED <<queue, published>>
    /\ UNCHANGED <<rows, records, spent, faults, last, overlap>>

\* get_db commits.
RetryCommit(q) ==
    LET n == req[q].n IN
    /\ req[q].op = "retrying"
    /\ status' = [status EXCEPT ![n] = Reset(n, req[q].read)]
    /\ entry' = [entry EXCEPT ![n] = "retried"]
    /\ End(q)
    /\ UNCHANGED <<reason, queue, records, spent, faults, ghosts>>

\* Mutant: a broker that cannot be reached is only logged.
RetryFails_Logged(q) ==
    LET n == req[q].n IN
    /\ req[q].op = "retry"
    /\ Exists(n) /\ ~Locked(n)
    /\ Fault
    /\ req' = [req EXCEPT ![q].op = "retrying"]
    /\ UNCHANGED <<rows, queue, records, spent, ghosts>>

\* apply_async raises, perhaps after the task was taken, or the COMMIT fails:
\* nothing is written.
RetryFails(q) ==
    LET n == req[q].n IN
    /\ \/ /\ req[q].op = "retry"
          /\ Exists(n) /\ ~Locked(n)
          /\ Publish(n) \/ UNCHANGED <<queue, published>>
       \/ req[q].op = "retrying" /\ UNCHANGED <<queue, published>>
    /\ Fault
    /\ End(q)
    /\ UNCHANGED <<rows, records, spent, last, overlap>>

BeginDiscard(q, n) ==
    /\ entry[n] = "open"
    /\ Begin(q, [op |-> "discard", n |-> n])
    /\ UNCHANGED <<rows, queue, records, faults, ghosts>>

discard_dlq_entry(q) ==
    LET n == req[q].n IN
    /\ req[q].op = "discard"
    /\ ~Locked(n)
    /\ entry' = IF Exists(n) THEN [entry EXCEPT ![n] = "discarded"] ELSE entry
    /\ End(q)
    /\ UNCHANGED <<status, reason, queue, records, spent, faults, ghosts>>

\* The unresolved entries, or those with a given failure_reason.
BeginBulk(q, picked) ==
    /\ picked # {}
    /\ \A n \in picked : entry[n] = "open"
    /\ Begin(q, [op |-> "bulk", todo |-> picked, read |-> <<>>])
    /\ UNCHANGED <<rows, queue, records, faults, ghosts>>

\* The next entry: its notification is read and its task published.
BulkNext(q, n) ==
    /\ req[q].op = "bulk"
    /\ n \in req[q].todo
    /\ Publish(n)
    /\ req' = [req EXCEPT ![q].todo = @ \ {n},
                          ![q].read = Append(@, [n |-> n, status |-> status[n]])]
    /\ UNCHANGED <<rows, records, spent, faults, last, overlap>>

BulkFails(q) ==
    /\ req[q].op = "bulk"
    /\ Fault
    /\ \/ UNCHANGED <<queue, published>>
       \/ \E n \in req[q].todo : Publish(n)
    /\ End(q)
    /\ UNCHANGED <<rows, records, spent, last, overlap>>

\* One flush and COMMIT for all; it fails for all when a row is gone.
bulk_retry_dlq(q) ==
    LET done == req[q].read
        has == {done[i].n : i \in DOMAIN done} IN
    /\ req[q].op = "bulk"
    /\ req[q].todo = {}
    /\ \A n \in has : ~Locked(n)
    /\ IF \A n \in has : Exists(n)
       THEN /\ entry' = [n \in Notifications |-> IF n \in has THEN "retried" ELSE entry[n]]
            /\ status' = [n \in Notifications |->
                  IF n \in has
                  THEN Reset(n, (CHOOSE r \in {done[i] : i \in DOMAIN done} : r.n = n).status)
                  ELSE status[n]]
       ELSE UNCHANGED <<entry, status>>
    /\ End(q)
    /\ UNCHANGED <<reason, queue, records, spent, faults, ghosts>>

-----------------------------------------------------------------------------
(* AnalyticsService.upsert_daily_aggregates                                *)

Count(s) == Cardinality({n \in Notifications : status[n] = s})

\* One SELECT with GROUP BY, added up.
Tally ==
    [c \in Counters |->
        CASE c \in {"total_sent", "total_delivered"} -> Count("DELIVERED")
          [] c = "total_failed"    -> Count("FAILED")
          [] c = "total_skipped"   -> Count("SKIPPED")
          [] c = "total_retried"   -> Count("RETRYING")
          [] c = "total_dead"      -> Count("DEAD")
          [] c = "skip_dnd"        -> Cardinality({n \in Notifications :
                status[n] = "SKIPPED" /\ reason[n] = "dnd_registered"})]

Aggregating(q) == req[q].op \in {"aggregate", "upsert"}

\* Without a notification there is no group, and nothing is written.
BeginAggregate(q) ==
    /\ \E n \in Notifications : Exists(n)
    /\ Begin(q, [op |-> "aggregate", data |-> Tally])
    /\ overlap' = (overlap \/ \E p \in Slots : Aggregating(p))
    /\ UNCHANGED <<rows, queue, records, faults, published, last>>

\* scalar_one_or_none raises when there is more than one.
LookUpRecord(q) ==
    /\ req[q].op = "aggregate"
    /\ req' = [req EXCEPT ![q] =
          IF Len(records) > 1 THEN Idle
          ELSE [op |-> "upsert", data |-> req[q].data, found |-> records]]
    /\ UNCHANGED <<rows, queue, records, spent, faults, ghosts>>

\* Mutant: a counter that is 0 is not set.
Merged_SkipsZero(old, found, data) ==
    [c \in Counters |-> IF data[c] # 0 THEN data[c] ELSE old[c]]

\* The columns in which data differs from the record that was read.
Merged(old, found, data) ==
    [c \in Counters |-> IF data[c] # found[c] THEN data[c] ELSE old[c]]

\* uq_analytics_date_event_channel
Refused(found) == found = <<>> /\ records # <<>>

upsert_daily_aggregates(q) ==
    LET found == req[q].found  data == req[q].data IN
    /\ req[q].op = "upsert"
    /\ IF Refused(found) THEN UNCHANGED <<records, last>>
       ELSE /\ records' = IF found = <<>> THEN Append(records, data)
                          ELSE [records EXCEPT ![1] = Merged(@, found[1], data)]
            /\ last' = <<data>>
    /\ End(q)
    /\ UNCHANGED <<rows, queue, spent, faults, published, overlap>>

AggregateFails(q) ==
    /\ Aggregating(q)
    /\ Fault
    /\ End(q)
    /\ UNCHANGED <<rows, queue, records, spent, ghosts>>

-----------------------------------------------------------------------------
(* The rest of the system                                                  *)

\* A dead notification gets its entry.  (No code inserts one.)
DeadLettered(n) ==
    /\ status[n] = "DEAD"
    /\ entry[n] = "none"
    /\ entry' = [entry EXCEPT ![n] = "open"]
    /\ UNCHANGED <<status, reason, queue, records, req, spent, faults, ghosts>>

\* An attempt of a send task, or another one of a notification that is
\* RETRYING.  A reader sees the committed status of a locked row.
send_notification_task(n) ==
    /\ \/ queue[n] > 0 /\ queue' = [queue EXCEPT ![n] = @ - 1]
       \/ status[n] = "RETRYING" /\ UNCHANGED queue
    /\ IF status[n] \in {"DELIVERED", "CANCELLED", "absent"} THEN UNCHANGED status
       ELSE /\ ~Locked(n)
            /\ \E s \in {"DELIVERED", "RETRYING", "DEAD"} :
                  status' = [status EXCEPT ![n] = s]
    /\ UNCHANGED <<reason, entry, records, req, spent, faults, ghosts>>

\* The provider reports a failure afterwards.
receipt(n) ==
    /\ status[n] = "DELIVERED"
    /\ ~Locked(n)
    /\ status' = [status EXCEPT ![n] = "FAILED"]
    /\ UNCHANGED <<reason, entry, queue, records, req, spent, faults, ghosts>>

\* Deletes all DEAD rows, and their entries by ON DELETE CASCADE.
purge_dead_letters ==
    LET dead == {n \in Notifications : status[n] = "DEAD"} IN
    /\ dead # {}
    /\ \A n \in dead : ~Locked(n)
    /\ status' = [n \in Notifications |-> IF n \in dead THEN "absent" ELSE status[n]]
    /\ entry' = [n \in Notifications |-> IF n \in dead THEN "none" ELSE entry[n]]
    /\ UNCHANGED <<reason, queue, records, req, spent, faults, ghosts>>

Request(q) ==
    \/ \E n \in Notifications : BeginRetry(q, n) \/ BeginDiscard(q, n) \/ BulkNext(q, n)
    \/ \E picked \in SUBSET Notifications : BeginBulk(q, picked)
    \/ ReadNotification(q) \/ retry_dlq_entry(q) \/ RetryCommit(q) \/ RetryFails(q)
    \/ discard_dlq_entry(q)
    \/ bulk_retry_dlq(q) \/ BulkFails(q)
    \/ BeginAggregate(q) \/ LookUpRecord(q) \/ upsert_daily_aggregates(q)
    \/ AggregateFails(q)

Next ==
    \/ \E q \in Slots : Request(q)
    \/ \E n \in Notifications :
          DeadLettered(n) \/ send_notification_task(n) \/ receipt(n)
    \/ purge_dead_letters

Spec == Init /\ [][Next]_vars

-----------------------------------------------------------------------------
(* Properties                                                              *)

\* An entry that says "retried" has had its task: no order of failures,
\* rollbacks and concurrent requests resolves an entry without a send task.
RetriedWasQueued ==
    \A n \in Notifications : entry[n] = "retried" => published[n] > 0

\* Retries do not multiply: an entry is retried at most once by each of the
\* requests that were under way together, and again only after a failed
\* request or after a purge made them fail.
RetriesBounded ==
    LET purged == {n \in Notifications : ~Exists(n)} IN
    \A n \in Notifications :
        published[n] <= Cardinality(Slots) * (1 + Cardinality(purged)) + faults

\* A day, event type and channel has one analytics row, and unless
\* aggregations have overlapped it is one count: that of the last one, in all
\* columns, however often the day was aggregated before; what is delivered
\* was sent, and nothing is counted twice.
RecordIsOneCount ==
    /\ Len(records) <= 1
    /\ ~overlap =>
        /\ records = last
        /\ \A i \in DOMAIN records :
            LET r == records[i] IN
            /\ r["total_delivered"] <= r["total_sent"]
            /\ r["skip_dnd"] <= r["total_skipped"]
            /\ r["total_sent"] + r["total_failed"] + r["total_skipped"]
                  + r["total_retried"] + r["total_dead"] <= Cardinality(Notifications)

=============================================================================
