----------------------- MODULE NotificationLifecycle -----------------------
(***************************************************************************)
(* What a reader of the notifications table may rely on: the row moves in  *)
(* atomic transitions, each the complete effect of one finished attempt,   *)
(* request or job.  There are no workers, locks, messages or faults here.  *)
(* Delivery implements this specification.                                 *)
(***************************************************************************)
EXTENDS Naturals

CONSTANTS Notifications, MaxRetries

VARIABLES status, retry_count, next_retry_at, provider_message_id,
          inserted    \* notifications whose insertion has ended

vars == <<status, retry_count, next_retry_at, provider_message_id, inserted>>

Init ==
    /\ status = [n \in Notifications |-> "absent"]
    /\ retry_count = [n \in Notifications |-> 0]
    /\ next_retry_at = [n \in Notifications |-> "null"]
    /\ provider_message_id = [n \in Notifications |-> "null"]
    /\ inserted = {}

Exists(n) == status[n] # "absent"

\* A row appears once; when it is deleted it stays deleted.
Insert(n) ==
    /\ n \notin inserted
    /\ inserted' = inserted \cup {n}
    /\ \/ \E s \in {"QUEUED", "SKIPPED"} : status' = [status EXCEPT ![n] = s]
       \/ UNCHANGED status
    /\ UNCHANGED <<retry_count, next_retry_at, provider_message_id>>

\* A status change of an existing row that touches nothing else.
Move(n, s) ==
    /\ Exists(n)
    /\ status' = [status EXCEPT ![n] = s]
    /\ UNCHANGED <<retry_count, next_retry_at, provider_message_id, inserted>>

Delivered(n) ==
    /\ Exists(n)
    /\ status' = [status EXCEPT ![n] = "DELIVERED"]
    /\ provider_message_id' = [provider_message_id EXCEPT ![n] = "set"]
    /\ UNCHANGED <<retry_count, next_retry_at, inserted>>

\* A failed attempt decides between another try and giving up by the count it
\* writes.
RetryLater(n) ==
    /\ Exists(n)
    /\ status' = [status EXCEPT ![n] = "RETRYING"]
    /\ \E k \in 1 .. MaxRetries - 1 : retry_count' = [retry_count EXCEPT ![n] = k]
    /\ next_retry_at' = [next_retry_at EXCEPT ![n] = "future"]
    /\ UNCHANGED <<provider_message_id, inserted>>

GiveUp(n) ==
    /\ Exists(n)
    /\ status' = [status EXCEPT ![n] = "DEAD"]
    /\ retry_count' = [retry_count EXCEPT ![n] = retry_count'[n]]
    /\ retry_count'[n] >= MaxRetries
    /\ UNCHANGED <<next_retry_at, provider_message_id, inserted>>

StartOver(n) ==
    /\ Exists(n)
    /\ status' = [status EXCEPT ![n] = "PENDING"]
    /\ retry_count' = [retry_count EXCEPT ![n] = 0]
    /\ UNCHANGED <<next_retry_at, provider_message_id, inserted>>

\* What a reader sees; PROCESSING is an attempt in progress, never committed.
Visible ==
    {"PENDING", "QUEUED", "DELIVERED", "FAILED", "RETRYING", "CANCELLED", "SKIPPED", "DEAD"}

\* A receipt concerns a row whose message a provider has acknowledged.  An
\* OPENED receipt may write back any status it has read.
Receipt(n) ==
    /\ provider_message_id[n] = "set"
    /\ \E s \in Visible : Move(n, s)

Elapse(n) ==
    /\ next_retry_at[n] = "future"
    /\ next_retry_at' = [next_retry_at EXCEPT ![n] = "past"]
    /\ UNCHANGED <<status, retry_count, provider_message_id, inserted>>

\* Only finished notifications are deleted.
Delete(doomed) ==
    /\ \A n \in doomed : status[n] \in {"DELIVERED", "SKIPPED", "DEAD", "CANCELLED"}
    /\ status' = [n \in Notifications |-> IF n \in doomed THEN "absent" ELSE status[n]]
    /\ UNCHANGED <<retry_count, next_retry_at, provider_message_id, inserted>>

Next ==
    \/ \E n \in Notifications :
          \/ Insert(n)
          \/ Delivered(n)
          \/ RetryLater(n)
          \/ GiveUp(n)
          \/ StartOver(n)
          \/ \E s \in {"PENDING", "CANCELLED", "DEAD"} : Move(n, s)
          \/ Receipt(n)
          \/ Elapse(n)
    \/ \E doomed \in SUBSET Notifications : Delete(doomed)

Spec == Init /\ [][Next]_vars
=============================================================================
