--------------------------- MODULE DeliveryProofs ---------------------------
(***************************************************************************)
(* Theorems about Delivery for every set of notifications, workers and     *)
(* clients and every value of the bounds.  The inductive invariant ties    *)
(* each row lock to the phase of the transaction holding it.               *)
(***************************************************************************)
EXTENDS Delivery, TLAPS

\* A task that has started has a notification, whose insertion is over.
JobInv ==
    \A w \in Workers :
        phase[w] # "idle" => /\ job[w] \in Notifications
                             /\ origin[job[w]] = "closed"

\* A row that exists has been inserted: a deleted row never comes back.
OriginInv ==
    \A n \in Notifications :
        /\ Exists(n) => origin[n] = "closed"
        /\ origin[n] # "closed" => unlogged[n] = 0

\* A started request has a notification; a receipt's request has a status to
\* write and a row with a provider's message id.
CallInv ==
    \A c \in Clients :
        /\ call[c] # "idle" => target[c] \in Notifications
        /\ call[c] = "receipt" => /\ seen[c] # "absent"
                                  /\ provider_message_id[target[c]] = "set"

\* The lock of an existing row belongs to the transaction that is in the
\* middle of changing it, and only to that one.
LockInv ==
    /\ \A w \in Workers :
          phase[w] \in InTransaction /\ Exists(job[w]) => rowlock[job[w]] = w
    /\ \A n \in Notifications, w \in Workers :
          rowlock[n] = w => /\ phase[w] \in InTransaction
                            /\ job[w] = n
                            /\ Exists(n)
    /\ \A c \in Clients :
          call[c] = "retry_commit" => /\ Exists(target[c])
                                      /\ rowlock[target[c]] = c
    /\ \A n \in Notifications, c \in Clients :
          rowlock[n] = c => call[c] = "retry_commit" /\ target[c] = n

\* A send just accepted is among the unlogged ones.
UnloggedInv ==
    \A w \in Workers : phase[w] = "accepted" => unlogged[job[w]] >= 1


\* PROCESSING and SENT are never committed.
VisibleInv ==
    /\ \A n \in Notifications : status[n] \notin {"PROCESSING", "SENT"}
    /\ \A c \in Clients : seen[c] \notin {"PROCESSING", "SENT"}

\* The inductive invariant.
Inv ==
    /\ TypeOK
    /\ JobInv
    /\ OriginInv
    /\ CallInv
    /\ LockInv
    /\ UnloggedInv
    /\ VisibleInv

-----------------------------------------------------------------------------

\* The empty table satisfies the invariant.
LEMMA InvInit == Init => Inv
  BY NamesAssumption, BoundsAssumption
  DEF Init, Inv, TypeOK, JobInv, OriginInv, CallInv, LockInv, UnloggedInv, VisibleInv,
      Exists, InTransaction, CallPhases, NotificationStatus


\* Every action preserves the invariant.
LEMMA InvStep == Inv /\ [Next]_vars => Inv'
  <1> SUFFICES ASSUME Inv, [Next]_vars PROVE Inv'
    OBVIOUS
  <1> USE NamesAssumption, ReceiptsAssumption, BoundsAssumption
      DEF Inv, TypeOK, JobInv, OriginInv, CallInv, LockInv, UnloggedInv, VisibleInv,
          Exists, InTransaction, SendPhases, RetryPhases, CallPhases, NotificationStatus,
          row, broker, worker, client
  <1>1. ASSUME NEW n \in Notifications, Dispatch(n) PROVE Inv'
    BY <1>1 DEF Dispatch, Publish
  <1>2. ASSUME NEW n \in Notifications, CommitInsert(n) PROVE Inv'
    BY <1>2 DEF CommitInsert, update_status
  <1>3. ASSUME NEW n \in Notifications, RollbackInsert(n) PROVE Inv'
    BY <1>3 DEF RollbackInsert
  <1>4. ASSUME NEW n \in Notifications, VisibilityTimeout(n) PROVE Inv'
    BY <1>4 DEF VisibilityTimeout, Publish, Fault
  <1>5. ASSUME NEW n \in Notifications, TimePasses(n) PROVE Inv'
    BY <1>5 DEF TimePasses
  <1>6. ASSUME NEW n \in Notifications, RetryFailedPublish(n) PROVE Inv'
    BY <1>6 DEF RetryFailedPublish, Publish
  <1>7. ASSUME NEW w \in Workers, NEW n \in Notifications, TakeSendIgnored(w, n) PROVE Inv'
    BY <1>7 DEF TakeSendIgnored, Consume
  <1>8. ASSUME NEW w \in Workers, NEW n \in Notifications, TakeSend(w, n) PROVE Inv'
    BY <1>8 DEF TakeSend, Start, Consume
  <1>9. ASSUME NEW w \in Workers, NEW n \in Notifications, TakeRetryIgnored(w, n) PROVE Inv'
    BY <1>9 DEF TakeRetryIgnored, Consume
  <1>10. ASSUME NEW w \in Workers, NEW n \in Notifications, TakeRetry(w, n) PROVE Inv'
    BY <1>10 DEF TakeRetry, Start, Consume
  <1>11. ASSUME NEW w \in Workers, MarkProcessing(w) PROVE Inv'
    BY <1>11 DEF MarkProcessing, Free, GoTo
  <1>12. ASSUME NEW w \in Workers, ProviderAccepts(w) PROVE Inv'
    BY <1>12 DEF ProviderAccepts, GoTo
  <1>13. ASSUME NEW w \in Workers, ProviderRejects(w) PROVE Inv'
    BY <1>13 DEF ProviderRejects, GoTo
  <1>14. ASSUME NEW w \in Workers, ProviderAnswerLost(w) PROVE Inv'
    BY <1>14 DEF ProviderAnswerLost, GoTo, Fault
  <1>15. ASSUME NEW w \in Workers, RecordDelivered(w) PROVE Inv'
    <2>1. TypeOK'
      BY <1>15 DEF RecordDelivered, WriteDelivered, Release, Finish, update_status
    <2>2. JobInv' /\ OriginInv' /\ CallInv'
      BY <1>15 DEF RecordDelivered, WriteDelivered, Release, Finish, update_status
    <2>3. LockInv'
      BY <1>15 DEF RecordDelivered, WriteDelivered, Release, Finish, update_status
    <2>4. UnloggedInv' /\ VisibleInv'
      BY <1>15 DEF RecordDelivered, WriteDelivered, Release, Finish, update_status
    <2> QED
      BY <2>1, <2>2, <2>3, <2>4
  <1>16. ASSUME NEW w \in Workers, RecordRejected(w) PROVE Inv'
    <2>1. TypeOK'
      <3>0. job[w] \in Notifications /\ count[w] + 1 \in Nat
        BY <1>16 DEF RecordRejected, Reject, WriteRejected
      <3> HIDE DEF JobInv, OriginInv, CallInv, LockInv, UnloggedInv, VisibleInv
      <3>1. CASE count[w] + 1 >= MaxRetries
        <4>1. /\ status' = [status EXCEPT ![job[w]] = "DEAD"]
              /\ retry_count' = [retry_count EXCEPT ![job[w]] = count[w] + 1]
              /\ rowlock' = [n \in Notifications |-> IF rowlock[n] = w THEN None ELSE rowlock[n]]
              /\ phase' = [phase EXCEPT ![w] = "idle"]
              /\ job' = [job EXCEPT ![w] = None]
              /\ count' = [count EXCEPT ![w] = 0]
              /\ UNCHANGED <<next_retry_at, provider_message_id, origin, broker, beat, client>>
              /\ UNCHANGED <<faults, unlogged>>
          BY <1>16, <3>1 DEF RecordRejected, Reject, WriteRejected, Release, Finish, update_status
        <4> QED
          BY <3>0, <4>1
      <3>2. CASE ~(count[w] + 1 >= MaxRetries)
        <4>1. /\ status' = [status EXCEPT ![job[w]] = "RETRYING"]
              /\ retry_count' = [retry_count EXCEPT ![job[w]] = count[w] + 1]
              /\ next_retry_at' = [next_retry_at EXCEPT ![job[w]] = "future"]
              /\ rowlock' = [n \in Notifications |-> IF rowlock[n] = w THEN None ELSE rowlock[n]]
              /\ phase' = [phase EXCEPT ![w] = "publish"]
              /\ UNCHANGED <<job, count, provider_message_id, origin, broker, beat, client>>
              /\ UNCHANGED <<faults, unlogged>>
          BY <1>16, <3>2 DEF RecordRejected, Reject, WriteRejected, Release, GoTo, update_status
        <4> QED
          BY <3>0, <4>1
      <3> QED
        BY <3>1, <3>2
    <2>2. JobInv' /\ OriginInv' /\ CallInv'
      BY <1>16 DEF RecordRejected, Reject, WriteRejected, Release, Finish, GoTo, update_status
    <2>3. LockInv'
      BY <1>16 DEF RecordRejected, Reject, WriteRejected, Release, Finish, GoTo, update_status
    <2>4. UnloggedInv' /\ VisibleInv'
      BY <1>16 DEF RecordRejected, Reject, WriteRejected, Release, Finish, GoTo, update_status
    <2> QED
      BY <2>1, <2>2, <2>3, <2>4
  <1>17. ASSUME NEW w \in Workers, PublishRetry(w) PROVE Inv'
    BY <1>17 DEF PublishRetry, Finish, Publish
  <1>18. ASSUME NEW w \in Workers, LogOfDeletedRow(w) PROVE Inv'
    BY <1>18 DEF LogOfDeletedRow, GoTo
  <1>19. ASSUME NEW w \in Workers, SendRaises(w) PROVE Inv'
    BY <1>19 DEF SendRaises, Release, GoTo, Fault
  <1>20. ASSUME NEW w \in Workers, ReloadFailed(w) PROVE Inv'
    <2>1. CASE Exists(job[w])
      <3>1. TypeOK'
        <4>1. job[w] \in Notifications /\ retry_count[job[w]] \in Nat
          BY <1>20 DEF ReloadFailed
        <4>2. /\ phase' = [phase EXCEPT ![w] = "failed_loaded"]
              /\ job' = [job EXCEPT ![w] = job[w]]
              /\ count' = [count EXCEPT ![w] = retry_count[job[w]]]
              /\ UNCHANGED <<row, rowlock, origin, broker, beat, client, faults, unlogged>>
          BY <1>20, <2>1 DEF ReloadFailed, Start
        <4> HIDE DEF JobInv, OriginInv, CallInv, LockInv, UnloggedInv, VisibleInv
        <4> QED
          BY <4>1, <4>2
      <3>2. JobInv' /\ OriginInv' /\ CallInv'
        BY <1>20, <2>1 DEF ReloadFailed, Start
      <3>3. LockInv'
        BY <1>20, <2>1 DEF ReloadFailed, Start
      <3>4. UnloggedInv' /\ VisibleInv'
        BY <1>20, <2>1 DEF ReloadFailed, Start
      <3> QED
        BY <3>1, <3>2, <3>3, <3>4
    <2>2. CASE ~Exists(job[w])
      <3>1. TypeOK'
        BY <1>20, <2>2 DEF ReloadFailed, Finish
      <3>2. JobInv' /\ OriginInv' /\ CallInv'
        BY <1>20, <2>2 DEF ReloadFailed, Finish
      <3>3. LockInv'
        BY <1>20, <2>2 DEF ReloadFailed, Finish
      <3>4. UnloggedInv' /\ VisibleInv'
        BY <1>20, <2>2 DEF ReloadFailed, Finish
      <3> QED
        BY <3>1, <3>2, <3>3, <3>4
    <2> QED
      BY <2>1, <2>2
  <1>21. ASSUME NEW w \in Workers, RecordException(w) PROVE Inv'
    <2>1. TypeOK'
      BY <1>21 DEF RecordException, Free, Finish, update_status
    <2>2. JobInv' /\ OriginInv' /\ CallInv'
      BY <1>21 DEF RecordException, Free, Finish, update_status
    <2>3. LockInv'
      BY <1>21 DEF RecordException, Free, Finish, update_status
    <2>4. UnloggedInv' /\ VisibleInv'
      BY <1>21 DEF RecordException, Free, Finish, update_status
    <2> QED
      BY <2>1, <2>2, <2>3, <2>4
  <1>22. ASSUME NEW w \in Workers, MarkPending(w) PROVE Inv'
    <2>1. TypeOK'
      BY <1>22 DEF MarkPending, Free, GoTo, update_status
    <2>2. JobInv' /\ OriginInv' /\ CallInv'
      BY <1>22 DEF MarkPending, Free, GoTo, update_status
    <2>3. LockInv'
      BY <1>22 DEF MarkPending, Free, GoTo, update_status
    <2>4. UnloggedInv' /\ VisibleInv'
      BY <1>22 DEF MarkPending, Free, GoTo, update_status
    <2> QED
      BY <2>1, <2>2, <2>3, <2>4
  <1>23. ASSUME NEW w \in Workers, PublishSend(w) PROVE Inv'
    BY <1>23 DEF PublishSend, Finish, Publish
  <1>24. ASSUME NEW w \in Workers, TaskError(w) PROVE Inv'
    <2>1. TypeOK'
      BY <1>24 DEF TaskError, Release, Finish, Fault
    <2>2. JobInv' /\ OriginInv' /\ CallInv'
      BY <1>24 DEF TaskError, Release, Finish, Fault
    <2>3. LockInv'
      BY <1>24 DEF TaskError, Release, Finish, Fault
    <2>4. UnloggedInv' /\ VisibleInv'
      BY <1>24 DEF TaskError, Release, Finish, Fault
    <2> QED
      BY <2>1, <2>2, <2>3, <2>4
  <1>25. ASSUME NEW w \in Workers, WorkerLost(w) PROVE Inv'
    <2>1. TypeOK'
      BY <1>25 DEF WorkerLost, Release, Finish, Publish, Fault
    <2>2. JobInv' /\ OriginInv' /\ CallInv'
      BY <1>25 DEF WorkerLost, Release, Finish, Publish, Fault
    <2>3. LockInv'
      BY <1>25 DEF WorkerLost, Release, Finish, Publish, Fault
    <2>4. UnloggedInv' /\ VisibleInv'
      BY <1>25 DEF WorkerLost, Release, Finish, Publish, Fault
    <2> QED
      BY <2>1, <2>2, <2>3, <2>4
  <1>26. CASE RetryFailedSelect
    BY <1>26 DEF RetryFailedSelect, PendingRetries
  <1>27. CASE RetryFailedAborts
    BY <1>27 DEF RetryFailedAborts, Fault
  <1>28. CASE CleanupOldNotifications
    BY <1>28 DEF CleanupOldNotifications, DeleteRows, Free
  <1>29. CASE PurgeDeadLetters
    BY <1>29 DEF PurgeDeadLetters, DeleteRows, Free
  <1>30. ASSUME NEW c \in Clients, NEW n \in Notifications, CancelRead(c, n) PROVE Inv'
    BY <1>30 DEF CancelRead, Open
  <1>31. ASSUME NEW c \in Clients, NEW n \in Notifications, RetryRead(c, n) PROVE Inv'
    BY <1>31 DEF RetryRead, Open
  <1>32. ASSUME NEW c \in Clients, NEW n \in Notifications, NEW kind \in Receipts, ReceiptRead(c, n, kind) PROVE Inv'
    <2>1. TypeOK'
      BY <1>32 DEF ReceiptRead, Open, ReceiptStatus
    <2>2. JobInv' /\ OriginInv' /\ CallInv'
      BY <1>32 DEF ReceiptRead, Open, ReceiptStatus
    <2>3. LockInv'
      BY <1>32 DEF ReceiptRead, Open, ReceiptStatus
    <2>4. UnloggedInv' /\ VisibleInv'
      BY <1>32 DEF ReceiptRead, Open, ReceiptStatus
    <2> QED
      BY <2>1, <2>2, <2>3, <2>4
  <1>33. ASSUME NEW c \in Clients, CancelWrite(c) PROVE Inv'
    BY <1>33 DEF CancelWrite, Free, update_status, Close
  <1>34. ASSUME NEW c \in Clients, RetryPublish(c) PROVE Inv'
    <2>1. CASE Exists(target[c])
      <3>1. TypeOK'
        BY <1>34, <2>1 DEF RetryPublish, Free, Publish
      <3>2. JobInv' /\ OriginInv' /\ CallInv'
        BY <1>34, <2>1 DEF RetryPublish, Free, Publish
      <3>3. LockInv'
        BY <1>34, <2>1 DEF RetryPublish, Free, Publish
      <3>4. UnloggedInv' /\ VisibleInv'
        BY <1>34, <2>1 DEF RetryPublish, Free, Publish
      <3> QED
        BY <3>1, <3>2, <3>3, <3>4
    <2>2. CASE ~Exists(target[c])
      <3>1. TypeOK'
        BY <1>34, <2>2 DEF RetryPublish, Free, Publish, Close
      <3>2. JobInv' /\ OriginInv' /\ CallInv'
        BY <1>34, <2>2 DEF RetryPublish, Free, Publish, Close
      <3>3. LockInv'
        BY <1>34, <2>2 DEF RetryPublish, Free, Publish, Close
      <3>4. UnloggedInv' /\ VisibleInv'
        BY <1>34, <2>2 DEF RetryPublish, Free, Publish, Close
      <3> QED
        BY <3>1, <3>2, <3>3, <3>4
    <2> QED
      BY <2>1, <2>2
  <1>35. ASSUME NEW c \in Clients, RetryCommit(c) PROVE Inv'
    <2>1. TypeOK'
      BY <1>35 DEF RetryCommit, Release, update_status, Close
    <2>2. JobInv' /\ OriginInv' /\ CallInv'
      BY <1>35 DEF RetryCommit, Release, update_status, Close
    <2>3. LockInv'
      BY <1>35 DEF RetryCommit, Release, update_status, Close
    <2>4. UnloggedInv' /\ VisibleInv'
      BY <1>35 DEF RetryCommit, Release, update_status, Close
    <2> QED
      BY <2>1, <2>2, <2>3, <2>4
  <1>36. ASSUME NEW c \in Clients, RetryRollback(c) PROVE Inv'
    <2>1. TypeOK'
      BY <1>36 DEF RetryRollback, Release, Fault, Close
    <2>2. JobInv' /\ OriginInv' /\ CallInv'
      BY <1>36 DEF RetryRollback, Release, Fault, Close
    <2>3. LockInv'
      BY <1>36 DEF RetryRollback, Release, Fault, Close
    <2>4. UnloggedInv' /\ VisibleInv'
      BY <1>36 DEF RetryRollback, Release, Fault, Close
    <2> QED
      BY <2>1, <2>2, <2>3, <2>4
  <1>37. ASSUME NEW c \in Clients, ReceiptWrite(c) PROVE Inv'
    BY <1>37 DEF ReceiptWrite, Free, update_status, Close
  <1>38. ASSUME NEW n \in Notifications, InsertSkipped(n) PROVE Inv'
    BY <1>38 DEF InsertSkipped, update_status
  <1>39. ASSUME NEW w \in Workers, CommitAnswerLost(w) PROVE Inv'
    BY <1>39 DEF CommitAnswerLost, WriteDelivered, WriteRejected, Release, GoTo, Fault, update_status
  <1>40. CASE UNCHANGED vars
    BY <1>40 DEF vars
  <1> QED
    BY <1>1, <1>2, <1>3, <1>4, <1>5, <1>6, <1>7, <1>8, <1>9, <1>10, <1>11, <1>12, <1>13, <1>14, <1>15, <1>16, <1>17, <1>18, <1>19, <1>20, <1>21, <1>22, <1>23, <1>24, <1>25, <1>26, <1>27, <1>28, <1>29, <1>30, <1>31, <1>32, <1>33, <1>34, <1>35, <1>36, <1>37, <1>38, <1>39, <1>40
    DEF Next, InsertStep, TakeStep, TaskStep, FaultStep, BeatStep, RequestStep, ResponseStep

\* The invariant holds in every reachable state.
LEMMA InvAlways == Spec => []Inv
  BY InvInit, InvStep, PTL DEF Spec

-----------------------------------------------------------------------------

\* Every variable keeps its type.
THEOREM TypeCorrect == Spec => []TypeOK
  BY InvAlways, PTL DEF Inv

\* Two tasks never talk to the provider about the same existing row: the lock
\* of UPDATE ... PROCESSING is held until the outcome is committed.
THEOREM OneSender == Spec => []OneSenderPerRow
  <1>1. Inv => OneSenderPerRow
    BY NamesAssumption DEF Inv, JobInv, LockInv, OneSenderPerRow
  <1> QED
    BY <1>1, InvAlways, PTL

-----------------------------------------------------------------------------

\* Every action keeps the books of accepted sends.
LEMMA AccountedStep ==
    Inv /\ AcceptedSendsAccountedFor /\ [Next]_vars => AcceptedSendsAccountedFor'
  <1> SUFFICES ASSUME Inv, AcceptedSendsAccountedFor, [Next]_vars
               PROVE AcceptedSendsAccountedFor'
    OBVIOUS
  <1> USE NamesAssumption, BoundsAssumption
      DEF Inv, AcceptedSendsAccountedFor, TypeOK, JobInv, OriginInv, CallInv, LockInv, UnloggedInv, VisibleInv, Exists, InTransaction,
          SendPhases, RetryPhases, CallPhases, NotificationStatus, row, broker, worker, client
  <1>1. ASSUME NEW n \in Notifications, Dispatch(n) PROVE AcceptedSendsAccountedFor'
    BY <1>1 DEF Dispatch, Publish
  <1>2. ASSUME NEW n \in Notifications, CommitInsert(n) PROVE AcceptedSendsAccountedFor'
    BY <1>2 DEF CommitInsert, update_status
  <1>3. ASSUME NEW n \in Notifications, RollbackInsert(n) PROVE AcceptedSendsAccountedFor'
    BY <1>3 DEF RollbackInsert
  <1>4. ASSUME NEW n \in Notifications, VisibilityTimeout(n) PROVE AcceptedSendsAccountedFor'
    BY <1>4 DEF VisibilityTimeout, Publish, Fault
  <1>5. ASSUME NEW n \in Notifications, TimePasses(n) PROVE AcceptedSendsAccountedFor'
    BY <1>5 DEF TimePasses
  <1>6. ASSUME NEW n \in Notifications, RetryFailedPublish(n) PROVE AcceptedSendsAccountedFor'
    BY <1>6 DEF RetryFailedPublish, Publish
  <1>7. ASSUME NEW w \in Workers, NEW n \in Notifications, TakeSendIgnored(w, n) PROVE AcceptedSendsAccountedFor'
    BY <1>7 DEF TakeSendIgnored, Consume
  <1>8. ASSUME NEW w \in Workers, NEW n \in Notifications, TakeSend(w, n) PROVE AcceptedSendsAccountedFor'
    BY <1>8 DEF TakeSend, Start, Consume
  <1>9. ASSUME NEW w \in Workers, NEW n \in Notifications, TakeRetryIgnored(w, n) PROVE AcceptedSendsAccountedFor'
    BY <1>9 DEF TakeRetryIgnored, Consume
  <1>10. ASSUME NEW w \in Workers, NEW n \in Notifications, TakeRetry(w, n) PROVE AcceptedSendsAccountedFor'
    BY <1>10 DEF TakeRetry, Start, Consume
  <1>11. ASSUME NEW w \in Workers, MarkProcessing(w) PROVE AcceptedSendsAccountedFor'
    BY <1>11 DEF MarkProcessing, Free, GoTo
  <1>12. ASSUME NEW w \in Workers, ProviderAccepts(w) PROVE AcceptedSendsAccountedFor'
    BY <1>12 DEF ProviderAccepts, GoTo
  <1>13. ASSUME NEW w \in Workers, ProviderRejects(w) PROVE AcceptedSendsAccountedFor'
    BY <1>13 DEF ProviderRejects, GoTo
  <1>14. ASSUME NEW w \in Workers, ProviderAnswerLost(w) PROVE AcceptedSendsAccountedFor'
    BY <1>14 DEF ProviderAnswerLost, GoTo, Fault
  <1>15. ASSUME NEW w \in Workers, RecordDelivered(w) PROVE AcceptedSendsAccountedFor'
    BY <1>15 DEF RecordDelivered, WriteDelivered, Release, Finish, update_status
  <1>16. ASSUME NEW w \in Workers, RecordRejected(w) PROVE AcceptedSendsAccountedFor'
    BY <1>16 DEF RecordRejected, Reject, WriteRejected, Release, Finish, GoTo, update_status
  <1>17. ASSUME NEW w \in Workers, PublishRetry(w) PROVE AcceptedSendsAccountedFor'
    BY <1>17 DEF PublishRetry, Finish, Publish
  <1>18. ASSUME NEW w \in Workers, LogOfDeletedRow(w) PROVE AcceptedSendsAccountedFor'
    BY <1>18 DEF LogOfDeletedRow, GoTo
  <1>19. ASSUME NEW w \in Workers, SendRaises(w) PROVE AcceptedSendsAccountedFor'
    BY <1>19 DEF SendRaises, Release, GoTo, Fault
  <1>20. ASSUME NEW w \in Workers, ReloadFailed(w) PROVE AcceptedSendsAccountedFor'
    BY <1>20 DEF ReloadFailed, Finish, Start
  <1>21. ASSUME NEW w \in Workers, RecordException(w) PROVE AcceptedSendsAccountedFor'
    BY <1>21 DEF RecordException, Free, Finish, update_status
  <1>22. ASSUME NEW w \in Workers, MarkPending(w) PROVE AcceptedSendsAccountedFor'
    BY <1>22 DEF MarkPending, Free, GoTo, update_status
  <1>23. ASSUME NEW w \in Workers, PublishSend(w) PROVE AcceptedSendsAccountedFor'
    BY <1>23 DEF PublishSend, Finish, Publish
  <1>24. ASSUME NEW w \in Workers, TaskError(w) PROVE AcceptedSendsAccountedFor'
    BY <1>24 DEF TaskError, Release, Finish, Fault
  <1>25. ASSUME NEW w \in Workers, WorkerLost(w) PROVE AcceptedSendsAccountedFor'
    BY <1>25 DEF WorkerLost, Release, Finish, Publish, Fault
  <1>26. CASE RetryFailedSelect
    BY <1>26 DEF RetryFailedSelect, PendingRetries
  <1>27. CASE RetryFailedAborts
    BY <1>27 DEF RetryFailedAborts, Fault
  <1>28. CASE CleanupOldNotifications
    BY <1>28 DEF CleanupOldNotifications, DeleteRows, Free
  <1>29. CASE PurgeDeadLetters
    BY <1>29 DEF PurgeDeadLetters, DeleteRows, Free
  <1>30. ASSUME NEW c \in Clients, NEW n \in Notifications, CancelRead(c, n) PROVE AcceptedSendsAccountedFor'
    BY <1>30 DEF CancelRead, Open
  <1>31. ASSUME NEW c \in Clients, NEW n \in Notifications, RetryRead(c, n) PROVE AcceptedSendsAccountedFor'
    BY <1>31 DEF RetryRead, Open
  <1>32. ASSUME NEW c \in Clients, NEW n \in Notifications, NEW kind \in Receipts, ReceiptRead(c, n, kind) PROVE AcceptedSendsAccountedFor'
    BY <1>32 DEF ReceiptRead, Open, ReceiptStatus
  <1>33. ASSUME NEW c \in Clients, CancelWrite(c) PROVE AcceptedSendsAccountedFor'
    BY <1>33 DEF CancelWrite, Free, update_status, Close
  <1>34. ASSUME NEW c \in Clients, RetryPublish(c) PROVE AcceptedSendsAccountedFor'
    BY <1>34 DEF RetryPublish, Free, Publish, Close
  <1>35. ASSUME NEW c \in Clients, RetryCommit(c) PROVE AcceptedSendsAccountedFor'
    BY <1>35 DEF RetryCommit, Release, update_status, Close
  <1>36. ASSUME NEW c \in Clients, RetryRollback(c) PROVE AcceptedSendsAccountedFor'
    BY <1>36 DEF RetryRollback, Release, Fault, Close
  <1>37. ASSUME NEW c \in Clients, ReceiptWrite(c) PROVE AcceptedSendsAccountedFor'
    BY <1>37 DEF ReceiptWrite, Free, update_status, Close
  <1>38. ASSUME NEW n \in Notifications, InsertSkipped(n) PROVE AcceptedSendsAccountedFor'
    BY <1>38 DEF InsertSkipped, update_status
  <1>39. ASSUME NEW w \in Workers, CommitAnswerLost(w) PROVE AcceptedSendsAccountedFor'
    BY <1>39 DEF CommitAnswerLost, WriteDelivered, WriteRejected, Release, GoTo, Fault, update_status
  <1>40. CASE UNCHANGED vars
    BY <1>40 DEF vars
  <1> QED
    BY <1>1, <1>2, <1>3, <1>4, <1>5, <1>6, <1>7, <1>8, <1>9, <1>10, <1>11, <1>12, <1>13, <1>14, <1>15, <1>16, <1>17, <1>18, <1>19, <1>20, <1>21, <1>22, <1>23, <1>24, <1>25, <1>26, <1>27, <1>28, <1>29, <1>30, <1>31, <1>32, <1>33, <1>34, <1>35, <1>36, <1>37, <1>38, <1>39, <1>40
    DEF Next, InsertStep, TakeStep, TaskStep, FaultStep, BeatStep, RequestStep, ResponseStep

\* A send the provider accepted is logged as DELIVERED unless a fault
\* intervenes: one fault loses at most one of them.
THEOREM AcceptedSendsLogged == Spec => []AcceptedSendsAccountedFor
  <1>1. Init => AcceptedSendsAccountedFor
    BY DEF Init, AcceptedSendsAccountedFor, Exists
  <1> QED
    BY <1>1, AccountedStep, InvAlways, PTL DEF Spec

-----------------------------------------------------------------------------

\* Every action keeps verdicts on acknowledged rows.
LEMMA VerdictStep == Inv /\ VerdictHasProviderId /\ [Next]_vars => VerdictHasProviderId'
  <1> SUFFICES ASSUME Inv, VerdictHasProviderId, [Next]_vars
               PROVE VerdictHasProviderId'
    OBVIOUS
  <1> USE DEF Inv, VerdictHasProviderId, TypeOK, JobInv, OriginInv, CallInv, LockInv, UnloggedInv, VisibleInv, Exists, InTransaction,
          SendPhases, RetryPhases, CallPhases, NotificationStatus, row, broker, worker, client
  <1>1. ASSUME NEW n \in Notifications, Dispatch(n) PROVE VerdictHasProviderId'
    BY <1>1 DEF Dispatch, Publish
  <1>2. ASSUME NEW n \in Notifications, CommitInsert(n) PROVE VerdictHasProviderId'
    BY <1>2 DEF CommitInsert, update_status
  <1>3. ASSUME NEW n \in Notifications, RollbackInsert(n) PROVE VerdictHasProviderId'
    BY <1>3 DEF RollbackInsert
  <1>4. ASSUME NEW n \in Notifications, VisibilityTimeout(n) PROVE VerdictHasProviderId'
    BY <1>4 DEF VisibilityTimeout, Publish, Fault
  <1>5. ASSUME NEW n \in Notifications, TimePasses(n) PROVE VerdictHasProviderId'
    BY <1>5 DEF TimePasses
  <1>6. ASSUME NEW n \in Notifications, RetryFailedPublish(n) PROVE VerdictHasProviderId'
    BY <1>6 DEF RetryFailedPublish, Publish
  <1>7. ASSUME NEW w \in Workers, NEW n \in Notifications, TakeSendIgnored(w, n) PROVE VerdictHasProviderId'
    BY <1>7 DEF TakeSendIgnored, Consume
  <1>8. ASSUME NEW w \in Workers, NEW n \in Notifications, TakeSend(w, n) PROVE VerdictHasProviderId'
    BY <1>8 DEF TakeSend, Start, Consume
  <1>9. ASSUME NEW w \in Workers, NEW n \in Notifications, TakeRetryIgnored(w, n) PROVE VerdictHasProviderId'
    BY <1>9 DEF TakeRetryIgnored, Consume
  <1>10. ASSUME NEW w \in Workers, NEW n \in Notifications, TakeRetry(w, n) PROVE VerdictHasProviderId'
    BY <1>10 DEF TakeRetry, Start, Consume
  <1>11. ASSUME NEW w \in Workers, MarkProcessing(w) PROVE VerdictHasProviderId'
    BY <1>11 DEF MarkProcessing, Free, GoTo
  <1>12. ASSUME NEW w \in Workers, ProviderAccepts(w) PROVE VerdictHasProviderId'
    BY <1>12 DEF ProviderAccepts, GoTo
  <1>13. ASSUME NEW w \in Workers, ProviderRejects(w) PROVE VerdictHasProviderId'
    BY <1>13 DEF ProviderRejects, GoTo
  <1>14. ASSUME NEW w \in Workers, ProviderAnswerLost(w) PROVE VerdictHasProviderId'
    BY <1>14 DEF ProviderAnswerLost, GoTo, Fault
  <1>15. ASSUME NEW w \in Workers, RecordDelivered(w) PROVE VerdictHasProviderId'
    BY <1>15 DEF RecordDelivered, WriteDelivered, Release, Finish, update_status
  <1>16. ASSUME NEW w \in Workers, RecordRejected(w) PROVE VerdictHasProviderId'
    BY <1>16 DEF RecordRejected, Reject, WriteRejected, Release, Finish, GoTo, update_status
  <1>17. ASSUME NEW w \in Workers, PublishRetry(w) PROVE VerdictHasProviderId'
    BY <1>17 DEF PublishRetry, Finish, Publish
  <1>18. ASSUME NEW w \in Workers, LogOfDeletedRow(w) PROVE VerdictHasProviderId'
    BY <1>18 DEF LogOfDeletedRow, GoTo
  <1>19. ASSUME NEW w \in Workers, SendRaises(w) PROVE VerdictHasProviderId'
    BY <1>19 DEF SendRaises, Release, GoTo, Fault
  <1>20. ASSUME NEW w \in Workers, ReloadFailed(w) PROVE VerdictHasProviderId'
    BY <1>20 DEF ReloadFailed, Finish, Start
  <1>21. ASSUME NEW w \in Workers, RecordException(w) PROVE VerdictHasProviderId'
    BY <1>21 DEF RecordException, Free, Finish, update_status
  <1>22. ASSUME NEW w \in Workers, MarkPending(w) PROVE VerdictHasProviderId'
    BY <1>22 DEF MarkPending, Free, GoTo, update_status
  <1>23. ASSUME NEW w \in Workers, PublishSend(w) PROVE VerdictHasProviderId'
    BY <1>23 DEF PublishSend, Finish, Publish
  <1>24. ASSUME NEW w \in Workers, TaskError(w) PROVE VerdictHasProviderId'
    BY <1>24 DEF TaskError, Release, Finish, Fault
  <1>25. ASSUME NEW w \in Workers, WorkerLost(w) PROVE VerdictHasProviderId'
    BY <1>25 DEF WorkerLost, Release, Finish, Publish, Fault
  <1>26. CASE RetryFailedSelect
    BY <1>26 DEF RetryFailedSelect, PendingRetries
  <1>27. CASE RetryFailedAborts
    BY <1>27 DEF RetryFailedAborts, Fault
  <1>28. CASE CleanupOldNotifications
    BY <1>28 DEF CleanupOldNotifications, DeleteRows, Free
  <1>29. CASE PurgeDeadLetters
    BY <1>29 DEF PurgeDeadLetters, DeleteRows, Free
  <1>30. ASSUME NEW c \in Clients, NEW n \in Notifications, CancelRead(c, n) PROVE VerdictHasProviderId'
    BY <1>30 DEF CancelRead, Open
  <1>31. ASSUME NEW c \in Clients, NEW n \in Notifications, RetryRead(c, n) PROVE VerdictHasProviderId'
    BY <1>31 DEF RetryRead, Open
  <1>32. ASSUME NEW c \in Clients, NEW n \in Notifications, NEW kind \in Receipts, ReceiptRead(c, n, kind) PROVE VerdictHasProviderId'
    BY <1>32 DEF ReceiptRead, Open, ReceiptStatus
  <1>33. ASSUME NEW c \in Clients, CancelWrite(c) PROVE VerdictHasProviderId'
    BY <1>33 DEF CancelWrite, Free, update_status, Close
  <1>34. ASSUME NEW c \in Clients, RetryPublish(c) PROVE VerdictHasProviderId'
    BY <1>34 DEF RetryPublish, Free, Publish, Close
  <1>35. ASSUME NEW c \in Clients, RetryCommit(c) PROVE VerdictHasProviderId'
    BY <1>35 DEF RetryCommit, Release, update_status, Close
  <1>36. ASSUME NEW c \in Clients, RetryRollback(c) PROVE VerdictHasProviderId'
    BY <1>36 DEF RetryRollback, Release, Fault, Close
  <1>37. ASSUME NEW c \in Clients, ReceiptWrite(c) PROVE VerdictHasProviderId'
    BY <1>37 DEF ReceiptWrite, Free, update_status, Close
  <1>38. ASSUME NEW n \in Notifications, InsertSkipped(n) PROVE VerdictHasProviderId'
    BY <1>38 DEF InsertSkipped, update_status
  <1>39. ASSUME NEW w \in Workers, CommitAnswerLost(w) PROVE VerdictHasProviderId'
    BY <1>39 DEF CommitAnswerLost, WriteDelivered, WriteRejected, Release, GoTo, Fault, update_status
  <1>40. CASE UNCHANGED vars
    BY <1>40 DEF vars
  <1> QED
    BY <1>1, <1>2, <1>3, <1>4, <1>5, <1>6, <1>7, <1>8, <1>9, <1>10, <1>11, <1>12, <1>13, <1>14, <1>15, <1>16, <1>17, <1>18, <1>19, <1>20, <1>21, <1>22, <1>23, <1>24, <1>25, <1>26, <1>27, <1>28, <1>29, <1>30, <1>31, <1>32, <1>33, <1>34, <1>35, <1>36, <1>37, <1>38, <1>39, <1>40
    DEF Next, InsertStep, TakeStep, TaskStep, FaultStep, BeatStep, RequestStep, ResponseStep

\* DELIVERED and FAILED appear only on rows whose message a provider has
\* acknowledged, whatever receipts and retries interleave.
THEOREM VerdictsAreBacked == Spec => []VerdictHasProviderId
  <1>1. Init => VerdictHasProviderId
    BY DEF Init, VerdictHasProviderId
  <1> QED
    BY <1>1, VerdictStep, InvAlways, PTL DEF Spec

-----------------------------------------------------------------------------

\* Without OPENED receipts nobody writes a RETRYING it has read earlier.
SeenInv == \A c \in Clients : seen[c] # "RETRYING"

\* Every action of a channel without OPENED receipts keeps RETRYING rows
\* within reach of the beat job.
LEMMA RecoverableStep ==
    ASSUME "OPENED" \notin Receipts
    PROVE  Inv /\ SeenInv /\ RetryingIsRecoverable /\ [Next]_vars
             => (SeenInv /\ RetryingIsRecoverable)'
  <1> SUFFICES ASSUME Inv, SeenInv, RetryingIsRecoverable, [Next]_vars
               PROVE (SeenInv /\ RetryingIsRecoverable)'
    OBVIOUS
  <1> USE ReceiptsAssumption
      DEF Inv, SeenInv, RetryingIsRecoverable, TypeOK, JobInv, OriginInv, CallInv, LockInv, UnloggedInv, VisibleInv, Exists, InTransaction,
          SendPhases, RetryPhases, CallPhases, NotificationStatus, row, broker, worker, client
  <1>1. ASSUME NEW n \in Notifications, Dispatch(n) PROVE (SeenInv /\ RetryingIsRecoverable)'
    BY <1>1 DEF Dispatch, Publish
  <1>2. ASSUME NEW n \in Notifications, CommitInsert(n) PROVE (SeenInv /\ RetryingIsRecoverable)'
    BY <1>2 DEF CommitInsert, update_status
  <1>3. ASSUME NEW n \in Notifications, RollbackInsert(n) PROVE (SeenInv /\ RetryingIsRecoverable)'
    BY <1>3 DEF RollbackInsert
  <1>4. ASSUME NEW n \in Notifications, VisibilityTimeout(n) PROVE (SeenInv /\ RetryingIsRecoverable)'
    BY <1>4 DEF VisibilityTimeout, Publish, Fault
  <1>5. ASSUME NEW n \in Notifications, TimePasses(n) PROVE (SeenInv /\ RetryingIsRecoverable)'
    BY <1>5 DEF TimePasses
  <1>6. ASSUME NEW n \in Notifications, RetryFailedPublish(n) PROVE (SeenInv /\ RetryingIsRecoverable)'
    BY <1>6 DEF RetryFailedPublish, Publish
  <1>7. ASSUME NEW w \in Workers, NEW n \in Notifications, TakeSendIgnored(w, n) PROVE (SeenInv /\ RetryingIsRecoverable)'
    BY <1>7 DEF TakeSendIgnored, Consume
  <1>8. ASSUME NEW w \in Workers, NEW n \in Notifications, TakeSend(w, n) PROVE (SeenInv /\ RetryingIsRecoverable)'
    BY <1>8 DEF TakeSend, Start, Consume
  <1>9. ASSUME NEW w \in Workers, NEW n \in Notifications, TakeRetryIgnored(w, n) PROVE (SeenInv /\ RetryingIsRecoverable)'
    BY <1>9 DEF TakeRetryIgnored, Consume
  <1>10. ASSUME NEW w \in Workers, NEW n \in Notifications, TakeRetry(w, n) PROVE (SeenInv /\ RetryingIsRecoverable)'
    BY <1>10 DEF TakeRetry, Start, Consume
  <1>11. ASSUME NEW w \in Workers, MarkProcessing(w) PROVE (SeenInv /\ RetryingIsRecoverable)'
    BY <1>11 DEF MarkProcessing, Free, GoTo
  <1>12. ASSUME NEW w \in Workers, ProviderAccepts(w) PROVE (SeenInv /\ RetryingIsRecoverable)'
    BY <1>12 DEF ProviderAccepts, GoTo
  <1>13. ASSUME NEW w \in Workers, ProviderRejects(w) PROVE (SeenInv /\ RetryingIsRecoverable)'
    BY <1>13 DEF ProviderRejects, GoTo
  <1>14. ASSUME NEW w \in Workers, ProviderAnswerLost(w) PROVE (SeenInv /\ RetryingIsRecoverable)'
    BY <1>14 DEF ProviderAnswerLost, GoTo, Fault
  <1>15. ASSUME NEW w \in Workers, RecordDelivered(w) PROVE (SeenInv /\ RetryingIsRecoverable)'
    BY <1>15 DEF RecordDelivered, WriteDelivered, Release, Finish, update_status
  <1>16. ASSUME NEW w \in Workers, RecordRejected(w) PROVE (SeenInv /\ RetryingIsRecoverable)'
    BY <1>16, MaxRetriesAssumption DEF RecordRejected, Reject, WriteRejected, Release, Finish, GoTo, update_status
  <1>17. ASSUME NEW w \in Workers, PublishRetry(w) PROVE (SeenInv /\ RetryingIsRecoverable)'
    BY <1>17 DEF PublishRetry, Finish, Publish
  <1>18. ASSUME NEW w \in Workers, LogOfDeletedRow(w) PROVE (SeenInv /\ RetryingIsRecoverable)'
    BY <1>18 DEF LogOfDeletedRow, GoTo
  <1>19. ASSUME NEW w \in Workers, SendRaises(w) PROVE (SeenInv /\ RetryingIsRecoverable)'
    BY <1>19 DEF SendRaises, Release, GoTo, Fault
  <1>20. ASSUME NEW w \in Workers, ReloadFailed(w) PROVE (SeenInv /\ RetryingIsRecoverable)'
    BY <1>20 DEF ReloadFailed, Finish, Start
  <1>21. ASSUME NEW w \in Workers, RecordException(w) PROVE (SeenInv /\ RetryingIsRecoverable)'
    BY <1>21 DEF RecordException, Free, Finish, update_status
  <1>22. ASSUME NEW w \in Workers, MarkPending(w) PROVE (SeenInv /\ RetryingIsRecoverable)'
    BY <1>22 DEF MarkPending, Free, GoTo, update_status
  <1>23. ASSUME NEW w \in Workers, PublishSend(w) PROVE (SeenInv /\ RetryingIsRecoverable)'
    BY <1>23 DEF PublishSend, Finish, Publish
  <1>24. ASSUME NEW w \in Workers, TaskError(w) PROVE (SeenInv /\ RetryingIsRecoverable)'
    BY <1>24 DEF TaskError, Release, Finish, Fault
  <1>25. ASSUME NEW w \in Workers, WorkerLost(w) PROVE (SeenInv /\ RetryingIsRecoverable)'
    BY <1>25 DEF WorkerLost, Release, Finish, Publish, Fault
  <1>26. CASE RetryFailedSelect
    BY <1>26 DEF RetryFailedSelect, PendingRetries
  <1>27. CASE RetryFailedAborts
    BY <1>27 DEF RetryFailedAborts, Fault
  <1>28. CASE CleanupOldNotifications
    BY <1>28 DEF CleanupOldNotifications, DeleteRows, Free
  <1>29. CASE PurgeDeadLetters
    BY <1>29 DEF PurgeDeadLetters, DeleteRows, Free
  <1>30. ASSUME NEW c \in Clients, NEW n \in Notifications, CancelRead(c, n) PROVE (SeenInv /\ RetryingIsRecoverable)'
    BY <1>30 DEF CancelRead, Open
  <1>31. ASSUME NEW c \in Clients, NEW n \in Notifications, RetryRead(c, n) PROVE (SeenInv /\ RetryingIsRecoverable)'
    BY <1>31 DEF RetryRead, Open
  <1>32. ASSUME NEW c \in Clients, NEW n \in Notifications, NEW kind \in Receipts, ReceiptRead(c, n, kind) PROVE (SeenInv /\ RetryingIsRecoverable)'
    BY <1>32 DEF ReceiptRead, Open, ReceiptStatus
  <1>33. ASSUME NEW c \in Clients, CancelWrite(c) PROVE (SeenInv /\ RetryingIsRecoverable)'
    BY <1>33 DEF CancelWrite, Free, update_status, Close
  <1>34. ASSUME NEW c \in Clients, RetryPublish(c) PROVE (SeenInv /\ RetryingIsRecoverable)'
    BY <1>34 DEF RetryPublish, Free, Publish, Close
  <1>35. ASSUME NEW c \in Clients, RetryCommit(c) PROVE (SeenInv /\ RetryingIsRecoverable)'
    BY <1>35 DEF RetryCommit, Release, update_status, Close
  <1>36. ASSUME NEW c \in Clients, RetryRollback(c) PROVE (SeenInv /\ RetryingIsRecoverable)'
    BY <1>36 DEF RetryRollback, Release, Fault, Close
  <1>37. ASSUME NEW c \in Clients, ReceiptWrite(c) PROVE (SeenInv /\ RetryingIsRecoverable)'
    BY <1>37 DEF ReceiptWrite, Free, update_status, Close
  <1>38. ASSUME NEW n \in Notifications, InsertSkipped(n) PROVE (SeenInv /\ RetryingIsRecoverable)'
    BY <1>38 DEF InsertSkipped, update_status
  <1>39. ASSUME NEW w \in Workers, CommitAnswerLost(w) PROVE (SeenInv /\ RetryingIsRecoverable)'
    BY <1>39, MaxRetriesAssumption DEF CommitAnswerLost, WriteDelivered, WriteRejected, Release, GoTo, Fault, update_status
  <1>40. CASE UNCHANGED vars
    BY <1>40 DEF vars
  <1> QED
    BY <1>1, <1>2, <1>3, <1>4, <1>5, <1>6, <1>7, <1>8, <1>9, <1>10, <1>11, <1>12, <1>13, <1>14, <1>15, <1>16, <1>17, <1>18, <1>19, <1>20, <1>21, <1>22, <1>23, <1>24, <1>25, <1>26, <1>27, <1>28, <1>29, <1>30, <1>31, <1>32, <1>33, <1>34, <1>35, <1>36, <1>37, <1>38, <1>39, <1>40
    DEF Next, InsertStep, TakeStep, TaskStep, FaultStep, BeatStep, RequestStep, ResponseStep

\* On a channel whose webhook knows no OPENED receipt (Twilio), a RETRYING row
\* always has a next_retry_at and retries left, so the beat job finds it even
\* when its retry task is lost.
THEOREM RetryingFoundByBeat ==
    ASSUME "OPENED" \notin Receipts
    PROVE  Spec => []RetryingIsRecoverable
  <1>1. Init => SeenInv /\ RetryingIsRecoverable
    BY DEF Init, SeenInv, RetryingIsRecoverable
  <1>2. Inv /\ SeenInv /\ RetryingIsRecoverable /\ [Next]_vars
          => (SeenInv /\ RetryingIsRecoverable)'
    BY RecoverableStep
  <1> QED
    BY <1>1, <1>2, InvAlways, PTL DEF Spec

-----------------------------------------------------------------------------

\* What a refused send writes is one transition of the lifecycle.
LEMMA RejectedRow ==
    ASSUME TypeOK, NEW n \in Notifications, NEW w \in Workers, Exists(n), UNCHANGED origin,
           WriteRejected(n, count[w] + 1, count[w] + 1 >= MaxRetries)
    PROVE  Lifecycle!GiveUp(n) \/ Lifecycle!RetryLater(n)
  <1> DEFINE attempts == count[w] + 1
  <1> USE DEF TypeOK, Exists, Lifecycle!Exists
  <1>1. attempts \in Nat \ {0} /\ MaxRetries \in Nat /\ Lifecycle!Exists(n)
    BY MaxRetriesAssumption
  <1>2. CASE attempts >= MaxRetries
    <2>1. Lifecycle!GiveUp(n)
      BY <1>1, <1>2 DEF WriteRejected, update_status, Lifecycle!GiveUp
    <2> QED
      BY <2>1
  <1>3. CASE ~(attempts >= MaxRetries)
    <2>1. attempts \in 1 .. MaxRetries - 1
      BY <1>1, <1>3
    <2>2. /\ status' = [status EXCEPT ![n] = "RETRYING"]
          /\ retry_count' = [retry_count EXCEPT ![n] = attempts]
          /\ next_retry_at' = [next_retry_at EXCEPT ![n] = "future"]
          /\ UNCHANGED <<provider_message_id, origin>>
      BY <1>3 DEF WriteRejected, update_status
    <2>3. \E k \in 1 .. MaxRetries - 1 : retry_count' = [retry_count EXCEPT ![n] = k]
      BY ONLY <2>1, <2>2
    <2>4. Lifecycle!RetryLater(n)
      BY ONLY <1>1, <2>2, <2>3 DEF Lifecycle!RetryLater
    <2> QED
      BY <2>4
  <1> QED
    BY <1>2, <1>3

\* Every step of the workers, requests and jobs is one transition of the
\* lifecycle or leaves the table as it is.
LEMMA LifecycleStep == Inv /\ [Next]_vars => [Lifecycle!Next]_Lifecycle!vars
  <1> SUFFICES ASSUME Inv, [Next]_vars PROVE [Lifecycle!Next]_Lifecycle!vars
    OBVIOUS
  <1> USE MaxRetriesAssumption, ReceiptsAssumption
      DEF Inv, TypeOK, JobInv, OriginInv, CallInv, LockInv, VisibleInv, Exists, InTransaction,
          SendPhases, RetryPhases, CallPhases, NotificationStatus, row, broker, worker, client,
          Lifecycle!Next, Lifecycle!vars, Lifecycle!Insert, Lifecycle!Move, Lifecycle!Delivered, Lifecycle!RetryLater, Lifecycle!GiveUp, Lifecycle!StartOver,
          Lifecycle!Receipt, Lifecycle!Elapse, Lifecycle!Delete, Lifecycle!Exists, Lifecycle!Visible
  <1>1. ASSUME NEW n \in Notifications, Dispatch(n) PROVE [Lifecycle!Next]_Lifecycle!vars
    BY <1>1 DEF Dispatch, Publish
  <1>2. ASSUME NEW n \in Notifications, CommitInsert(n) PROVE [Lifecycle!Next]_Lifecycle!vars
    <2>1. Lifecycle!Insert(n)
      BY <1>2 DEF CommitInsert, update_status
    <2> QED
      BY <2>1
  <1>3. ASSUME NEW n \in Notifications, RollbackInsert(n) PROVE [Lifecycle!Next]_Lifecycle!vars
    BY <1>3 DEF RollbackInsert
  <1>4. ASSUME NEW n \in Notifications, VisibilityTimeout(n) PROVE [Lifecycle!Next]_Lifecycle!vars
    BY <1>4 DEF VisibilityTimeout, Publish, Fault
  <1>5. ASSUME NEW n \in Notifications, TimePasses(n) PROVE [Lifecycle!Next]_Lifecycle!vars
    <2>1. Lifecycle!Elapse(n)
      BY <1>5 DEF TimePasses
    <2> QED
      BY <2>1
  <1>6. ASSUME NEW n \in Notifications, RetryFailedPublish(n) PROVE [Lifecycle!Next]_Lifecycle!vars
    BY <1>6 DEF RetryFailedPublish, Publish
  <1>7. ASSUME NEW w \in Workers, NEW n \in Notifications, TakeSendIgnored(w, n) PROVE [Lifecycle!Next]_Lifecycle!vars
    BY <1>7 DEF TakeSendIgnored, Consume
  <1>8. ASSUME NEW w \in Workers, NEW n \in Notifications, TakeSend(w, n) PROVE [Lifecycle!Next]_Lifecycle!vars
    BY <1>8 DEF TakeSend, Start, Consume
  <1>9. ASSUME NEW w \in Workers, NEW n \in Notifications, TakeRetryIgnored(w, n) PROVE [Lifecycle!Next]_Lifecycle!vars
    BY <1>9 DEF TakeRetryIgnored, Consume
  <1>10. ASSUME NEW w \in Workers, NEW n \in Notifications, TakeRetry(w, n) PROVE [Lifecycle!Next]_Lifecycle!vars
    BY <1>10 DEF TakeRetry, Start, Consume
  <1>11. ASSUME NEW w \in Workers, MarkProcessing(w) PROVE [Lifecycle!Next]_Lifecycle!vars
    BY <1>11 DEF MarkProcessing, Free, GoTo
  <1>12. ASSUME NEW w \in Workers, ProviderAccepts(w) PROVE [Lifecycle!Next]_Lifecycle!vars
    BY <1>12 DEF ProviderAccepts, GoTo
  <1>13. ASSUME NEW w \in Workers, ProviderRejects(w) PROVE [Lifecycle!Next]_Lifecycle!vars
    BY <1>13 DEF ProviderRejects, GoTo
  <1>14. ASSUME NEW w \in Workers, ProviderAnswerLost(w) PROVE [Lifecycle!Next]_Lifecycle!vars
    BY <1>14 DEF ProviderAnswerLost, GoTo, Fault
  <1>15. ASSUME NEW w \in Workers, RecordDelivered(w) PROVE [Lifecycle!Next]_Lifecycle!vars
    <2> DEFINE n == job[w]
    <2>1. n \in Notifications /\ Lifecycle!Delivered(n)
      BY <1>15 DEF RecordDelivered, WriteDelivered, update_status
    <2> QED
      BY <2>1
  <1>16. ASSUME NEW w \in Workers, RecordRejected(w) PROVE [Lifecycle!Next]_Lifecycle!vars
    <2> DEFINE n == job[w]
    <2>1. /\ n \in Notifications
          /\ Lifecycle!Exists(n)
          /\ UNCHANGED origin
          /\ WriteRejected(n, count[w] + 1, count[w] + 1 >= MaxRetries)
      BY <1>16 DEF RecordRejected, Reject
    <2>2. Lifecycle!GiveUp(n) \/ Lifecycle!RetryLater(n)
      BY <2>1, RejectedRow
    <2> QED
      BY <2>1, <2>2
  <1>17. ASSUME NEW w \in Workers, PublishRetry(w) PROVE [Lifecycle!Next]_Lifecycle!vars
    BY <1>17 DEF PublishRetry, Finish, Publish
  <1>18. ASSUME NEW w \in Workers, LogOfDeletedRow(w) PROVE [Lifecycle!Next]_Lifecycle!vars
    BY <1>18 DEF LogOfDeletedRow, GoTo
  <1>19. ASSUME NEW w \in Workers, SendRaises(w) PROVE [Lifecycle!Next]_Lifecycle!vars
    BY <1>19 DEF SendRaises, Release, GoTo, Fault
  <1>20. ASSUME NEW w \in Workers, ReloadFailed(w) PROVE [Lifecycle!Next]_Lifecycle!vars
    BY <1>20 DEF ReloadFailed, Finish, Start
  <1>21. ASSUME NEW w \in Workers, RecordException(w) PROVE [Lifecycle!Next]_Lifecycle!vars
    BY <1>21 DEF RecordException, Free, Finish, update_status
  <1>22. ASSUME NEW w \in Workers, MarkPending(w) PROVE [Lifecycle!Next]_Lifecycle!vars
    BY <1>22 DEF MarkPending, Free, GoTo, update_status
  <1>23. ASSUME NEW w \in Workers, PublishSend(w) PROVE [Lifecycle!Next]_Lifecycle!vars
    BY <1>23 DEF PublishSend, Finish, Publish
  <1>24. ASSUME NEW w \in Workers, TaskError(w) PROVE [Lifecycle!Next]_Lifecycle!vars
    BY <1>24 DEF TaskError, Release, Finish, Fault
  <1>25. ASSUME NEW w \in Workers, WorkerLost(w) PROVE [Lifecycle!Next]_Lifecycle!vars
    BY <1>25 DEF WorkerLost, Release, Finish, Publish, Fault
  <1>26. CASE RetryFailedSelect
    BY <1>26 DEF RetryFailedSelect, PendingRetries
  <1>27. CASE RetryFailedAborts
    BY <1>27 DEF RetryFailedAborts, Fault
  <1>28. CASE CleanupOldNotifications
    <2>1. PICK old \in SUBSET Notifications :
              DeleteRows({n \in old : status[n] \in {"DELIVERED", "SKIPPED", "DEAD", "CANCELLED"}})
      BY <1>28 DEF CleanupOldNotifications
    <2>2. Lifecycle!Delete({n \in old : status[n] \in {"DELIVERED", "SKIPPED", "DEAD", "CANCELLED"}})
      BY <2>1 DEF DeleteRows
    <2> QED
      BY <2>2
  <1>29. CASE PurgeDeadLetters
    <2>1. Lifecycle!Delete({n \in Notifications : status[n] = "DEAD"})
      BY <1>29 DEF PurgeDeadLetters, DeleteRows
    <2> QED
      BY <2>1
  <1>30. ASSUME NEW c \in Clients, NEW n \in Notifications, CancelRead(c, n) PROVE [Lifecycle!Next]_Lifecycle!vars
    BY <1>30 DEF CancelRead, Open
  <1>31. ASSUME NEW c \in Clients, NEW n \in Notifications, RetryRead(c, n) PROVE [Lifecycle!Next]_Lifecycle!vars
    BY <1>31 DEF RetryRead, Open
  <1>32. ASSUME NEW c \in Clients, NEW n \in Notifications, NEW kind \in Receipts, ReceiptRead(c, n, kind) PROVE [Lifecycle!Next]_Lifecycle!vars
    BY <1>32 DEF ReceiptRead, Open, ReceiptStatus
  <1>33. ASSUME NEW c \in Clients, CancelWrite(c) PROVE [Lifecycle!Next]_Lifecycle!vars
    BY <1>33 DEF CancelWrite, Free, update_status, Close
  <1>34. ASSUME NEW c \in Clients, RetryPublish(c) PROVE [Lifecycle!Next]_Lifecycle!vars
    BY <1>34 DEF RetryPublish, Free, Publish, Close
  <1>35. ASSUME NEW c \in Clients, RetryCommit(c) PROVE [Lifecycle!Next]_Lifecycle!vars
    <2> DEFINE n == target[c]
    <2>1. n \in Notifications /\ Lifecycle!StartOver(n)
      BY <1>35 DEF RetryCommit, update_status
    <2> QED
      BY <2>1
  <1>36. ASSUME NEW c \in Clients, RetryRollback(c) PROVE [Lifecycle!Next]_Lifecycle!vars
    BY <1>36 DEF RetryRollback, Release, Fault, Close
  <1>37. ASSUME NEW c \in Clients, ReceiptWrite(c) PROVE [Lifecycle!Next]_Lifecycle!vars
    BY <1>37 DEF ReceiptWrite, Free, update_status, Close
  <1>38. ASSUME NEW n \in Notifications, InsertSkipped(n) PROVE [Lifecycle!Next]_Lifecycle!vars
    <2>1. Lifecycle!Insert(n)
      BY <1>38 DEF InsertSkipped, update_status
    <2> QED
      BY <2>1
  <1>39. ASSUME NEW w \in Workers, CommitAnswerLost(w) PROVE [Lifecycle!Next]_Lifecycle!vars
    <2> DEFINE n == job[w]
    <2>1. n \in Notifications /\ Lifecycle!Exists(n) /\ UNCHANGED origin
      BY <1>39 DEF CommitAnswerLost
    <2>2. CASE WriteDelivered(n)
      <3>1. Lifecycle!Delivered(n)
        BY <2>1, <2>2 DEF WriteDelivered, update_status
      <3> QED
        BY <2>1, <3>1
    <2>3. CASE WriteRejected(n, count[w] + 1, count[w] + 1 >= MaxRetries)
      <3>1. Lifecycle!GiveUp(n) \/ Lifecycle!RetryLater(n)
        BY <2>1, <2>3, RejectedRow
      <3> QED
        BY <2>1, <3>1
    <2> QED
      BY <1>39, <2>2, <2>3 DEF CommitAnswerLost
  <1>40. CASE UNCHANGED vars
    BY <1>40 DEF vars
  <1> QED
    BY <1>1, <1>2, <1>3, <1>4, <1>5, <1>6, <1>7, <1>8, <1>9, <1>10, <1>11, <1>12, <1>13, <1>14, <1>15, <1>16, <1>17, <1>18, <1>19, <1>20, <1>21, <1>22, <1>23, <1>24, <1>25, <1>26, <1>27, <1>28, <1>29, <1>30, <1>31, <1>32, <1>33, <1>34, <1>35, <1>36, <1>37, <1>38, <1>39, <1>40
    DEF Next, InsertStep, TakeStep, TaskStep, FaultStep, BeatStep, RequestStep, ResponseStep

\* Delivery implements NotificationLifecycle.
THEOREM Refinement == Spec => ImplementsLifecycle
  <1>1. Init => Lifecycle!Init
    BY DEF Init, Lifecycle!Init
  <1> QED
    BY <1>1, LifecycleStep, InvAlways, PTL DEF Spec, ImplementsLifecycle, Lifecycle!Spec

=============================================================================
