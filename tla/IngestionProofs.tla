-------------------------- MODULE IngestionProofs --------------------------
(***************************************************************************)
(* The safety properties of Ingestion, for any log, any number of          *)
(* consumers and channels, and any number of faults and moves.             *)
(***************************************************************************)
EXTENDS Ingestion, FiniteSetTheorems, TLAPS

\* The owner of the partition has read at least what is committed, and every
\* event it has read has been handled to an end, but for the one in hand.
CommittedHandled == \A e \in Offsets : e <= committed => outcome[e] # {}

DoneHandled == \A c \in Consumers : phase[c] = "done" => outcome[entry[c]] # {}

OwnerAhead ==
    \A c \in Consumers :
        assigned = c => committed <= position[c] /\ position[c] <= published

OwnerHandled ==
    \A c \in Consumers, e \in Offsets :
        (assigned = c /\ e <= position[c]) =>
            \/ outcome[e] # {}
            \/ phase[c] \in Busy /\ entry[c] = e

OwnerInv == CommittedHandled /\ DoneHandled /\ OwnerAhead /\ OwnerHandled

\* Types, and the part of the invariant about offsets.
OffsetInv == TypeOK /\ OwnerInv

\* Initially nothing is published.
LEMMA OffsetInit == Init => OffsetInv
  BY LogAssumption, IngestionBounds
     DEF Init, OffsetInv, TypeOK, OwnerInv, CommittedHandled, DoneHandled, OwnerAhead,
         OwnerHandled, Offsets, NoRows, Busy, Open, RowStatus, Outcomes

\* Every step keeps the types.
LEMMA TypeStep == OffsetInv /\ [Next]_vars => TypeOK'
<1> SUFFICES ASSUME OffsetInv, [Next]_vars PROVE TypeOK'
  OBVIOUS
<1> USE LogAssumption, IngestionBounds
    DEF OffsetInv, TypeOK, kafka, consumer, Busy, Open, RowStatus, Outcomes, Offsets
<1>1. CASE publish_notification_event
  BY <1>1 DEF publish_notification_event, GoTo, CloseTransaction, Ended, Fault, Move, Leave, NoRows
<1>2. CASE Revoke
  BY <1>2 DEF Revoke, GoTo, CloseTransaction, Ended, Fault, Move, Leave, NoRows
<1>3. ASSUME NEW c \in Consumers, Assign(c) PROVE TypeOK'
  BY <1>3 DEF Assign, GoTo, CloseTransaction, Ended, Fault, Move, Leave, NoRows
<1>4. ASSUME NEW c \in Consumers, Poll(c) PROVE TypeOK'
  BY <1>4 DEF Poll, GoTo, CloseTransaction, Ended, Fault, Move, Leave, NoRows
<1>5. ASSUME NEW c \in Consumers, Shutdown(c) PROVE TypeOK'
  BY <1>5 DEF Shutdown, GoTo, CloseTransaction, Ended, Fault, Move, Leave, NoRows
<1>6. ASSUME NEW c \in Consumers, Restart(c) PROVE TypeOK'
  BY <1>6 DEF Restart, GoTo, CloseTransaction, Ended, Fault, Move, Leave, NoRows
<1>7. ASSUME NEW c \in Consumers, RejectPayload(c) PROVE TypeOK'
  BY <1>7 DEF RejectPayload, GoTo, CloseTransaction, Ended, Fault, Move, Leave, NoRows
<1>8. ASSUME NEW c \in Consumers, BuildNothing(c) PROVE TypeOK'
  BY <1>8 DEF BuildNothing, GoTo, CloseTransaction, Ended, Fault, Move, Leave, NoRows
<1>9. ASSUME NEW c \in Consumers, build_notifications(c) PROVE TypeOK'
  BY <1>9 DEF build_notifications, GoTo, Plans
<1>10. ASSUME NEW c \in Consumers, Insert(c) PROVE TypeOK'
  BY <1>10 DEF Insert, GoTo, CloseTransaction, Ended, Fault, Move, Leave, NoRows
<1>11. ASSUME NEW c \in Consumers, InsertRefused(c) PROVE TypeOK'
  BY <1>11 DEF InsertRefused, GoTo, CloseTransaction, Ended, Fault, Move, Leave, NoRows
<1>12. ASSUME NEW c \in Consumers, Commit(c) PROVE TypeOK'
  BY <1>12 DEF Commit, InsertRows, Key, GoTo, CloseTransaction, Ended, NoRows
<1>13. ASSUME NEW c \in Consumers, publish_to_dlq(c) PROVE TypeOK'
  BY <1>13 DEF publish_to_dlq, GoTo, CloseTransaction, Ended, Fault, Move, Leave, NoRows
<1>14. ASSUME NEW c \in Consumers, CommitOffset(c) PROVE TypeOK'
  BY <1>14 DEF CommitOffset, GoTo, OwnerInv, OwnerAhead
<1>15. ASSUME NEW c \in Consumers, HandlerRaises(c) PROVE TypeOK'
  BY <1>15 DEF HandlerRaises, GoTo, CloseTransaction, Ended, Fault, Move, Leave, NoRows
<1>16. ASSUME NEW c \in Consumers, CommitAnswerLost(c) PROVE TypeOK'
  BY <1>16 DEF CommitAnswerLost, InsertRows, Key, GoTo, CloseTransaction, Ended, Fault, NoRows
<1>17. ASSUME NEW c \in Consumers, RollbackRaises(c) PROVE TypeOK'
  BY <1>17 DEF RollbackRaises, GoTo, CloseTransaction, Ended, Fault, Move, Leave, NoRows
<1>18. ASSUME NEW c \in Consumers, DlqFails(c) PROVE TypeOK'
  BY <1>18 DEF DlqFails, GoTo, CloseTransaction, Ended, Fault, Move, Leave, NoRows
<1>19. ASSUME NEW c \in Consumers, CommitOffsetFails(c) PROVE TypeOK'
  BY <1>19 DEF CommitOffsetFails, GoTo, CloseTransaction, Ended, Fault, Move, Leave, NoRows
<1>20. ASSUME NEW c \in Consumers, Crash(c) PROVE TypeOK'
  BY <1>20 DEF Crash, GoTo, CloseTransaction, Ended, Fault, Move, Leave, NoRows
<1>21. ASSUME NEW c \in Consumers, NEW ch \in Channels, DispatchSkip(c, ch) PROVE TypeOK'
  BY <1>21 DEF DispatchSkip, GoTo, CloseTransaction, Ended, Fault, Move, Leave, NoRows
<1>22. ASSUME NEW c \in Consumers, NEW ch \in Channels, DispatchQueue(c, ch) PROVE TypeOK'
  BY <1>22 DEF DispatchQueue, Key
<1>23. CASE UNCHANGED vars
  BY <1>23 DEF vars, kafka, consumer, GoTo, CloseTransaction, Ended, Fault, Move, Leave, NoRows
<1> QED
  BY <1>1, <1>2, <1>3, <1>4, <1>5, <1>6, <1>7, <1>8, <1>9, <1>10, <1>11, <1>12, <1>13, <1>14, <1>15, <1>16, <1>17, <1>18, <1>19, <1>20, <1>21, <1>22, <1>23
     DEF Next, GroupStep, HandlerStep, FaultStep

\* The types the offset argument needs.
OffsetTypes ==
    /\ published \in Nat
    /\ committed \in Nat
    /\ committed <= published
    /\ position \in [Consumers -> Nat]
    /\ phase \in [Consumers -> {"down", "idle", "done"} \cup Busy]
    /\ entry \in [Consumers -> Nat]
    /\ \A c \in Consumers : phase[c] \in Busy \cup {"done"} => entry[c] \in Offsets
    /\ outcome \in [Offsets -> SUBSET Outcomes]

\* Every step keeps the part about offsets.
LEMMA OwnerStep == OffsetInv /\ [Next]_vars => OwnerInv'
<1> SUFFICES ASSUME OffsetInv, [Next]_vars PROVE OwnerInv'
  OBVIOUS
<1>t. OffsetTypes /\ None \notin Consumers /\ Offsets \subseteq Nat
  BY LogAssumption, IngestionBounds DEF OffsetInv, TypeOK, OffsetTypes, Offsets
<1>o. OwnerInv
  BY DEF OffsetInv
<1> USE DEF OwnerInv, CommittedHandled, DoneHandled, OwnerAhead, OwnerHandled,
            OffsetTypes, kafka, consumer, Busy, Open
<1>1. CASE publish_notification_event
  BY <1>1, <1>t, <1>o DEF publish_notification_event, GoTo, Ended, Fault, Move, Leave
<1>2. CASE Revoke
  BY <1>2, <1>t, <1>o DEF Revoke, GoTo, Ended, Fault, Move, Leave
<1>3. ASSUME NEW c \in Consumers, Assign(c) PROVE OwnerInv'
  BY <1>3, <1>t, <1>o DEF Assign, GoTo, Ended, Fault, Move, Leave
<1>4. ASSUME NEW c \in Consumers, Poll(c) PROVE OwnerInv'
  BY <1>4, <1>t, <1>o DEF Poll, GoTo, Ended, Fault, Move, Leave
<1>5. ASSUME NEW c \in Consumers, Shutdown(c) PROVE OwnerInv'
  BY <1>5, <1>t, <1>o DEF Shutdown, GoTo, Ended, Fault, Move, Leave
<1>6. ASSUME NEW c \in Consumers, Restart(c) PROVE OwnerInv'
  BY <1>6, <1>t, <1>o DEF Restart, GoTo, Ended, Fault, Move, Leave
<1>7. ASSUME NEW c \in Consumers, RejectPayload(c) PROVE OwnerInv'
  BY <1>7, <1>t, <1>o DEF RejectPayload, GoTo, Ended, Fault, Move, Leave
<1>8. ASSUME NEW c \in Consumers, BuildNothing(c) PROVE OwnerInv'
  BY <1>8, <1>t, <1>o DEF BuildNothing, GoTo, Ended, Fault, Move, Leave
<1>9. ASSUME NEW c \in Consumers, build_notifications(c) PROVE OwnerInv'
  BY <1>9, <1>t, <1>o DEF build_notifications, GoTo, Ended, Fault, Move, Leave
<1>10. ASSUME NEW c \in Consumers, Insert(c) PROVE OwnerInv'
  BY <1>10, <1>t, <1>o DEF Insert, GoTo, Ended, Fault, Move, Leave
<1>11. ASSUME NEW c \in Consumers, InsertRefused(c) PROVE OwnerInv'
  BY <1>11, <1>t, <1>o DEF InsertRefused, GoTo, Ended, Fault, Move, Leave
<1>12. ASSUME NEW c \in Consumers, Commit(c) PROVE OwnerInv'
  BY <1>12, <1>t, <1>o DEF Commit, GoTo, Ended, Fault, Move, Leave
<1>13. ASSUME NEW c \in Consumers, publish_to_dlq(c) PROVE OwnerInv'
  BY <1>13, <1>t, <1>o DEF publish_to_dlq, GoTo, Ended, Fault, Move, Leave
<1>14. ASSUME NEW c \in Consumers, CommitOffset(c) PROVE OwnerInv'
  BY <1>14, <1>t, <1>o DEF CommitOffset, GoTo, Ended, Fault, Move, Leave
<1>15. ASSUME NEW c \in Consumers, HandlerRaises(c) PROVE OwnerInv'
  BY <1>15, <1>t, <1>o DEF HandlerRaises, GoTo, Ended, Fault, Move, Leave
<1>16. ASSUME NEW c \in Consumers, CommitAnswerLost(c) PROVE OwnerInv'
  <2>1. CommittedHandled' /\ DoneHandled'
    BY <1>16, <1>t, <1>o DEF CommitAnswerLost, GoTo, Ended, Fault, Move, Leave
  <2>2. OwnerAhead'
    BY <1>16, <1>t, <1>o DEF CommitAnswerLost, GoTo, Ended, Fault, Move, Leave
  <2>3. OwnerHandled'
    BY <1>16, <1>t, <1>o DEF CommitAnswerLost, GoTo, Ended, Fault, Move, Leave
  <2> QED
    BY <2>1, <2>2, <2>3
<1>17. ASSUME NEW c \in Consumers, RollbackRaises(c) PROVE OwnerInv'
  <2>1. CommittedHandled' /\ DoneHandled'
    BY <1>17, <1>t, <1>o DEF RollbackRaises, GoTo, Ended, Fault, Move, Leave
  <2>2. OwnerAhead'
    BY <1>17, <1>t, <1>o DEF RollbackRaises, GoTo, Ended, Fault, Move, Leave
  <2>3. OwnerHandled'
    BY <1>17, <1>t, <1>o DEF RollbackRaises, GoTo, Ended, Fault, Move, Leave
  <2> QED
    BY <2>1, <2>2, <2>3
<1>18. ASSUME NEW c \in Consumers, DlqFails(c) PROVE OwnerInv'
  <2>1. CommittedHandled' /\ DoneHandled'
    BY <1>18, <1>t, <1>o DEF DlqFails, GoTo, Ended, Fault, Move, Leave
  <2>2. OwnerAhead'
    BY <1>18, <1>t, <1>o DEF DlqFails, GoTo, Ended, Fault, Move, Leave
  <2>3. OwnerHandled'
    BY <1>18, <1>t, <1>o DEF DlqFails, GoTo, Ended, Fault, Move, Leave
  <2> QED
    BY <2>1, <2>2, <2>3
<1>19. ASSUME NEW c \in Consumers, CommitOffsetFails(c) PROVE OwnerInv'
  BY <1>19, <1>t, <1>o DEF CommitOffsetFails, GoTo, Ended, Fault, Move, Leave
<1>20. ASSUME NEW c \in Consumers, Crash(c) PROVE OwnerInv'
  BY <1>20, <1>t, <1>o DEF Crash, GoTo, Ended, Fault, Move, Leave
<1>21. ASSUME NEW c \in Consumers, NEW ch \in Channels, DispatchSkip(c, ch) PROVE OwnerInv'
  BY <1>21, <1>t, <1>o DEF DispatchSkip, GoTo, Ended, Fault, Move, Leave
<1>22. ASSUME NEW c \in Consumers, NEW ch \in Channels, DispatchQueue(c, ch) PROVE OwnerInv'
  BY <1>22, <1>t, <1>o DEF DispatchQueue, GoTo, Ended, Fault, Move, Leave
<1>23. CASE UNCHANGED vars
  BY <1>23, <1>o DEF vars, kafka, consumer, GoTo, Ended, Fault, Move, Leave
<1> QED
  BY <1>1, <1>2, <1>3, <1>4, <1>5, <1>6, <1>7, <1>8, <1>9, <1>10, <1>11, <1>12, <1>13, <1>14, <1>15, <1>16, <1>17, <1>18, <1>19, <1>20, <1>21, <1>22, <1>23
     DEF Next, GroupStep, HandlerStep, FaultStep

\* The invariant about offsets holds always.
LEMMA OffsetAlways == Spec => []OffsetInv
<1>1. OffsetInv /\ [Next]_vars => OffsetInv'
  BY TypeStep, OwnerStep DEF OffsetInv
<1> QED
  BY <1>1, OffsetInit, PTL DEF Spec

\* Type correctness of Ingestion.
THEOREM TypeCorrect == Spec => []TypeOK
  BY OffsetAlways, PTL DEF OffsetInv

-----------------------------------------------------------------------------
(* Rows and send tasks                                                     *)

\* Consumer c has an uncommitted row for key k and channel ch; a QUEUED one.
Holds(c, k, ch) == phase[c] = "dispatching" /\ Key(c) = k /\ built[c][ch] # "none"
Queued(c, k, ch) == Holds(c, k, ch) /\ built[c][ch] = "QUEUED"

\* Only a transaction has rows, and none is QUEUED before it is dispatched.
BuiltInv ==
    \A c \in Consumers, ch \in Channels :
        /\ phase[c] \notin {"inserting", "dispatching"} => built[c][ch] = "none"
        /\ phase[c] = "inserting" => built[c][ch] # "QUEUED"

\* At most one transaction has a row for a key and a channel, and none has
\* one when the row is committed.
UniqueInv ==
    \A k \in Keys, ch \in Channels :
        /\ \A c, d \in Consumers : Holds(c, k, ch) /\ Holds(d, k, ch) => c = d
        /\ row[k][ch] # "none" => \A c \in Consumers : ~Holds(c, k, ch)

\* The send tasks for a key and a channel are the one of that row, committed
\* or not, and at most one per fault.
BoundInv ==
    \A k \in Keys, ch \in Channels :
        /\ tasks[k][ch] <= faults + 1
        /\ (row[k][ch] = "none" /\ \A c \in Consumers : ~Queued(c, k, ch))
              => tasks[k][ch] <= faults

\* A QUEUED row has a task.
TaskedInv ==
    \A k \in Keys, ch \in Channels :
        /\ row[k][ch] = "QUEUED" => tasks[k][ch] > 0
        /\ \A c \in Consumers : Queued(c, k, ch) => tasks[k][ch] > 0

TaskInv == BuiltInv /\ UniqueInv /\ BoundInv /\ TaskedInv

\* The types this argument needs.
TaskTypes ==
    /\ phase \in [Consumers -> {"down", "idle", "done"} \cup Busy]
    /\ entry \in [Consumers -> Nat]
    /\ \A c \in Consumers : phase[c] \in Busy \cup {"done"} => Key(c) \in Keys \cup {NoKey}
    /\ built \in [Consumers -> [Channels -> RowStatus]]
    /\ row \in [Keys -> [Channels -> {"none", "QUEUED", "SKIPPED"}]]
    /\ tasks \in [Keys \cup {NoKey} -> [Channels -> Nat]]
    /\ faults \in Nat
    /\ NoKey \notin Keys

\* Initially there are no rows and no tasks.
LEMMA TaskInit == Init => TaskInv
  BY IngestionBounds
     DEF Init, TaskInv, BuiltInv, UniqueInv, BoundInv, TaskedInv, Holds, Queued, NoRows

\* Every step keeps the part about tasks.
LEMMA TaskStep == TypeOK /\ TaskInv /\ [Next]_vars => TaskInv'
<1> SUFFICES ASSUME TypeOK, TaskInv, [Next]_vars PROVE TaskInv'
  OBVIOUS
<1>t. TaskTypes
  BY LogAssumption, IngestionBounds DEF TypeOK, TaskTypes, Key, Offsets
<1>i. TaskInv
  OBVIOUS
<1> USE DEF TaskInv, BuiltInv, UniqueInv, BoundInv, TaskedInv, Holds, Queued, Key,
            TaskTypes, kafka, consumer, Busy, Open
<1>1. CASE publish_notification_event
  BY <1>1, <1>t, <1>i DEF publish_notification_event, GoTo, CloseTransaction, Fault, Move, Leave, NoRows
<1>2. CASE Revoke
  BY <1>2, <1>t, <1>i DEF Revoke, GoTo, CloseTransaction, Fault, Move, Leave, NoRows
<1>3. ASSUME NEW c \in Consumers, Assign(c) PROVE TaskInv'
  BY <1>3, <1>t, <1>i DEF Assign, GoTo, CloseTransaction, Fault, Move, Leave, NoRows
<1>4. ASSUME NEW c \in Consumers, Poll(c) PROVE TaskInv'
  BY <1>4, <1>t, <1>i DEF Poll, GoTo, CloseTransaction, Fault, Move, Leave, NoRows
<1>5. ASSUME NEW c \in Consumers, Shutdown(c) PROVE TaskInv'
  BY <1>5, <1>t, <1>i DEF Shutdown, GoTo, CloseTransaction, Fault, Move, Leave, NoRows
<1>6. ASSUME NEW c \in Consumers, Restart(c) PROVE TaskInv'
  BY <1>6, <1>t, <1>i DEF Restart, GoTo, CloseTransaction, Fault, Move, Leave, NoRows
<1>7. ASSUME NEW c \in Consumers, RejectPayload(c) PROVE TaskInv'
  BY <1>7, <1>t, <1>i DEF RejectPayload, GoTo, CloseTransaction, Fault, Move, Leave, NoRows
<1>8. ASSUME NEW c \in Consumers, BuildNothing(c) PROVE TaskInv'
  BY <1>8, <1>t, <1>i DEF BuildNothing, GoTo, CloseTransaction, Fault, Move, Leave, NoRows
<1>9. ASSUME NEW c \in Consumers, build_notifications(c) PROVE TaskInv'
  <2>0. PICK plan \in Plans : built' = [built EXCEPT ![c] = plan]
    BY <1>9 DEF build_notifications
  <2>p. \A x \in Channels : plan[x] # "QUEUED"
    BY <2>0 DEF Plans
  <2>q. \A d \in Consumers, k \in Keys, x \in Channels : Queued(d, k, x)' <=> Queued(d, k, x)
    BY <1>9, <1>t, <2>0 DEF build_notifications, GoTo
  <2>1. BuiltInv'
    BY <1>9, <1>t, <1>i, <2>0, <2>p DEF build_notifications, GoTo
  <2>2. UniqueInv'
    BY <1>9, <1>t, <1>i DEF build_notifications, GoTo
  <2>3. BoundInv'
    BY ONLY <1>9, <1>i, <2>q DEF build_notifications, TaskInv, BoundInv
  <2>4. TaskedInv'
    BY ONLY <1>9, <1>i, <2>q DEF build_notifications, TaskInv, TaskedInv
  <2> QED
    BY <2>1, <2>2, <2>3, <2>4
<1>10. ASSUME NEW c \in Consumers, Insert(c) PROVE TaskInv'
  BY <1>10, <1>t, <1>i DEF Insert, GoTo, MustWait, Refused, Inserted
<1>11. ASSUME NEW c \in Consumers, InsertRefused(c) PROVE TaskInv'
  BY <1>11, <1>t, <1>i DEF InsertRefused, GoTo, CloseTransaction, Fault, Move, Leave, NoRows
<1>12. ASSUME NEW c \in Consumers, Commit(c) PROVE TaskInv'
  BY <1>12, <1>t, <1>i DEF Commit, InsertRows, GoTo, CloseTransaction, NoRows
<1>13. ASSUME NEW c \in Consumers, publish_to_dlq(c) PROVE TaskInv'
  BY <1>13, <1>t, <1>i DEF publish_to_dlq, GoTo, CloseTransaction, Fault, Move, Leave, NoRows
<1>14. ASSUME NEW c \in Consumers, CommitOffset(c) PROVE TaskInv'
  BY <1>14, <1>t, <1>i DEF CommitOffset, GoTo, CloseTransaction, Fault, Move, Leave, NoRows
<1>15. ASSUME NEW c \in Consumers, HandlerRaises(c) PROVE TaskInv'
  BY <1>15, <1>t, <1>i DEF HandlerRaises, GoTo, CloseTransaction, Fault, Move, Leave, NoRows
<1>16. ASSUME NEW c \in Consumers, CommitAnswerLost(c) PROVE TaskInv'
  BY <1>16, <1>t, <1>i DEF CommitAnswerLost, InsertRows, GoTo, CloseTransaction, Fault, NoRows
<1>17. ASSUME NEW c \in Consumers, RollbackRaises(c) PROVE TaskInv'
  BY <1>17, <1>t, <1>i DEF RollbackRaises, GoTo, CloseTransaction, Fault, Move, Leave, NoRows
<1>18. ASSUME NEW c \in Consumers, DlqFails(c) PROVE TaskInv'
  BY <1>18, <1>t, <1>i DEF DlqFails, GoTo, CloseTransaction, Fault, Move, Leave, NoRows
<1>19. ASSUME NEW c \in Consumers, CommitOffsetFails(c) PROVE TaskInv'
  BY <1>19, <1>t, <1>i DEF CommitOffsetFails, GoTo, CloseTransaction, Fault, Move, Leave, NoRows
<1>20. ASSUME NEW c \in Consumers, Crash(c) PROVE TaskInv'
  BY <1>20, <1>t, <1>i DEF Crash, GoTo, CloseTransaction, Fault, Move, Leave, NoRows
<1>21. ASSUME NEW c \in Consumers, NEW ch \in Channels, DispatchSkip(c, ch) PROVE TaskInv'
  <2>q. \A d \in Consumers, k \in Keys, x \in Channels : Queued(d, k, x)' <=> Queued(d, k, x)
    BY <1>21, <1>t DEF DispatchSkip
  <2>1. BuiltInv'
    BY <1>21, <1>t, <1>i DEF DispatchSkip
  <2>2. UniqueInv'
    BY <1>21, <1>t, <1>i DEF DispatchSkip
  <2>3. BoundInv'
    BY ONLY <1>21, <1>i, <2>q DEF DispatchSkip, TaskInv, BoundInv
  <2>4. TaskedInv'
    BY ONLY <1>21, <1>i, <2>q DEF DispatchSkip, TaskInv, TaskedInv
  <2> QED
    BY <2>1, <2>2, <2>3, <2>4
<1>22. ASSUME NEW c \in Consumers, NEW ch \in Channels, DispatchQueue(c, ch) PROVE TaskInv'
  <2>1. BuiltInv'
    BY <1>22, <1>t, <1>i DEF DispatchQueue
  <2>2. UniqueInv'
    BY <1>22, <1>t, <1>i DEF DispatchQueue
  <2>3. BoundInv'
    <3> SUFFICES ASSUME NEW k \in Keys, NEW x \in Channels
                 PROVE  /\ tasks'[k][x] <= faults + 1
                        /\ (row[k][x] = "none" /\ \A d \in Consumers : ~Queued(d, k, x)')
                              => tasks'[k][x] <= faults
      BY <1>22 DEF DispatchQueue
    <3>1. CASE k = Key(c) /\ x = ch
      <4>1. Holds(c, k, x) /\ Queued(c, k, x)'
        BY <1>22, <1>t, <3>1 DEF DispatchQueue
      <4>2. row[k][x] = "none" /\ \A d \in Consumers : ~Queued(d, k, x)
        BY <1>22, <1>t, <1>i, <3>1, <4>1 DEF DispatchQueue
      <4>3. tasks[k][x] <= faults
        BY <1>i, <4>2
      <4>4. tasks'[k][x] = tasks[k][x] + 1 /\ tasks[k][x] \in Nat /\ faults \in Nat
        BY <1>22, <1>t, <3>1 DEF DispatchQueue
      <4> QED
        BY ONLY <4>1, <4>3, <4>4
    <3>2. CASE ~(k = Key(c) /\ x = ch)
      <4>1. tasks'[k][x] = tasks[k][x]
        BY <1>22, <1>t, <3>2 DEF DispatchQueue
      <4>2. \A d \in Consumers : Queued(d, k, x)' <=> Queued(d, k, x)
        BY <1>22, <1>t, <3>2 DEF DispatchQueue
      <4> QED
        BY ONLY <1>i, <4>1, <4>2 DEF TaskInv, BoundInv
    <3> QED
      BY <3>1, <3>2
  <2>4. TaskedInv'
    BY <1>22, <1>t, <1>i DEF DispatchQueue
  <2> QED
    BY <2>1, <2>2, <2>3, <2>4
<1>23. CASE UNCHANGED vars
  BY <1>23, <1>i DEF vars
<1> QED
  BY <1>1, <1>2, <1>3, <1>4, <1>5, <1>6, <1>7, <1>8, <1>9, <1>10, <1>11, <1>12, <1>13, <1>14, <1>15, <1>16, <1>17, <1>18, <1>19, <1>20, <1>21, <1>22, <1>23
     DEF Next, GroupStep, HandlerStep, FaultStep

\* The part about tasks holds always.
LEMMA TaskAlways == Spec => []TaskInv
<1>1. TypeOK /\ TaskInv /\ [Next]_vars => TaskInv'
  BY TaskStep
<1> QED
  BY <1>1, TaskInit, TypeCorrect, PTL DEF Spec

\* Redelivery, duplicates and stale consumers publish no second send task
\* (the UNIQUE idempotency_key of the rows); each fault may leave one.
THEOREM TaskOncePerKey == Spec => []OneTaskPerKey
<1>1. TypeOK /\ TaskInv => OneTaskPerKey
  BY IngestionBounds DEF TaskInv, BoundInv, OneTaskPerKey, TypeOK
<1> QED
  BY <1>1, TaskAlways, TypeCorrect, PTL

\* A visible QUEUED row has had its send task published (dispatch publishes
\* before the handler commits).
THEOREM QueuedRowsTasked == Spec => []QueuedRowHasTask
<1>1. TaskInv => QueuedRowHasTask
  BY DEF TaskInv, TaskedInv, QueuedRowHasTask
<1> QED
  BY <1>1, TaskAlways, PTL

-----------------------------------------------------------------------------
(* Lost events                                                             *)

Lost == {e \in Offsets : outcome[e] = {"lost"}}

LostInv == Cardinality(Lost) <= faults

\* Only events of the log can be lost, so they are finitely many.
LEMMA LostFinite == IsFiniteSet(Lost) /\ Cardinality(Lost) \in Nat
<1>1. IsFiniteSet(Offsets)
  BY LogAssumption, FS_Interval DEF Offsets
<1>2. Lost \in SUBSET Offsets
  BY DEF Lost
<1> QED
  BY <1>1, <1>2, FS_Subset, FS_CardinalityType

\* No event is lost in a step that leaves its outcome or adds a good one.
LEMMA NoneLost ==
    ASSUME LostInv, Lost' \subseteq Lost, faults' \in Nat, faults \in Nat, faults <= faults'
    PROVE  LostInv'
<1>1. Cardinality(Lost') <= Cardinality(Lost) /\ Cardinality(Lost') \in Nat
  BY LostFinite, FS_Subset, FS_CardinalityType
<1> QED
  BY <1>1, LostFinite DEF LostInv

\* A fault loses one event at most.
LEMMA OneLost ==
    ASSUME LostInv, NEW e, Lost' \subseteq Lost \cup {e}, faults \in Nat, faults' = faults + 1
    PROVE  LostInv'
<1>1. IsFiniteSet(Lost \cup {e}) /\ Cardinality(Lost \cup {e}) <= Cardinality(Lost) + 1
  BY LostFinite, FS_AddElement
<1>2. Cardinality(Lost') <= Cardinality(Lost \cup {e}) /\ Cardinality(Lost') \in Nat
  BY <1>1, FS_Subset, FS_CardinalityType
<1>3. Cardinality(Lost \cup {e}) \in Nat
  BY <1>1, FS_CardinalityType
<1> QED
  BY <1>1, <1>2, <1>3, LostFinite DEF LostInv

\* Every step keeps the count of lost events within the faults.
LEMMA LostStep == TypeOK /\ LostInv /\ [Next]_vars => LostInv'
<1> SUFFICES ASSUME TypeOK, LostInv, [Next]_vars PROVE LostInv'
  OBVIOUS
<1>f. faults \in Nat /\ outcome \in [Offsets -> SUBSET Outcomes]
  BY IngestionBounds DEF TypeOK
<1>1. ASSUME NEW c \in Consumers, RollbackRaises(c) \/ DlqFails(c) PROVE LostInv'
  <2>1. faults' = faults + 1 /\ Ended(c, "lost")
    BY <1>1 DEF RollbackRaises, DlqFails, Fault
  <2>2. Lost' \subseteq Lost \cup {entry[c]}
    BY <1>f, <2>1 DEF Lost, Ended
  <2> QED
    BY <1>f, <2>1, <2>2, OneLost
<1>2. ASSUME NEW c \in Consumers, NEW how \in {"rows", "empty", "dlq"},
             Ended(c, how), faults' \in {faults, faults + 1}
      PROVE  LostInv'
  <2>1. Lost' \subseteq Lost
    BY <1>f, <1>2 DEF Lost, Ended
  <2> QED
    BY <1>f, <1>2, <2>1, NoneLost
<1>3. ASSUME UNCHANGED outcome, faults' \in {faults, faults + 1} PROVE LostInv'
  <2>1. Lost' \subseteq Lost
    BY <1>3 DEF Lost
  <2> QED
    BY <1>f, <1>3, <2>1, NoneLost
<1>4. ASSUME NEW c \in Consumers, HandlerStep(c) PROVE LostInv'
  BY <1>2, <1>3, <1>4
     DEF HandlerStep, RejectPayload, BuildNothing, build_notifications, Insert, InsertRefused,
         DispatchSkip, DispatchQueue, Commit, publish_to_dlq, CommitOffset
<1>5. ASSUME NEW c \in Consumers, FaultStep(c) PROVE LostInv'
  BY <1>1, <1>2, <1>3, <1>5
     DEF FaultStep, HandlerRaises, CommitAnswerLost, CommitOffsetFails, Crash, Fault
<1>6. ASSUME NEW c \in Consumers, GroupStep(c) PROVE LostInv'
  BY <1>3, <1>6 DEF GroupStep, Assign, Poll, Shutdown, Restart
<1>7. CASE publish_notification_event \/ Revoke \/ UNCHANGED vars
  BY <1>3, <1>7 DEF publish_notification_event, Revoke, vars
<1> QED
  BY <1>4, <1>5, <1>6, <1>7 DEF Next

\* The committed offset passes only events whose handling has ended, and each
\* fault loses at most one of them (consumer.py commits after handle returns).
THEOREM EventsAccounted == Spec => []EventsAccountedFor
<1>1. Init => LostInv
  <2> SUFFICES ASSUME Init PROVE LostInv
    OBVIOUS
  <2>1. Lost = {}
    BY DEF Init, Lost
  <2> QED
    BY <2>1, FS_EmptySet DEF Init, LostInv
<1>2. TypeOK /\ LostInv /\ [Next]_vars => LostInv'
  BY LostStep
<1>3. OffsetInv /\ LostInv => EventsAccountedFor
  BY DEF OffsetInv, OwnerInv, CommittedHandled, LostInv, Lost, EventsAccountedFor
<1> QED
  BY <1>1, <1>2, <1>3, OffsetAlways, TypeCorrect, PTL DEF Spec

=============================================================================
