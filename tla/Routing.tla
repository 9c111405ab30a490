------------------------------ MODULE Routing ------------------------------
(***************************************************************************)
(* POST /events and what it puts on RabbitMQ: the event goes to Kafka,     *)
(* then one message per channel goes to the queue of its priority, from    *)
(* which rabbitmq/consumer.py hands it to a Celery task.  The other        *)
(* endpoints that produce events publish them to Kafka only.               *)
(* The topology is declared step by step by whichever process starts, and  *)
(* an API process serves requests even when its own declaration failed.    *)
(*                                                                         *)
(* A queue is the set of its messages: what is in one queue has the same   *)
(* priority, and nothing depends on the order.                             *)
(***************************************************************************)
EXTENDS Taxonomy, Sequences, FiniteSets

CONSTANTS
    Requests,       \* events sent to the API
    Codes,          \* the event types they use
    Asked,          \* the channel lists they ask for; {} for none
    Priorities,     \* the priorities they give
    Prefetch,       \* unacknowledged messages of each queue
    MaxFaults,      \* bound: failed calls of Kafka, RabbitMQ or Celery
    MaxCrashes      \* bound: consumer crashes

ASSUME RoutingAssumption ==
    /\ Asked \subseteq SUBSET NotificationChannel
    /\ Priorities \subseteq EventPriority
    /\ Prefetch \in [{"critical", "high", "medium", "low"} -> Nat \ {0}]
    /\ MaxFaults \in Nat
    /\ MaxCrashes \in Nat

VARIABLES
    topology,       \* how much of the topology is declared
    api, consumer,  \* "starting", "up" and, for the consumer, "down"
    stage, event,   \* of each request; event[r] is the event it publishes
    todo,           \* the channels whose message is not published yet
    kafka,          \* the requests whose event is on Kafka
    msg,            \* of each request and channel: where its message is
    tasks,          \* Celery tasks made from it
    faults, crashes

processes == <<topology, api, consumer>>
requests == <<stage, event, todo, kafka>>
messages == <<msg, tasks>>
vars == <<processes, requests, messages, faults, crashes>>

\* What setup_topology declares, in its order.
Declarations ==
    <<"exchange", "dlq_exchange", "critical", "high", "medium", "low", "dead">>

Declared(x) == \E i \in 1..topology : Declarations[i] = x

Answered == {"accepted", "refused"}
Stages == {"idle", "kafka", "rabbit", "bulk", "unanswered"} \cup Answered
Places == {"none", "queued", "unacked", "handed", "acked", "dead", "lost"}
NoEvent == [code |-> "", channels |-> {}, priority |-> MEDIUM, bypass |-> {}]

\* Nothing is published for a request that has no event, and no message is
\* anywhere but at the channels of its event.
TypeOK ==
    /\ topology \in 0..Len(Declarations)
    /\ api \in {"starting", "up"}
    /\ consumer \in {"down", "starting", "up"}
    /\ stage \in [Requests -> Stages]
    /\ \A r \in Requests :
        /\ event[r].channels \subseteq NotificationChannel
        /\ event[r].priority \in EventPriority
        /\ todo[r] \subseteq event[r].channels
        /\ stage[r] = "idle" => event[r] = NoEvent
        /\ \A c \in NotificationChannel \ event[r].channels : msg[r][c] = "none"
    /\ kafka \subseteq Requests
    /\ msg \in [Requests -> [NotificationChannel -> Places]]
    /\ tasks \in [Requests -> [NotificationChannel -> Nat]]
    /\ faults \in 0..MaxFaults
    /\ crashes \in 0..MaxCrashes

Init ==
    /\ topology = 0
    /\ api = "starting"
    /\ consumer = "down"
    /\ stage = [r \in Requests |-> "idle"]
    /\ event = [r \in Requests |-> NoEvent]
    /\ todo = [r \in Requests |-> {}]
    /\ kafka = {}
    /\ msg = [r \in Requests |-> [c \in NotificationChannel |-> "none"]]
    /\ tasks = [r \in Requests |-> [c \in NotificationChannel |-> 0]]
    /\ faults = 0
    /\ crashes = 0

Fault == faults < MaxFaults /\ faults' = faults + 1
GoTo(r, s) == stage' = [stage EXCEPT ![r] = s]
Move(r, c, place) == msg' = [msg EXCEPT ![r][c] = place]

-----------------------------------------------------------------------------
(* Start of the processes                                                  *)

\* One declaration of setup_topology, by a process that is starting.
setup_topology ==
    /\ api = "starting" \/ consumer = "starting"
    /\ topology < Len(Declarations)
    /\ topology' = topology + 1
    /\ UNCHANGED <<api, consumer, requests, messages, faults, crashes>>

\* Mutant: the API serves while the topology is being declared.
lifespan_Early ==
    /\ api = "starting"
    /\ api' = "up"
    /\ UNCHANGED <<topology, consumer, requests, messages, faults, crashes>>

\* The API starts to serve once the topology is there, or when declaring it
\* failed, which lifespan only logs.
lifespan ==
    /\ api = "starting"
    /\ \/ topology = Len(Declarations) /\ UNCHANGED faults
       \/ topology < Len(Declarations) /\ Fault
    /\ api' = "up"
    /\ UNCHANGED <<topology, consumer, requests, messages, crashes>>

\* The consumer declares the topology and then reads all queues.
consume_all_queues ==
    /\ \/ consumer = "down" /\ consumer' = "starting"
       \/ /\ consumer = "starting"
          /\ topology = Len(Declarations)
          /\ consumer' = "up"
    /\ UNCHANGED <<topology, api, requests, messages, faults, crashes>>

-----------------------------------------------------------------------------
(* The requests                                                            *)

_resolve_channels(code, asked) ==
    IF asked # {} THEN asked \cup get_mandatory_channels(code)
    ELSE IF Known(code) THEN EVENT_REGISTRY[code].channels
    ELSE {"push", "in_app"}

\* Mutant: the request's priority is taken as it is.
EffectivePriority_AsAsked(code, priority) == priority

\* An event that is CRITICAL by the taxonomy is so whatever the request says.
EffectivePriority(code, priority) ==
    IF get_priority_for_event(code) = CRITICAL THEN CRITICAL ELSE priority

\* The event of POST /events.
ingest_event(r, code, asked, priority) ==
    /\ api = "up"
    /\ stage[r] = "idle"
    /\ GoTo(r, "kafka")
    /\ event' = [event EXCEPT ![r] =
          [code |-> code,
           channels |-> _resolve_channels(code, asked),
           priority |-> EffectivePriority(code, priority),
           bypass |-> {x \in {"dnd", "quiet_hours"} :
                          IF x = "dnd" THEN is_dnd_exempt(code)
                                       ELSE is_quiet_hours_exempt(code)}]]
    /\ todo' = [todo EXCEPT ![r] = event'[r].channels]
    /\ UNCHANGED <<processes, kafka, messages, faults, crashes>>

publish_notification_event(r) ==
    /\ stage[r] = "kafka"
    /\ GoTo(r, "rabbit")
    /\ kafka' = kafka \cup {r}
    /\ UNCHANGED <<processes, event, todo, messages, faults, crashes>>

\* Mutant: like a failure of RabbitMQ, one of Kafka is only logged.
KafkaFails_Logged(r) ==
    /\ stage[r] = "kafka"
    /\ Fault
    /\ GoTo(r, "rabbit")
    /\ UNCHANGED <<processes, event, todo, kafka, messages, crashes>>

\* 503; the event may have been written before the confirmation was lost.
KafkaFails(r) ==
    /\ stage[r] = "kafka"
    /\ Fault
    /\ GoTo(r, "refused")
    /\ kafka' \in {kafka, kafka \cup {r}}
    /\ UNCHANGED <<processes, event, todo, messages, crashes>>

RoutingKey(priority) ==
    CASE priority = CRITICAL -> "critical"
      [] priority = HIGH     -> "high"
      [] priority = LOW      -> "low"
      [] OTHER               -> "medium"

\* The exchange drops what no queue is bound for.
Routed(r, c) ==
    Move(r, c, IF Declared(RoutingKey(event[r].priority)) THEN "queued" ELSE "lost")

\* NotificationPublisher.publish for the next channel.
publish(r, c) ==
    /\ stage[r] = "rabbit"
    /\ c \in todo[r]
    /\ Declared("exchange")
    /\ Routed(r, c)
    /\ todo' = [todo EXCEPT ![r] = @ \ {c}]
    /\ UNCHANGED <<processes, stage, event, kafka, tasks, faults, crashes>>

\* It raises, for want of the exchange or for a failure before or after the
\* message was taken: the channels that are left get no message.
PublishFails(r, c) ==
    /\ stage[r] = "rabbit"
    /\ c \in todo[r]
    /\ \/ ~Declared("exchange") /\ UNCHANGED <<msg, faults>>
       \/ Fault /\ UNCHANGED msg
       \/ Fault /\ Declared("exchange") /\ Routed(r, c)
    /\ GoTo(r, "accepted")
    /\ UNCHANGED <<processes, event, todo, kafka, tasks, crashes>>

Accept(r) ==
    /\ stage[r] = "rabbit"
    /\ todo[r] = {}
    /\ GoTo(r, "accepted")
    /\ UNCHANGED <<processes, event, todo, kafka, messages, faults, crashes>>

-----------------------------------------------------------------------------
(* Events for Kafka only, one after the other: all of them or an error     *)

BeginBulk(R, e) ==
    /\ api = "up"
    /\ R # {}
    /\ \A r \in R : stage[r] = "idle"
    /\ \A r \in Requests : stage[r] # "bulk"
    /\ event' = [r \in Requests |-> IF r \in R THEN e ELSE event[r]]
    /\ stage' = [r \in Requests |-> IF r \in R THEN "bulk" ELSE stage[r]]
    /\ UNCHANGED <<processes, todo, kafka, messages, faults, crashes>>

\* POST /events/bulk takes the priority as given and exempts nothing.
bulk_ingest_events(R, code, asked, priority) ==
    BeginBulk(R, [code |-> code, channels |-> _resolve_channels(code, asked),
                  priority |-> priority, bypass |-> {}])

\* POST /notifications/events and /notifications/events/bulk: no code of the
\* taxonomy, and the channels that were asked for, or none.
trigger_event(r, asked) == BeginBulk({r}, [NoEvent EXCEPT !.channels = asked])
trigger_bulk_event(R, asked) == BeginBulk(R, [NoEvent EXCEPT !.channels = asked])

\* POST /admin/notifications/broadcast, with an event for each active user.
broadcast_notification(R) == BeginBulk(R, NoEvent)

Bulk == {r \in Requests : stage[r] = "bulk"}

BulkPublish(r) ==
    /\ stage[r] = "bulk"
    /\ r \notin kafka
    /\ kafka' = kafka \cup {r}
    /\ UNCHANGED <<processes, stage, event, todo, messages, faults, crashes>>

BulkEnds ==
    /\ Bulk # {}
    /\ \/ /\ Bulk \subseteq kafka
          /\ stage' = [r \in Requests |-> IF r \in Bulk THEN "accepted" ELSE stage[r]]
          /\ UNCHANGED faults
       \/ /\ ~(Bulk \subseteq kafka)
          /\ stage' = [r \in Requests |-> IF r \in Bulk THEN "unanswered" ELSE stage[r]]
          /\ Fault
    /\ UNCHANGED <<processes, event, todo, kafka, messages, crashes>>

-----------------------------------------------------------------------------
(* The broker and rabbitmq/consumer.py                                     *)

InHand(key) ==
    {m \in Requests \X NotificationChannel :
        /\ msg[m[1]][m[2]] \in {"unacked", "handed"}
        /\ RoutingKey(event[m[1]].priority) = key}

Deliver(r, c) ==
    /\ consumer = "up"
    /\ msg[r][c] = "queued"
    /\ LET key == RoutingKey(event[r].priority) IN Cardinality(InHand(key)) < Prefetch[key]
    /\ Move(r, c, "unacked")
    /\ UNCHANGED <<processes, requests, tasks, faults, crashes>>

\* Mutant: nobody acknowledges the message.
process_delivery_message_NoAck(r, c) ==
    /\ consumer = "up"
    /\ msg[r][c] = "unacked"
    /\ tasks' = [tasks EXCEPT ![r][c] = @ + 1]
    /\ Move(r, c, "handed")
    /\ UNCHANGED <<processes, requests, faults, crashes>>

\* apply_async of the send task, which the acknowledgement follows.
process_delivery_message(r, c) ==
    /\ consumer = "up"
    /\ \/ /\ msg[r][c] = "unacked"
          /\ tasks' = [tasks EXCEPT ![r][c] = @ + 1]
          /\ Move(r, c, "handed")
       \/ /\ msg[r][c] = "handed"
          /\ Move(r, c, "acked")
          /\ UNCHANGED tasks
    /\ UNCHANGED <<processes, requests, faults, crashes>>

\* Mutant: the message is rejected with requeue=True.
HandoverFails_Requeues(r, c) ==
    /\ consumer = "up"
    /\ msg[r][c] = "unacked"
    /\ Fault
    /\ Move(r, c, "queued")
    /\ tasks' \in {tasks, [tasks EXCEPT ![r][c] = @ + 1]}
    /\ UNCHANGED <<processes, requests, crashes>>

\* apply_async raises, though the task may exist: rejected with
\* requeue=False, the message is dead-lettered.
HandoverFails(r, c) ==
    /\ consumer = "up"
    /\ msg[r][c] = "unacked"
    /\ Fault
    /\ Move(r, c, "dead")
    /\ tasks' \in {tasks, [tasks EXCEPT ![r][c] = @ + 1]}
    /\ UNCHANGED <<processes, requests, crashes>>

\* x-message-ttl is over; without the dead-letter queue the message is gone.
Expire(r, c) ==
    /\ msg[r][c] = "queued"
    /\ Move(r, c, IF Declared("dead") THEN "dead" ELSE "lost")
    /\ UNCHANGED <<processes, requests, tasks, faults, crashes>>

\* What the broker does with the messages of a closed connection.
Redelivered(place) == IF place \in {"unacked", "handed"} THEN "queued" ELSE place

\* The consumer crashes, or ends on a signal.
ConsumerStops ==
    /\ consumer = "up"
    /\ crashes < MaxCrashes
    /\ crashes' = crashes + 1
    /\ consumer' = "down"
    /\ msg' = [r \in Requests |->
                  [c \in NotificationChannel |-> Redelivered(msg[r][c])]]
    /\ UNCHANGED <<topology, api, requests, tasks, faults>>

-----------------------------------------------------------------------------
Api(r) ==
    \/ publish_notification_event(r)
    \/ \E c \in NotificationChannel : publish(r, c) \/ PublishFails(r, c)
    \/ Accept(r)
    \/ BulkPublish(r)

Consume(r, c) == Deliver(r, c) \/ process_delivery_message(r, c)

Next ==
    \/ setup_topology \/ lifespan \/ consume_all_queues \/ ConsumerStops
    \/ \E r \in Requests, code \in Codes, asked \in Asked, priority \in Priorities :
          ingest_event(r, code, asked, priority)
    \/ \E R \in SUBSET Requests :
        \/ \E code \in Codes, asked \in Asked, priority \in Priorities :
              bulk_ingest_events(R, code, asked, priority)
        \/ \E asked \in Asked : trigger_bulk_event(R, asked)
        \/ broadcast_notification(R)
    \/ \E r \in Requests, asked \in Asked : trigger_event(r, asked)
    \/ BulkEnds
    \/ \E r \in Requests : Api(r) \/ KafkaFails(r)
    \/ \E r \in Requests, c \in NotificationChannel :
          Consume(r, c) \/ HandoverFails(r, c) \/ Expire(r, c)

Spec == Init /\ [][Next]_vars

\* A process that started goes on, and a consumer is restarted.
Fairness ==
    /\ WF_vars(setup_topology)
    /\ WF_vars(lifespan)
    /\ WF_vars(consume_all_queues)
    /\ WF_vars(BulkEnds)
    /\ \A r \in Requests : WF_vars(Api(r))
    /\ \A r \in Requests, c \in NotificationChannel : WF_vars(Consume(r, c))

FairSpec == Spec /\ Fairness

-----------------------------------------------------------------------------
(* Properties                                                              *)

\* 202 is a promise: the event is on Kafka (all events of a bulk request
\* are), whichever of Kafka and RabbitMQ failed and when; and it names every
\* channel that regulation mandates for its code.
AcceptedIsOnKafka ==
    \A r \in Requests : stage[r] = "accepted" =>
        /\ r \in kafka
        /\ get_mandatory_channels(event[r].code) \subseteq event[r].channels

\* What is exempt from quiet hours is urgent on every path of POST /events:
\* the event is exempt from DND too and has priority CRITICAL, and so has the
\* queue its messages are in, whatever priority and channels were asked for.
ExemptIsUrgent ==
    \A r \in Requests : "quiet_hours" \in event[r].bypass =>
        "dnd" \in event[r].bypass /\ event[r].priority = CRITICAL

\* A message is lost only where a call failed: an API process that serves
\* requests has bound the queues, unless declaring them failed, and nothing
\* expires before there is a dead-letter queue for it.
LostOnlyByFault ==
    faults = 0 =>
        \A r \in Requests, c \in NotificationChannel : msg[r][c] # "lost"

\* What the consumer has acknowledged is a task, and nothing becomes a task
\* more often than once and once more for each consumer that stopped between
\* the hand-over and the acknowledgement.
HandedOver ==
    \A r \in Requests, c \in NotificationChannel :
        /\ msg[r][c] = "acked" => tasks[r][c] > 0
        /\ tasks[r][c] <= 1 + crashes

\* The queues drain: through consumers that stop and calls that fail, every
\* message is handed over or dead-lettered in the end.
QueuesDrain ==
    []<>(\A r \in Requests, c \in NotificationChannel :
            msg[r][c] \notin {"queued", "unacked", "handed"})

=============================================================================
