--------------------------- MODULE RoutingProofs ---------------------------
(***************************************************************************)
(* The safety properties of Routing for any set of requests, codes and     *)
(* priorities, any prefetch and any number of faults and crashes.  What    *)
(* they rest on:                                                           *)
(*  - the table of events is consistent: what is exempt from quiet hours   *)
(*    is CRITICAL and exempt from DND (RegistryIsSound, entry by entry);   *)
(*  - a request is at RabbitMQ or accepted only after Kafka took its       *)
(*    event (PromiseInv);                                                  *)
(*  - only an API process that is up takes requests, and without a fault   *)
(*    it is up only when the whole topology is declared (ServingInv);      *)
(*  - how many tasks a message may have depends on where it is: a crash    *)
(*    takes it back to its queue, and pays for the task it made            *)
(*    (MessageInv).                                                        *)
(***************************************************************************)
EXTENDS Routing, TLAPS

\* Events of requests: those of a code and those without one.
Event ==
    [code : Codes \cup {""}, channels : SUBSET NotificationChannel,
     priority : EventPriority, bypass : SUBSET {"dnd", "quiet_hours"}]

Types ==
    /\ TypeOK
    /\ event \in [Requests -> Event]
    /\ todo \in [Requests -> SUBSET NotificationChannel]

\* What an event names, whatever was asked for.
Sound(e) ==
    /\ get_mandatory_channels(e.code) \subseteq e.channels
    /\ "quiet_hours" \in e.bypass => "dnd" \in e.bypass /\ e.priority = CRITICAL

PromiseInv ==
    \A r \in Requests :
        /\ stage[r] \in {"rabbit", "accepted"} => r \in kafka
        /\ Sound(event[r])

ServingInv ==
    /\ \A r \in Requests : stage[r] # "idle" => api = "up"
    /\ faults = 0 /\ api = "up" => topology = Len(Declarations)

\* The tasks of a message that is in place p after n crashes.
Paid(p, t, n) ==
    /\ p = "none" => t = 0
    /\ p \in {"queued", "unacked", "lost"} => t <= n
    /\ p \in {"handed", "acked"} => 1 <= t
    /\ t <= 1 + n

MessageInv ==
    \A r \in Requests, c \in NotificationChannel :
        /\ Paid(msg[r][c], tasks[r][c], crashes)
        /\ stage[r] \in {"kafka", "rabbit"} /\ c \in todo[r] => msg[r][c] = "none"

Inv == Types /\ PromiseInv /\ ServingInv /\ LostOnlyByFault /\ MessageInv

-----------------------------------------------------------------------------
(* The table of events                                                     *)

SoundEvent(e) ==
    /\ e.code # ""
    /\ e.channels \subseteq NotificationChannel
    /\ e.priority \in EventPriority
    /\ "quiet_hours" \in e.bypass => "dnd" \in e.bypass /\ e.priority = CRITICAL

LEMMA TableIsSound == \A e \in ALL_EVENTS : SoundEvent(e)
<1>1. ASSUME NEW code, code # "", NEW p \in EventPriority, NEW reg, NEW class,
             NEW ch, ch \subseteq NotificationChannel, NEW b, "quiet_hours" \notin b
      PROVE  SoundEvent(EventDefinition(code, p, reg, class, ch, b))
  BY <1>1 DEF SoundEvent, EventDefinition
<1>2. ASSUME NEW code, code # "", NEW reg, NEW class, NEW ch, ch \subseteq NotificationChannel
      PROVE  SoundEvent(EventDefinition(code, CRITICAL, reg, class, ch, Everything))
  BY <1>2 DEF SoundEvent, EventDefinition, EventPriority, Everything
<1>3. HIGH \in EventPriority /\ MEDIUM \in EventPriority /\ LOW \in EventPriority
  BY DEF EventPriority
<1>4. \A e \in TRANSACTION_EVENTS : SoundEvent(e)
  BY <1>1, <1>3 DEF TRANSACTION_EVENTS, Transactional, NotificationChannel
<1>5. \A e \in RISK_EVENTS : SoundEvent(e)
  BY <1>1, <1>2, <1>3 DEF RISK_EVENTS, Transactional, NotificationChannel
<1>6. \A e \in SIP_EVENTS : SoundEvent(e)
  BY <1>1, <1>3 DEF SIP_EVENTS, Transactional, Promotional, NotificationChannel
<1>7. \A e \in MARKET_EVENTS : SoundEvent(e)
  BY <1>1, <1>2, <1>3 DEF MARKET_EVENTS, Transactional, Promotional, NotificationChannel
<1>8. \A e \in REGULATORY_EVENTS : SoundEvent(e)
  <2>1. SoundEvent(EventDefinition("REGX-001", HIGH, "sebi_mandatory", "transactional",
                                   {"sms", "email", "push"}, {"dnd"}))
    BY <1>3 DEF SoundEvent, EventDefinition, NotificationChannel
  <2> QED
    BY <1>1, <1>3, <2>1 DEF REGULATORY_EVENTS, Transactional, NotificationChannel
<1> QED
  BY <1>4, <1>5, <1>6, <1>7, <1>8 DEF ALL_EVENTS

LEMMA RegistryIsSound ==
    /\ ~Known("")
    /\ \A code : Known(code) => SoundEvent(EVENT_REGISTRY[code])
<1>1. ASSUME NEW code, Known(code)
      PROVE  EVENT_REGISTRY[code] \in ALL_EVENTS /\ EVENT_REGISTRY[code].code = code
  <2>1. PICK e \in ALL_EVENTS : e.code = code
    BY <1>1 DEF Known, EVENT_REGISTRY
  <2>2. EVENT_REGISTRY[code] = CHOOSE x \in ALL_EVENTS : x.code = code
    BY <2>1 DEF EVENT_REGISTRY
  <2> QED
    BY <2>1, <2>2
<1>2. ASSUME NEW code, Known(code)
      PROVE  SoundEvent(EVENT_REGISTRY[code])
  BY <1>1, <1>2, TableIsSound
<1>3. ~Known("")
  BY <1>1, <1>2 DEF SoundEvent
<1> QED
  BY <1>2, <1>3

-----------------------------------------------------------------------------
(* The events of requests                                                  *)

LEMMA NoEventIsSound == NoEvent \in Event /\ Sound(NoEvent)
  BY RegistryIsSound DEF NoEvent, Event, EventPriority, Sound, get_mandatory_channels

\* Whatever channels are asked for, the mandatory ones are there.
LEMMA Resolved ==
    ASSUME NEW code, NEW asked \in Asked
    PROVE  /\ _resolve_channels(code, asked) \subseteq NotificationChannel
           /\ get_mandatory_channels(code) \subseteq _resolve_channels(code, asked)
<1>1. asked \subseteq NotificationChannel
  BY RoutingAssumption
<1>2. Known(code) => EVENT_REGISTRY[code].channels \subseteq NotificationChannel
  BY RegistryIsSound DEF SoundEvent
<1>3. {"push", "in_app"} \subseteq NotificationChannel
  BY DEF NotificationChannel
<1> QED
  BY <1>1, <1>2, <1>3 DEF _resolve_channels, get_mandatory_channels

LEMMA EventType ==
    \A code \in Codes \cup {""}, ch \in SUBSET NotificationChannel, p \in EventPriority,
       b \in SUBSET {"dnd", "quiet_hours"} :
           [code |-> code, channels |-> ch, priority |-> p, bypass |-> b] \in Event
  BY DEF Event

LEMMA IngestedIsSound ==
    ASSUME NEW code \in Codes, NEW asked \in Asked, NEW priority \in Priorities, NEW e,
           e = [code |-> code,
                channels |-> _resolve_channels(code, asked),
                priority |-> EffectivePriority(code, priority),
                bypass |-> {x \in {"dnd", "quiet_hours"} :
                               IF x = "dnd" THEN is_dnd_exempt(code)
                                            ELSE is_quiet_hours_exempt(code)}]
    PROVE  e \in Event /\ Sound(e)
<1> DEFINE ch == _resolve_channels(code, asked)
           p == EffectivePriority(code, priority)
           b == {x \in {"dnd", "quiet_hours"} : IF x = "dnd" THEN is_dnd_exempt(code)
                                                ELSE is_quiet_hours_exempt(code)}
<1>1. ch \subseteq NotificationChannel /\ get_mandatory_channels(code) \subseteq ch
  BY Resolved
<1>2. p \in EventPriority
  BY RoutingAssumption DEF EffectivePriority, EventPriority
<1>3. b \subseteq {"dnd", "quiet_hours"}
  OBVIOUS
<1>4. "quiet_hours" \in b => "dnd" \in b /\ p = CRITICAL
  <2>1. "quiet_hours" \in b => is_quiet_hours_exempt(code)
    OBVIOUS
  <2>2. is_quiet_hours_exempt(code) =>
            Known(code) /\ "dnd" \in EVENT_REGISTRY[code].bypass
            /\ EVENT_REGISTRY[code].priority = CRITICAL
    BY RegistryIsSound DEF is_quiet_hours_exempt, SoundEvent
  <2>3. is_quiet_hours_exempt(code) => is_dnd_exempt(code) /\ p = CRITICAL
    BY <2>2 DEF is_dnd_exempt, EffectivePriority, get_priority_for_event
  <2> QED
    BY <2>1, <2>3
<1> HIDE DEF ch, p, b
<1>5. e = [code |-> code, channels |-> ch, priority |-> p, bypass |-> b]
  BY DEF ch, p, b
<1>6. e \in Event
  <2>1. code \in Codes \cup {""} /\ ch \in SUBSET NotificationChannel
    BY <1>1
  <2>2. b \in SUBSET {"dnd", "quiet_hours"}
    BY <1>3
  <2> QED
    BY <1>2, <1>5, <2>1, <2>2, EventType
<1>7. e.code = code /\ e.channels = ch /\ e.priority = p /\ e.bypass = b
  BY <1>5
<1> QED
  BY <1>1, <1>4, <1>6, <1>7, Zenon DEF Sound

LEMMA BulkIsSound ==
    ASSUME NEW code \in Codes, NEW asked \in Asked, NEW priority \in Priorities, NEW e,
           e = [code |-> code, channels |-> _resolve_channels(code, asked),
                priority |-> priority, bypass |-> {}]
    PROVE  e \in Event /\ Sound(e)
<1> DEFINE ch == _resolve_channels(code, asked)
<1>1. ch \subseteq NotificationChannel /\ get_mandatory_channels(code) \subseteq ch
  BY Resolved
<1>2. priority \in EventPriority
  BY RoutingAssumption
<1> HIDE DEF ch
<1>3. e = [code |-> code, channels |-> ch, priority |-> priority, bypass |-> {}]
  BY DEF ch
<1>4. e \in Event
  <2>1. code \in Codes \cup {""} /\ ch \in SUBSET NotificationChannel
    BY <1>1
  <2>2. {} \in SUBSET {"dnd", "quiet_hours"}
    OBVIOUS
  <2> QED
    BY <1>2, <1>3, <2>1, <2>2, EventType
<1>5. e.code = code /\ e.channels = ch /\ "quiet_hours" \notin e.bypass
  BY <1>3
<1> QED
  BY <1>1, <1>4, <1>5, Zenon DEF Sound

LEMMA TriggeredIsSound ==
    ASSUME NEW asked \in Asked, NEW e, e = [NoEvent EXCEPT !.channels = asked]
    PROVE  e \in Event /\ Sound(e)
<1>1. asked \subseteq NotificationChannel
  BY RoutingAssumption
<1>2. get_mandatory_channels("") = {}
  BY RegistryIsSound DEF get_mandatory_channels
<1> QED
  BY <1>1, <1>2 DEF NoEvent, Event, EventPriority, Sound

-----------------------------------------------------------------------------
(* The topology                                                            *)

LEMMA Complete ==
    /\ Len(Declarations) = 7
    /\ topology = Len(Declarations) => Declared("dead")
    /\ \A p : topology = Len(Declarations) => Declared(RoutingKey(p))
<1>1. /\ Len(Declarations) = 7
      /\ Declarations[3] = "critical" /\ Declarations[4] = "high"
      /\ Declarations[5] = "medium" /\ Declarations[6] = "low" /\ Declarations[7] = "dead"
  BY DEF Declarations
<1>2. \A p : RoutingKey(p) \in {"critical", "high", "medium", "low"}
  BY DEF RoutingKey
<1>3. ASSUME topology = Len(Declarations), NEW i \in 1..7
      PROVE  Declared(Declarations[i])
  BY <1>1, <1>3 DEF Declared
<1>4. ASSUME topology = Len(Declarations)
      PROVE  /\ Declared("critical") /\ Declared("high") /\ Declared("medium")
             /\ Declared("low") /\ Declared("dead")
  <2>1. 3 \in 1..7 /\ 4 \in 1..7 /\ 5 \in 1..7 /\ 6 \in 1..7 /\ 7 \in 1..7
    OBVIOUS
  <2> QED
    BY <1>1, <1>3, <1>4, <2>1
<1> QED
  BY <1>1, <1>2, <1>4

\* While no call has failed, what a request has published found its queue.
LEMMA Bound ==
    ASSUME Inv, NEW r \in Requests, faults = 0, stage[r] # "idle"
    PROVE  Declared("dead") /\ \A p : Declared(RoutingKey(p))
  BY Complete DEF Inv, ServingInv

-----------------------------------------------------------------------------
LEMMA InvInit == Init => Inv
<1> SUFFICES ASSUME Init
             PROVE  Inv
  OBVIOUS
<1>1. Types
  <2>1. event \in [Requests -> Event] /\ todo \in [Requests -> SUBSET NotificationChannel]
    BY NoEventIsSound DEF Init
  <2>2. \A r \in Requests :
            /\ event[r].channels \subseteq NotificationChannel
            /\ event[r].priority \in EventPriority
            /\ todo[r] \subseteq event[r].channels
            /\ stage[r] = "idle" => event[r] = NoEvent
            /\ \A c \in NotificationChannel \ event[r].channels : msg[r][c] = "none"
    BY <2>1 DEF Init, Event
  <2>3. /\ topology \in 0..Len(Declarations) /\ faults \in 0..MaxFaults
        /\ crashes \in 0..MaxCrashes
    BY Complete, RoutingAssumption DEF Init
  <2>4. /\ stage \in [Requests -> Stages] /\ kafka \subseteq Requests
        /\ msg \in [Requests -> [NotificationChannel -> Places]]
        /\ tasks \in [Requests -> [NotificationChannel -> Nat]]
        /\ api \in {"starting", "up"} /\ consumer \in {"down", "starting", "up"}
    BY DEF Init, Stages, Places
  <2> QED
    BY <2>1, <2>2, <2>3, <2>4 DEF Types, TypeOK
<1>2. PromiseInv
  BY NoEventIsSound DEF Init, PromiseInv
<1>3. ServingInv
  BY DEF Init, ServingInv
<1>4. LostOnlyByFault /\ MessageInv
  BY DEF Init, LostOnlyByFault, MessageInv, Paid
<1> QED
  BY <1>1, <1>2, <1>3, <1>4 DEF Inv

-----------------------------------------------------------------------------
(* What the steps have in common                                           *)

LEMMA Moved ==
    ASSUME Types, NEW r \in Requests, NEW c \in NotificationChannel, NEW place \in Places,
           Move(r, c, place)
    PROVE  /\ msg' \in [Requests -> [NotificationChannel -> Places]]
           /\ msg'[r][c] = place
           /\ \A s \in Requests, d \in NotificationChannel :
                 s # r \/ d # c => msg'[s][d] = msg[s][d]
  BY DEF Move, Types, TypeOK

LEMMA TaskMade ==
    ASSUME Types, NEW r \in Requests, NEW c \in NotificationChannel,
           tasks' \in {tasks, [tasks EXCEPT ![r][c] = @ + 1]}
    PROVE  /\ tasks' \in [Requests -> [NotificationChannel -> Nat]]
           /\ tasks'[r][c] \in {tasks[r][c], tasks[r][c] + 1}
           /\ \A s \in Requests, d \in NotificationChannel :
                 s # r \/ d # c => tasks'[s][d] = tasks[s][d]
<1>1. tasks \in [Requests -> [NotificationChannel -> Nat]] /\ tasks[r][c] + 1 \in Nat
  BY DEF Types, TypeOK
<1>2. CASE tasks' = tasks
  BY <1>1, <1>2
<1>3. CASE tasks' = [tasks EXCEPT ![r][c] = @ + 1]
  BY <1>1, <1>3
<1> QED
  BY <1>2, <1>3

LEMMA Counted ==
    ASSUME Types, faults' = faults \/ Fault
    PROVE  faults' \in 0..MaxFaults /\ (faults' = 0 => faults = 0)
  BY RoutingAssumption DEF Types, TypeOK, Fault

\* A message that is somewhere has a request that is not idle, and is not
\* waiting to be published.
LEMMA Somewhere ==
    ASSUME Inv, NEW r \in Requests, NEW c \in NotificationChannel, msg[r][c] # "none"
    PROVE  /\ stage[r] # "idle" /\ c \in event[r].channels
           /\ ~(stage[r] \in {"kafka", "rabbit"} /\ c \in todo[r])
<1>1. c \in event[r].channels
  BY DEF Inv, Types, TypeOK
<1>2. stage[r] # "idle"
  <2>1. stage[r] = "idle" => event[r] = NoEvent
    BY DEF Inv, Types, TypeOK
  <2>2. NoEvent.channels = {}
    BY DEF NoEvent
  <2> QED
    BY <1>1, <2>1, <2>2
<1> QED
  BY <1>1, <1>2 DEF Inv, MessageInv

\* The broker or the consumer moves a message to another place.
LEMMA MovedInv ==
    ASSUME Inv, NEW r \in Requests, NEW c \in NotificationChannel, NEW place \in Places,
           msg[r][c] # "none", Move(r, c, place),
           tasks' \in {tasks, [tasks EXCEPT ![r][c] = @ + 1]},
           UNCHANGED <<processes, requests, crashes>>, faults' = faults \/ Fault,
           Paid(place, tasks'[r][c], crashes),
           faults = 0 => place # "lost"
    PROVE  Inv'
<1>1. /\ UNCHANGED <<topology, api, consumer, stage, event, todo, kafka, crashes>>
  BY DEF processes, requests
<1>2. /\ msg' \in [Requests -> [NotificationChannel -> Places]]
      /\ msg'[r][c] = place
      /\ \A s \in Requests, d \in NotificationChannel :
            s # r \/ d # c => msg'[s][d] = msg[s][d]
  BY Moved DEF Inv
<1>3. /\ tasks' \in [Requests -> [NotificationChannel -> Nat]]
      /\ \A s \in Requests, d \in NotificationChannel :
            s # r \/ d # c => tasks'[s][d] = tasks[s][d]
  BY TaskMade DEF Inv
<1>4. faults' \in 0..MaxFaults /\ (faults' = 0 => faults = 0)
  BY Counted DEF Inv
<1>5. /\ c \in event[r].channels
      /\ ~(stage[r] \in {"kafka", "rabbit"} /\ c \in todo[r])
  BY Somewhere
<1>6. Types'
  <2>1. \A s \in Requests : \A d \in NotificationChannel \ event[s].channels :
            msg'[s][d] = "none"
    <3> SUFFICES ASSUME NEW s \in Requests,
                        NEW d \in NotificationChannel, d \notin event[s].channels
                 PROVE  msg'[s][d] = "none"
      OBVIOUS
    <3>1. msg[s][d] = "none"
      BY DEF Inv, Types, TypeOK
    <3>2. s # r \/ d # c
      BY <1>5
    <3> QED
      BY <1>2, <3>1, <3>2
  <2> QED
    BY <1>1, <1>2, <1>3, <1>4, <2>1 DEF Inv, Types, TypeOK
<1>7. PromiseInv' /\ ServingInv'
  BY <1>1, <1>4 DEF Inv, PromiseInv, ServingInv
<1>8. LostOnlyByFault'
  BY <1>2, <1>4 DEF Inv, LostOnlyByFault
<1>9. MessageInv'
  <2>1. ASSUME NEW s \in Requests, NEW d \in NotificationChannel
        PROVE  /\ Paid(msg'[s][d], tasks'[s][d], crashes)
               /\ stage[s] \in {"kafka", "rabbit"} /\ d \in todo[s] => msg'[s][d] = "none"
    <3>1. CASE s = r /\ d = c
      BY <1>2, <1>5, <3>1
    <3>2. CASE ~(s = r /\ d = c)
      <4>1. msg'[s][d] = msg[s][d] /\ tasks'[s][d] = tasks[s][d]
        BY <1>2, <1>3, <3>2
      <4> QED
        BY <4>1 DEF Inv, MessageInv
    <3> QED
      BY <3>1, <3>2
  <2> QED
    BY <1>1, <2>1 DEF MessageInv, Paid
<1> QED
  BY <1>6, <1>7, <1>8, <1>9 DEF Inv

-----------------------------------------------------------------------------
(* The broker and the consumer                                             *)

LEMMA PaidHere ==
    ASSUME Inv, NEW r \in Requests, NEW c \in NotificationChannel
    PROVE  /\ tasks[r][c] \in Nat /\ crashes \in Nat /\ msg[r][c] \in Places
           /\ msg[r][c] \in {"queued", "unacked"} => tasks[r][c] <= crashes
           /\ msg[r][c] = "handed" => 1 <= tasks[r][c] /\ tasks[r][c] <= 1 + crashes
<1>1. tasks[r][c] \in Nat /\ crashes \in Nat /\ msg[r][c] \in Places
  BY RoutingAssumption DEF Inv, Types, TypeOK
<1>2. Paid(msg[r][c], tasks[r][c], crashes)
  BY DEF Inv, MessageInv
<1> QED
  BY <1>1, <1>2 DEF Paid

LEMMA DeliverInv ==
    ASSUME Inv, NEW r \in Requests, NEW c \in NotificationChannel, Deliver(r, c)
    PROVE  Inv'
<1>1. /\ msg[r][c] = "queued" /\ Move(r, c, "unacked") /\ tasks' = tasks
      /\ UNCHANGED <<processes, requests, faults, crashes>>
  BY DEF Deliver
<1>2. Paid("unacked", tasks'[r][c], crashes)
  BY <1>1, PaidHere DEF Paid
<1>3. "unacked" \in Places
  BY DEF Places
<1> QED
  BY <1>1, <1>2, <1>3, MovedInv

LEMMA ProcessInv ==
    ASSUME Inv, NEW r \in Requests, NEW c \in NotificationChannel,
           process_delivery_message(r, c)
    PROVE  Inv'
<1>1. UNCHANGED <<processes, requests, faults, crashes>>
  BY DEF process_delivery_message
<1>2. "handed" \in Places /\ "acked" \in Places
  BY DEF Places
<1>3. CASE /\ msg[r][c] = "unacked" /\ Move(r, c, "handed")
           /\ tasks' = [tasks EXCEPT ![r][c] = @ + 1]
  <2>1. tasks'[r][c] = tasks[r][c] + 1
    BY <1>3 DEF Inv, Types, TypeOK
  <2>2. Paid("handed", tasks'[r][c], crashes)
    BY <1>3, <2>1, PaidHere DEF Paid
  <2> QED
    BY <1>1, <1>2, <1>3, <2>2, MovedInv
<1>4. CASE msg[r][c] = "handed" /\ Move(r, c, "acked") /\ tasks' = tasks
  <2>1. Paid("acked", tasks'[r][c], crashes)
    BY <1>4, PaidHere DEF Paid
  <2> QED
    BY <1>1, <1>2, <1>4, <2>1, MovedInv
<1> QED
  BY <1>3, <1>4 DEF process_delivery_message

LEMMA HandoverFailsInv ==
    ASSUME Inv, NEW r \in Requests, NEW c \in NotificationChannel, HandoverFails(r, c)
    PROVE  Inv'
<1>1. /\ msg[r][c] = "unacked" /\ Move(r, c, "dead") /\ Fault
      /\ tasks' \in {tasks, [tasks EXCEPT ![r][c] = @ + 1]}
      /\ UNCHANGED <<processes, requests, crashes>>
  BY DEF HandoverFails
<1>2. tasks'[r][c] \in {tasks[r][c], tasks[r][c] + 1}
  BY <1>1, TaskMade DEF Inv
<1>3. Paid("dead", tasks'[r][c], crashes)
  BY <1>1, <1>2, PaidHere DEF Paid
<1>4. "dead" \in Places
  BY DEF Places
<1> QED
  BY <1>1, <1>3, <1>4, MovedInv

\* What is in a queue when it expires was put there by an API process that
\* is up, so that without a fault there is a dead-letter queue for it.
LEMMA ExpireInv ==
    ASSUME Inv, NEW r \in Requests, NEW c \in NotificationChannel, Expire(r, c)
    PROVE  Inv'
<1> DEFINE place == IF Declared("dead") THEN "dead" ELSE "lost"
<1>1. /\ msg[r][c] = "queued" /\ Move(r, c, place) /\ tasks' = tasks
      /\ UNCHANGED <<processes, requests, faults, crashes>>
  BY DEF Expire
<1>2. place \in Places /\ place \in {"dead", "lost"}
  BY DEF Places
<1>3. faults = 0 => place # "lost"
  BY <1>1, Somewhere, Bound
<1> HIDE DEF place
<1>4. Paid(place, tasks'[r][c], crashes)
  <2>1. PICK t \in Nat, n \in Nat : t = tasks'[r][c] /\ n = crashes /\ t <= n
    BY <1>1, PaidHere
  <2>2. Paid("dead", t, n) /\ Paid("lost", t, n)
    BY <2>1 DEF Paid
  <2> QED
    BY <1>2, <2>1, <2>2
<1> QED
  BY <1>1, <1>2, <1>3, <1>4, MovedInv

LEMMA PaidLater ==
    \A p \in Places, t, n \in Nat : Paid(p, t, n) => Paid(Redelivered(p), t, n + 1)
<1> SUFFICES ASSUME NEW p \in Places, NEW t \in Nat, NEW n \in Nat, Paid(p, t, n)
             PROVE  Paid(Redelivered(p), t, n + 1)
  OBVIOUS
<1>1. CASE p \in {"unacked", "handed"}
  <2>1. t <= n + 1
    BY <1>1 DEF Paid
  <2>2. Redelivered(p) = "queued"
    BY <1>1 DEF Redelivered
  <2> QED
    BY <2>1, <2>2 DEF Paid
<1>2. CASE p \notin {"unacked", "handed"}
  <2>1. Redelivered(p) = p
    BY <1>2 DEF Redelivered
  <2>2. Paid(p, t, n + 1)
    BY <1>2 DEF Paid, Places
  <2> QED
    BY <2>1, <2>2
<1> QED
  BY <1>1, <1>2

\* The crash pays for the tasks of the messages that go back.
LEMMA ConsumerStopsInv ==
    ASSUME Inv, ConsumerStops
    PROVE  Inv'
<1>1. /\ crashes < MaxCrashes /\ crashes' = crashes + 1 /\ consumer' = "down"
      /\ UNCHANGED <<topology, api, stage, event, todo, kafka, tasks, faults>>
      /\ msg' = [r \in Requests |-> [c \in NotificationChannel |-> Redelivered(msg[r][c])]]
  BY DEF ConsumerStops, requests
<1>2. ASSUME NEW r \in Requests, NEW c \in NotificationChannel
      PROVE  /\ msg'[r][c] = Redelivered(msg[r][c])
             /\ msg'[r][c] \in Places
             /\ msg'[r][c] = "lost" <=> msg[r][c] = "lost"
             /\ msg'[r][c] = "none" <=> msg[r][c] = "none"
             /\ Paid(msg'[r][c], tasks[r][c], crashes + 1)
  <2>1. msg'[r][c] = Redelivered(msg[r][c])
    BY <1>1
  <2>2. /\ tasks[r][c] \in Nat /\ crashes \in Nat /\ msg[r][c] \in Places
        /\ Paid(msg[r][c], tasks[r][c], crashes)
    BY PaidHere DEF Inv, MessageInv
  <2>3. /\ Redelivered(msg[r][c]) \in Places
        /\ Redelivered(msg[r][c]) = "lost" <=> msg[r][c] = "lost"
        /\ Redelivered(msg[r][c]) = "none" <=> msg[r][c] = "none"
    BY <2>2 DEF Redelivered, Places
  <2> QED
    BY <2>1, <2>2, <2>3, PaidLater
<1>3. Types'
  <2>1. msg' \in [Requests -> [NotificationChannel -> Places]]
    <3>1. msg' = [r \in Requests |-> [c \in NotificationChannel |-> msg'[r][c]]]
      BY <1>1
    <3> QED
      BY <1>2, <3>1
  <2>2. crashes' \in 0..MaxCrashes
    BY <1>1, RoutingAssumption DEF Inv, Types, TypeOK
  <2> QED
    BY <1>1, <1>2, <2>1, <2>2 DEF Inv, Types, TypeOK
<1>4. PromiseInv' /\ ServingInv'
  BY <1>1 DEF Inv, PromiseInv, ServingInv
<1>5. LostOnlyByFault' /\ MessageInv'
  <2>1. LostOnlyByFault'
    BY <1>1, <1>2 DEF Inv, LostOnlyByFault
  <2>2. ASSUME NEW r \in Requests, NEW c \in NotificationChannel
        PROVE  /\ Paid(msg[r][c], tasks[r][c], crashes)'
               /\ stage'[r] \in {"kafka", "rabbit"} /\ c \in todo'[r] => msg'[r][c] = "none"
    <3>1. Paid(msg'[r][c], tasks[r][c], crashes + 1)
      BY <1>2
    <3>2. Paid(msg[r][c], tasks[r][c], crashes)'
      BY <1>1, <3>1 DEF Paid
    <3>3. stage[r] \in {"kafka", "rabbit"} /\ c \in todo[r] => msg'[r][c] = "none"
      BY <1>2 DEF Inv, MessageInv
    <3> QED
      BY <1>1, <3>2, <3>3
  <2>3. MessageInv'
    BY <2>2 DEF MessageInv
  <2> QED
    BY <2>1, <2>3
<1> QED
  BY <1>3, <1>4, <1>5 DEF Inv

-----------------------------------------------------------------------------
(* The processes                                                           *)

LEMMA ProcessesInv ==
    ASSUME Inv, UNCHANGED <<requests, messages, crashes>>, faults' = faults \/ Fault,
           topology' \in 0..Len(Declarations), api' \in {"starting", "up"},
           consumer' \in {"down", "starting", "up"}, ServingInv'
    PROVE  Inv'
<1>1. UNCHANGED <<stage, event, todo, kafka, msg, tasks, crashes>>
  BY DEF requests, messages
<1>2. faults' \in 0..MaxFaults /\ (faults' = 0 => faults = 0)
  BY Counted DEF Inv
<1>3. Types'
  BY <1>1, <1>2 DEF Inv, Types, TypeOK
<1>4. PromiseInv' /\ LostOnlyByFault' /\ MessageInv'
  BY <1>1, <1>2 DEF Inv, PromiseInv, LostOnlyByFault, MessageInv
<1> QED
  BY <1>3, <1>4 DEF Inv

\* Without a fault the API is not up before the last declaration.
LEMMA StartInv ==
    ASSUME Inv, setup_topology \/ lifespan \/ consume_all_queues
    PROVE  Inv'
<1>1. /\ topology \in 0..Len(Declarations) /\ Len(Declarations) = 7
      /\ faults \in Nat /\ api \in {"starting", "up"}
      /\ consumer \in {"down", "starting", "up"}
  BY Complete, RoutingAssumption DEF Inv, Types, TypeOK
<1>2. CASE setup_topology
  <2>1. /\ topology < Len(Declarations) /\ topology' = topology + 1
        /\ UNCHANGED <<api, consumer, requests, messages, faults, crashes>>
    BY <1>2 DEF setup_topology
  <2>2. ServingInv'
    BY <1>1, <2>1 DEF Inv, ServingInv, requests
  <2> QED
    BY <1>1, <2>1, <2>2, ProcessesInv
<1>3. CASE lifespan
  <2>1. /\ api' = "up" /\ UNCHANGED <<topology, consumer, requests, messages, crashes>>
        /\ \/ topology = Len(Declarations) /\ UNCHANGED faults
           \/ Fault
    BY <1>3 DEF lifespan
  <2>2. ServingInv'
    BY <1>1, <2>1 DEF Inv, ServingInv, requests, Fault
  <2> QED
    BY <1>1, <2>1, <2>2, ProcessesInv
<1>4. CASE consume_all_queues
  <2>1. /\ consumer' \in {"starting", "up"}
        /\ UNCHANGED <<topology, api, requests, messages, faults, crashes>>
    BY <1>4 DEF consume_all_queues
  <2>2. ServingInv'
    BY <2>1 DEF Inv, ServingInv, requests
  <2> QED
    BY <1>1, <2>1, <2>2, ProcessesInv
<1> QED
  BY <1>2, <1>3, <1>4

-----------------------------------------------------------------------------
(* The requests                                                            *)

\* A request goes on, and RabbitMQ comes after Kafka.
LEMMA GoesOn ==
    ASSUME Inv, NEW r \in Requests, NEW s \in Stages, GoTo(r, s),
           stage[r] # "idle", s # "idle",
           s \in {"kafka", "rabbit"} => stage[r] \in {"kafka", "rabbit"},
           kafka' \in {kafka, kafka \cup {r}},
           s \in {"rabbit", "accepted"} => r \in kafka',
           UNCHANGED <<processes, event, todo, messages, crashes>>,
           faults' = faults \/ Fault
    PROVE  Inv'
<1>1. UNCHANGED <<topology, api, consumer, event, todo, msg, tasks, crashes>>
  BY DEF processes, messages
<1>2. faults' \in 0..MaxFaults /\ (faults' = 0 => faults = 0)
  BY Counted DEF Inv
<1>3. /\ stage' \in [Requests -> Stages] /\ stage'[r] = s
      /\ \A x \in Requests \ {r} : stage'[x] = stage[x]
  BY DEF GoTo, Inv, Types, TypeOK
<1>4. kafka' \subseteq Requests /\ kafka \subseteq kafka'
  BY DEF Inv, Types, TypeOK
<1>5. Types'
  <2>1. \A x \in Requests : stage'[x] = "idle" => stage[x] = "idle"
    BY <1>3
  <2> QED
    BY <1>1, <1>2, <1>3, <1>4, <2>1 DEF Inv, Types, TypeOK
<1>6. PromiseInv' /\ ServingInv'
  BY <1>1, <1>2, <1>3, <1>4 DEF Inv, PromiseInv, ServingInv
<1>7. LostOnlyByFault' /\ MessageInv'
  BY <1>1, <1>2, <1>3 DEF Inv, LostOnlyByFault, MessageInv
<1> QED
  BY <1>5, <1>6, <1>7 DEF Inv

\* A message reaches the exchange: its queue is bound, unless a call failed.
LEMMA Published ==
    ASSUME Inv, NEW r \in Requests, NEW c \in NotificationChannel,
           stage[r] = "rabbit", c \in todo[r], Routed(r, c),
           \/ stage' = stage /\ todo' = [todo EXCEPT ![r] = @ \ {c}]
           \/ GoTo(r, "accepted") /\ todo' = todo,
           UNCHANGED <<processes, event, kafka, tasks, crashes>>,
           faults' = faults \/ Fault
    PROVE  Inv'
<1> DEFINE place == IF Declared(RoutingKey(event[r].priority)) THEN "queued" ELSE "lost"
<1>1. UNCHANGED <<topology, api, consumer, event, kafka, tasks, crashes>>
  BY DEF processes
<1>2. faults' \in 0..MaxFaults /\ (faults' = 0 => faults = 0)
  BY Counted DEF Inv
<1>3. place \in Places /\ place \in {"queued", "lost"} /\ Move(r, c, place)
  BY DEF Places, Routed
<1>4. faults = 0 => place # "lost"
  BY Bound
<1> HIDE DEF place
<1>5. /\ msg' \in [Requests -> [NotificationChannel -> Places]]
      /\ msg'[r][c] = place
      /\ \A s \in Requests, d \in NotificationChannel :
            s # r \/ d # c => msg'[s][d] = msg[s][d]
  BY <1>3, Moved DEF Inv
<1>6. /\ stage' \in [Requests -> Stages] /\ stage'[r] \in {"rabbit", "accepted"}
      /\ \A s \in Requests \ {r} : stage'[s] = stage[s]
      /\ todo' \in [Requests -> SUBSET NotificationChannel]
      /\ \A s \in Requests : todo'[s] \subseteq todo[s]
      /\ stage'[r] = "rabbit" => c \notin todo'[r]
  <2>1. stage \in [Requests -> Stages] /\ todo \in [Requests -> SUBSET NotificationChannel]
    BY DEF Inv, Types, TypeOK
  <2>2. CASE stage' = stage /\ todo' = [todo EXCEPT ![r] = @ \ {c}]
    BY <2>1, <2>2
  <2>3. CASE GoTo(r, "accepted") /\ todo' = todo
    BY <2>1, <2>3 DEF GoTo, Stages, Answered
  <2> QED
    BY <2>2, <2>3
<1>7. c \in event[r].channels
  BY DEF Inv, Types, TypeOK
<1>8. Types'
  <2>1. \A s \in Requests : \A d \in NotificationChannel \ event[s].channels :
            msg'[s][d] = "none"
    BY <1>5, <1>7 DEF Inv, Types, TypeOK
  <2>2. \A s \in Requests : /\ todo'[s] \subseteq event[s].channels
                            /\ stage'[s] = "idle" => event[s] = NoEvent
    BY <1>6 DEF Inv, Types, TypeOK
  <2> QED
    BY <1>1, <1>2, <1>5, <1>6, <2>1, <2>2 DEF Inv, Types, TypeOK
<1>9. PromiseInv' /\ ServingInv'
  BY <1>1, <1>2, <1>6 DEF Inv, PromiseInv, ServingInv
<1>10. LostOnlyByFault'
  BY <1>2, <1>4, <1>5 DEF Inv, LostOnlyByFault
<1>11. MessageInv'
  <2>1. ASSUME NEW s \in Requests, NEW d \in NotificationChannel
        PROVE  /\ Paid(msg'[s][d], tasks[s][d], crashes)
               /\ stage'[s] \in {"kafka", "rabbit"} /\ d \in todo'[s] => msg'[s][d] = "none"
    <3>1. CASE s = r /\ d = c
      <4>1. msg[r][c] = "none" /\ Paid(msg[r][c], tasks[r][c], crashes)
        BY DEF Inv, MessageInv
      <4>2. tasks[r][c] = 0 /\ crashes \in Nat
        BY <4>1, PaidHere DEF Paid
      <4> QED
        BY <1>3, <1>5, <1>6, <3>1, <4>2 DEF Paid
    <3>2. CASE ~(s = r /\ d = c)
      <4>1. msg'[s][d] = msg[s][d]
        BY <1>5, <3>2
      <4> QED
        BY <1>6, <4>1 DEF Inv, MessageInv
    <3> QED
      BY <3>1, <3>2
  <2> QED
    BY <1>1, <2>1 DEF MessageInv
<1> QED
  BY <1>8, <1>9, <1>10, <1>11 DEF Inv

\* Requests come to an API process that is up, and have no message yet.
LEMMA Taken ==
    ASSUME Inv, api = "up", NEW R \in SUBSET Requests, \A r \in R : stage[r] = "idle",
           NEW e \in Event, Sound(e), NEW s \in {"kafka", "bulk"},
           event' \in [Requests -> Event], stage' \in [Requests -> Stages],
           todo' \in [Requests -> SUBSET NotificationChannel],
           \A r \in R : event'[r] = e /\ stage'[r] = s /\ todo'[r] \subseteq e.channels,
           \A r \in Requests \ R :
               event'[r] = event[r] /\ stage'[r] = stage[r] /\ todo'[r] = todo[r],
           UNCHANGED <<processes, kafka, messages, faults, crashes>>
    PROVE  Inv'
<1>1. UNCHANGED <<topology, api, consumer, kafka, msg, tasks, faults, crashes>>
  BY DEF processes, messages
<1>2. \A r \in R, c \in NotificationChannel : msg[r][c] = "none"
  BY Somewhere
<1>3. Types'
  <2>1. ASSUME NEW r \in Requests
        PROVE  /\ event'[r].channels \subseteq NotificationChannel
               /\ event'[r].priority \in EventPriority
               /\ todo'[r] \subseteq event'[r].channels
               /\ stage'[r] = "idle" => event'[r] = NoEvent
               /\ \A c \in NotificationChannel \ event'[r].channels : msg[r][c] = "none"
    <3>1. CASE r \in R
      BY <1>2, <3>1 DEF Event
    <3>2. CASE r \notin R
      BY <3>2 DEF Inv, Types, TypeOK
    <3> QED
      BY <3>1, <3>2
  <2> QED
    BY <1>1, <2>1 DEF Inv, Types, TypeOK
<1>4. PromiseInv'
  BY <1>1 DEF Inv, PromiseInv
<1>5. ServingInv' /\ LostOnlyByFault'
  BY <1>1 DEF Inv, ServingInv, LostOnlyByFault
<1>6. MessageInv'
  BY <1>1, <1>2 DEF Inv, MessageInv
<1> QED
  BY <1>3, <1>4, <1>5, <1>6 DEF Inv

LEMMA IngestInv ==
    ASSUME Inv, NEW r \in Requests, NEW code \in Codes, NEW asked \in Asked,
           NEW priority \in Priorities, ingest_event(r, code, asked, priority)
    PROVE  Inv'
<1> DEFINE e == [code |-> code,
                 channels |-> _resolve_channels(code, asked),
                 priority |-> EffectivePriority(code, priority),
                 bypass |-> {x \in {"dnd", "quiet_hours"} :
                                IF x = "dnd" THEN is_dnd_exempt(code)
                                             ELSE is_quiet_hours_exempt(code)}]
<1>1. e \in Event /\ Sound(e)
  BY IngestedIsSound
<1>2. /\ api = "up" /\ stage[r] = "idle" /\ GoTo(r, "kafka")
      /\ event' = [event EXCEPT ![r] = e]
      /\ todo' = [todo EXCEPT ![r] = event'[r].channels]
      /\ UNCHANGED <<processes, kafka, messages, faults, crashes>>
  BY DEF ingest_event
<1> HIDE DEF e
<1>3. /\ event \in [Requests -> Event] /\ stage \in [Requests -> Stages]
      /\ todo \in [Requests -> SUBSET NotificationChannel]
  BY DEF Inv, Types, TypeOK
<1>4. /\ event' \in [Requests -> Event] /\ event'[r] = e
      /\ \A x \in Requests \ {r} : event'[x] = event[x]
  BY <1>1, <1>2, <1>3
<1>5. e.channels \in SUBSET NotificationChannel
  BY <1>1 DEF Event
<1>6. /\ todo' \in [Requests -> SUBSET NotificationChannel] /\ todo'[r] = e.channels
      /\ \A x \in Requests \ {r} : todo'[x] = todo[x]
  BY <1>2, <1>3, <1>4, <1>5
<1>7. /\ stage' \in [Requests -> Stages] /\ stage'[r] = "kafka"
      /\ \A x \in Requests \ {r} : stage'[x] = stage[x]
  BY <1>2, <1>3 DEF GoTo, Stages
<1>8. {r} \in SUBSET Requests /\ "kafka" \in {"kafka", "bulk"}
  OBVIOUS
<1> DEFINE R == {r}
<1> HIDE DEF R
<1>9. /\ R \in SUBSET Requests /\ \A x \in R : stage[x] = "idle"
      /\ \A x \in R :
            event'[x] = e /\ stage'[x] = "kafka" /\ todo'[x] \subseteq e.channels
      /\ \A x \in Requests \ R :
            event'[x] = event[x] /\ stage'[x] = stage[x] /\ todo'[x] = todo[x]
  BY <1>2, <1>4, <1>6, <1>7, <1>8 DEF R
<1> QED
  BY <1>1, <1>2, <1>4, <1>6, <1>7, <1>8, <1>9, Taken

LEMMA BeginBulkInv ==
    ASSUME Inv, NEW R \in SUBSET Requests, NEW e \in Event, Sound(e), BeginBulk(R, e)
    PROVE  Inv'
<1>1. /\ api = "up" /\ \A r \in R : stage[r] = "idle"
      /\ event' = [r \in Requests |-> IF r \in R THEN e ELSE event[r]]
      /\ stage' = [r \in Requests |-> IF r \in R THEN "bulk" ELSE stage[r]]
      /\ UNCHANGED <<processes, todo, kafka, messages, faults, crashes>>
  BY DEF BeginBulk
<1>2. /\ event \in [Requests -> Event] /\ stage \in [Requests -> Stages]
      /\ todo \in [Requests -> SUBSET NotificationChannel]
  BY DEF Inv, Types, TypeOK
<1>3. \A r \in R : todo[r] = {}
  <2>1. \A r \in R : event[r] = NoEvent /\ todo[r] \subseteq event[r].channels
    BY <1>1 DEF Inv, Types, TypeOK
  <2>2. NoEvent.channels = {}
    BY DEF NoEvent
  <2> QED
    BY <2>1, <2>2
<1>4. /\ event' \in [Requests -> Event] /\ stage' \in [Requests -> Stages]
      /\ \A r \in R : event'[r] = e /\ stage'[r] = "bulk"
      /\ \A r \in Requests \ R : event'[r] = event[r] /\ stage'[r] = stage[r]
  BY <1>1, <1>2 DEF Stages
<1>5. "bulk" \in {"kafka", "bulk"}
  OBVIOUS
<1> QED
  BY <1>1, <1>2, <1>3, <1>4, <1>5, Taken

LEMMA BulkEndsInv ==
    ASSUME Inv, BulkEnds
    PROVE  Inv'
<1>1. /\ UNCHANGED <<topology, api, consumer, event, todo, kafka, msg, tasks, crashes>>
      /\ faults' = faults \/ Fault
  BY DEF BulkEnds, processes, messages
<1>2. PICK s \in {"accepted", "unanswered"} :
          /\ stage' = [r \in Requests |-> IF r \in Bulk THEN s ELSE stage[r]]
          /\ s = "accepted" => Bulk \subseteq kafka
  BY DEF BulkEnds
<1>3. faults' \in 0..MaxFaults /\ (faults' = 0 => faults = 0)
  BY <1>1, Counted DEF Inv
<1>4. /\ stage' \in [Requests -> Stages]
      /\ \A r \in Requests :
            \/ stage'[r] = stage[r]
            \/ stage[r] = "bulk" /\ stage'[r] = s /\ (s = "accepted" => r \in kafka)
  BY <1>2 DEF Inv, Types, TypeOK, Bulk, Stages, Answered
<1>5. Types'
  <2>1. \A r \in Requests : stage'[r] = "idle" => stage[r] = "idle"
    BY <1>4
  <2> QED
    BY <1>1, <1>3, <1>4, <2>1 DEF Inv, Types, TypeOK
<1>6. PromiseInv' /\ ServingInv'
  BY <1>1, <1>3, <1>4 DEF Inv, PromiseInv, ServingInv
<1>7. LostOnlyByFault' /\ MessageInv'
  BY <1>1, <1>3, <1>4 DEF Inv, LostOnlyByFault, MessageInv
<1> QED
  BY <1>5, <1>6, <1>7 DEF Inv

LEMMA ApiInv ==
    ASSUME Inv, NEW r \in Requests, Api(r) \/ KafkaFails(r)
    PROVE  Inv'
<1>1. /\ "rabbit" \in Stages /\ "accepted" \in Stages /\ "refused" \in Stages
      /\ stage \in [Requests -> Stages]
      /\ stage[r] = "rabbit" => r \in kafka
  BY DEF Stages, Answered, Inv, Types, TypeOK, PromiseInv
<1>2. CASE publish_notification_event(r)
  BY <1>1, <1>2, GoesOn DEF publish_notification_event
<1>3. CASE KafkaFails(r)
  BY <1>1, <1>3, GoesOn DEF KafkaFails
<1>4. CASE Accept(r)
  BY <1>1, <1>4, GoesOn DEF Accept
<1>5. CASE BulkPublish(r)
  <2>1. /\ stage[r] = "bulk" /\ kafka' = kafka \cup {r} /\ stage' = stage
        /\ UNCHANGED <<processes, event, todo, messages, faults, crashes>>
    BY <1>5 DEF BulkPublish
  <2>2. GoTo(r, "bulk") /\ "bulk" \in Stages
    BY <1>1, <2>1 DEF GoTo, Stages
  <2> QED
    BY <2>1, <2>2, GoesOn
<1>6. ASSUME NEW c \in NotificationChannel, publish(r, c)
      PROVE  Inv'
  BY <1>6, Published DEF publish
<1>7. ASSUME NEW c \in NotificationChannel, PublishFails(r, c)
      PROVE  Inv'
  <2>1. /\ stage[r] = "rabbit" /\ c \in todo[r] /\ GoTo(r, "accepted")
        /\ UNCHANGED <<processes, event, todo, kafka, tasks, crashes>>
        /\ faults' = faults \/ Fault
    BY <1>7 DEF PublishFails
  <2>2. CASE UNCHANGED msg
    BY <1>1, <2>1, <2>2, GoesOn DEF messages
  <2>3. CASE Routed(r, c)
    BY <2>1, <2>3, Published
  <2> QED
    BY <1>7, <2>2, <2>3 DEF PublishFails
<1> QED
  BY <1>2, <1>3, <1>4, <1>5, <1>6, <1>7 DEF Api

-----------------------------------------------------------------------------
LEMMA InvStep == Inv /\ [Next]_vars => Inv'
<1> SUFFICES ASSUME Inv, [Next]_vars
             PROVE  Inv'
  OBVIOUS
<1>1. CASE UNCHANGED vars
  BY <1>1 DEF vars, processes, requests, messages, Inv, Types, TypeOK, PromiseInv,
     ServingInv, LostOnlyByFault, MessageInv
<1>2. CASE setup_topology \/ lifespan \/ consume_all_queues
  BY <1>2, StartInv
<1>3. CASE ConsumerStops
  BY <1>3, ConsumerStopsInv
<1>4. ASSUME NEW r \in Requests, NEW code \in Codes, NEW asked \in Asked,
             NEW priority \in Priorities, ingest_event(r, code, asked, priority)
      PROVE  Inv'
  BY <1>4, IngestInv
<1>5. ASSUME NEW R \in SUBSET Requests, NEW code \in Codes, NEW asked \in Asked,
             NEW priority \in Priorities, bulk_ingest_events(R, code, asked, priority)
      PROVE  Inv'
  <2> DEFINE e == [code |-> code, channels |-> _resolve_channels(code, asked),
                   priority |-> priority, bypass |-> {}]
  <2>1. e \in Event /\ Sound(e)
    BY BulkIsSound
  <2>2. BeginBulk(R, e)
    BY <1>5 DEF bulk_ingest_events
  <2> HIDE DEF e
  <2> QED
    BY <2>1, <2>2, BeginBulkInv
<1>6. ASSUME NEW R \in SUBSET Requests, NEW asked \in Asked,
             BeginBulk(R, [NoEvent EXCEPT !.channels = asked])
      PROVE  Inv'
  <2> DEFINE e == [NoEvent EXCEPT !.channels = asked]
  <2>1. e \in Event /\ Sound(e)
    BY TriggeredIsSound
  <2>2. BeginBulk(R, e)
    BY <1>6
  <2> HIDE DEF e
  <2> QED
    BY <2>1, <2>2, BeginBulkInv
<1>7. ASSUME NEW R \in SUBSET Requests, broadcast_notification(R)
      PROVE  Inv'
  BY <1>7, NoEventIsSound, BeginBulkInv DEF broadcast_notification
<1>8. ASSUME NEW r \in Requests, NEW asked \in Asked, trigger_event(r, asked)
      PROVE  Inv'
  <2>1. {r} \in SUBSET Requests /\ BeginBulk({r}, [NoEvent EXCEPT !.channels = asked])
    BY <1>8 DEF trigger_event
  <2> QED
    BY <1>6, <2>1
<1>9. ASSUME NEW R \in SUBSET Requests, NEW asked \in Asked, trigger_bulk_event(R, asked)
      PROVE  Inv'
  BY <1>6, <1>9 DEF trigger_bulk_event
<1>10. CASE BulkEnds
  BY <1>10, BulkEndsInv
<1>11. ASSUME NEW r \in Requests, Api(r) \/ KafkaFails(r)
       PROVE  Inv'
  BY <1>11, ApiInv
<1>12. ASSUME NEW r \in Requests, NEW c \in NotificationChannel,
              Consume(r, c) \/ HandoverFails(r, c) \/ Expire(r, c)
       PROVE  Inv'
  BY <1>12, DeliverInv, ProcessInv, HandoverFailsInv, ExpireInv DEF Consume
<1> QED
  BY <1>1, <1>2, <1>3, <1>4, <1>5, <1>7, <1>8, <1>9, <1>10, <1>11, <1>12 DEF Next

LEMMA InvAlways == Spec => []Inv
  BY InvInit, InvStep, PTL DEF Spec

\* The types of Routing; no message is anywhere but at a channel of its event.
THEOREM TypesAreKept == Spec => []TypeOK
<1>1. Inv => TypeOK
  BY DEF Inv, Types
<1> QED
  BY <1>1, InvAlways, PTL

\* 202 of POST /events and of the bulk endpoints is given only for events on
\* Kafka, with the channels regulation mandates, whichever call failed.
THEOREM AcceptedStaysOnKafka == Spec => []AcceptedIsOnKafka
<1>1. Inv => AcceptedIsOnKafka
  BY DEF Inv, PromiseInv, AcceptedIsOnKafka, Sound
<1> QED
  BY <1>1, InvAlways, PTL

\* For every code of the taxonomy and every priority a request may ask for,
\* an event that ignores quiet hours ignores DND and is CRITICAL.
THEOREM ExemptEventsAreUrgent == Spec => []ExemptIsUrgent
<1>1. Inv => ExemptIsUrgent
  BY DEF Inv, PromiseInv, ExemptIsUrgent, Sound
<1> QED
  BY <1>1, InvAlways, PTL

\* However the starts of the API and of the consumer interleave with requests
\* and with expiry, no message is lost unless a call failed.
THEOREM OnlyFaultsLose == Spec => []LostOnlyByFault
<1>1. Inv => LostOnlyByFault
  BY DEF Inv
<1> QED
  BY <1>1, InvAlways, PTL

\* What rabbitmq/consumer.py acknowledged is a Celery task, and a message is
\* made a task once, and once more at most for each consumer that stopped.
THEOREM HandoversArePaid == Spec => []HandedOver
<1>1. Inv => HandedOver
  <2> SUFFICES ASSUME Inv, NEW r \in Requests, NEW c \in NotificationChannel
               PROVE  /\ msg[r][c] = "acked" => tasks[r][c] > 0
                      /\ tasks[r][c] <= 1 + crashes
    BY DEF HandedOver
  <2>1. Paid(msg[r][c], tasks[r][c], crashes) /\ tasks[r][c] \in Nat
    BY PaidHere DEF Inv, MessageInv
  <2> QED
    BY <2>1 DEF Paid
<1> QED
  BY <1>1, InvAlways, PTL

=============================================================================
