----------------------------- MODULE Compliance -----------------------------
(***************************************************************************)
(* The compliance part of NotificationDispatcher.dispatch, for the SMS of  *)
(* one user: ComplianceService.check_quiet_hours, then check_dnd with its  *)
(* cache in Redis in front of the TRAI registry, then the frequency cap    *)
(* (which has a module of its own).  Dispatches run concurrently: between  *)
(* the registry's answer and the cache entry made from it, the registry,   *)
(* the cache and the hour may change.                                      *)
(*                                                                         *)
(* Time is counted in hours.  The registry is asked with a timeout of five *)
(* seconds, so at most one change of hour falls into a dispatch.           *)
(***************************************************************************)
EXTENDS Naturals

CONSTANTS
    Dispatches,     \* concurrent dispatches
    HoursPerDay,    \* 24
    Zone,           \* the user's timezone, hours ahead of UTC
    DND_CACHE_TTL   \* in hours

ASSUME ComplianceAssumption ==
    /\ HoursPerDay \in Nat \ {0}
    /\ Zone \in Nat
    /\ DND_CACHE_TTL \in Nat \ {0}

\* One event type of each kind the code tells apart.
EventTypes == {"PAYMENT_DUE", "TRANSACTION_FAILURE", "OTP_GENERATED"}
CRITICAL_EVENTS == {"TRANSACTION_FAILURE", "OTP_GENERATED"}
DND_EXEMPT_EVENTS == {"OTP_GENERATED"}

Hour == 0..HoursPerDay - 1

\* Bound on the ages the ghosts keep: past it a verdict is stale anyway.
Lag == 1
Stale == DND_CACHE_TTL + Lag + 1

VARIABLES
    hour,           \* of the day, UTC
    quiet,          \* the user's quiet_hours_start and _end
    user,           \* does the user have quiet hours enabled, and a phone
    registry,       \* is the number registered: "listed" or "clear"
    cache,          \* dnd:<phone>: "miss", "listed" or "clear"
    ttl,
    stage, event, answer,
    crossed,        \* the hour has changed since the dispatch began
    sinceListed,    \* ghost: hours since the registry listed the number
    sinceExcuse     \* ghost: hours since it did not, or gave no answer

dispatch == <<stage, event, answer, crossed>>
source == <<hour, quiet, user, registry>>
ghosts == <<sinceListed, sinceExcuse>>
vars == <<source, cache, ttl, dispatch, ghosts>>

Verdicts == {"QUIET_HOURS", "DND_REGISTERED", "allowed"}
Stages == {"idle", "dnd", "query", "fill"} \cup Verdicts

TypeOK ==
    /\ hour \in Hour
    /\ quiet \in [start : Hour, end : Hour]
    /\ user \in [quiet_hours_enabled : BOOLEAN, phone : BOOLEAN]
    /\ registry \in {"listed", "clear"}
    /\ cache \in {"miss", "listed", "clear"}
    /\ ttl \in 0..DND_CACHE_TTL
    /\ cache = "miss" <=> ttl = 0
    /\ stage \in [Dispatches -> Stages]
    /\ event \in [Dispatches -> EventTypes]
    /\ answer \in [Dispatches -> {"listed", "clear"}]
    /\ crossed \in [Dispatches -> BOOLEAN]
    /\ sinceListed \in 0..Stale
    /\ sinceExcuse \in 0..Stale

Init ==
    /\ hour = 0
    /\ quiet \in [start : Hour, end : Hour]
    /\ user \in [quiet_hours_enabled : BOOLEAN, phone : BOOLEAN]
    /\ registry = "clear"
    /\ cache = "miss"
    /\ ttl = 0
    /\ stage = [d \in Dispatches |-> "idle"]
    /\ event = [d \in Dispatches |-> "PAYMENT_DUE"]
    /\ answer = [d \in Dispatches |-> "clear"]
    /\ crossed = [d \in Dispatches |-> FALSE]
    /\ sinceListed = Stale
    /\ sinceExcuse = 0

-----------------------------------------------------------------------------
GoTo(d, s) == stage' = [stage EXCEPT ![d] = s]

LocalHour(h) == (h + Zone) % HoursPerDay

\* Mutant: a window that wraps midnight is treated like one that does not.
InQuiet_NoWrap(h) == quiet.start <= h /\ h < quiet.end

InQuiet(h) ==
    IF quiet.start > quiet.end
    THEN h >= quiet.start \/ h < quiet.end
    ELSE quiet.start <= h /\ h < quiet.end

\* Without preferences, or with quiet hours disabled, the check is left out.
check_quiet_hours(d, e) ==
    /\ stage[d] = "idle"
    /\ event' = [event EXCEPT ![d] = e]
    /\ GoTo(d, IF /\ user.quiet_hours_enabled
                  /\ e \notin CRITICAL_EVENTS
                  /\ InQuiet(LocalHour(hour))
               THEN "QUIET_HOURS" ELSE "dnd")
    /\ UNCHANGED <<source, cache, ttl, answer, crossed, ghosts>>

\* Mutant: a cache hit renews the entry.
check_dnd_Renews(d) ==
    /\ stage[d] = "dnd"
    /\ GoTo(d, IF ~user.phone \/ event[d] \in DND_EXEMPT_EVENTS THEN "allowed"
               ELSE IF cache = "miss" THEN "query"
               ELSE IF cache = "listed" THEN "DND_REGISTERED" ELSE "allowed")
    /\ ttl' = IF cache = "miss" THEN ttl ELSE DND_CACHE_TTL
    /\ UNCHANGED <<source, cache, event, answer, crossed, ghosts>>

\* No number to ask about, exempt, answered from the cache, or on to the registry.
check_dnd(d) ==
    /\ stage[d] = "dnd"
    /\ GoTo(d, IF ~user.phone \/ event[d] \in DND_EXEMPT_EVENTS THEN "allowed"
               ELSE IF cache = "miss" THEN "query"
               ELSE IF cache = "listed" THEN "DND_REGISTERED" ELSE "allowed")
    /\ UNCHANGED <<source, cache, ttl, event, answer, crossed, ghosts>>

_query_dnd_registry(d) ==
    /\ stage[d] = "query"
    /\ answer' = [answer EXCEPT ![d] = registry]
    /\ GoTo(d, "fill")
    /\ UNCHANGED <<source, cache, ttl, event, crossed, ghosts>>

\* Timeout, an error or another status than 200: False, as if not registered.
QueryFails(d) ==
    /\ stage[d] = "query"
    /\ answer' = [answer EXCEPT ![d] = "clear"]
    /\ sinceExcuse' = 0
    /\ GoTo(d, "fill")
    /\ UNCHANGED <<source, cache, ttl, event, crossed, sinceListed>>

FillCache(d) ==
    /\ stage[d] = "fill"
    /\ cache' = answer[d]
    /\ ttl' = DND_CACHE_TTL
    /\ GoTo(d, IF answer[d] = "listed" THEN "DND_REGISTERED" ELSE "allowed")
    /\ UNCHANGED <<source, event, answer, crossed, ghosts>>

\* The verdict is acted on: the row is skipped, or the frequency cap is
\* consulted and the notification queued.
Finish(d) ==
    /\ stage[d] \in Verdicts
    /\ GoTo(d, "idle")
    /\ event' = [event EXCEPT ![d] = "PAYMENT_DUE"]
    /\ answer' = [answer EXCEPT ![d] = "clear"]
    /\ crossed' = [crossed EXCEPT ![d] = FALSE]
    /\ UNCHANGED <<source, cache, ttl, ghosts>>

\* Redis fails: the exception ends the dispatch (and the Kafka handler
\* dead-letters the event, see Ingestion).
RedisFails(d) ==
    /\ stage[d] \in {"dnd", "fill"}
    /\ GoTo(d, "idle")
    /\ event' = [event EXCEPT ![d] = "PAYMENT_DUE"]
    /\ answer' = [answer EXCEPT ![d] = "clear"]
    /\ crossed' = [crossed EXCEPT ![d] = FALSE]
    /\ UNCHANGED <<source, cache, ttl, ghosts>>

-----------------------------------------------------------------------------
(* The world around it                                                     *)

RegistryChanges ==
    /\ registry' = IF registry = "listed" THEN "clear" ELSE "listed"
    /\ sinceListed' = IF registry' = "listed" THEN 0 ELSE sinceListed
    /\ sinceExcuse' = IF registry' = "clear" THEN 0 ELSE sinceExcuse
    /\ UNCHANGED <<hour, quiet, user, cache, ttl, dispatch>>

\* POST /admin/cache/flush
FlushCache ==
    /\ cache' = "miss"
    /\ ttl' = 0
    /\ UNCHANGED <<source, dispatch, ghosts>>

Aged(n) == IF n < Stale THEN n + 1 ELSE n

Tick ==
    /\ \A d \in Dispatches : ~crossed[d]
    /\ hour' = (hour + 1) % HoursPerDay
    /\ crossed' = [d \in Dispatches |-> stage[d] # "idle"]
    /\ ttl' = IF ttl > 0 THEN ttl - 1 ELSE 0
    /\ cache' = IF ttl > 1 THEN cache ELSE "miss"
    /\ sinceListed' = IF registry = "listed" THEN 0 ELSE Aged(sinceListed)
    /\ sinceExcuse' = IF registry = "clear" THEN 0 ELSE Aged(sinceExcuse)
    /\ UNCHANGED <<quiet, user, registry, stage, event, answer>>

DispatchStep(d) ==
    \/ \E e \in EventTypes : check_quiet_hours(d, e)
    \/ check_dnd(d)
    \/ _query_dnd_registry(d)
    \/ QueryFails(d)
    \/ FillCache(d)
    \/ Finish(d)
    \/ RedisFails(d)

Next ==
    \/ \E d \in Dispatches : DispatchStep(d)
    \/ RegistryChanges
    \/ FlushCache
    \/ Tick

Spec == Init /\ [][Next]_vars

-----------------------------------------------------------------------------
(* Properties                                                              *)

\* The hours from start up to, not including, end, counted around the clock.
QuietHours ==
    {(quiet.start + k) % HoursPerDay :
        k \in {n \in Hour : n < (quiet.end + HoursPerDay - quiet.start) % HoursPerDay}}

\* The local hour in which a dispatch began.
Began(d) == LocalHour(IF crossed[d] THEN hour + HoursPerDay - 1 ELSE hour)

\* A dispatch is stopped by quiet hours exactly when they are enabled and it
\* began in them, for windows that wrap midnight, empty ones and all
\* timezones, and never for a critical event.
QuietHoursKept ==
    \A d \in Dispatches : stage[d] # "idle" =>
        (stage[d] = "QUIET_HOURS"
            <=> /\ user.quiet_hours_enabled
                /\ event[d] \notin CRITICAL_EVENTS
                /\ Began(d) \in QuietHours)

\* The cache may be wrong, but for a day only: a message that is not exempt
\* goes out to a registered number that the platform knows only if the number
\* was not registered, or the registry gave no answer, within the last day, or
\* the hour before that (a dispatch may straddle the change of an hour); and a
\* message is held back only if the number was registered within that time.
VerdictIsRecent ==
    \A d \in Dispatches :
        /\ stage[d] = "allowed" /\ user.phone /\ event[d] \notin DND_EXEMPT_EVENTS
              => sinceExcuse <= DND_CACHE_TTL + Lag
        /\ stage[d] = "DND_REGISTERED" => sinceListed <= DND_CACHE_TTL + Lag

=============================================================================
