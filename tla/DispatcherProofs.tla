------------------------- MODULE DispatcherProofs -------------------------
(***************************************************************************)
(* What the dispatcher takes from tables that others change meanwhile: the *)
(* compliance verdict and the template.  Each has its own specification,   *)
(* Compliance's Spec and TemplatesSpec.                                    *)
(*                                                                         *)
(* Compliance: VerdictIsRecent and QuietHoursKept for any day, timezone,   *)
(* cache lifetime and number of concurrent dispatches.  What a verdict     *)
(* rests on gets older in three places: the registry's answer in a         *)
(* dispatch, the cache entry made from it, and the verdict until it is     *)
(* acted on.  A dispatch lives through one change of hour at most, and an  *)
(* entry's age and its time to live add up to its lifetime.  That the      *)
(* comparisons of check_quiet_hours mean the window counted around the     *)
(* clock is arithmetic modulo the hours of the day.  The hour in which a   *)
(* dispatch began can be told from the present one, for it lives through a *)
(* single change of hour.                                                  *)
(*                                                                         *)
(* Templates: ReadyMeansResolvable for any templates, defaults, replicas   *)
(* and administrators.  A seeding replica has served every default it has  *)
(* passed, from the table or from rows of its own; since the English       *)
(* default comes before the others, it finds a localised one missing only  *)
(* after the English one was taken out of service (LocalisedInv).          *)
(***************************************************************************)
EXTENDS Compliance, Templates, Integers, TLAPS

-----------------------------------------------------------------------------
(* Compliance                                                              *)

\* The hours a dispatch has lived through.
Lived(d) == IF crossed[d] THEN 1 ELSE 0

RegistryInv ==
    /\ registry = "clear" => sinceExcuse = 0
    /\ registry = "listed" => sinceListed = 0

CacheInv ==
    /\ cache = "clear" => sinceExcuse + ttl <= DND_CACHE_TTL + 1
    /\ cache = "listed" => sinceListed + ttl <= DND_CACHE_TTL + 1

AnswerInv ==
    \A d \in Dispatches : stage[d] = "fill" =>
        /\ answer[d] = "clear" => sinceExcuse <= Lived(d)
        /\ answer[d] = "listed" => sinceListed <= Lived(d)

VerdictInv ==
    \A d \in Dispatches :
        /\ stage[d] = "allowed" /\ user.phone /\ event[d] \notin DND_EXEMPT_EVENTS
              => sinceExcuse <= DND_CACHE_TTL + Lived(d)
        /\ stage[d] = "DND_REGISTERED" => sinceListed <= DND_CACHE_TTL + Lived(d)

Inv == TypeOK /\ RegistryInv /\ CacheInv /\ AnswerInv /\ VerdictInv

\* QuietHoursKept by the comparisons of the code.
QuietInv ==
    \A d \in Dispatches :
        /\ stage[d] = "idle" => crossed[d] = FALSE
        /\ stage[d] # "idle" =>
              (stage[d] = "QUIET_HOURS"
                  <=> /\ user.quiet_hours_enabled
                      /\ event[d] \notin CRITICAL_EVENTS
                      /\ InQuiet(Began(d)))

LEMMA Stales == Stale \in Nat /\ Stale = DND_CACHE_TTL + 2 /\ DND_CACHE_TTL \in Nat \ {0}
  BY ComplianceAssumption DEF Stale, Lag

LEMMA Hours == 0 \in Hour /\ \A h \in Hour : (h + 1) % HoursPerDay \in Hour
  BY ComplianceAssumption DEF Hour

LEMMA AgedOnce ==
    ASSUME NEW n \in 0..Stale
    PROVE  Aged(n) \in 0..Stale /\ Aged(n) <= n + 1
  BY Stales DEF Aged

LEMMA InvInit == Init => Inv
  BY Stales, Hours DEF Init, Inv, TypeOK, RegistryInv, CacheInv, AnswerInv,
     VerdictInv, Stages, Verdicts, EventTypes

\* A step of a dispatch leaves the others, the hour and the registry alone.
LEMMA DispatchInv ==
    ASSUME Inv, NEW d \in Dispatches, DispatchStep(d)
    PROVE  Inv'
<1> USE DEF Inv
<1>1. ASSUME NEW e \in EventTypes, check_quiet_hours(d, e)
      PROVE  Inv'
  <2>1. TypeOK'
    BY <1>1 DEF check_quiet_hours, TypeOK, GoTo, source, ghosts, Stages, Verdicts
  <2> QED
    BY <1>1, <2>1 DEF check_quiet_hours, TypeOK, GoTo, source, ghosts, RegistryInv,
       CacheInv, AnswerInv, VerdictInv, Lived
<1>2. CASE check_dnd(d)
  <2>1. TypeOK'
    BY <1>2 DEF check_dnd, TypeOK, GoTo, source, ghosts, Stages, Verdicts
  <2>2. RegistryInv' /\ CacheInv' /\ AnswerInv'
    BY <1>2 DEF check_dnd, TypeOK, GoTo, source, ghosts, RegistryInv, CacheInv,
       AnswerInv, Lived
  <2>3. cache # "miss" => ttl \in Nat \ {0}
    BY Stales DEF TypeOK
  <2>4. /\ cache = "clear" => sinceExcuse <= DND_CACHE_TTL
        /\ cache = "listed" => sinceListed <= DND_CACHE_TTL
    BY <2>3, Stales DEF TypeOK, CacheInv
  <2>5. VerdictInv'
    BY <1>2, <2>4, Stales DEF check_dnd, TypeOK, GoTo, source, ghosts, VerdictInv, Lived
  <2> QED
    BY <2>1, <2>2, <2>5
<1>3. CASE _query_dnd_registry(d)
  <2>1. TypeOK'
    BY <1>3 DEF _query_dnd_registry, TypeOK, GoTo, source, ghosts, Stages, Verdicts
  <2> QED
    BY <1>3, <2>1 DEF _query_dnd_registry, TypeOK, GoTo, source, ghosts, RegistryInv,
       CacheInv, AnswerInv, VerdictInv, Lived
<1>4. CASE QueryFails(d)
  <2>1. TypeOK'
    BY <1>4, Stales DEF QueryFails, TypeOK, GoTo, source, Stages, Verdicts
  <2>2. sinceExcuse' = 0 /\ sinceExcuse \in Nat
    BY <1>4, Stales DEF QueryFails, TypeOK
  <2>3. RegistryInv' /\ CacheInv'
    BY <1>4, <2>2, Stales DEF QueryFails, TypeOK, GoTo, source, RegistryInv, CacheInv
  <2>4. AnswerInv' /\ VerdictInv'
    BY <1>4, <2>2, Stales DEF QueryFails, TypeOK, GoTo, source, AnswerInv, VerdictInv, Lived
  <2> QED
    BY <2>1, <2>3, <2>4
<1>5. CASE FillCache(d)
  <2>1. TypeOK'
    BY <1>5, Stales DEF FillCache, TypeOK, GoTo, source, ghosts, Stages, Verdicts
  <2>2. /\ answer[d] = "clear" => sinceExcuse <= Lived(d)
        /\ answer[d] = "listed" => sinceListed <= Lived(d)
        /\ Lived(d) \in 0..1
    BY <1>5 DEF FillCache, AnswerInv, Lived
  <2>3. RegistryInv' /\ CacheInv' /\ AnswerInv'
    BY <1>5, <2>2, Stales DEF FillCache, TypeOK, GoTo, source, ghosts, RegistryInv,
       CacheInv, AnswerInv, Lived
  <2>4. VerdictInv'
    BY <1>5, <2>2, Stales DEF FillCache, TypeOK, GoTo, source, ghosts, VerdictInv, Lived
  <2> QED
    BY <2>1, <2>3, <2>4
<1>6. CASE Finish(d) \/ RedisFails(d)
  <2>1. /\ GoTo(d, "idle")
        /\ event' = [event EXCEPT ![d] = "PAYMENT_DUE"]
        /\ answer' = [answer EXCEPT ![d] = "clear"]
        /\ crossed' = [crossed EXCEPT ![d] = FALSE]
        /\ UNCHANGED <<source, cache, ttl, ghosts>>
    BY <1>6 DEF Finish, RedisFails
  <2>2. TypeOK'
    BY <2>1 DEF TypeOK, GoTo, source, ghosts, Stages, EventTypes
  <2> QED
    BY <2>1, <2>2 DEF TypeOK, GoTo, source, ghosts, RegistryInv, CacheInv, AnswerInv,
       VerdictInv, Lived
<1> QED
  BY <1>1, <1>2, <1>3, <1>4, <1>5, <1>6 DEF DispatchStep

\* An hour later, everything is an hour older, and every dispatch that is
\* under way has lived through its hour.
LEMMA TickInv ==
    ASSUME Inv, Tick
    PROVE  Inv'
<1> USE DEF Inv
<1>1. /\ sinceExcuse' \in 0..Stale /\ sinceExcuse' <= sinceExcuse + 1
      /\ sinceListed' \in 0..Stale /\ sinceListed' <= sinceListed + 1
      /\ sinceExcuse \in Nat /\ sinceListed \in Nat
  BY AgedOnce, Stales DEF Tick, TypeOK
<1>2. TypeOK'
  <2>1. hour' \in Hour
    BY Hours DEF Tick, TypeOK
  <2>2. ttl' \in 0..DND_CACHE_TTL /\ (cache' = "miss" <=> ttl' = 0)
    BY Stales DEF Tick, TypeOK
  <2>3. cache' \in {"miss", "listed", "clear"} /\ crossed' \in [Dispatches -> BOOLEAN]
    BY DEF Tick, TypeOK
  <2> QED
    BY <1>1, <2>1, <2>2, <2>3 DEF Tick, TypeOK
<1>3. RegistryInv'
  BY DEF Tick, RegistryInv
<1>4. CacheInv'
  <2>1. cache' # "miss" => cache' = cache /\ ttl' = ttl - 1 /\ ttl \in Nat \ {0}
    BY Stales DEF Tick, TypeOK
  <2> QED
    BY <1>1, <2>1, Stales DEF CacheInv
<1>5. \A d \in Dispatches : stage[d] # "idle" => Lived(d) = 0 /\ Lived(d)' = 1
  BY DEF Tick, TypeOK, Lived
<1>6. AnswerInv'
  BY <1>1, <1>5 DEF Tick, AnswerInv
<1>7. VerdictInv'
  BY <1>1, <1>5, Stales DEF Tick, VerdictInv
<1> QED
  BY <1>2, <1>3, <1>4, <1>6, <1>7

LEMMA InvStep == Inv /\ [Next]_vars => Inv'
<1> SUFFICES ASSUME Inv, [Next]_vars
             PROVE  Inv'
  OBVIOUS
<1>1. CASE RegistryChanges
  <2>1. TypeOK'
    BY <1>1, Stales DEF Inv, RegistryChanges, TypeOK, dispatch
  <2>2. /\ sinceExcuse' \in {0, sinceExcuse} /\ sinceListed' \in {0, sinceListed}
        /\ sinceExcuse \in Nat /\ sinceListed \in Nat /\ ttl \in 0..DND_CACHE_TTL
    BY <1>1, Stales DEF Inv, RegistryChanges, TypeOK
  <2>3. RegistryInv'
    BY <1>1 DEF Inv, RegistryChanges, RegistryInv, TypeOK
  <2>4. CacheInv'
    BY <1>1, <2>2, Stales DEF Inv, RegistryChanges, CacheInv
  <2>5. AnswerInv' /\ VerdictInv'
    BY <1>1, <2>2, Stales DEF Inv, RegistryChanges, AnswerInv, VerdictInv, Lived, dispatch
  <2> QED
    BY <2>1, <2>3, <2>4, <2>5 DEF Inv
<1>2. CASE FlushCache
  BY <1>2, Stales DEF Inv, FlushCache, source, dispatch, ghosts, TypeOK, RegistryInv,
     CacheInv, AnswerInv, VerdictInv, Lived
<1>3. CASE UNCHANGED vars
  BY <1>3 DEF Inv, vars, source, dispatch, ghosts, TypeOK, RegistryInv, CacheInv,
     AnswerInv, VerdictInv, Lived
<1> QED
  BY <1>1, <1>2, <1>3, DispatchInv, TickInv DEF Next

LEMMA InvAlways == Spec => []Inv
  BY InvInit, InvStep, PTL DEF Spec

\* Type correctness: the cache has an entry exactly as long as its time to
\* live.
THEOREM TypeCorrect == Spec => []TypeOK
  BY InvAlways, PTL DEF Inv

\* check_dnd never acts on an answer of the registry that is more than a day
\* and an hour old, in either direction, whatever dispatches fill the cache
\* with late answers and whenever it is flushed.
THEOREM RecentVerdicts == Spec => []VerdictIsRecent
<1>1. Inv => VerdictIsRecent
  <2> SUFFICES ASSUME Inv, NEW d \in Dispatches
               PROVE  /\ stage[d] = "allowed" /\ user.phone /\ event[d] \notin DND_EXEMPT_EVENTS
                            => sinceExcuse <= DND_CACHE_TTL + Lag
                      /\ stage[d] = "DND_REGISTERED" => sinceListed <= DND_CACHE_TTL + Lag
    BY DEF VerdictIsRecent
  <2>1. Lived(d) \in 0..1 /\ sinceExcuse \in Nat /\ sinceListed \in Nat
    BY Stales DEF Inv, TypeOK, Lived
  <2> QED
    BY <2>1, Stales DEF Inv, VerdictInv, Lag
<1> QED
  BY <1>1, InvAlways, PTL

-----------------------------------------------------------------------------
(* Hours modulo HoursPerDay                                                *)

LEMMA ModWithin ==
    ASSUME NEW H \in Nat \ {0}, NEW x \in Nat, x < H + H
    PROVE  (x < H => x % H = x) /\ (x >= H => x % H = x - H)
  OBVIOUS

LEMMA ModOfSum ==
    ASSUME NEW H \in Nat \ {0}, NEW q \in Nat, NEW r \in 0..H - 1
    PROVE  (H * q + r) % H = r
  OBVIOUS

\* A whole day makes no difference.
LEMMA ModDay ==
    ASSUME NEW H \in Nat \ {0}, NEW x \in Nat
    PROVE  (x + H) % H = x % H
<1>1. x = H * (x \div H) + (x % H) /\ x \div H \in Nat /\ x % H \in 0..H - 1
  OBVIOUS
<1>2. PICK q \in Nat, r \in 0..H - 1 : x = H * q + r /\ r = x % H
  BY <1>1
<1>3. x + H = H * (q + 1) + r
  BY <1>2
<1>4. (H * (q + 1) + r) % H = r
  BY ModOfSum
<1> QED
  BY <1>2, <1>3, <1>4

LEMMA LocalHours ==
    ASSUME NEW h \in Nat
    PROVE  LocalHour(h) \in Hour
  BY ComplianceAssumption DEF LocalHour, Hour

\* The comparisons of check_quiet_hours and the window around the clock
\* agree on every hour of the day.
LEMMA WindowsAgree ==
    ASSUME quiet \in [start : Hour, end : Hour], NEW h \in Hour
    PROVE  InQuiet(h) <=> h \in QuietHours
<1> DEFINE H == HoursPerDay
           s == quiet.start
           e == quiet.end
           L == (e + H - s) % H
<1>1. H \in Nat \ {0} /\ s \in 0..H - 1 /\ e \in 0..H - 1 /\ h \in 0..H - 1
  BY ComplianceAssumption DEF Hour
<1>2. h \in QuietHours <=> \E k \in 0..H - 1 : k < L /\ h = (s + k) % H
  BY DEF QuietHours, Hour
<1>3. InQuiet(h) <=> IF s > e THEN h >= s \/ h < e ELSE s <= h /\ h < e
  BY DEF InQuiet
<1> HIDE DEF H, s, e
<1>4. L = IF e >= s THEN e - s ELSE e + H - s
  <2>1. e + H - s \in Nat /\ e + H - s < H + H
    BY <1>1
  <2>2. PICK x \in Nat : x = e + H - s
    BY <2>1
  <2>3. (x < H => x % H = x) /\ (x >= H => x % H = x - H)
    BY <1>1, <2>1, <2>2, ModWithin
  <2> QED
    BY <1>1, <2>2, <2>3
<1>5. \A k \in 0..H - 1 : (s + k) % H = IF s + k < H THEN s + k ELSE s + k - H
  <2> TAKE k \in 0..H - 1
  <2>1. s + k \in Nat /\ s + k < H + H
    BY <1>1
  <2>2. PICK x \in Nat : x = s + k
    BY <2>1
  <2>3. (x < H => x % H = x) /\ (x >= H => x % H = x - H)
    BY <1>1, <2>1, <2>2, ModWithin
  <2> QED
    BY <1>1, <2>2, <2>3
<1> HIDE DEF L
<1>6. (\E k \in 0..H - 1 : k < L /\ h = (s + k) % H)
        => IF s > e THEN h >= s \/ h < e ELSE s <= h /\ h < e
  BY <1>1, <1>4, <1>5
<1>7. ASSUME IF s > e THEN h >= s \/ h < e ELSE s <= h /\ h < e
      PROVE  \E k \in 0..H - 1 : k < L /\ h = (s + k) % H
  <2>1. CASE h >= s
    <3>1. h - s \in 0..H - 1 /\ h - s < L /\ s + (h - s) = h /\ h < H
      BY <1>1, <1>4, <1>7, <2>1
    <3>2. h = (s + (h - s)) % H
      BY <1>1, <1>5, <3>1
    <3> QED
      BY <3>1, <3>2
  <2>2. CASE h < s
    <3>1. /\ h + H - s \in 0..H - 1 /\ h + H - s < L
          /\ s + (h + H - s) = h + H /\ ~(h + H < H) /\ h + H - H = h
      BY <1>1, <1>4, <1>7, <2>2
    <3>2. h = (s + (h + H - s)) % H
      BY <1>1, <1>5, <3>1
    <3> QED
      BY <3>1, <3>2
  <2> QED
    BY <1>1, <2>1, <2>2
<1> QED
  BY <1>2, <1>3, <1>6, <1>7

LEMMA QuietInit == Init => QuietInv
  BY DEF Init, QuietInv

\* A dispatch that begins does so in the present hour.
LEMMA QuietDispatch ==
    ASSUME TypeOK, QuietInv, NEW d \in Dispatches, DispatchStep(d)
    PROVE  QuietInv'
<1> USE DEF TypeOK, QuietInv, GoTo, source, ghosts
<1>1. ASSUME NEW e \in EventTypes, check_quiet_hours(d, e)
      PROVE  QuietInv'
  <2>1. /\ UNCHANGED <<hour, quiet, user, crossed>> /\ crossed[d] = FALSE
        /\ \A x \in Dispatches : Began(x)' = Began(x) /\ InQuiet(Began(x))' = InQuiet(Began(x))
    BY <1>1 DEF check_quiet_hours, Began, LocalHour, InQuiet
  <2>2. Began(d) = LocalHour(hour)
    BY <2>1 DEF Began
  <2>3. stage'[d] = IF /\ user.quiet_hours_enabled
                       /\ e \notin CRITICAL_EVENTS
                       /\ InQuiet(Began(d))
                    THEN "QUIET_HOURS" ELSE "dnd"
    BY <1>1, <2>2 DEF check_quiet_hours
  <2>4. event'[d] = e /\ \A x \in Dispatches \ {d} : stage'[x] = stage[x] /\ event'[x] = event[x]
    BY <1>1 DEF check_quiet_hours
  <2> QED
    BY <2>1, <2>3, <2>4
<1>2. ASSUME \/ check_dnd(d) \/ _query_dnd_registry(d) \/ QueryFails(d) \/ FillCache(d)
      PROVE  QuietInv'
  <2>1. /\ UNCHANGED <<hour, quiet, user, crossed, event>>
        /\ \A x \in Dispatches : Began(x)' = Began(x) /\ InQuiet(Began(x))' = InQuiet(Began(x))
    BY <1>2 DEF check_dnd, _query_dnd_registry, QueryFails, FillCache, Began, LocalHour, InQuiet
  <2>2. stage[d] \notin {"idle", "QUIET_HOURS"} /\ stage'[d] \notin {"idle", "QUIET_HOURS"}
    BY <1>2 DEF check_dnd, _query_dnd_registry, QueryFails, FillCache
  <2>3. \A x \in Dispatches \ {d} : stage'[x] = stage[x]
    BY <1>2 DEF check_dnd, _query_dnd_registry, QueryFails, FillCache
  <2> QED
    BY <2>1, <2>2, <2>3
<1>3. ASSUME Finish(d) \/ RedisFails(d)
      PROVE  QuietInv'
  <2>1. /\ UNCHANGED <<hour, quiet, user>>
        /\ stage'[d] = "idle" /\ crossed'[d] = FALSE
        /\ \A x \in Dispatches \ {d} :
              stage'[x] = stage[x] /\ event'[x] = event[x] /\ crossed'[x] = crossed[x]
    BY <1>3 DEF Finish, RedisFails
  <2>2. \A x \in Dispatches \ {d} : InQuiet(Began(x))' = InQuiet(Began(x))
    BY <2>1 DEF Began, LocalHour, InQuiet
  <2> QED
    BY <2>1, <2>2
<1> QED
  BY <1>1, <1>2, <1>3 DEF DispatchStep

\* The change of hour leaves the hour in which a dispatch began as it was.
LEMMA QuietTick ==
    ASSUME TypeOK, QuietInv, Tick
    PROVE  QuietInv'
<1>1. HoursPerDay \in Nat \ {0} /\ Zone \in Nat /\ hour \in 0..HoursPerDay - 1
  BY ComplianceAssumption DEF TypeOK, Hour
<1>2. LocalHour(hour' + HoursPerDay - 1) = LocalHour(hour)
  <2>1. CASE hour + 1 < HoursPerDay
    <3>1. hour' = hour + 1
      <4>1. hour + 1 \in Nat /\ hour + 1 < HoursPerDay + HoursPerDay
        BY <1>1, <2>1
      <4> QED
        BY <1>1, <2>1, <4>1, ModWithin DEF Tick
    <3>2. (hour' + HoursPerDay - 1) + Zone = (hour + Zone) + HoursPerDay /\ hour + Zone \in Nat
      BY <1>1, <3>1
    <3> QED
      BY <1>1, <3>2, ModDay DEF LocalHour
  <2>2. CASE hour + 1 = HoursPerDay
    <3>1. hour + 1 \in Nat /\ hour + 1 >= HoursPerDay /\ hour + 1 < HoursPerDay + HoursPerDay
      BY <1>1, <2>2
    <3>2. hour' = (hour + 1) - HoursPerDay
      BY <1>1, <3>1, ModWithin DEF Tick
    <3>3. hour' + HoursPerDay - 1 = hour
      BY <1>1, <2>2, <3>2
    <3> QED
      BY <3>3 DEF LocalHour
  <2> QED
    BY <1>1, <2>1, <2>2
<1>3. ASSUME NEW d \in Dispatches, stage[d] # "idle"
      PROVE  InQuiet(Began(d))' = InQuiet(Began(d))
  <2>1. ~crossed[d] /\ crossed'[d] /\ UNCHANGED quiet
    BY <1>3 DEF Tick, TypeOK
  <2>2. Began(d)' = LocalHour(hour' + HoursPerDay - 1) /\ Began(d) = LocalHour(hour)
    BY <2>1 DEF Began, LocalHour
  <2> QED
    BY <1>2, <2>1, <2>2 DEF InQuiet
<1>4. /\ UNCHANGED <<stage, event, user>>
      /\ \A d \in Dispatches : stage[d] = "idle" => crossed'[d] = FALSE
  BY DEF Tick
<1> QED
  BY <1>3, <1>4 DEF QuietInv

LEMMA QuietStep == Inv /\ QuietInv /\ [Next]_vars => QuietInv'
<1> SUFFICES ASSUME TypeOK, QuietInv, [Next]_vars
             PROVE  QuietInv'
  BY DEF Inv
<1>1. CASE RegistryChanges \/ FlushCache \/ UNCHANGED vars
  <2>1. UNCHANGED <<hour, quiet, user, stage, event, crossed>>
    BY <1>1 DEF RegistryChanges, FlushCache, vars, source, dispatch
  <2> QED
    BY <2>1 DEF QuietInv, Began, LocalHour, InQuiet
<1> QED
  BY <1>1, QuietDispatch, QuietTick DEF Next

\* check_quiet_hours stops a dispatch exactly when it began within the user's
\* enabled quiet hours, for every window (empty ones and those that wrap midnight),
\* timezone and length of day, and never one for a critical event.
THEOREM QuietHoursAreKept == Spec => []QuietHoursKept
<1>1. Inv /\ QuietInv => QuietHoursKept
  <2> SUFFICES ASSUME TypeOK, QuietInv, NEW d \in Dispatches, stage[d] # "idle"
               PROVE  stage[d] = "QUIET_HOURS"
                        <=> /\ user.quiet_hours_enabled
                            /\ event[d] \notin CRITICAL_EVENTS
                            /\ Began(d) \in QuietHours
    BY DEF QuietHoursKept, Inv
  <2>1. Began(d) \in Hour
    <3>1. hour \in Nat /\ hour + HoursPerDay - 1 \in Nat
      BY ComplianceAssumption DEF TypeOK, Hour
    <3> QED
      BY <3>1, LocalHours DEF Began
  <2>2. InQuiet(Began(d)) <=> Began(d) \in QuietHours
    BY <2>1, WindowsAgree DEF TypeOK
  <2> QED
    BY <2>2 DEF QuietInv
<1> QED
  BY <1>1, InvAlways, QuietInit, QuietStep, PTL DEF Spec

-----------------------------------------------------------------------------
(* Templates                                                               *)

\* What an administrator's request may be.
Creates == [op : {"create"}, key : Keys]
Updates == [op : {"update"}, key : Keys, number : Nat, to : {"active", "inactive"}]
Deletes == [op : {"delete"}, key : Keys, number : Nat]

TemplatesTypes ==
    /\ TemplatesTypeOK
    /\ pending \in [Replicas -> SUBSET Keys]
    /\ req \in [Admins -> {Idle} \cup Creates \cup Updates \cup Deletes]

\* Nobody missed a default: with the templates of the first set in service,
\* and the English ones of the second taken out.
Served(k, on, out) == k \in on \/ English(k) \in on \/ English(k) \in out

Active == {k \in Keys : row[k] = "active"}
Seen(r) == Active \cup pending[r]

\* A localised template of an event with a default has its reason.
InGap(k) == k # English(k) /\ English(k) \in Range(Defaults) => English(k) \in gap

\* A seeding replica has served all the defaults it has passed, and what it
\* found missing or inserted has its reason.
ScannedInv ==
    \A r \in Replicas : replica[r] = "seeding" =>
        \A i \in 1..pos[r] - 1 : Served(Defaults[i], Seen(r), gap)

MissingInv ==
    \A r \in Replicas : missing[r] =>
        /\ replica[r] = "seeding"
        /\ pos[r] \in DOMAIN Defaults
        /\ InGap(Defaults[pos[r]])

PendingInv == \A r \in Replicas : \A k \in pending[r] : InGap(k)

CreateInv == \A a \in Admins : req[a].op = "create" => InGap(req[a].key)

LocalisedInv == \A k \in Keys : row[k] # "none" => InGap(k)

TemplatesInv ==
    /\ TemplatesTypes
    /\ ScannedInv
    /\ MissingInv
    /\ PendingInv
    /\ CreateInv
    /\ LocalisedInv
    /\ ReadyMeansResolvable

LEMMA EnglishTwice == \A k : English(English(k)) = English(k)
  BY DEF English

LEMMA DefaultKeys ==
    /\ Len(Defaults) \in Nat
    /\ DOMAIN Defaults = 1..Len(Defaults)
    /\ \A i \in DOMAIN Defaults : Defaults[i] \in Range(Defaults)
    /\ Range(Defaults) \subseteq Keys
    /\ \A k \in Keys : English(k) \in Keys
    /\ \A k \in Range(Defaults) : English(k) \in Range(Defaults)
<1>1. /\ Len(Defaults) \in Nat
      /\ DOMAIN Defaults = 1..Len(Defaults)
      /\ \A i \in DOMAIN Defaults : Defaults[i] \in Keys
  BY TemplatesAssumption
<1>2. /\ \A i \in DOMAIN Defaults : Defaults[i] \in Range(Defaults)
      /\ \A k \in Range(Defaults) : \E i \in DOMAIN Defaults : k = Defaults[i]
  BY DEF Range
<1>3. ASSUME NEW i \in DOMAIN Defaults
      PROVE  English(Defaults[i]) \in Range(Defaults)
  <2>1. CASE Defaults[i] = English(Defaults[i])
    BY <1>2, <2>1
  <2>2. CASE Defaults[i] # English(Defaults[i])
    <3>1. PICK j \in 1..i - 1 : Defaults[j] = English(Defaults[i])
      BY <2>2, TemplatesAssumption
    <3>2. j \in DOMAIN Defaults
      BY <1>1, <3>1
    <3> QED
      BY <1>2, <3>1, <3>2
  <2> QED
    BY <2>1, <2>2
<1> QED
  BY <1>1, <1>2, <1>3, TemplatesAssumption

\* What was served is served as long as templates only go with their reason.
LEMMA ServedKept ==
    ASSUME NEW k, NEW on, NEW out, NEW on2, NEW out2, Served(k, on, out), out \subseteq out2,
           k \in Range(Defaults),
           \A j \in on \ on2 : /\ j \in out2
                               /\ j # English(j) /\ English(j) \in Range(Defaults)
                                     => English(j) \in out2
    PROVE  Served(k, on2, out2)
<1>1. English(k) \in Range(Defaults)
  BY DefaultKeys
<1>2. CASE k \in on
  BY <1>1, <1>2 DEF Served
<1>3. CASE English(k) \in on
  BY <1>3 DEF Served
<1>4. CASE English(k) \in out
  BY <1>4 DEF Served
<1> QED
  BY <1>2, <1>3, <1>4 DEF Served

LEMMA ReadyServes ==
    ReadyMeansResolvable <=>
        ((\E r \in Replicas : replica[r] = "ready") =>
            \A k \in Range(Defaults) : Served(k, Active, gap))
<1>1. \A k \in Range(Defaults) : Resolves(k) <=> k \in Active \/ English(k) \in Active
  BY DefaultKeys DEF Resolves, get_by_event_channel_locale, Visible, Active
<1> QED
  BY <1>1 DEF ReadyMeansResolvable, Served

\* A lookup that finds nothing finds no English template either.
LEMMA NothingFound ==
    ASSUME NEW k, NEW own, get_by_event_channel_locale(k, own) = {}
    PROVE  ~Visible(k, own) /\ ~Visible(English(k), own)
  BY DEF get_by_event_channel_locale

LEMMA TemplatesInvInit == TemplatesInit => TemplatesInv
<1> SUFFICES ASSUME TemplatesInit
             PROVE  TemplatesInv
  OBVIOUS
<1> USE TemplatesAssumption, DefaultKeys
<1>1. TemplatesTypes
  BY DEF TemplatesInit, TemplatesTypes, TemplatesTypeOK
<1>2. ScannedInv /\ MissingInv /\ PendingInv
  BY DEF TemplatesInit, ScannedInv, MissingInv, PendingInv
<1>3. CreateInv
  BY DEF TemplatesInit, CreateInv, Idle
<1>4. LocalisedInv /\ ReadyMeansResolvable
  BY DEF TemplatesInit, LocalisedInv, ReadyMeansResolvable
<1> QED
  BY <1>1, <1>2, <1>3, <1>4 DEF TemplatesInv

-----------------------------------------------------------------------------
(* Types                                                                   *)

LEMMA SeedTypes ==
    ASSUME TemplatesTypes, MissingInv, NEW r \in Replicas, Seed(r) \/ Crash(r)
    PROVE  TemplatesTypes'
<1> USE TemplatesAssumption, DefaultKeys
<1>0. /\ row \in [Keys -> {"none", "active", "inactive"}]
      /\ number \in [Keys -> Nat]
      /\ replica \in [Replicas -> {"down", "loading", "seeding", "ready"}]
      /\ pos \in [Replicas -> 1..Len(Defaults) + 1]
      /\ missing \in [Replicas -> BOOLEAN]
      /\ pending \in [Replicas -> SUBSET Keys]
      /\ \A s \in Replicas :
            /\ pending[s] \subseteq Range(Defaults)
            /\ pending[s] # {} => replica[s] = "seeding"
            /\ \A k \in pending[s] :
                  row[k] = "none" /\ \A t \in Replicas \ {s} : k \notin pending[t]
      /\ spent \in 0..MaxRequests
      /\ crashes \in 0..MaxCrashes
      /\ gap \subseteq Keys
      /\ req \in [Admins -> {Idle} \cup Creates \cup Updates \cup Deletes]
  BY DEF TemplatesTypes, TemplatesTypeOK
<1> USE DEF TemplatesTypes, TemplatesTypeOK, table
<1>1. CASE Fork(r)
  BY <1>0, <1>1 DEF Fork
<1>4. ASSUME Halt, pos' \in [Replicas -> 1..Len(Defaults) + 1], crashes' \in 0..MaxCrashes,
             UNCHANGED <<table, req, spent, gap>>
      PROVE  TemplatesTypes'
  BY <1>0, <1>4 DEF Halt
<1>8. CASE lifespan(r)
  <2>1. CASE Importable
    <3>1. /\ replica' = [replica EXCEPT ![r] = "seeding"] /\ replica[r] = "loading"
          /\ pos' = [pos EXCEPT ![r] = 1]
          /\ UNCHANGED <<missing, pending, req, spent, crashes, gap, row, number>>
      BY <1>8, <2>1 DEF lifespan
    <3>2. pos' \in [Replicas -> 1..Len(Defaults) + 1]
      <4> DEFINE P == 1..Len(Defaults) + 1
      <4>1. pos \in [Replicas -> P] /\ 1 \in P
        BY <1>0
      <4> HIDE DEF P
      <4>2. pos' \in [Replicas -> P]
        BY ONLY <3>1, <4>1
      <4> QED
        BY <4>2 DEF P
    <3> QED
      BY <1>0, <3>1, <3>2
  <2>2. CASE ~Importable
    BY <1>0, <1>4, <1>8, <2>2 DEF lifespan
  <2> QED
    BY <2>1, <2>2
<1>2. CASE SeedLookup(r)
  <2>1. pos[r] + 1 \in 1..Len(Defaults) + 1
    BY <1>0, <1>2 DEF SeedLookup
  <2>2. pos' \in [Replicas -> 1..Len(Defaults) + 1]
    <3>1. pos' = [pos EXCEPT ![r] = pos[r] + 1] \/ pos' = pos
      BY <1>2 DEF SeedLookup
    <3> DEFINE P == 1..Len(Defaults) + 1
    <3>2. pos \in [Replicas -> P] /\ pos[r] + 1 \in P
      BY <1>0, <2>1
    <3> HIDE DEF P
    <3>3. pos' \in [Replicas -> P]
      BY ONLY <3>1, <3>2
    <3> QED
      BY <3>3 DEF P
  <2>3. missing' = [missing EXCEPT ![r] = TRUE] \/ missing' = missing
    BY <1>2 DEF SeedLookup
  <2>4. missing' \in [Replicas -> BOOLEAN]
    BY <1>0, <2>3
  <2> QED
    BY <1>0, <1>2, <2>2, <2>4 DEF SeedLookup
<1>3. CASE SeedCreate(r)
  <2> DEFINE k == Defaults[pos[r]]
  <2>1. k \in Range(Defaults) /\ k \in Keys /\ pos[r] + 1 \in 1..Len(Defaults) + 1
    BY <1>0, <1>3 DEF SeedCreate, MissingInv
  <2>2. row[k] = "none" /\ \A s \in Replicas \ {r} : k \notin pending[s]
    BY <1>3 DEF SeedCreate, Locked
  <2>3. pending' = [pending EXCEPT ![r] = @ \cup {k}]
    BY <1>3 DEF SeedCreate
  <2> HIDE DEF k
  <2>4. /\ pending'[r] = pending[r] \cup {k}
        /\ \A s \in Replicas \ {r} : pending'[s] = pending[s]
        /\ pending' \in [Replicas -> SUBSET Keys]
    BY <1>0, <2>1, <2>3
  <2>5. /\ pos' \in [Replicas -> 1..Len(Defaults) + 1]
        /\ missing' \in [Replicas -> BOOLEAN]
        /\ replica[r] = "seeding"
        /\ UNCHANGED <<table, replica, req, spent, crashes, gap>>
    BY <1>0, <1>3, <2>1 DEF SeedCreate
  <2>6. ASSUME NEW s \in Replicas
        PROVE  /\ pending'[s] \subseteq Range(Defaults)
               /\ pending'[s] # {} => replica[s] = "seeding"
               /\ \A j \in pending'[s] :
                     row[j] = "none" /\ \A t \in Replicas \ {s} : j \notin pending'[t]
    <3>1. CASE s = r
      BY <1>0, <2>1, <2>2, <2>4, <2>5, <3>1
    <3>2. CASE s # r
      <4>1. pending'[s] = pending[s] /\ k \notin pending[s]
        BY <2>2, <2>4, <3>2
      <4>2. ASSUME NEW j \in pending[s], NEW t \in Replicas \ {s}
            PROVE  row[j] = "none" /\ j \notin pending'[t]
        <5>1. row[j] = "none" /\ j \notin pending[t] /\ j # k
          BY <1>0, <4>1
        <5>2. pending'[t] \subseteq pending[t] \cup {k}
          BY <2>4
        <5> QED
          BY <5>1, <5>2
      <4>3. \A j \in pending[s] : row[j] = "none"
        BY <1>0
      <4> QED
        BY <1>0, <4>1, <4>2, <4>3
    <3> QED
      BY <3>1, <3>2
  <2> QED
    BY <1>0, <2>4, <2>5, <2>6
<1>5. CASE SeedFails(r)
  BY <1>0, <1>4, <1>5 DEF SeedFails
<1>6. CASE Crash(r)
  <2>1. crashes' \in 0..MaxCrashes /\ pos' = pos /\ UNCHANGED <<table, req, spent, gap>>
    BY <1>0, <1>6 DEF Crash
  <2>2. CASE RollBack(r)
    BY <1>0, <2>1, <2>2 DEF RollBack
  <2>3. CASE Halt
    BY <1>0, <1>4, <2>1, <2>3
  <2> QED
    BY <1>6, <2>2, <2>3 DEF Crash
<1>7. CASE SeedCommit(r)
  <2>1. /\ row' = [k \in Keys |-> IF k \in pending[r] THEN "active" ELSE row[k]]
        /\ number' = [k \in Keys |-> IF k \in pending[r] THEN number[k] + 1 ELSE number[k]]
        /\ pending' = [pending EXCEPT ![r] = {}]
        /\ replica' = [replica EXCEPT ![r] = "ready"]
        /\ UNCHANGED <<pos, missing, req, spent, crashes, gap>>
    BY <1>7 DEF SeedCommit
  <2>2. row' \in [Keys -> {"none", "active", "inactive"}] /\ number' \in [Keys -> Nat]
    BY <1>0, <2>1
  <2>3. /\ pending'[r] = {} /\ \A s \in Replicas \ {r} : pending'[s] = pending[s]
        /\ pending' \in [Replicas -> SUBSET Keys]
    BY <1>0, <2>1
  <2>4. \A s \in Replicas : \A k \in pending'[s] :
            row'[k] = "none" /\ \A t \in Replicas \ {s} : k \notin pending'[t]
    BY <1>0, <2>1, <2>3
  <2> QED
    BY <1>0, <2>1, <2>2, <2>3, <2>4
<1> QED
  BY <1>1, <1>2, <1>3, <1>5, <1>6, <1>7, <1>8 DEF Seed

LEMMA BeginTypes ==
    ASSUME TemplatesTypes, NEW a \in Admins,
           NEW q \in Creates \cup Updates \cup Deletes, Begin(a, q)
    PROVE  TemplatesTypes' /\ req' = [req EXCEPT ![a] = q]
<1>1. spent' \in 0..MaxRequests
  BY TemplatesAssumption DEF Begin, TemplatesTypes, TemplatesTypeOK
<1> QED
  BY <1>1 DEF Begin, TemplatesTypes, TemplatesTypeOK, table, seeding

\* The row of one key changes.
LEMMA RowTypes ==
    ASSUME TemplatesTypes, NEW a \in Admins, NEW k \in Keys,
           NEW v \in {"none", "active", "inactive"}, NEW n \in Nat,
           \A r \in Replicas : k \notin pending[r],
           row' = [row EXCEPT ![k] = v], number' = [number EXCEPT ![k] = n],
           gap' \subseteq Keys, req' = [req EXCEPT ![a] = Idle],
           UNCHANGED <<seeding, spent, crashes>>
    PROVE  TemplatesTypes'
  BY DEF TemplatesTypes, TemplatesTypeOK, seeding

-----------------------------------------------------------------------------
(* Seeding                                                                 *)

LEMMA SeedingTypes ==
    ASSUME TemplatesTypes
    PROVE  /\ pos \in [Replicas -> Nat]
           /\ missing \in [Replicas -> BOOLEAN]
           /\ pending \in [Replicas -> SUBSET Keys]
<1>1. pos \in [Replicas -> 1..Len(Defaults) + 1]
  BY DEF TemplatesTypes, TemplatesTypeOK
<1>2. pos \in [Replicas -> Nat]
  BY <1>1, DefaultKeys
<1>3. missing \in [Replicas -> BOOLEAN] /\ pending \in [Replicas -> SUBSET Keys]
  BY DEF TemplatesTypes, TemplatesTypeOK
<1> QED
  BY <1>2, <1>3

\* A step of one replica that touches no table.
LEMMA ReplicaStep ==
    ASSUME TemplatesInv, TemplatesTypes', NEW r \in Replicas,
           UNCHANGED <<row, req, gap>>,
           \A s \in Replicas \ {r} :
              /\ replica'[s] = replica[s] /\ pos'[s] = pos[s]
              /\ missing'[s] = missing[s] /\ pending'[s] = pending[s],
           replica'[r] # "ready",
           replica'[r] = "seeding" =>
              \A i \in 1..pos'[r] - 1 : Served(Defaults[i], Active \cup pending'[r], gap),
           missing'[r] => /\ replica'[r] = "seeding"
                          /\ pos'[r] \in DOMAIN Defaults
                          /\ InGap(Defaults[pos'[r]]),
           \A k \in pending'[r] : InGap(k)
    PROVE  TemplatesInv'
<1> USE DEF TemplatesInv
<1>1. Active' = Active /\ \A k : InGap(k)' <=> InGap(k)
  BY DEF Active, InGap
<1>2. ScannedInv'
  <2> SUFFICES ASSUME NEW s \in Replicas, replica'[s] = "seeding", NEW i \in 1..pos'[s] - 1
               PROVE  Served(Defaults[i], Active \cup pending'[s], gap)
    BY <1>1 DEF ScannedInv, Seen
  <2>1. CASE s = r
    BY <2>1
  <2>2. CASE s # r
    BY <2>2 DEF ScannedInv, Seen
  <2> QED
    BY <2>1, <2>2
<1>3. MissingInv'
  <2> SUFFICES ASSUME NEW s \in Replicas, missing'[s]
               PROVE  /\ replica'[s] = "seeding" /\ pos'[s] \in DOMAIN Defaults
                      /\ InGap(Defaults[pos'[s]])
    BY <1>1 DEF MissingInv, InGap
  <2>1. CASE s = r
    BY <2>1
  <2>2. CASE s # r
    BY <2>2 DEF MissingInv
  <2> QED
    BY <2>1, <2>2
<1>4. PendingInv'
  BY <1>1 DEF PendingInv, InGap
<1>5. CreateInv'
  BY DEF CreateInv, InGap
<1>6. LocalisedInv'
  BY <1>1 DEF LocalisedInv
<1>7. ReadyMeansResolvable'
  <2>1. (\E s \in Replicas : replica'[s] = "ready") => \E s \in Replicas : replica[s] = "ready"
    OBVIOUS
  <2> QED
    BY <2>1 DEF ReadyMeansResolvable, Resolves, get_by_event_channel_locale, Visible
<1> QED
  BY <1>2, <1>3, <1>4, <1>5, <1>6, <1>7

LEMMA LookupInv ==
    ASSUME TemplatesInv, NEW r \in Replicas, SeedLookup(r)
    PROVE  TemplatesInv'
<1> USE DefaultKeys DEF TemplatesInv
<1> DEFINE k == Defaults[pos[r]]
<1>0. TemplatesTypes'
  BY SeedTypes DEF Seed
<1>1. /\ replica[r] = "seeding" /\ pos[r] \in DOMAIN Defaults /\ pos[r] \in Nat
      /\ k \in Range(Defaults) /\ k \in Keys /\ pending[r] \subseteq Keys
      /\ UNCHANGED <<row, req, gap>> /\ UNCHANGED <<replica, pending>>
  BY DEF SeedLookup, TemplatesTypes, TemplatesTypeOK, table
<1>2. /\ pos \in [Replicas -> Nat] /\ missing \in [Replicas -> BOOLEAN]
      /\ \A i \in 1..pos[r] - 1 : Served(Defaults[i], Active \cup pending[r], gap)
      /\ \A j \in pending[r] : InGap(j)
  BY <1>1, SeedingTypes DEF ScannedInv, Seen, PendingInv
<1>3. CASE get_by_event_channel_locale(k, pending[r]) = {}
  <2>1. missing' = [missing EXCEPT ![r] = TRUE] /\ pos' = pos
    BY <1>3 DEF SeedLookup
  <2>2. InGap(k)
    <3> SUFFICES ASSUME k # English(k)
                 PROVE  English(k) \in gap
      BY DEF InGap
    <3>1. PICK j \in 1..pos[r] - 1 : Defaults[j] = English(k)
      BY <1>1, TemplatesAssumption
    <3>2. Served(English(k), Active \cup pending[r], gap)
      BY <1>2, <3>1
    <3>3. English(k) \notin Active \cup pending[r]
      BY <1>3, NothingFound DEF Visible, Active
    <3> QED
      BY <3>2, <3>3, EnglishTwice DEF Served
  <2> HIDE DEF k
  <2>3. \A s \in Replicas \ {r} : missing'[s] = missing[s] /\ pos'[s] = pos[s]
    BY <1>2, <2>1
  <2> QED
    BY <1>0, <1>1, <1>2, <2>1, <2>2, <2>3, ReplicaStep DEF k
<1>4. CASE get_by_event_channel_locale(k, pending[r]) # {}
  <2>1. missing' = missing /\ pos' = [pos EXCEPT ![r] = @ + 1] /\ missing[r] # TRUE
    BY <1>4 DEF SeedLookup
  <2>2. Served(k, Active \cup pending[r], gap)
    BY <1>1, <1>4 DEF get_by_event_channel_locale, Visible, Served, Active
  <2>3. /\ pos'[r] = pos[r] + 1
        /\ \A s \in Replicas \ {r} : missing'[s] = missing[s] /\ pos'[s] = pos[s]
    BY <1>2, <2>1
  <2>4. \A i \in 1..pos'[r] - 1 : i = pos[r] \/ i \in 1..pos[r] - 1
    BY <1>1, <2>3
  <2>5. \A i \in 1..pos'[r] - 1 : Served(Defaults[i], Active \cup pending[r], gap)
    BY <1>2, <2>2, <2>4
  <2>6. ~missing'[r]
    BY <2>1 DEF SeedLookup
  <2> QED
    BY <1>0, <1>1, <1>2, <2>3, <2>5, <2>6, ReplicaStep
<1> QED
  BY <1>3, <1>4

LEMMA CreateMissingInv ==
    ASSUME TemplatesInv, NEW r \in Replicas, SeedCreate(r)
    PROVE  TemplatesInv'
<1> USE DefaultKeys DEF TemplatesInv
<1> DEFINE k == Defaults[pos[r]]
<1>0. TemplatesTypes'
  BY SeedTypes DEF Seed
<1>1. /\ replica[r] = "seeding" /\ pos[r] \in DOMAIN Defaults /\ pos[r] \in Nat /\ InGap(k)
      /\ UNCHANGED <<row, req, gap>> /\ UNCHANGED replica
      /\ pending' = [pending EXCEPT ![r] = @ \cup {k}]
      /\ missing' = [missing EXCEPT ![r] = FALSE]
      /\ pos' = [pos EXCEPT ![r] = @ + 1]
  BY DEF SeedCreate, MissingInv, table
<1>2. /\ pos \in [Replicas -> Nat] /\ missing \in [Replicas -> BOOLEAN]
      /\ pending \in [Replicas -> SUBSET Keys]
      /\ \A i \in 1..pos[r] - 1 : Served(Defaults[i], Active \cup pending[r], gap)
      /\ \A j \in pending[r] : InGap(j)
  BY <1>1, SeedingTypes DEF ScannedInv, Seen, PendingInv
<1>3. /\ pending'[r] = pending[r] \cup {k} /\ pos'[r] = pos[r] + 1
      /\ \A s \in Replicas \ {r} : pos'[s] = pos[s] /\ pending'[s] = pending[s]
  BY <1>1, <1>2
<1>4. /\ ~missing'[r]
      /\ \A s \in Replicas \ {r} : missing'[s] = missing[s]
  BY <1>1, <1>2
<1>5. \A i \in 1..pos'[r] - 1 : i = pos[r] \/ i \in 1..pos[r] - 1
  BY <1>1, <1>3
<1>6. \A i \in 1..pos'[r] - 1 : Served(Defaults[i], Active \cup pending'[r], gap)
  BY <1>2, <1>3, <1>5 DEF Served
<1>7. \A j \in pending'[r] : InGap(j)
  BY <1>1, <1>2, <1>3
<1> HIDE DEF k, TemplatesInv
<1> QED
  BY <1>0, <1>1, <1>3, <1>4, <1>6, <1>7, ReplicaStep

\* All workers end, without a trace in the table.
LEMMA HaltInv ==
    ASSUME TemplatesInv, TemplatesTypes', Halt, UNCHANGED <<row, req, gap>>
    PROVE  TemplatesInv'
<1>1. \A r \in Replicas : replica'[r] = "down" /\ ~missing'[r] /\ pending'[r] = {}
  BY DEF Halt
<1>2. ScannedInv' /\ MissingInv' /\ PendingInv' /\ ReadyMeansResolvable'
  BY <1>1 DEF ScannedInv, MissingInv, PendingInv, ReadyMeansResolvable
<1>3. CreateInv' /\ LocalisedInv'
  BY DEF TemplatesInv, CreateInv, LocalisedInv, InGap
<1> QED
  BY <1>2, <1>3 DEF TemplatesInv

\* A replica that does not seed has nothing looked up and nothing inserted.
LEMMA NotSeeding ==
    ASSUME TemplatesInv, NEW r \in Replicas, replica[r] # "seeding"
    PROVE  ~missing[r] /\ pending[r] = {}
  BY DEF TemplatesInv, TemplatesTypes, TemplatesTypeOK, MissingInv

LEMMA ForkInv ==
    ASSUME TemplatesInv, NEW r \in Replicas, Fork(r)
    PROVE  TemplatesInv'
<1>0. TemplatesTypes'
  BY SeedTypes DEF Seed, TemplatesInv
<1>1. /\ replica \in [Replicas -> {"down", "loading", "seeding", "ready"}]
      /\ replica' = [replica EXCEPT ![r] = "loading"] /\ replica[r] = "down"
      /\ UNCHANGED <<row, req, gap>> /\ UNCHANGED <<pos, missing, pending>>
  BY DEF Fork, TemplatesInv, TemplatesTypes, TemplatesTypeOK, table
<1>2. ~missing'[r] /\ pending'[r] = {}
  BY <1>1, NotSeeding
<1>3. /\ replica'[r] = "loading"
      /\ \A s \in Replicas \ {r} : replica'[s] = replica[s]
  BY <1>1
<1> QED
  BY <1>0, <1>1, <1>2, <1>3, ReplicaStep

LEMMA LifespanInv ==
    ASSUME TemplatesInv, NEW r \in Replicas, lifespan(r)
    PROVE  TemplatesInv'
<1>0. TemplatesTypes'
  BY SeedTypes DEF Seed, TemplatesInv
<1>1. replica[r] = "loading" /\ UNCHANGED <<row, req, gap>>
  BY DEF lifespan, table
<1>2. CASE Importable
  <2>1. /\ replica \in [Replicas -> {"down", "loading", "seeding", "ready"}]
        /\ pos \in [Replicas -> Nat]
        /\ replica' = [replica EXCEPT ![r] = "seeding"]
        /\ pos' = [pos EXCEPT ![r] = 1]
        /\ UNCHANGED <<missing, pending>>
    BY <1>2, SeedingTypes DEF lifespan, TemplatesInv, TemplatesTypes, TemplatesTypeOK
  <2>2. ~missing'[r] /\ pending'[r] = {}
    BY <1>1, <2>1, NotSeeding
  <2>3. /\ pos'[r] = 1 /\ replica'[r] # "ready"
        /\ \A s \in Replicas \ {r} : replica'[s] = replica[s] /\ pos'[s] = pos[s]
    BY <2>1
  <2>4. \A i \in 1..pos'[r] - 1 : Served(Defaults[i], Active \cup pending'[r], gap)
    BY <2>3
  <2> QED
    BY <1>0, <1>1, <2>1, <2>2, <2>3, <2>4, ReplicaStep
<1>3. CASE ~Importable
  BY <1>0, <1>1, <1>3, HaltInv DEF lifespan
<1> QED
  BY <1>2, <1>3

\* A worker that is killed.
LEMMA RollBackInv ==
    ASSUME TemplatesInv, TemplatesTypes', NEW r \in Replicas, RollBack(r),
           UNCHANGED <<row, pos, req, gap>>
    PROVE  TemplatesInv'
<1>1. /\ replica \in [Replicas -> {"down", "loading", "seeding", "ready"}]
      /\ missing \in [Replicas -> BOOLEAN] /\ pending \in [Replicas -> SUBSET Keys]
  BY SeedingTypes DEF TemplatesInv, TemplatesTypes, TemplatesTypeOK
<1>2. /\ replica'[r] = "down" /\ pending'[r] = {}
      /\ \A s \in Replicas \ {r} : replica'[s] = replica[s] /\ pending'[s] = pending[s]
  BY <1>1 DEF RollBack
<1>3. ~missing'[r] /\ \A s \in Replicas \ {r} : missing'[s] = missing[s]
  BY <1>1 DEF RollBack
<1> QED
  BY <1>2, <1>3, ReplicaStep

LEMMA CommitInv ==
    ASSUME TemplatesInv, NEW r \in Replicas, SeedCommit(r)
    PROVE  TemplatesInv'
<1> USE DefaultKeys DEF TemplatesInv
<1>0. TemplatesTypes'
  BY SeedTypes DEF Seed
<1>1. /\ replica \in [Replicas -> {"down", "loading", "seeding", "ready"}]
      /\ pos \in [Replicas -> Nat] /\ pending \in [Replicas -> SUBSET Keys]
      /\ row' = [k \in Keys |-> IF k \in pending[r] THEN "active" ELSE row[k]]
      /\ pending' = [pending EXCEPT ![r] = {}]
      /\ replica' = [replica EXCEPT ![r] = "ready"]
      /\ UNCHANGED <<pos, missing>> /\ UNCHANGED <<req, gap>>
      /\ replica[r] = "seeding" /\ pos[r] > Len(Defaults)
  BY SeedingTypes DEF SeedCommit, TemplatesTypes, TemplatesTypeOK
<1>2. /\ pending'[r] = {} /\ replica'[r] = "ready"
      /\ \A s \in Replicas \ {r} : pending'[s] = pending[s] /\ replica'[s] = replica[s]
  BY <1>1
<1>3. Active' = Active \cup pending[r] /\ \A k : InGap(k)' <=> InGap(k)
  BY <1>1 DEF Active, InGap
<1>4. ScannedInv'
  <2> SUFFICES ASSUME NEW s \in Replicas \ {r}, replica[s] = "seeding", NEW i \in 1..pos[s] - 1
               PROVE  Served(Defaults[i], Active' \cup pending[s], gap)
    BY <1>1, <1>2 DEF ScannedInv, Seen
  <2>1. Served(Defaults[i], Active \cup pending[s], gap)
    BY DEF ScannedInv, Seen
  <2> QED
    BY <1>3, <2>1 DEF Served
<1>5. MissingInv'
  <2>1. ~missing[r]
    BY <1>1 DEF MissingInv
  <2> QED
    BY <1>1, <1>2, <2>1 DEF MissingInv, InGap
<1>6. PendingInv'
  BY <1>1, <1>2 DEF PendingInv, InGap
<1>7. CreateInv'
  BY <1>1 DEF CreateInv, InGap
<1>8. LocalisedInv'
  <2> SUFFICES ASSUME NEW k \in Keys, row'[k] # "none"
               PROVE  InGap(k)
    BY <1>1 DEF LocalisedInv, InGap
  <2>1. CASE k \in pending[r]
    BY <2>1 DEF PendingInv
  <2>2. CASE k \notin pending[r]
    BY <1>1, <2>2 DEF LocalisedInv
  <2> QED
    BY <2>1, <2>2
<1>9. ReadyMeansResolvable'
  <2>1. ASSUME NEW k \in Range(Defaults)
        PROVE  Served(k, Active', gap)
    <3>1. PICK i \in DOMAIN Defaults : k = Defaults[i]
      BY DEF Range
    <3>2. i \in 1..pos[r] - 1
      BY <1>1, <3>1
    <3> QED
      BY <1>1, <1>3, <3>1, <3>2 DEF ScannedInv, Seen
  <2>2. \A k \in Range(Defaults) : Resolves(k)' <=> k \in Active' \/ English(k) \in Active'
    BY DEF Resolves, get_by_event_channel_locale, Visible, Active
  <2> QED
    BY <1>1, <2>1, <2>2 DEF ReadyMeansResolvable, Served
<1> QED
  BY <1>0, <1>4, <1>5, <1>6, <1>7, <1>8, <1>9

-----------------------------------------------------------------------------
(* Administrators                                                          *)

LEMMA BeginInv ==
    ASSUME TemplatesInv, NEW a \in Admins, NEW q \in Creates \cup Updates \cup Deletes,
           Begin(a, q), q.op = "create" => InGap(q.key)
    PROVE  TemplatesInv'
<1> USE DEF TemplatesInv
<1>1. TemplatesTypes' /\ req' = [req EXCEPT ![a] = q]
  BY BeginTypes
<1>2. UNCHANGED <<row, gap>> /\ UNCHANGED <<replica, pos, missing, pending>>
  BY DEF Begin, table, seeding
<1>3. \A b \in Admins : req'[b] = IF b = a THEN q ELSE req[b]
  BY <1>1 DEF TemplatesTypes
<1>4. ScannedInv' /\ MissingInv' /\ PendingInv'
  BY <1>2 DEF ScannedInv, MissingInv, PendingInv, InGap, Seen, Active
<1>5. CreateInv'
  BY <1>2, <1>3 DEF CreateInv, InGap
<1>6. LocalisedInv' /\ ReadyMeansResolvable'
  BY <1>2 DEF LocalisedInv, InGap, ReadyMeansResolvable, Resolves,
              get_by_event_channel_locale, Visible
<1> QED
  BY <1>1, <1>4, <1>5, <1>6

\* A commit that changes the row of one key at most.
LEMMA RowStep ==
    ASSUME TemplatesInv, TemplatesTypes', NEW a \in Admins, NEW k \in Keys,
           \A j \in Keys \ {k} : row'[j] = row[j],
           gap \subseteq gap',
           row[k] = "active" /\ row'[k] # "active" => k \in gap',
           row'[k] # "none" => row[k] # "none" \/ InGap(k),
           req' = [req EXCEPT ![a] = Idle],
           UNCHANGED <<replica, pos, missing, pending>>
    PROVE  TemplatesInv'
<1> USE DefaultKeys DEF TemplatesInv
<1>1. \A j : InGap(j) => InGap(j)'
  BY DEF InGap
<1>2. \A j \in Keys : row[j] # "none" => InGap(j)
  BY DEF LocalisedInv, InGap
<1>3. \A j \in Active \ Active' :
        /\ j \in gap'
        /\ j # English(j) /\ English(j) \in Range(Defaults) => English(j) \in gap'
  BY <1>2 DEF Active, InGap
<1>4. ASSUME NEW j \in Range(Defaults), NEW own, Served(j, Active \cup own, gap)
      PROVE  Served(j, Active' \cup own, gap')
  <2> DEFINE on == Active \cup own
             on2 == Active' \cup own
             out2 == gap'
  <2>1. \A i \in on \ on2 : /\ i \in out2
                            /\ i # English(i) /\ English(i) \in Range(Defaults)
                                  => English(i) \in out2
    BY <1>3
  <2>2. gap \subseteq out2 /\ Served(j, on, gap)
    BY <1>4
  <2> HIDE DEF on, on2, out2
  <2>3. Served(j, on2, out2)
    BY <2>1, <2>2, ServedKept
  <2> QED
    BY <2>3 DEF on2, out2
<1>5. ScannedInv'
  <2> SUFFICES ASSUME NEW s \in Replicas, replica[s] = "seeding", NEW i \in 1..pos[s] - 1
               PROVE  Served(Defaults[i], Active' \cup pending[s], gap')
    BY DEF ScannedInv, Seen
  <2>1. i \in DOMAIN Defaults
    <3>1. pos[s] \in 1..Len(Defaults) + 1
      BY DEF TemplatesTypes, TemplatesTypeOK
    <3> QED
      BY <3>1
  <2>2. Defaults[i] \in Range(Defaults) /\ Served(Defaults[i], Active \cup pending[s], gap)
    BY <2>1 DEF ScannedInv, Seen
  <2> QED
    BY <1>4, <2>2
<1>6. MissingInv' /\ PendingInv'
  BY <1>1 DEF MissingInv, PendingInv
<1>7. CreateInv'
  <2>1. \A b \in Admins : req'[b] = IF b = a THEN Idle ELSE req[b]
    BY DEF TemplatesTypes
  <2> QED
    BY <1>1, <2>1 DEF CreateInv, Idle
<1>8. LocalisedInv'
  <2>1. \A j \in Keys : row'[j] # "none" => InGap(j)
    BY <1>2
  <2> QED
    BY <1>1, <2>1 DEF LocalisedInv, InGap
<1>9. ReadyMeansResolvable'
  <2>1. (\E s \in Replicas : replica[s] = "ready") =>
            \A j \in Range(Defaults) : Served(j, Active', gap')
    <3>1. \A j \in Range(Defaults) : Served(j, Active, gap) => Served(j, Active', gap')
      <4> SUFFICES ASSUME NEW j \in Range(Defaults), Served(j, Active, gap)
                   PROVE  Served(j, Active', gap')
        OBVIOUS
      <4>1. Active \cup {} = Active /\ Active' \cup {} = Active'
        OBVIOUS
      <4>2. Served(j, Active \cup {}, gap)
        BY <4>1
      <4>3. Served(j, Active' \cup {}, gap')
        BY <1>4, <4>2
      <4> QED
        BY <4>1, <4>3
    <3> QED
      BY <3>1, ReadyServes
  <2>2. \A j \in Range(Defaults) : Resolves(j)' <=> j \in Active' \/ English(j) \in Active'
    BY DEF Resolves, get_by_event_channel_locale, Visible, Active
  <2> QED
    BY <2>1, <2>2 DEF ReadyMeansResolvable, Served
<1> QED
  BY <1>5, <1>6, <1>7, <1>8, <1>9

LEMMA RequestTypes ==
    ASSUME TemplatesTypes, NEW a \in Admins
    PROVE  /\ req[a].op = "create" => req[a].key \in Keys
           /\ req[a].op = "update" => /\ req[a].key \in Keys
                                      /\ req[a].to \in {"active", "inactive"}
           /\ req[a].op = "delete" => req[a].key \in Keys
<1>1. req[a] \in {Idle} \cup Creates \cup Updates \cup Deletes
  BY DEF TemplatesTypes
<1> QED
  BY <1>1 DEF Idle, Creates, Updates, Deletes

\* A commit that has no effect.
LEMMA NothingDone ==
    ASSUME TemplatesInv, NEW a \in Admins, NEW k \in Keys, req' = [req EXCEPT ![a] = Idle],
           UNCHANGED <<table, seeding, spent, crashes, gap>>
    PROVE  TemplatesInv'
<1>1. TemplatesTypes'
  BY DEF TemplatesInv, TemplatesTypes, TemplatesTypeOK, table, seeding
<1>2. UNCHANGED row /\ UNCHANGED gap /\ UNCHANGED <<replica, pos, missing, pending>>
  BY DEF table, seeding
<1> QED
  BY <1>1, <1>2, RowStep

\* A row that exists is not in anybody's transaction.
LEMMA RowsCommitted ==
    ASSUME TemplatesTypes, NEW k \in Keys, row[k] # "none"
    PROVE  \A r \in Replicas : k \notin pending[r]
  BY DEF TemplatesTypes, TemplatesTypeOK

LEMMA CreateTemplateInv ==
    ASSUME TemplatesInv, NEW a \in Admins, create_template(a)
    PROVE  TemplatesInv'
<1> DEFINE k == req[a].key
<1>1. /\ k \in Keys /\ InGap(k)
      /\ req' = [req EXCEPT ![a] = Idle]
      /\ UNCHANGED <<seeding, spent, crashes, gap>>
      /\ \A r \in Replicas : k \notin pending[r]
  BY RequestTypes DEF create_template, TemplatesInv, CreateInv
<1>2. CASE row[k] = "none"
  <2>1. row' = [row EXCEPT ![k] = "active"] /\ number' = [number EXCEPT ![k] = @ + 1]
    BY <1>2 DEF create_template
  <2> HIDE DEF k
  <2>2. /\ row \in [Keys -> {"none", "active", "inactive"}]
        /\ number[k] + 1 \in Nat /\ gap' \subseteq Keys
    BY <1>1 DEF TemplatesInv, TemplatesTypes, TemplatesTypeOK
  <2>3. PICK n \in Nat : n = number[k] + 1
    BY <2>2
  <2>4. number' = [number EXCEPT ![k] = n]
    BY <2>1, <2>3
  <2>5. TemplatesTypes'
    <3>1. PICK j \in Keys : j = k
      BY <1>1
    <3> QED
      BY <1>1, <2>1, <2>2, <2>4, <3>1, RowTypes DEF TemplatesInv
  <2>6. PICK j \in Keys : j = k
    BY <1>1
  <2>7. /\ \A i \in Keys \ {j} : row'[i] = row[i]
        /\ row[j] = "none" /\ InGap(j)
    BY <1>1, <1>2, <2>1, <2>2, <2>6 DEF k
  <2>8. UNCHANGED gap /\ UNCHANGED <<replica, pos, missing, pending>>
    BY <1>1 DEF seeding
  <2> QED
    BY <1>1, <2>5, <2>7, <2>8, RowStep
<1>3. CASE row[k] # "none"
  <2>1. UNCHANGED table
    BY <1>3 DEF create_template
  <2> QED
    BY <1>1, <2>1, NothingDone
<1> QED
  BY <1>2, <1>3

\* An administrator takes a row away or changes whether it is in service.
LEMMA ChangeInv ==
    ASSUME TemplatesInv, NEW a \in Admins, NEW k \in Keys,
           NEW v \in {"none", "active", "inactive"}, row[k] # "none",
           row' = [row EXCEPT ![k] = v],
           gap' = IF v = "active" THEN gap ELSE gap \cup {k},
           req' = [req EXCEPT ![a] = Idle],
           UNCHANGED <<number, seeding, spent, crashes>>
    PROVE  TemplatesInv'
<1>1. /\ row \in [Keys -> {"none", "active", "inactive"}]
      /\ number \in [Keys -> Nat] /\ gap \subseteq Keys
  BY DEF TemplatesInv, TemplatesTypes, TemplatesTypeOK
<1>2. TemplatesTypes'
  <2>1. PICK n \in Nat : n = number[k]
    BY <1>1
  <2>2. number' = [number EXCEPT ![k] = n] /\ gap' \subseteq Keys
    BY <1>1, <2>1
  <2> QED
    BY <2>1, <2>2, RowsCommitted, RowTypes DEF TemplatesInv
<1>3. /\ \A j \in Keys \ {k} : row'[j] = row[j]
      /\ row'[k] = v
      /\ gap \subseteq gap'
  BY <1>1
<1>4. UNCHANGED <<replica, pos, missing, pending>>
  BY DEF seeding
<1> QED
  BY <1>2, <1>3, <1>4, RowStep

LEMMA UpdateTemplateInv ==
    ASSUME TemplatesInv, NEW a \in Admins, update_template(a)
    PROVE  TemplatesInv'
<1>1. PICK k \in Keys, v \in {"active", "inactive"} : k = req[a].key /\ v = req[a].to
  BY RequestTypes DEF update_template, TemplatesInv
<1>2. req' = [req EXCEPT ![a] = Idle] /\ UNCHANGED <<number, seeding, spent, crashes>>
  BY DEF update_template
<1>3. CASE SameRow(a)
  <2>1. /\ row' = [row EXCEPT ![k] = v] /\ row[k] # "none"
        /\ gap' = IF v = "inactive" THEN gap \cup {k} ELSE gap
    BY <1>1, <1>3 DEF update_template, SameRow
  <2> QED
    BY <1>2, <2>1, ChangeInv
<1>4. CASE ~SameRow(a)
  <2>1. row' = row /\ gap' = gap
    BY <1>4 DEF update_template
  <2> QED
    BY <1>2, <2>1, NothingDone DEF table
<1> QED
  BY <1>3, <1>4

LEMMA DeleteTemplateInv ==
    ASSUME TemplatesInv, NEW a \in Admins, delete_template(a)
    PROVE  TemplatesInv'
<1>1. PICK k \in Keys : k = req[a].key
  BY RequestTypes DEF delete_template, TemplatesInv
<1>2. req' = [req EXCEPT ![a] = Idle] /\ UNCHANGED <<number, seeding, spent, crashes>>
  BY DEF delete_template
<1>3. CASE SameRow(a)
  <2>1. /\ row' = [row EXCEPT ![k] = "none"] /\ row[k] # "none"
        /\ gap' = gap \cup {k}
    BY <1>1, <1>3 DEF delete_template, SameRow
  <2> QED
    BY <1>2, <2>1, ChangeInv
<1>4. CASE ~SameRow(a)
  <2>1. row' = row /\ gap' = gap
    BY <1>4 DEF delete_template
  <2> QED
    BY <1>2, <2>1, NothingDone DEF table
<1> QED
  BY <1>3, <1>4

LEMMA BeginRequestInv ==
    ASSUME TemplatesInv, NEW a \in Admins, NEW k \in Keys,
           \/ BeginCreate(a, k)
           \/ \E s \in {"active", "inactive"} : BeginUpdate(a, k, s)
           \/ BeginDelete(a, k)
    PROVE  TemplatesInv'
<1>0. number[k] \in Nat
  BY DEF TemplatesInv, TemplatesTypes, TemplatesTypeOK
<1>1. CASE BeginCreate(a, k)
  <2> DEFINE q == [op |-> "create", key |-> k]
  <2>1. q \in Creates /\ q.op = "create" /\ q.key = k
    BY DEF Creates
  <2>2. Begin(a, q) /\ get_by_event_channel_locale(k, {}) = {}
    BY <1>1 DEF BeginCreate
  <2>3. \E s \in Replicas : replica[s] = "ready"
    BY <2>2 DEF Begin
  <2>4. InGap(k)
    <3> SUFFICES ASSUME English(k) \in Range(Defaults)
                 PROVE  English(k) \in gap
      BY DEF InGap
    <3>1. Served(English(k), Active, gap)
      BY <2>3, ReadyServes DEF TemplatesInv
    <3>2. English(k) \notin Active
      BY <2>2, NothingFound DEF Visible, Active
    <3> QED
      BY <3>1, <3>2, EnglishTwice DEF Served
  <2> HIDE DEF q
  <2> QED
    BY <2>1, <2>2, <2>4, BeginInv
<1>2. ASSUME NEW s \in {"active", "inactive"}, BeginUpdate(a, k, s)
      PROVE  TemplatesInv'
  <2> DEFINE q == [op |-> "update", key |-> k, number |-> number[k], to |-> s]
  <2>1. q \in Updates /\ q.op = "update"
    BY <1>0 DEF Updates
  <2>2. Begin(a, q)
    BY <1>2 DEF BeginUpdate
  <2>3. PICK p \in Updates : p = q /\ p.op = "update"
    BY <2>1
  <2> HIDE DEF q
  <2>4. Begin(a, p)
    BY <2>2, <2>3
  <2> QED
    BY <2>3, <2>4, BeginInv
<1>3. CASE BeginDelete(a, k)
  <2> DEFINE q == [op |-> "delete", key |-> k, number |-> number[k]]
  <2>1. q \in Deletes /\ q.op = "delete"
    BY <1>0 DEF Deletes
  <2>2. Begin(a, q)
    BY <1>3 DEF BeginDelete
  <2>3. PICK p \in Deletes : p = q /\ p.op = "delete"
    BY <2>1
  <2> HIDE DEF q
  <2>4. Begin(a, p)
    BY <2>2, <2>3
  <2> QED
    BY <2>3, <2>4, BeginInv
<1> QED
  BY <1>1, <1>2, <1>3

LEMMA TemplatesInvStep == TemplatesInv /\ [TemplatesNext]_templatesVars => TemplatesInv'
<1> SUFFICES ASSUME TemplatesInv, [TemplatesNext]_templatesVars
             PROVE  TemplatesInv'
  OBVIOUS
<1>1. ASSUME NEW r \in Replicas, Seed(r) \/ Crash(r)
      PROVE  TemplatesInv'
  <2>1. TemplatesTypes'
    BY <1>1, SeedTypes DEF TemplatesInv
  <2>2. CASE SeedFails(r)
    BY <2>1, <2>2, HaltInv DEF SeedFails, table
  <2>3. CASE Crash(r)
    BY <2>1, <2>3, RollBackInv, HaltInv DEF Crash, table
  <2> QED
    BY <1>1, <2>2, <2>3, ForkInv, LifespanInv, LookupInv, CreateMissingInv, CommitInv DEF Seed
<1>2. CASE UNCHANGED templatesVars
  BY <1>2 DEF templatesVars, table, seeding, TemplatesInv, TemplatesTypes, TemplatesTypeOK,
              ScannedInv, MissingInv, PendingInv, CreateInv, LocalisedInv,
              ReadyMeansResolvable, InGap, Seen, Active, Resolves,
              get_by_event_channel_locale, Visible
<1>3. ASSUME NEW a \in Admins, Commit(a)
      PROVE  TemplatesInv'
  BY <1>3, CreateTemplateInv, UpdateTemplateInv, DeleteTemplateInv DEF Commit
<1> QED
  BY <1>1, <1>2, <1>3, BeginRequestInv DEF TemplatesNext

LEMMA TemplatesInvAlways == TemplatesSpec => []TemplatesInv
  BY TemplatesInvInit, TemplatesInvStep, PTL DEF TemplatesSpec

\* The templates table and the transactions of the seeding replicas: rows of
\* different transactions never have the same key, nor that of a committed row.
THEOREM TemplatesTypesKept == TemplatesSpec => []TemplatesTypeOK
  BY TemplatesInvAlways, PTL DEF TemplatesInv, TemplatesTypes

\* _seed_templates: a replica serves requests only when every default can be
\* rendered or was taken away by an administrator, for any number of replicas
\* that start, fail on each other's rows and stop.
THEOREM ReadyReplicasResolve == TemplatesSpec => []ReadyMeansResolvable
  BY TemplatesInvAlways, PTL DEF TemplatesInv

===========================================================================
