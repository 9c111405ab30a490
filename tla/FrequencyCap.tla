---------------------------- MODULE FrequencyCap ----------------------------
(***************************************************************************)
(* FrequencyCapService (app/redis/frequency_cap.py): the counters in Redis *)
(* that limit how many notifications one user gets on one channel per      *)
(* hour, day and week.  A call reads the three counters in one pipeline    *)
(* and increments them in a second one; each pipeline is a MULTI/EXEC      *)
(* transaction, and other callers come between the two.  Counters of       *)
(* different users or channels share no key, so one of them is modelled.   *)
(*                                                                         *)
(* Time is counted in hours.  A key names its calendar period, and its TTL *)
(* is at least the length of the period, so no counter expires while a     *)
(* call can still read it.  The keys of a call are computed at one instant.*)
(***************************************************************************)
EXTENDS Naturals, FiniteSets

CONSTANTS
    Callers,        \* concurrent dispatches for this user and channel
    Caps,           \* the user's frequency_cap_hourly, _daily, _weekly
    Defaults,       \* settings.FREQUENCY_CAP_HOURLY, _DAILY, _WEEKLY
    HoursPerDay,    \* 24
    DaysPerWeek,    \* 7
    MaxHour,        \* bound: the last hour
    MaxFaults       \* bound: Redis errors

Window == {"hourly", "daily", "weekly"}
Hours == 0..MaxHour

ASSUME CallersAssumption == IsFiniteSet(Callers)

ASSUME CapsAssumption ==
    /\ Caps \in [Window -> Nat]
    /\ Defaults \in [Window -> Nat]

ASSUME CalendarAssumption ==
    /\ HoursPerDay \in Nat \ {0}
    /\ DaysPerWeek \in Nat \ {0}
    /\ MaxHour \in Nat
    /\ MaxFaults \in Nat

VARIABLES
    now,        \* the current hour
    count,      \* Redis: the counter of each window under each key
    phase,      \* of each caller's check_and_increment
    keyed,      \* the hour for which a caller computed its keys
    faults,
    passed      \* ghost: calls that returned normally, per window and true
                \* calendar period, since the counters were last deleted

vars == <<now, count, phase, keyed, faults, passed>>

TypeOK ==
    /\ now \in Hours
    /\ count \in [Window -> [Hours -> Nat]]
    /\ phase \in [Callers -> {"idle", "passed", "rejected"}]
    /\ keyed \in [Callers -> Hours]
    /\ faults \in 0..MaxFaults
    /\ passed \in [Window -> [Hours -> Nat]]

-----------------------------------------------------------------------------
Day(t) == t \div HoursPerDay
Week(t) == t \div (HoursPerDay * DaysPerWeek)

\* The part of the key that names the period.  arrow formats the W of
\* "YYYY-WW" as the ISO week date, weekday included: the key of the weekly
\* counter changes with the day.
Key(w, t) == IF w = "hourly" THEN t ELSE Day(t)

\* The calendar period the window is named after.
Period(w, t) == IF w = "weekly" THEN Week(t) ELSE Key(w, t)

\* cap or default: a cap of 0 selects the default, as no cap does.
Limit(w) == IF Caps[w] # 0 THEN Caps[w] ELSE Defaults[w]

\* Mutant: the comparison lets one more through.
CapReached_OffByOne(w, t) == Limit(w) > 0 /\ count[w][Key(w, t)] > Limit(w)

\* A limit of 0, possible only as a default, switches the check off.
CapReached(w, t) == Limit(w) > 0 /\ count[w][Key(w, t)] >= Limit(w)

\* Counter and calendar period of each window at hour t.
KeysAt(t) == [w \in Window |-> Key(w, t)]
PeriodsAt(t) == [w \in Window |-> Period(w, t)]

\* INCR, and DEL, of one counter per window.
IncrementAt(f, at) == [w \in Window |-> [f[w] EXCEPT ![at[w]] = @ + 1]]
ClearAt(f, at) == [w \in Window |-> [f[w] EXCEPT ![at[w]] = 0]]

Init ==
    /\ now = 0
    /\ count = [w \in Window |-> [h \in Hours |-> 0]]
    /\ phase = [c \in Callers |-> "idle"]
    /\ keyed = [c \in Callers |-> 0]
    /\ faults = 0
    /\ passed = [w \in Window |-> [h \in Hours |-> 0]]

\* First pipeline: all three counters are read at once and compared.
Check(c) ==
    /\ phase[c] = "idle"
    /\ keyed' = [keyed EXCEPT ![c] = now]
    /\ phase' = [phase EXCEPT ![c] =
          IF \E w \in Window : CapReached(w, now) THEN "rejected" ELSE "passed"]
    /\ UNCHANGED <<now, count, faults, passed>>

\* Mutant: a rejected call takes back a count it never made.
Raise_Refunds(c) ==
    /\ phase[c] = "rejected"
    /\ phase' = [phase EXCEPT ![c] = "idle"]
    /\ count' = [w \in Window |-> [count[w] EXCEPT ![Key(w, keyed[c])] = @ - 1]]
    /\ UNCHANGED <<now, keyed, faults, passed>>

\* FrequencyCapExceeded is raised; nothing was counted.
Raise(c) ==
    /\ phase[c] = "rejected"
    /\ phase' = [phase EXCEPT ![c] = "idle"]
    /\ UNCHANGED <<now, count, keyed, faults, passed>>

\* Mutant: the hourly counter alone is incremented.
Increment_HourlyOnly(c) ==
    /\ phase[c] = "passed"
    /\ phase' = [phase EXCEPT ![c] = "idle"]
    /\ count' = [count EXCEPT !["hourly"][keyed[c]] = @ + 1]
    /\ passed' = IncrementAt(passed, PeriodsAt(keyed[c]))
    /\ UNCHANGED <<now, keyed, faults>>

\* Second pipeline, under the keys of the first.
Increment(c) ==
    /\ phase[c] = "passed"
    /\ phase' = [phase EXCEPT ![c] = "idle"]
    /\ count' = IncrementAt(count, KeysAt(keyed[c]))
    /\ passed' = IncrementAt(passed, PeriodsAt(keyed[c]))
    /\ UNCHANGED <<now, keyed, faults>>

\* The second pipeline fails, before or after Redis has executed it; the
\* exception leaves check_and_increment and the notification is not sent.
IncrementFails(c) ==
    /\ phase[c] = "passed"
    /\ faults < MaxFaults
    /\ faults' = faults + 1
    /\ phase' = [phase EXCEPT ![c] = "idle"]
    /\ count' \in {count, IncrementAt(count, KeysAt(keyed[c]))}
    /\ UNCHANGED <<now, keyed, passed>>

\* FrequencyCapService.reset deletes the three current counters.
Reset ==
    /\ count' = ClearAt(count, KeysAt(now))
    /\ passed' = ClearAt(passed, PeriodsAt(now))
    /\ UNCHANGED <<now, phase, keyed, faults>>

\* The administrator's cache flush deletes every key.
FlushCache ==
    /\ count' = [w \in Window |-> [h \in Hours |-> 0]]
    /\ passed' = [w \in Window |-> [h \in Hours |-> 0]]
    /\ UNCHANGED <<now, phase, keyed, faults>>

Tick ==
    /\ now < MaxHour
    /\ now' = now + 1
    /\ UNCHANGED <<count, phase, keyed, faults, passed>>

CallStep(c) == Check(c) \/ Raise(c) \/ Increment(c) \/ IncrementFails(c)

Next ==
    \/ \E c \in Callers : CallStep(c)
    \/ Reset
    \/ FlushCache
    \/ Tick

Spec == Init /\ [][Next]_vars

-----------------------------------------------------------------------------
(* Properties                                                              *)

\* Calls between their two pipelines that will count under key k of window w.
Pending(w, k) ==
    {c \in Callers : phase[c] = "passed" /\ Key(w, keyed[c]) = k}

\* The cap of a window, or the default if that is 0, is kept up to races: the
\* check and the increment are two transactions, so calls that race can
\* pass the hourly and the daily cap together; but a user never gets more
\* than cap - 1 + the number of racing calls in an hour or a day, however
\* calls, failures, deletions and hour changes are interleaved.  With one
\* caller this is the cap itself.
OvershootBounded ==
    \A w \in {"hourly", "daily"}, p \in Hours :
        Limit(w) > 0 => passed[w][p] <= Limit(w) - 1 + Cardinality(Callers)

\* A cap of 0 means unlimited (the unit tests say so): a user is turned away
\* only if some window has a cap.
ZeroIsUnlimited ==
    \A c \in Callers : phase[c] = "rejected" => \E w \in Window : Caps[w] # 0

\* Nobody is turned away for notifications that were not counted: except for
\* failed calls, an hourly or daily counter is what the user has been sent
\* in that period.
CountsAreEarned ==
    \A w \in {"hourly", "daily"}, p \in Hours :
        /\ passed[w][p] <= count[w][p]
        /\ count[w][p] <= passed[w][p] + faults

=============================================================================
