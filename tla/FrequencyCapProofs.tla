------------------------- MODULE FrequencyCapProofs -------------------------
(***************************************************************************)
(* OvershootBounded for any number of callers, any caps and any calendar.  *)
(* The bound is not inductive by itself: a call that has passed the check  *)
(* will count later.  The inductive invariant bounds each counter together *)
(* with the calls that are about to increment it.                          *)
(***************************************************************************)
EXTENDS FrequencyCap, FiniteSetTheorems, TLAPS

\* A counter plus the calls between their two pipelines under its key.
PendingBounded ==
    \A w \in Window, k \in Hours :
        Limit(w) > 0 =>
            count[w][k] + Cardinality(Pending(w, k)) <= Limit(w) - 1 + Cardinality(Callers)

Inv == TypeOK /\ CountsAreEarned /\ PendingBounded

\* The number of a day or a week is at most the number of the hour.
LEMMA DivBound ==
    ASSUME NEW t \in Nat, NEW d \in Nat \ {0}
    PROVE  t \div d \in 0..t
  OBVIOUS

\* Keys and periods are hours of the bounded calendar.
LEMMA BucketTypes ==
    ASSUME NEW w \in Window, NEW t \in Hours
    PROVE  /\ Key(w, t) \in Hours
           /\ Period(w, t) \in Hours
           /\ w \in {"hourly", "daily"} => Period(w, t) = Key(w, t)
<1>1. HoursPerDay * DaysPerWeek \in Nat \ {0}
  BY CalendarAssumption
<1>2. t \in Nat /\ MaxHour \in Nat /\ t <= MaxHour
  BY CalendarAssumption DEF Hours
<1>3. Day(t) \in 0..t
  BY <1>2, DivBound, CalendarAssumption DEF Day
<1>4. Week(t) \in 0..t
  BY <1>1, <1>2, DivBound DEF Week
<1> QED
  BY <1>2, <1>3, <1>4 DEF Key, Period, Window, Hours

\* A limit is a natural number.
LEMMA LimitType ==
    ASSUME NEW w \in Window
    PROVE  Limit(w) \in Nat
  BY CapsAssumption DEF Limit

\* The callers about to count are finitely many.
LEMMA PendingType ==
    ASSUME NEW w, NEW k
    PROVE  /\ IsFiniteSet(Pending(w, k))
           /\ Cardinality(Pending(w, k)) \in Nat
           /\ Cardinality(Callers) \in Nat
           /\ Cardinality(Pending(w, k)) <= Cardinality(Callers)
<1>1. Pending(w, k) \in SUBSET Callers
  BY DEF Pending
<1> QED
  BY <1>1, CallersAssumption, FS_Subset, FS_CardinalityType

-----------------------------------------------------------------------------
(* What the two kinds of write do to a counter.                            *)

\* An increment of the Redis counters touches the key of each window only.
LEMMA IncrementCount ==
    ASSUME TypeOK, NEW t \in Hours
    PROVE  LET f == IncrementAt(count, KeysAt(t)) IN
           /\ f \in [Window -> [Hours -> Nat]]
           /\ \A w \in Window, k \in Hours :
                 f[w][k] = IF k = Key(w, t) THEN count[w][k] + 1 ELSE count[w][k]
  BY BucketTypes DEF TypeOK, IncrementAt, KeysAt, PeriodsAt

\* The same for the ghost, under the calendar period.
LEMMA IncrementPassed ==
    ASSUME TypeOK, NEW t \in Hours
    PROVE  LET f == IncrementAt(passed, PeriodsAt(t)) IN
           /\ f \in [Window -> [Hours -> Nat]]
           /\ \A w \in Window, k \in Hours :
                 f[w][k] = IF k = Period(w, t) THEN passed[w][k] + 1 ELSE passed[w][k]
  BY BucketTypes DEF TypeOK, IncrementAt, KeysAt, PeriodsAt

\* A reset deletes the current key of each window only.
LEMMA ClearCount ==
    ASSUME TypeOK, NEW t \in Hours
    PROVE  LET f == ClearAt(count, KeysAt(t)) IN
           /\ f \in [Window -> [Hours -> Nat]]
           /\ \A w \in Window, k \in Hours :
                 f[w][k] = IF k = Key(w, t) THEN 0 ELSE count[w][k]
  BY BucketTypes DEF TypeOK, ClearAt, KeysAt, PeriodsAt

\* The same for the ghost.
LEMMA ClearPassed ==
    ASSUME TypeOK, NEW t \in Hours
    PROVE  LET f == ClearAt(passed, PeriodsAt(t)) IN
           /\ f \in [Window -> [Hours -> Nat]]
           /\ \A w \in Window, k \in Hours :
                 f[w][k] = IF k = Period(w, t) THEN 0 ELSE passed[w][k]
  BY BucketTypes DEF TypeOK, ClearAt, KeysAt, PeriodsAt

-----------------------------------------------------------------------------
(* How the set of calls about to count changes.                            *)

\* A call that joins finds at most all the others there.
LEMMA PendingJoin ==
    ASSUME TypeOK, NEW c \in Callers, phase[c] = "idle",
           phase' = [phase EXCEPT ![c] = "passed"],
           keyed' = [keyed EXCEPT ![c] = now],
           NEW w \in Window, NEW k \in Hours
    PROVE  /\ Cardinality(Pending(w, k)) <= Cardinality(Callers) - 1
           /\ Cardinality(Pending(w, k)') =
                 IF k = Key(w, now) THEN Cardinality(Pending(w, k)) + 1
                 ELSE Cardinality(Pending(w, k))
<1>1. c \notin Pending(w, k) /\ Pending(w, k) \in SUBSET (Callers \ {c})
  BY DEF Pending
<1>2. IsFiniteSet(Callers \ {c}) /\ Cardinality(Callers \ {c}) = Cardinality(Callers) - 1
  BY CallersAssumption, FS_RemoveElement
<1>3. Cardinality(Pending(w, k)) <= Cardinality(Callers) - 1
  BY <1>1, <1>2, FS_Subset
<1>4. CASE k = Key(w, now)
  <2>1. Pending(w, k)' = Pending(w, k) \cup {c}
    BY <1>4 DEF Pending, TypeOK, Key, Day
  <2> QED
    BY <1>1, <1>3, <1>4, <2>1, PendingType, FS_AddElement
<1>5. CASE k # Key(w, now)
  <2>1. Pending(w, k)' = Pending(w, k)
    BY <1>5 DEF Pending, TypeOK, Key, Day
  <2> QED
    BY <1>3, <1>5, <2>1
<1> QED
  BY <1>4, <1>5

\* A call that leaves was there under its own key.
LEMMA PendingLeave ==
    ASSUME TypeOK, NEW c \in Callers, phase[c] = "passed",
           phase' = [phase EXCEPT ![c] = "idle"], UNCHANGED keyed,
           NEW w \in Window, NEW k \in Hours
    PROVE  Cardinality(Pending(w, k)') =
              IF k = Key(w, keyed[c]) THEN Cardinality(Pending(w, k)) - 1
              ELSE Cardinality(Pending(w, k))
<1>1. Pending(w, k)' = Pending(w, k) \ {c}
  BY DEF Pending, TypeOK, Key, Day
<1>2. c \in Pending(w, k) <=> k = Key(w, keyed[c])
  BY DEF Pending
<1> QED
  BY <1>1, <1>2, PendingType, FS_RemoveElement

\* Nobody joins or leaves otherwise.
LEMMA PendingSame ==
    ASSUME UNCHANGED <<phase, keyed>>, NEW w, NEW k
    PROVE  Pending(w, k)' = Pending(w, k)
  BY DEF Pending, Key, Day

-----------------------------------------------------------------------------
(* The inductive invariant.                                                *)

\* Initially no counter exists and no call is under way.
LEMMA InvInit == Init => Inv
<1> SUFFICES ASSUME Init PROVE Inv
  OBVIOUS
<1>1. TypeOK
  BY CalendarAssumption DEF Init, TypeOK, Hours
<1>2. CountsAreEarned
  BY DEF Init, CountsAreEarned, Window
<1>3. PendingBounded
  <2> SUFFICES ASSUME NEW w \in Window, NEW k \in Hours, Limit(w) > 0
               PROVE  count[w][k] + Cardinality(Pending(w, k))
                        <= Limit(w) - 1 + Cardinality(Callers)
    BY DEF PendingBounded
  <2>1. count[w][k] = 0
    BY DEF Init
  <2> QED
    BY <2>1, PendingType, LimitType
<1> QED
  BY <1>1, <1>2, <1>3 DEF Inv

\* Every step of FrequencyCap keeps the invariant.
LEMMA InvStep == Inv /\ [Next]_vars => Inv'
<1> SUFFICES ASSUME Inv, [Next]_vars PROVE Inv'
  OBVIOUS
<1> USE DEF Inv
<1> DEFINE Bounded(w, k) ==
        Limit(w) > 0 =>
            count[w][k] + Cardinality(Pending(w, k)) <= Limit(w) - 1 + Cardinality(Callers)
<1>0. \A w \in Window, k \in Hours : Bounded(w, k)
  BY DEF PendingBounded
<1>a. (\A w \in Window, k \in Hours : Bounded(w, k)') => PendingBounded'
  BY DEF PendingBounded, Limit
<1>b. ASSUME NEW w \in Window, NEW k \in Hours
      PROVE  /\ Limit(w) \in Nat
             /\ Cardinality(Pending(w, k)) \in Nat
             /\ Cardinality(Callers) \in Nat
             /\ Cardinality(Pending(w, k)) <= Cardinality(Callers)
             /\ count[w][k] \in Nat
  BY LimitType, PendingType DEF TypeOK
<1>1. ASSUME NEW c \in Callers, Check(c) PROVE Inv'
  <2>1. TypeOK'
    BY <1>1 DEF Check, TypeOK
  <2>2. CountsAreEarned'
    BY <1>1 DEF Check, CountsAreEarned
  <2>3. CASE \E w \in Window : CapReached(w, now)
    <3>1. ASSUME NEW w \in Window, NEW k \in Hours PROVE Pending(w, k)' = Pending(w, k)
      BY <1>1, <2>3 DEF Check, Pending, TypeOK, Key, Day
    <3> QED
      BY <1>0, <1>a, <1>1, <2>1, <2>2, <3>1 DEF Check, Limit
  <2>4. CASE ~ \E w \in Window : CapReached(w, now)
    <3>1. phase[c] = "idle" /\ phase' = [phase EXCEPT ![c] = "passed"]
      BY <1>1, <2>4 DEF Check
    <3>2. keyed' = [keyed EXCEPT ![c] = now] /\ count' = count
      BY <1>1 DEF Check
    <3>3. ASSUME NEW w \in Window, NEW k \in Hours PROVE Bounded(w, k)'
      <4>1. /\ Cardinality(Pending(w, k)) <= Cardinality(Callers) - 1
            /\ Cardinality(Pending(w, k)') =
                  IF k = Key(w, now) THEN Cardinality(Pending(w, k)) + 1
                  ELSE Cardinality(Pending(w, k))
        BY <3>1, <3>2, PendingJoin
      <4>2. k = Key(w, now) /\ Limit(w) > 0 => count[w][k] <= Limit(w) - 1
        BY <1>b, <2>4 DEF CapReached
      <4> QED
        BY <1>0, <1>b, <3>2, <4>1, <4>2 DEF Limit
    <3> QED
      BY <1>a, <2>1, <2>2, <3>3
  <2> QED
    BY <2>3, <2>4
<1>2. ASSUME NEW c \in Callers, Raise(c) PROVE Inv'
  <2>1. TypeOK'
    BY <1>2 DEF Raise, TypeOK
  <2>2. CountsAreEarned'
    BY <1>2 DEF Raise, CountsAreEarned
  <2>3. ASSUME NEW w \in Window, NEW k \in Hours PROVE Pending(w, k)' = Pending(w, k)
    BY <1>2 DEF Raise, Pending, TypeOK, Key, Day
  <2> QED
    BY <1>0, <1>a, <1>2, <2>1, <2>2, <2>3 DEF Raise, Limit
<1>3. ASSUME NEW c \in Callers, Increment(c) PROVE Inv'
  <2>1. keyed[c] \in Hours
    BY DEF TypeOK
  <2>2. TypeOK'
    BY <1>3, <2>1, IncrementCount, IncrementPassed DEF Increment, TypeOK
  <2>3. CountsAreEarned'
    <3> SUFFICES ASSUME NEW w \in {"hourly", "daily"}, NEW p \in Hours
                 PROVE  /\ passed'[w][p] <= count'[w][p]
                        /\ count'[w][p] <= passed'[w][p] + faults'
      BY DEF CountsAreEarned
    <3>1. w \in Window /\ Period(w, keyed[c]) = Key(w, keyed[c])
      BY <2>1, BucketTypes DEF Window
    <3>2. count'[w][p] = IF p = Key(w, keyed[c]) THEN count[w][p] + 1 ELSE count[w][p]
      BY <1>3, <2>1, <3>1, IncrementCount DEF Increment
    <3>3. passed'[w][p] = IF p = Key(w, keyed[c]) THEN passed[w][p] + 1 ELSE passed[w][p]
      <4>1. w \in Window
        BY DEF Window
      <4>2. passed'[w][p] = IF p = Period(w, keyed[c]) THEN passed[w][p] + 1 ELSE passed[w][p]
        BY <1>3, <2>1, <4>1, IncrementPassed DEF Increment
      <4> QED
        BY ONLY <3>1, <4>2
    <3>4. /\ passed[w][p] <= count[w][p] /\ count[w][p] <= passed[w][p] + faults
          /\ passed[w][p] \in Nat /\ count[w][p] \in Nat
          /\ faults \in Nat /\ faults' = faults
      BY <1>3, <3>1 DEF CountsAreEarned, TypeOK, Increment
    <3> QED
      BY <3>2, <3>3, <3>4
  <2>4. ASSUME NEW w \in Window, NEW k \in Hours PROVE Bounded(w, k)'
    <3>1. Cardinality(Pending(w, k)') =
            IF k = Key(w, keyed[c]) THEN Cardinality(Pending(w, k)) - 1
            ELSE Cardinality(Pending(w, k))
      BY <1>3, PendingLeave DEF Increment
    <3>2. count'[w][k] = IF k = Key(w, keyed[c]) THEN count[w][k] + 1 ELSE count[w][k]
      BY <1>3, <2>1, IncrementCount DEF Increment
    <3> QED
      BY <1>0, <1>b, <3>1, <3>2 DEF Limit
  <2> QED
    BY <1>a, <2>2, <2>3, <2>4
<1>4. ASSUME NEW c \in Callers, IncrementFails(c) PROVE Inv'
  <2>1. keyed[c] \in Hours
    BY DEF TypeOK
  <2>2. /\ count' \in [Window -> [Hours -> Nat]]
        /\ \A w \in Window, k \in Hours :
              \/ count'[w][k] = count[w][k]
              \/ k = Key(w, keyed[c]) /\ count'[w][k] = count[w][k] + 1
    <3>1. CASE count' = count
      BY <3>1 DEF TypeOK
    <3>2. CASE count' = IncrementAt(count, KeysAt(keyed[c]))
      BY <2>1, <3>2, IncrementCount
    <3> QED
      BY <1>4, <3>1, <3>2 DEF IncrementFails
  <2>3. TypeOK'
    BY <1>4, <2>2, CalendarAssumption DEF IncrementFails, TypeOK
  <2>4. CountsAreEarned'
    BY <1>4, <2>2 DEF IncrementFails, CountsAreEarned, TypeOK, Window
  <2>5. ASSUME NEW w \in Window, NEW k \in Hours PROVE Bounded(w, k)'
    <3>1. Cardinality(Pending(w, k)') =
            IF k = Key(w, keyed[c]) THEN Cardinality(Pending(w, k)) - 1
            ELSE Cardinality(Pending(w, k))
      BY <1>4, PendingLeave DEF IncrementFails
    <3> QED
      BY <1>0, <1>b, <2>2, <3>1 DEF Limit
  <2> QED
    BY <1>a, <2>3, <2>4, <2>5
<1>5. CASE Reset
  <2>1. now \in Hours
    BY DEF TypeOK
  <2>2. TypeOK'
    BY <1>5, <2>1, ClearCount, ClearPassed DEF Reset, TypeOK
  <2>3. CountsAreEarned'
    <3> SUFFICES ASSUME NEW w \in {"hourly", "daily"}, NEW p \in Hours
                 PROVE  /\ passed'[w][p] <= count'[w][p]
                        /\ count'[w][p] <= passed'[w][p] + faults'
      BY DEF CountsAreEarned
    <3>1. w \in Window /\ Period(w, now) = Key(w, now)
      BY <2>1, BucketTypes DEF Window
    <3>2. count'[w][p] = IF p = Key(w, now) THEN 0 ELSE count[w][p]
      BY <1>5, <2>1, <3>1, ClearCount DEF Reset
    <3>3. passed'[w][p] = IF p = Key(w, now) THEN 0 ELSE passed[w][p]
      <4>1. w \in Window
        BY DEF Window
      <4>2. passed'[w][p] = IF p = Period(w, now) THEN 0 ELSE passed[w][p]
        BY <1>5, <2>1, <4>1, ClearPassed DEF Reset
      <4> QED
        BY ONLY <3>1, <4>2
    <3>4. /\ passed[w][p] <= count[w][p] /\ count[w][p] <= passed[w][p] + faults
          /\ passed[w][p] \in Nat /\ count[w][p] \in Nat
          /\ faults \in Nat /\ faults' = faults
      BY <1>5, <3>1 DEF CountsAreEarned, TypeOK, Reset
    <3> QED
      BY <3>2, <3>3, <3>4
  <2>4. ASSUME NEW w \in Window, NEW k \in Hours PROVE Bounded(w, k)'
    <3>1. Pending(w, k)' = Pending(w, k)
      BY <1>5, PendingSame DEF Reset
    <3>2. count'[w][k] \in {0, count[w][k]}
      BY <1>5, <2>1, ClearCount DEF Reset
    <3> QED
      BY <1>0, <1>b, <3>1, <3>2 DEF Limit
  <2> QED
    BY <1>a, <2>2, <2>3, <2>4
<1>6. CASE FlushCache
  <2>1. TypeOK'
    BY <1>6 DEF FlushCache, TypeOK
  <2>2. CountsAreEarned'
    BY <1>6 DEF FlushCache, CountsAreEarned, TypeOK, Window
  <2>3. ASSUME NEW w \in Window, NEW k \in Hours PROVE Bounded(w, k)'
    <3>1. Pending(w, k)' = Pending(w, k)
      BY <1>6, PendingSame DEF FlushCache
    <3>2. count'[w][k] = 0
      BY <1>6 DEF FlushCache
    <3> QED
      BY <1>b, <3>1, <3>2 DEF Limit
  <2> QED
    BY <1>a, <2>1, <2>2, <2>3
<1>7. CASE Tick
  <2>1. TypeOK'
    BY <1>7, CalendarAssumption DEF Tick, TypeOK, Hours
  <2>2. CountsAreEarned'
    BY <1>7 DEF Tick, CountsAreEarned
  <2>3. ASSUME NEW w \in Window, NEW k \in Hours PROVE Pending(w, k)' = Pending(w, k)
    BY <1>7, PendingSame DEF Tick
  <2> QED
    BY <1>0, <1>a, <1>7, <2>1, <2>2, <2>3 DEF Tick, Limit
<1>8. CASE UNCHANGED vars
  <2>1. TypeOK' /\ CountsAreEarned'
    BY <1>8 DEF vars, TypeOK, CountsAreEarned
  <2>2. ASSUME NEW w \in Window, NEW k \in Hours PROVE Pending(w, k)' = Pending(w, k)
    BY <1>8, PendingSame DEF vars
  <2> QED
    BY <1>0, <1>a, <1>8, <2>1, <2>2 DEF vars, Limit
<1> QED
  BY <1>1, <1>2, <1>3, <1>4, <1>5, <1>6, <1>7, <1>8 DEF Next, CallStep

\* The invariant holds always.
LEMMA InvAlways == Spec => []Inv
  BY InvInit, InvStep, PTL DEF Spec

\* Type correctness of FrequencyCap.
THEOREM TypeCorrect == Spec => []TypeOK
  BY InvAlways, PTL DEF Inv

\* Hourly and daily counters are what was sent, give or take the failed calls
\* (check_and_increment counts exactly the calls it lets pass).
THEOREM CountsEarned == Spec => []CountsAreEarned
  BY InvAlways, PTL DEF Inv

\* However many calls race between their two pipelines, the hourly and daily
\* caps are exceeded by at most the number of callers less one.
THEOREM Overshoot == Spec => []OvershootBounded
<1>1. Inv => OvershootBounded
  <2> SUFFICES ASSUME Inv, NEW w \in {"hourly", "daily"}, NEW p \in Hours, Limit(w) > 0
               PROVE  passed[w][p] <= Limit(w) - 1 + Cardinality(Callers)
    BY DEF OvershootBounded
  <2>1. w \in Window
    BY DEF Window
  <2>2. count[w][p] + Cardinality(Pending(w, p)) <= Limit(w) - 1 + Cardinality(Callers)
    BY <2>1 DEF Inv, PendingBounded
  <2>3. passed[w][p] <= count[w][p] /\ passed[w][p] \in Nat /\ count[w][p] \in Nat
    BY <2>1 DEF Inv, CountsAreEarned, TypeOK
  <2> QED
    BY <2>1, <2>2, <2>3, LimitType, PendingType
<1> QED
  BY <1>1, InvAlways, PTL

=============================================================================
