--------------------------- MODULE LimiterProofs ---------------------------
(***************************************************************************)
(* The two parts that count events within a sliding window and refuse when *)
(* there are too many: the rate limit of the API and the circuit breaker   *)
(* of a provider.  They have nothing in common but this; each has its own  *)
(* specification, RateLimit's Spec and BreakerSpec.                        *)
(*                                                                         *)
(* RateLimit: both limits, and RetryAfterSuffices, for any limits and      *)
(* window lengths.  A counter that exists was renewed by the client's last *)
(* request or before it, so its time to live and the client's silence make *)
(* up at most one window; and a request let through within a window was    *)
(* counted by the counter that still exists.                               *)
(*                                                                         *)
(* CircuitBreaker: both directions of its promise, for any thresholds and  *)
(* window.  What the code keeps agrees with what happened as long as the   *)
(* breaker is CLOSED, and time only takes failures out of the window.  The *)
(* failures are counted by SumFunctionOnSet, a fold over a set; what it    *)
(* computes is proved first.  The prover has no induction rule it can      *)
(* apply, so those proofs take a least counterexample instead, which       *)
(* exists because < is well founded on the naturals.                       *)
(***************************************************************************)
EXTENDS RateLimit, CircuitBreaker, FiniteSetTheorems, WellFoundedInduction, TLAPS

-----------------------------------------------------------------------------
(* The rate limit                                                          *)

RenewedByLast ==
    \A w \in Window :
        /\ ttl[w] <= Length[w]
        /\ counter[w] = 0 \/ ttl[w] + silence <= Length[w]

\* Of a request that was let through less than a window ago, the counter
\* counts it and all younger ones, and was within the limit then.
CountsAdmitted ==
    \A w \in Window, i \in Last : admitted[i] < Length[w] =>
        /\ i <= counter[w]
        /\ i <= Limit[w]
        /\ ttl[w] + admitted[i] >= Length[w]

Inv == TypeOK /\ RenewedByLast /\ CountsAdmitted

LEMMA Lengths ==
    /\ Longest \in Nat \ {0}
    /\ \A w \in Window : Length[w] \in Nat \ {0} /\ Length[w] <= Longest
    /\ 0 \in Ages /\ Longest \in Ages
    /\ \A w \in Window : Limit[w] \in Nat
    /\ Last \subseteq Nat \ {0}
    /\ \A i \in Last : i = 1 \/ i - 1 \in Last
  BY RateAssumption DEF Longest, Window, Ages, Last

LEMMA Ageing ==
    ASSUME NEW a \in Ages
    PROVE  Older(a) \in Ages /\ a \in Nat /\ Older(a) \in {a, a + 1} /\ Older(a) >= a
           /\ (Older(a) < Longest => Older(a) = a + 1)
  BY Lengths DEF Ages, Older

LEMMA InvInit == Init => Inv
<1> SUFFICES ASSUME Init
             PROVE  Inv
  OBVIOUS
<1>1. TypeOK
  BY Lengths, RateAssumption DEF Init, TypeOK
<1>2. RenewedByLast /\ CountsAdmitted
  BY Lengths DEF Init, RenewedByLast, CountsAdmitted
<1> QED
  BY <1>1, <1>2 DEF Inv

\* What INCR and EXPIRE leave behind.
LEMMA Counted ==
    ASSUME TypeOK, Count
    PROVE  /\ counter' \in [Window -> Nat]
           /\ \A w \in Window : /\ counter'[w] # 0
                                /\ ttl'[w] = Length[w]
                                /\ counter'[w] >= counter[w]
                                /\ counter'[w] <= Limit[w] => counter'[w] = counter[w] + 1
           /\ ttl' \in [Window -> 0..Longest]
<1>1. \A w \in Window : counter[w] \in Nat /\ Limit[w] \in Nat
  BY RateAssumption DEF TypeOK
<1>2. \A w \in Window : /\ Incremented(w) \in Nat \ {0}
                        /\ Incremented(w) >= counter[w]
                        /\ Incremented(w) <= Limit[w] => Incremented(w) = counter[w] + 1
  BY <1>1 DEF Incremented
<1> QED
  BY <1>2, Lengths DEF Count

\* Counting a request keeps the invariant, as long as no other is admitted.
LEMMA CountInv ==
    ASSUME Inv, Count, silence' = 0, UNCHANGED admitted, faults' \in 0..MaxFaults
    PROVE  Inv'
<1> USE DEF Inv
<1>1. TypeOK' /\ RenewedByLast'
  BY Counted, Lengths DEF TypeOK, RenewedByLast
<1>2. ASSUME NEW w \in Window, NEW i \in Last, admitted[i] < Length[w]
      PROVE  i <= counter'[w] /\ ttl'[w] + admitted[i] >= Length[w]
  <2>1. /\ i <= counter[w] /\ counter[w] \in Nat /\ i \in Nat
        /\ admitted[i] \in Nat /\ Length[w] \in Nat
    BY <1>2, Lengths DEF CountsAdmitted, TypeOK, Ages
  <2> QED
    BY <2>1, Counted
<1>3. CountsAdmitted'
  BY <1>2 DEF CountsAdmitted
<1> QED
  BY <1>1, <1>3

\* A request that is let through: it becomes the youngest, and every counter
\* has counted it and is within its limit.
LEMMA AdmitInv ==
    ASSUME Inv, Request, \A w \in Window : ~(counter'[w] > Limit[w])
    PROVE  Inv'
<1> USE DEF Inv
<1>1. /\ Count /\ silence' = 0 /\ faults' = faults
      /\ admitted' = [i \in Last |-> IF i = 1 THEN 0 ELSE admitted[i - 1]]
  BY DEF Request
<1>2. admitted' \in [Last -> Ages]
  BY <1>1, Lengths DEF TypeOK
<1>3. TypeOK' /\ RenewedByLast'
  BY <1>1, <1>2, Counted, Lengths DEF TypeOK, RenewedByLast
<1>4. ASSUME NEW w \in Window, NEW i \in Last, admitted'[i] < Length[w]
      PROVE  /\ i <= counter'[w]
             /\ i <= Limit[w]
             /\ ttl'[w] + admitted'[i] >= Length[w]
  <2>1. /\ counter'[w] = counter[w] + 1 /\ counter'[w] <= Limit[w]
        /\ ttl'[w] = Length[w] /\ counter[w] \in Nat /\ Limit[w] \in Nat
        /\ Length[w] \in Nat
    BY <1>1, Counted, Lengths DEF TypeOK
  <2>2. i \in Nat /\ admitted'[i] \in Nat
    BY <1>2, Lengths DEF Ages
  <2>3. i <= counter'[w]
    <3>1. CASE i = 1
      BY <2>1, <3>1
    <3>2. CASE i # 1
      <4>1. i - 1 \in Last /\ admitted[i - 1] < Length[w]
        BY <1>1, <1>4, <3>2, Lengths
      <4> QED
        BY <2>1, <2>2, <4>1 DEF CountsAdmitted
    <3> QED
      BY <3>1, <3>2
  <2> QED
    BY <2>1, <2>2, <2>3
<1>5. CountsAdmitted'
  BY <1>4 DEF CountsAdmitted
<1> QED
  BY <1>3, <1>5

LEMMA TickInv ==
    ASSUME Inv, Tick
    PROVE  Inv'
<1> USE DEF Inv
<1>1. \A w \in Window : /\ counter[w] \in Nat
                        /\ ttl[w] \in Nat
                        /\ ttl[w] <= Longest
                        /\ counter[w] = 0 <=> ttl[w] = 0
  BY Lengths DEF TypeOK
<1>2. \A w \in Window :
        /\ ttl'[w] = IF ttl[w] > 0 THEN ttl[w] - 1 ELSE 0
        /\ counter'[w] = IF ttl[w] > 1 THEN counter[w] ELSE 0
  BY DEF Tick
<1>3. /\ counter' \in [Window -> Nat]
      /\ ttl' \in [Window -> 0..Longest]
  BY <1>1, Lengths DEF Tick
<1>4. \A w \in Window : counter'[w] = 0 <=> ttl'[w] = 0
  BY <1>1, <1>2
<1>5. silence' \in Ages /\ silence \in Nat /\ silence' <= silence + 1 /\ silence' \in Nat
  BY Ageing, Lengths DEF Tick, TypeOK, Ages
<1>6. admitted' \in [Last -> Ages]
  BY Ageing DEF Tick, TypeOK
<1>7. RenewedByLast'
  BY <1>1, <1>2, <1>5, Lengths DEF RenewedByLast
<1>8. ASSUME NEW w \in Window, NEW i \in Last, admitted'[i] < Length[w]
      PROVE  /\ i <= counter'[w]
             /\ i <= Limit[w]
             /\ ttl'[w] + admitted'[i] >= Length[w]
  <2>1. /\ admitted'[i] = admitted[i] + 1
        /\ admitted[i] \in Nat /\ Length[w] \in Nat /\ i \in Nat
    <3>1. admitted'[i] = Older(admitted[i]) /\ admitted[i] \in Ages
      BY DEF Tick, TypeOK
    <3>2. admitted[i] \in Nat /\ Older(admitted[i]) \in Nat /\ i \in Nat
      BY <3>1, Ageing, Lengths DEF Ages
    <3>3. Length[w] \in Nat /\ Length[w] <= Longest /\ Longest \in Nat
      BY Lengths
    <3>4. Older(admitted[i]) < Longest
      BY <1>8, <3>1, <3>2, <3>3
    <3> QED
      BY <3>1, <3>2, <3>3, <3>4, Ageing
  <2>2. i <= counter[w] /\ i <= Limit[w] /\ ttl[w] + admitted[i] >= Length[w]
    BY <1>8, <2>1, Lengths DEF CountsAdmitted
  <2> QED
    BY <1>1, <1>2, <1>8, <2>1, <2>2
<1>9. CountsAdmitted'
  BY <1>8 DEF CountsAdmitted
<1> QED
  BY <1>3, <1>4, <1>5, <1>6, <1>7, <1>9 DEF Tick, TypeOK

LEMMA InvStep == Inv /\ [Next]_vars => Inv'
<1> SUFFICES ASSUME Inv, [Next]_vars
             PROVE  Inv'
  OBVIOUS
<1>1. CASE Request
  <2>1. CASE \E w \in Window : counter'[w] > Limit[w]
    BY <1>1, <2>1, CountInv DEF Request, Inv, TypeOK
  <2>2. CASE \A w \in Window : ~(counter'[w] > Limit[w])
    BY <1>1, <2>2, AdmitInv
  <2> QED
    BY <2>1, <2>2
<1>2. CASE RedisFails
  <2>1. faults' \in 0..MaxFaults /\ silence' = 0 /\ UNCHANGED admitted
    BY <1>2, RateAssumption DEF RedisFails, Inv, TypeOK
  <2>2. CASE Count
    BY <2>1, <2>2, CountInv
  <2>3. CASE UNCHANGED <<counter, ttl>>
    BY <2>1, <2>3, Lengths DEF Inv, TypeOK, RenewedByLast, CountsAdmitted
  <2> QED
    BY <1>2, <2>2, <2>3 DEF RedisFails
<1>3. CASE FlushCache
  <2>1. TypeOK'
    BY <1>3, Lengths DEF FlushCache, Inv, TypeOK
  <2>2. RenewedByLast' /\ CountsAdmitted'
    BY <1>3, Lengths DEF FlushCache, RenewedByLast, CountsAdmitted
  <2> QED
    BY <2>1, <2>2 DEF Inv
<1>4. CASE UNCHANGED vars
  BY <1>4 DEF Inv, vars, TypeOK, RenewedByLast, CountsAdmitted
<1> QED
  BY <1>1, <1>2, <1>3, <1>4, TickInv DEF Next

LEMMA InvAlways == Spec => []Inv
  BY InvInit, InvStep, PTL DEF Spec

\* Type correctness: a counter exists exactly as long as its time to live.
THEOREM TypeCorrect == Spec => []TypeOK
  BY InvAlways, PTL DEF Inv

\* The Retry-After header of rate_limit_middleware names a time that
\* suffices, although refused requests renew the expiry as well.
THEOREM RetryAfterTrue == Spec => []RetryAfterSuffices
<1>1. Inv => RetryAfterSuffices
  <2> SUFFICES ASSUME Inv, NEW w \in Window, silence >= Length[w]
               PROVE  counter[w] = 0
    BY DEF RetryAfterSuffices
  <2>1. /\ ttl[w] \in Nat /\ silence \in Nat /\ Length[w] \in Nat
        /\ counter[w] = 0 <=> ttl[w] = 0
        /\ counter[w] = 0 \/ ttl[w] + silence <= Length[w]
    BY Lengths DEF Inv, TypeOK, RenewedByLast, Ages
  <2> QED
    BY <2>1
<1> QED
  BY <1>1, InvAlways, PTL

\* rate_limit_middleware lets no client have more requests in any minute, or
\* in any hour, than the settings say, wherever the window begins.
THEOREM LimitsHold == Spec => []LimitsHoldInEveryWindow
<1>1. Inv => LimitsHoldInEveryWindow
  <2> SUFFICES ASSUME Inv, NEW w \in Window, NEW i \in Last, i > Limit[w]
               PROVE  admitted[i] >= Length[w]
    BY DEF LimitsHoldInEveryWindow
  <2>1. /\ admitted[i] \in Nat /\ Length[w] \in Nat /\ Limit[w] \in Nat /\ i \in Nat
        /\ admitted[i] < Length[w] => i <= Limit[w]
    BY Lengths DEF Inv, TypeOK, Ages, CountsAdmitted
  <2> QED
    BY <2>1
<1> QED
  BY <1>1, InvAlways, PTL

-----------------------------------------------------------------------------
(* Least elements and sums                                                 *)

\* Every non-empty set of naturals has a least element.
LEMMA Least ==
    ASSUME NEW T \in SUBSET Nat, T # {}
    PROVE  \E m \in T : \A k \in T : m <= k
<1>1. PICK m \in T : \A y \in T : ~(<<y, m>> \in OpToRel(<, Nat))
  BY NatLessThanWellFounded, WFMin
<1>2. \A y \in T : ~(y < m)
  BY <1>1 DEF OpToRel
<1> QED
  BY <1>2

\* Of finite sets with some property, one of least size.
LEMMA LeastSet ==
    ASSUME NEW S, IsFiniteSet(S), NEW T \in SUBSET SUBSET S, T # {}
    PROVE  \E s \in T : \A x \in s : s \ {x} \notin T
<1>1. \A s \in SUBSET S : IsFiniteSet(s) /\ Cardinality(s) \in Nat
  BY FS_Subset, FS_CardinalityType
<1> DEFINE Sizes == {Cardinality(s) : s \in T}
<1>2. Sizes \in SUBSET Nat /\ Sizes # {}
  BY <1>1
<1>3. PICK m \in Sizes : \A k \in Sizes : m <= k
  BY <1>2, Least
<1>4. PICK s \in T : m = Cardinality(s)
  BY <1>3
<1>5. ASSUME NEW x \in s, s \ {x} \in T
      PROVE  FALSE
  <2>1. Cardinality(s \ {x}) = Cardinality(s) - 1 /\ Cardinality(s) \in Nat
    BY <1>1, FS_RemoveElement
  <2>2. Cardinality(s) <= Cardinality(s \ {x})
    BY <1>3, <1>4, <1>5
  <2> QED
    BY <2>1, <2>2
<1> QED
  BY <1>5

\* The fold of SumFunctionOnSet, for all subsets of S at once.
Pick(s) == CHOOSE x \in s : TRUE
Folded(f, g, s) == IF s = {} THEN 0 ELSE f[Pick(s)] + g[s \ {Pick(s)}]
Partial(f, S) == CHOOSE g : g = [s \in SUBSET S |-> Folded(f, g, s)]

LEMMA SumIsPartial ==
    ASSUME NEW f, NEW S
    PROVE  SumFunctionOnSet(f, S) = Partial(f, S)[S]
  BY DEF SumFunctionOnSet, FoldFunctionOnSet, MapThenFoldSet, Partial, Folded, Pick

LEMMA Picked ==
    ASSUME NEW s, s # {}
    PROVE  Pick(s) \in s
  BY DEF Pick

\* Sets of at most n elements can be folded; so can all.
LEMMA PartialExists ==
    ASSUME NEW f, NEW S, IsFiniteSet(S)
    PROVE  \E g : g = [s \in SUBSET S |-> Folded(f, g, s)]
<1> DEFINE Up(n) == \E g : /\ g = [s \in SUBSET S |-> g[s]]
                           /\ \A s \in SUBSET S : Cardinality(s) <= n => g[s] = Folded(f, g, s)
           Bad == {n \in Nat : ~Up(n)}
<1>1. \A s \in SUBSET S : IsFiniteSet(s) /\ Cardinality(s) \in Nat
  BY FS_Subset, FS_CardinalityType
<1>2. \A s \in SUBSET S : \A x \in s : s \ {x} \in SUBSET S /\ Cardinality(s \ {x}) = Cardinality(s) - 1
  BY <1>1, FS_RemoveElement
<1>3. \A s \in SUBSET S : Cardinality(s) = 0 <=> s = {}
  BY <1>1, FS_EmptySet
<1>4. Up(0)
  <2> DEFINE g == [s \in SUBSET S |-> 0]
  <2>1. g = [s \in SUBSET S |-> g[s]]
    OBVIOUS
  <2>2. ASSUME NEW s \in SUBSET S, Cardinality(s) <= 0
        PROVE  g[s] = Folded(f, g, s)
    <3>1. s = {}
      BY <1>1, <1>3, <2>2
    <3> QED
      BY <3>1 DEF Folded
  <2> QED
    BY <2>1, <2>2
<1>5. ASSUME NEW n \in Nat, Up(n)
      PROVE  Up(n + 1)
  <2>1. PICK g : /\ g = [s \in SUBSET S |-> g[s]]
                 /\ \A s \in SUBSET S : Cardinality(s) <= n => g[s] = Folded(f, g, s)
    BY <1>5
  <2> DEFINE h == [s \in SUBSET S |-> IF Cardinality(s) <= n THEN g[s] ELSE Folded(f, g, s)]
  <2>2. h = [s \in SUBSET S |-> h[s]]
    OBVIOUS
  <2>3. ASSUME NEW s \in SUBSET S, Cardinality(s) <= n + 1
        PROVE  h[s] = Folded(f, h, s)
    <3>1. h[s] = Folded(f, g, s)
      BY <2>1
    <3>2. CASE s = {}
      BY <3>1, <3>2 DEF Folded
    <3>3. CASE s # {}
      <4> DEFINE r == s \ {Pick(s)}
      <4>1. r \in SUBSET S /\ Cardinality(r) = Cardinality(s) - 1
        BY <1>2, <3>3, Picked
      <4>2. Cardinality(s) \in Nat
        BY <1>1
      <4>3. Cardinality(r) <= n
        BY <2>3, <4>1, <4>2
      <4>4. h[r] = g[r]
        BY <4>1, <4>3
      <4> HIDE DEF h
      <4> QED
        BY <3>1, <3>3, <4>4 DEF Folded
    <3> QED
      BY <3>2, <3>3
  <2> HIDE DEF h
  <2> QED
    BY <2>2, <2>3
<1> HIDE DEF Up
<1>6. Bad = {}
  <2> SUFFICES ASSUME Bad # {}
               PROVE  FALSE
    OBVIOUS
  <2>1. PICK m \in Bad : \A k \in Bad : m <= k
    BY Least
  <2>2. m # 0
    BY <1>4
  <2>3. m - 1 \in Nat /\ ~(m <= m - 1) /\ m = (m - 1) + 1
    BY <2>2
  <2>4. Up(m - 1)
    BY <2>1, <2>3
  <2> QED
    BY <1>5, <2>3, <2>4
<1>7. Up(Cardinality(S))
  BY <1>1, <1>6
<1>8. PICK g : /\ g = [s \in SUBSET S |-> g[s]]
               /\ \A s \in SUBSET S : Cardinality(s) <= Cardinality(S) => g[s] = Folded(f, g, s)
  BY <1>7 DEF Up
<1>9. \A s \in SUBSET S : g[s] = Folded(f, g, s)
  BY <1>8, FS_Subset
<1> QED
  BY <1>8, <1>9

LEMMA PartialUnfolds ==
    ASSUME NEW f, NEW S, IsFiniteSet(S), \A x \in S : f[x] \in Nat
    PROVE  /\ \A s \in SUBSET S : Partial(f, S)[s] = Folded(f, Partial(f, S), s)
           /\ \A s \in SUBSET S : Partial(f, S)[s] \in Nat
<1> DEFINE g == Partial(f, S)
<1>1. g = [s \in SUBSET S |-> Folded(f, g, s)]
  BY PartialExists DEF Partial
<1> HIDE DEF g
<1>2. \A s \in SUBSET S : g[s] = Folded(f, g, s)
  BY <1>1
<1> DEFINE Bad == {s \in SUBSET S : g[s] \notin Nat}
<1>3. Bad = {}
  <2> SUFFICES ASSUME Bad # {}
               PROVE  FALSE
    OBVIOUS
  <2>1. PICK s \in Bad : \A x \in s : s \ {x} \notin Bad
    BY LeastSet
  <2>2. s # {}
    <3>1. {} \in SUBSET S
      OBVIOUS
    <3>2. g[{}] = 0
      BY <1>2, <3>1 DEF Folded
    <3> QED
      BY <3>2
  <2>3. Pick(s) \in s /\ s \in SUBSET S
    BY <2>2, Picked
  <2>4. g[s \ {Pick(s)}] \in Nat /\ f[Pick(s)] \in Nat
    BY <2>1, <2>3
  <2>5. g[s] = f[Pick(s)] + g[s \ {Pick(s)}]
    BY <1>2, <2>2, <2>3 DEF Folded
  <2> QED
    BY <2>4, <2>5
<1> QED
  BY <1>2, <1>3 DEF g

\* The fold does not depend on the order.
LEMMA PartialRemoves ==
    ASSUME NEW f, NEW S, IsFiniteSet(S), \A x \in S : f[x] \in Nat,
           NEW s \in SUBSET S, NEW x \in s
    PROVE  Partial(f, S)[s] = f[x] + Partial(f, S)[s \ {x}]
<1> DEFINE g == Partial(f, S)
<1>1. /\ \A t \in SUBSET S : g[t] = Folded(f, g, t)
      /\ \A t \in SUBSET S : g[t] \in Nat
  BY PartialUnfolds
<1> HIDE DEF g
<1> DEFINE Bad == {t \in SUBSET S : \E y \in t : g[t] # f[y] + g[t \ {y}]}
<1>2. Bad = {}
  <2> SUFFICES ASSUME Bad # {}
               PROVE  FALSE
    OBVIOUS
  <2>1. PICK t \in Bad : \A y \in t : t \ {y} \notin Bad
    BY LeastSet
  <2>2. PICK y \in t : g[t] # f[y] + g[t \ {y}]
    BY <2>1
  <2> DEFINE z == Pick(t)
  <2>3. z \in t /\ t \in SUBSET S
    BY <2>2, Picked
  <2>4. g[t] = f[z] + g[t \ {z}]
    BY <1>1, <2>2, <2>3 DEF Folded
  <2> HIDE DEF z
  <2>5. z # y
    BY <2>2, <2>4
  <2>6. g[t \ {z}] = f[y] + g[(t \ {z}) \ {y}]
    BY <2>1, <2>3, <2>5
  <2>7. g[t \ {y}] = f[z] + g[(t \ {y}) \ {z}]
    BY <2>1, <2>3, <2>5
  <2>8. (t \ {z}) \ {y} = (t \ {y}) \ {z}
    OBVIOUS
  <2>9. PICK a \in Nat, b \in Nat, c \in Nat :
            a = f[y] /\ b = f[z] /\ c = g[(t \ {y}) \ {z}]
    BY <1>1, <2>3
  <2>10. g[t] = b + (a + c) /\ g[t \ {y}] = b + c
    BY <2>4, <2>6, <2>7, <2>8, <2>9
  <2>11. b + (a + c) = a + (b + c)
    OBVIOUS
  <2> QED
    BY <2>2, <2>9, <2>10, <2>11
<1> QED
  BY <1>2 DEF g

\* Nor on the set it is a part of.
LEMMA PartialOfPart ==
    ASSUME NEW f, NEW S, IsFiniteSet(S), \A x \in S : f[x] \in Nat, NEW T \in SUBSET S
    PROVE  Partial(f, T)[T] = Partial(f, S)[T]
<1> DEFINE g == Partial(f, S)
           h == Partial(f, T)
<1>1. \A t \in SUBSET S : g[t] = Folded(f, g, t)
  BY PartialUnfolds
<1>2. \A t \in SUBSET T : h[t] = Folded(f, h, t)
  <2>1. IsFiniteSet(T) /\ \A x \in T : f[x] \in Nat
    BY FS_Subset
  <2> QED
    BY <2>1, PartialUnfolds
<1> HIDE DEF g, h
<1> DEFINE Bad == {t \in SUBSET T : g[t] # h[t]}
<1>3. Bad = {}
  <2> SUFFICES ASSUME Bad # {}
               PROVE  FALSE
    OBVIOUS
  <2>1. Bad \in SUBSET SUBSET S
    OBVIOUS
  <2>2. PICK t \in Bad : \A y \in t : t \ {y} \notin Bad
    BY <2>1, LeastSet
  <2>3. t # {}
    BY <1>1, <1>2 DEF Folded
  <2>4. Pick(t) \in t
    BY <2>3, Picked
  <2>5. g[t \ {Pick(t)}] = h[t \ {Pick(t)}]
    BY <2>2, <2>4
  <2>6. g[t] = h[t]
    BY <1>1, <1>2, <2>3, <2>5 DEF Folded
  <2> QED
    BY <2>6
<1> QED
  BY <1>3 DEF g, h

\* What SumFunctionOnSet computes, one index at a time.
LEMMA SumOfIndices ==
    ASSUME NEW f, NEW S, IsFiniteSet(S), \A x \in S : f[x] \in Nat
    PROVE  /\ SumFunctionOnSet(f, S) \in Nat
           /\ S = {} => SumFunctionOnSet(f, S) = 0
           /\ \A x \in S : SumFunctionOnSet(f, S) = f[x] + SumFunctionOnSet(f, S \ {x})
<1> DEFINE g == Partial(f, S)
<1>1. /\ \A t \in SUBSET S : g[t] = Folded(f, g, t)
      /\ \A t \in SUBSET S : g[t] \in Nat
  BY PartialUnfolds
<1>2. SumFunctionOnSet(f, S) = g[S]
  BY SumIsPartial
<1>3. ASSUME NEW x \in S
      PROVE  g[S] = f[x] + SumFunctionOnSet(f, S \ {x})
  <2>1. g[S] = f[x] + g[S \ {x}]
    BY PartialRemoves
  <2> DEFINE T == S \ {x}
  <2>2. T \in SUBSET S
    OBVIOUS
  <2> HIDE DEF T
  <2>3. SumFunctionOnSet(f, T) = g[T]
    BY <2>2, SumIsPartial, PartialOfPart
  <2> QED
    BY <2>1, <2>3 DEF T
<1> HIDE DEF g
<1> QED
  BY <1>1, <1>2, <1>3 DEF Folded

-----------------------------------------------------------------------------
(* Sums over ages                                                          *)

LEMMA SumOfZeros ==
    ASSUME NEW f, NEW S, IsFiniteSet(S), \A x \in S : f[x] = 0
    PROVE  SumFunctionOnSet(f, S) = 0
<1> DEFINE Bad == {t \in SUBSET S : SumFunctionOnSet(f, t) # 0}
<1>1. Bad = {}
  <2> SUFFICES ASSUME Bad # {}
               PROVE  FALSE
    OBVIOUS
  <2>1. PICK t \in Bad : \A y \in t : t \ {y} \notin Bad
    BY LeastSet
  <2>2. IsFiniteSet(t) /\ \A x \in t : f[x] \in Nat
    BY FS_Subset
  <2>3. t # {}
    BY <2>1, <2>2, SumOfIndices
  <2>4. PICK x \in t : TRUE
    BY <2>3
  <2>5. SumFunctionOnSet(f, t) = f[x] + SumFunctionOnSet(f, t \ {x})
    BY <2>2, SumOfIndices
  <2>6. f[x] = 0 /\ SumFunctionOnSet(f, t \ {x}) = 0
    BY <2>1, <2>4
  <2> QED
    BY <2>1, <2>5, <2>6
<1> QED
  BY <1>1

LEMMA SumUpTo ==
    ASSUME NEW n \in Nat, NEW f, \A a \in 0..n : f[a] \in Nat
    PROVE  /\ SumFunctionOnSet(f, 0..n) \in Nat
           /\ n = 0 => SumFunctionOnSet(f, 0..n) = f[0]
           /\ n # 0 => /\ SumFunctionOnSet(f, 0..n) = f[n] + SumFunctionOnSet(f, 0..n - 1)
                       /\ SumFunctionOnSet(f, 0..n - 1) \in Nat
<1> DEFINE S == 0..n
           T == 0..n - 1
<1>0. IsFiniteSet(S) /\ IsFiniteSet(T)
  BY FS_Interval
<1>1. n \in S /\ S \ {n} = T
  OBVIOUS
<1>2. /\ \A a \in S : f[a] \in Nat
      /\ \A a \in T : f[a] \in Nat
  OBVIOUS
<1>3. n = 0 => T = {}
  OBVIOUS
<1> HIDE DEF S, T
<1>4. /\ SumFunctionOnSet(f, S) = f[n] + SumFunctionOnSet(f, T)
      /\ SumFunctionOnSet(f, S) \in Nat
      /\ SumFunctionOnSet(f, T) \in Nat
      /\ n = 0 => SumFunctionOnSet(f, T) = 0
  BY <1>0, <1>1, <1>2, <1>3, SumOfIndices
<1>5. f[n] \in Nat
  BY <1>1, <1>2
<1> QED
  BY <1>4, <1>5 DEF S, T

\* Whatever is a unit older now is missing only what left the window.
LEMMA SumShifted ==
    ASSUME NEW n \in Nat, NEW f, NEW g, \A a \in 0..n : f[a] \in Nat,
           g[0] = 0, \A a \in 1..n : g[a] = f[a - 1]
    PROVE  SumFunctionOnSet(g, 0..n) + f[n] = SumFunctionOnSet(f, 0..n)
<1> DEFINE Bad == {m \in 0..n : SumFunctionOnSet(g, 0..m) + f[m] # SumFunctionOnSet(f, 0..m)}
<1>0. \A a \in 0..n : g[a] \in Nat
  OBVIOUS
<1>1. Bad = {}
  <2> SUFFICES ASSUME Bad # {}
               PROVE  FALSE
    OBVIOUS
  <2>0. Bad \in SUBSET Nat
    OBVIOUS
  <2> HIDE DEF Bad
  <2>1. PICK m \in Bad : \A k \in Bad : m <= k
    BY <2>0, Least
  <2> USE DEF Bad
  <2>2. /\ m \in Nat /\ \A a \in 0..m : f[a] \in Nat /\ g[a] \in Nat
        /\ SumFunctionOnSet(g, 0..m) + f[m] # SumFunctionOnSet(f, 0..m)
        /\ m \in 0..n /\ 0 \in 0..m
    BY <1>0
  <2>3. CASE m = 0
    <3>1. SumFunctionOnSet(g, 0..m) = g[0] /\ SumFunctionOnSet(f, 0..m) = f[0]
      BY <2>2, <2>3, SumUpTo
    <3> QED
      BY <2>2, <2>3, <3>1
  <2>4. CASE m # 0
    <3>1. /\ SumFunctionOnSet(f, 0..m) = f[m] + SumFunctionOnSet(f, 0..m - 1)
          /\ SumFunctionOnSet(f, 0..m - 1) \in Nat
      BY <2>2, <2>4, SumUpTo
    <3>2. /\ SumFunctionOnSet(g, 0..m) = g[m] + SumFunctionOnSet(g, 0..m - 1)
          /\ SumFunctionOnSet(g, 0..m - 1) \in Nat
      BY <2>2, <2>4, SumUpTo
    <3>3. m - 1 \in 0..n /\ ~(m <= m - 1) /\ m - 1 \in 0..m /\ m \in 1..n /\ m \in 0..m
      BY <2>2, <2>4
    <3>4. SumFunctionOnSet(g, 0..m - 1) + f[m - 1] = SumFunctionOnSet(f, 0..m - 1)
      BY <2>1, <3>3
    <3>5. g[m] = f[m - 1] /\ f[m - 1] \in Nat /\ f[m] \in Nat
      BY <2>2, <3>3
    <3> QED
      BY <2>2, <3>1, <3>2, <3>4, <3>5
  <2> QED
    BY <2>3, <2>4
<1> QED
  BY <1>1

-----------------------------------------------------------------------------
(* The breaker                                                             *)

\* What the code keeps and what really happened agree for a CLOSED breaker,
\* up to failures it has not cleaned up yet.
KeptInv ==
    /\ failed[window_seconds] = 0
    /\ state = "closed" => \A a \in Young : timestamps[a] = failed[a]

BreakerInv == BreakerTypeOK /\ KeptInv /\ ClosedMeansFewFailures

LEMMA AgeSets ==
    /\ window_seconds \in Nat \ {0}
    /\ 0 \in Young /\ 0 \in FailureAges /\ window_seconds \in FailureAges
    /\ Young \subseteq FailureAges /\ window_seconds \notin Young
    /\ FailureAges \ {window_seconds} = Young
    /\ \A a \in FailureAges : a \in Young \/ a = window_seconds
    /\ \A a \in FailureAges \ {0} : a - 1 \in Young
  BY BreakerAssumption DEF FailureAges, Young

LEMMA FiniteAges == IsFiniteSet(FailureAges) /\ IsFiniteSet(Young)
  BY BreakerAssumption, FS_Interval DEF FailureAges, Young

\* A list without failures older than the window counts those within it.
LEMMA CleanSum ==
    ASSUME NEW f \in [FailureAges -> Nat], f[window_seconds] = 0
    PROVE  SumFunction(f) = SumFunctionOnSet(f, Young) /\ SumFunction(f) \in Nat
<1>1. SumFunction(f) = SumFunctionOnSet(f, FailureAges)
  BY DEF SumFunction
<1>2. /\ SumFunctionOnSet(f, FailureAges)
            = f[window_seconds] + SumFunctionOnSet(f, FailureAges \ {window_seconds})
      /\ SumFunctionOnSet(f, FailureAges) \in Nat
  <2>1. /\ IsFiniteSet(FailureAges) /\ window_seconds \in FailureAges
        /\ \A a \in FailureAges : f[a] \in Nat
    BY AgeSets, FiniteAges
  <2> QED
    BY ONLY <2>1, SumOfIndices
<1>3. SumFunctionOnSet(f, Young) \in Nat
  <2>1. IsFiniteSet(Young) /\ \A a \in Young : f[a] \in Nat
    BY AgeSets, FiniteAges
  <2> QED
    BY ONLY <2>1, SumOfIndices
<1> QED
  BY <1>1, <1>2, <1>3, AgeSets

LEMMA NoFailuresSum == SumFunctionOnSet(NoFailures, Young) = 0
  BY AgeSets, FiniteAges, SumOfZeros DEF NoFailures

\* Time only takes failures out of the window.
LEMMA OlderSum ==
    ASSUME NEW f \in [FailureAges -> Nat], NEW g, g[0] = 0,
           \A a \in Young \ {0} : g[a] = f[a - 1]
    PROVE  SumFunctionOnSet(g, Young) <= SumFunctionOnSet(f, Young)
<1>1. PICK n \in Nat : n = window_seconds - 1 /\ Young = 0..n /\ n + 1 = window_seconds
  BY BreakerAssumption DEF Young
<1>2. /\ \A a \in 0..n : f[a] \in Nat
      /\ \A a \in 1..n : g[a] = f[a - 1]
      /\ \A a \in 0..n : g[a] \in Nat
  BY <1>1 DEF FailureAges
<1>3. SumFunctionOnSet(g, 0..n) + f[n] = SumFunctionOnSet(f, 0..n)
  BY <1>2, SumShifted
<1>4. /\ SumFunctionOnSet(g, 0..n) \in Nat /\ SumFunctionOnSet(f, 0..n) \in Nat
      /\ f[n] \in Nat
  BY <1>2, SumUpTo
<1>5. SumFunctionOnSet(g, 0..n) <= SumFunctionOnSet(f, 0..n)
  BY <1>3, <1>4
<1> QED
  BY <1>1, <1>5

\* After a failure is recorded and old ones are dropped, the code's list and
\* the failures of the window are the same.
LEMMA FailureCounted ==
    ASSUME BreakerInv, state = "closed", record_failure
    PROVE  /\ timestamps' = failed'
           /\ failed' \in [FailureAges -> Nat]
           /\ failed'[window_seconds] = 0
           /\ SumFunction(timestamps') = SumFunctionOnSet(failed', Young)
           /\ SumFunction(timestamps') \in Nat
<1> USE AgeSets
<1>1. /\ timestamps \in [FailureAges -> Nat] /\ failed \in [FailureAges -> Nat]
      /\ failed[window_seconds] = 0 /\ \A a \in Young : timestamps[a] = failed[a]
  BY DEF BreakerInv, BreakerTypeOK, KeptInv
<1>2. failed' = [failed EXCEPT ![0] = @ + 1]
  BY DEF record_failure, Recorded
<1>3. timestamps' = [[timestamps EXCEPT ![0] = @ + 1] EXCEPT ![window_seconds] = 0]
  BY DEF record_failure, Recorded, _cleanup_old_failures
<1>4. 0 # window_seconds /\ timestamps[0] + 1 \in Nat /\ failed[0] + 1 \in Nat
  BY <1>1
<1>5. failed' \in [FailureAges -> Nat] /\ failed'[window_seconds] = 0
  BY <1>1, <1>2, <1>4
<1>6. timestamps' \in [FailureAges -> Nat]
  BY <1>1, <1>3, <1>4
<1>7. ASSUME NEW a \in FailureAges
      PROVE  timestamps'[a] = failed'[a]
  <2>1. CASE a = window_seconds
    BY <1>1, <1>3, <1>5, <2>1
  <2>2. CASE a \in Young
    BY <1>1, <1>2, <1>3, <1>4, <2>2
  <2> QED
    BY <2>1, <2>2
<1> DEFINE f == failed'
           g == timestamps'
<1>8. g = f
  <2>1. f \in [FailureAges -> Nat] /\ g \in [FailureAges -> Nat]
    BY <1>5, <1>6
  <2>2. \A a \in FailureAges : g[a] = f[a]
    BY <1>7
  <2> HIDE DEF f, g
  <2>3. f = [a \in FailureAges |-> f[a]] /\ g = [a \in FailureAges |-> g[a]]
    BY <2>1
  <2>4. [a \in FailureAges |-> f[a]] = [a \in FailureAges |-> g[a]]
    BY <2>2
  <2> QED
    BY <2>3, <2>4
<1>9. f \in [FailureAges -> Nat] /\ f[window_seconds] = 0 /\ timestamps' = f
  BY <1>5, <1>8
<1> HIDE DEF f, g
<1>10. SumFunction(f) = SumFunctionOnSet(f, Young) /\ SumFunction(f) \in Nat
  BY <1>9, CleanSum
<1> QED
  BY <1>5, <1>8, <1>9, <1>10 DEF f, g

LEMMA BreakerInvInit == BreakerInit => BreakerInv
<1> SUFFICES ASSUME BreakerInit
             PROVE  BreakerInv
  OBVIOUS
<1> USE BreakerAssumption
<1>1. BreakerTypeOK
  BY DEF BreakerInit, BreakerTypeOK, NoFailures
<1>2. KeptInv
  BY AgeSets DEF BreakerInit, KeptInv, NoFailures
<1>3. ClosedMeansFewFailures
  BY NoFailuresSum DEF BreakerInit, ClosedMeansFewFailures
<1> QED
  BY <1>1, <1>2, <1>3 DEF BreakerInv

LEMMA BreakerTypeStep ==
    ASSUME BreakerTypeOK, BreakerNext
    PROVE  BreakerTypeOK'
<1> USE BreakerAssumption, AgeSets
<1>1. /\ timestamps \in [FailureAges -> Nat] /\ failed \in [FailureAges -> Nat]
      /\ NoFailures \in [FailureAges -> Nat]
      /\ 0 \in 0..success_threshold - 1
  BY DEF BreakerTypeOK, NoFailures
<1>2. \A f \in [FailureAges -> Nat] :
        /\ Recorded(f) \in [FailureAges -> Nat]
        /\ _cleanup_old_failures(f) \in [FailureAges -> Nat]
        /\ MovedOn(f) \in [FailureAges -> Nat]
        /\ [MovedOn(f) EXCEPT ![window_seconds] = 0] \in [FailureAges -> Nat]
  <2> SUFFICES ASSUME NEW f \in [FailureAges -> Nat]
               PROVE  /\ Recorded(f) \in [FailureAges -> Nat]
                      /\ _cleanup_old_failures(f) \in [FailureAges -> Nat]
                      /\ MovedOn(f) \in [FailureAges -> Nat]
                      /\ [MovedOn(f) EXCEPT ![window_seconds] = 0] \in [FailureAges -> Nat]
    OBVIOUS
  <2>1. f[0] + 1 \in Nat
    OBVIOUS
  <2>2. ASSUME NEW a \in FailureAges
        PROVE  (IF a = 0 THEN 0
                ELSE IF a = window_seconds THEN f[a] + f[a - 1] ELSE f[a - 1]) \in Nat
    <3>1. a # 0 => f[a - 1] \in Nat
      OBVIOUS
    <3>2. f[a] \in Nat
      OBVIOUS
    <3> QED
      BY <3>1, <3>2
  <2>3. MovedOn(f) \in [FailureAges -> Nat]
    BY <2>2 DEF MovedOn
  <2> QED
    BY <2>1, <2>3 DEF Recorded, _cleanup_old_failures
<1>3. CASE is_open
  BY <1>3, <1>1 DEF is_open, _transition_to_half_open, BreakerTypeOK
<1>4. CASE record_success
  BY <1>4, <1>1, <1>2 DEF record_success, _transition_to_closed, BreakerTypeOK
<1>5. CASE record_failure
  BY <1>5, <1>1, <1>2 DEF record_failure, _transition_to_open, BreakerTypeOK
<1>6. CASE BreakerTick
  BY <1>6, <1>1, <1>2 DEF BreakerTick, BreakerTypeOK
<1>7. CASE ProviderChanges
  BY <1>7 DEF ProviderChanges, breaker, BreakerTypeOK
<1> QED
  BY <1>3, <1>4, <1>5, <1>6, <1>7 DEF BreakerNext

\* A unit of time.
LEMMA BreakerTickInv ==
    ASSUME BreakerInv, BreakerTick
    PROVE  KeptInv' /\ ClosedMeansFewFailures'
<1> USE AgeSets
<1>1. timestamps \in [FailureAges -> Nat] /\ failed \in [FailureAges -> Nat]
  BY DEF BreakerInv, BreakerTypeOK
<1>2. /\ \A a \in Young : timestamps'[a] = IF a = 0 THEN 0 ELSE timestamps[a - 1]
      /\ \A a \in Young : failed'[a] = IF a = 0 THEN 0 ELSE failed[a - 1]
      /\ failed'[window_seconds] = 0
  BY DEF BreakerTick, MovedOn
<1>3. KeptInv'
  BY <1>2 DEF BreakerInv, KeptInv, BreakerTick
<1> DEFINE g == failed'
<1>4. g[0] = 0 /\ \A a \in Young \ {0} : g[a] = failed[a - 1]
  BY <1>2
<1> HIDE DEF g
<1>5. SumFunctionOnSet(g, Young) <= SumFunctionOnSet(failed, Young)
  BY <1>1, <1>4, OlderSum
<1>6. SumFunctionOnSet(g, Young) \in Nat /\ SumFunctionOnSet(failed, Young) \in Nat
  <2>1. \A a \in Young : g[a] \in Nat /\ failed[a] \in Nat
    BY <1>1, <1>4
  <2> QED
    BY <2>1, FiniteAges, SumOfIndices
<1>7. ClosedMeansFewFailures'
  BY <1>5, <1>6, BreakerAssumption DEF BreakerInv, ClosedMeansFewFailures, BreakerTick, g
<1> QED
  BY <1>3, <1>7

LEMMA BreakerInvStep == BreakerInv /\ [BreakerNext]_breakerVars => BreakerInv'
<1> SUFFICES ASSUME BreakerInv, [BreakerNext]_breakerVars
             PROVE  BreakerInv'
  OBVIOUS
<1>1. CASE UNCHANGED breakerVars
  BY <1>1 DEF breakerVars, breaker, BreakerInv, BreakerTypeOK, KeptInv, ClosedMeansFewFailures
<1>2. CASE BreakerNext
  <2>1. BreakerTypeOK'
    BY <1>2, BreakerTypeStep DEF BreakerInv
  <2>2. CASE is_open
    BY <2>1, <2>2 DEF is_open, _transition_to_half_open, BreakerInv, KeptInv, ClosedMeansFewFailures
  <2>3. CASE record_success
    <3>1. CASE UNCHANGED <<state, failed>>
      <4>1. \A a \in Young : _cleanup_old_failures(timestamps)[a] = timestamps[a]
        BY AgeSets DEF _cleanup_old_failures, BreakerInv, BreakerTypeOK
      <4>2. state' = "closed" => state = "closed" /\ \A a \in Young : timestamps'[a] = timestamps[a]
        BY <2>3, <3>1, <4>1 DEF record_success
      <4> QED
        BY <2>1, <3>1, <4>2 DEF BreakerInv, KeptInv, ClosedMeansFewFailures
    <3>2. CASE _transition_to_closed
      <4>1. failed' = NoFailures /\ timestamps' = NoFailures
        BY <3>2 DEF _transition_to_closed
      <4>2. KeptInv'
        BY <4>1, AgeSets DEF KeptInv, NoFailures
      <4>3. ClosedMeansFewFailures'
        BY <4>1, NoFailuresSum, BreakerAssumption DEF ClosedMeansFewFailures
      <4> QED
        BY <2>1, <4>2, <4>3 DEF BreakerInv
    <3> QED
      BY <2>3, <3>1, <3>2 DEF record_success
  <2>4. CASE record_failure
    <3>1. CASE state = "closed"
      <4>1. /\ timestamps' = failed'
            /\ failed'[window_seconds] = 0
            /\ SumFunction(timestamps') = SumFunctionOnSet(failed', Young)
            /\ SumFunction(timestamps') \in Nat
        BY <2>4, <3>1, FailureCounted
      <4>2. state' = "closed" => ~(SumFunction(timestamps') >= failure_threshold)
        BY <2>4, <3>1 DEF record_failure, _transition_to_open
      <4>3. state' = "closed" => SumFunctionOnSet(failed', Young) < failure_threshold
        BY <4>1, <4>2, BreakerAssumption
      <4> QED
        BY <2>1, <4>1, <4>3 DEF BreakerInv, KeptInv, ClosedMeansFewFailures
    <3>2. CASE state # "closed"
      <4>1. state' # "closed"
        BY <2>4, <3>2 DEF record_failure, _transition_to_open
      <4>2. failed'[window_seconds] = 0
        BY <2>4, AgeSets DEF record_failure, Recorded, BreakerInv, BreakerTypeOK, KeptInv
      <4> QED
        BY <2>1, <4>1, <4>2 DEF BreakerInv, KeptInv, ClosedMeansFewFailures
    <3> QED
      BY <3>1, <3>2
  <2>5. CASE BreakerTick
    BY <2>1, <2>5, BreakerTickInv DEF BreakerInv
  <2>6. CASE ProviderChanges
    BY <2>1, <2>6 DEF ProviderChanges, breaker, BreakerInv, KeptInv, ClosedMeansFewFailures
  <2> QED
    BY <1>2, <2>2, <2>3, <2>4, <2>5, <2>6 DEF BreakerNext
<1> QED
  BY <1>1, <1>2

LEMMA BreakerInvAlways == BreakerSpec => []BreakerInv
  BY BreakerInvInit, BreakerInvStep, PTL DEF BreakerSpec

\* CircuitBreaker: while it is CLOSED, fewer than failure_threshold of the
\* failures recorded since it was closed lie within the last window, for any
\* thresholds, window and number of concurrent calls; cleanups at whatever
\* moment and results that arrive late hide none.
THEOREM ClosedBreakerHasFewFailures == BreakerSpec => []ClosedMeansFewFailures
  BY BreakerInvAlways, PTL DEF BreakerInv

\* record_failure opens a CLOSED breaker only for failure_threshold failures
\* that lie within one window: none is counted after it has left it, and
\* none twice.
THEOREM BreakerOpensForCause == BreakerSpec => OpensForCause
<1>1. BreakerInv /\ [BreakerNext]_breakerVars =>
        [state = "closed" /\ state' = "open" =>
            SumFunctionOnSet(failed', Young) >= failure_threshold]_breakerVars
  <2> SUFFICES ASSUME BreakerInv, BreakerNext, state = "closed", state' = "open"
               PROVE  SumFunctionOnSet(failed', Young) >= failure_threshold
    OBVIOUS
  <2>1. record_failure
    BY DEF BreakerNext, is_open, record_success, BreakerTick, ProviderChanges, breaker,
           _transition_to_closed, _transition_to_half_open
  <2>2. SumFunction(timestamps') >= failure_threshold
    BY <2>1 DEF record_failure
  <2> QED
    BY <2>1, <2>2, FailureCounted
<1> QED
  BY <1>1, BreakerInvAlways, PTL DEF BreakerSpec, OpensForCause

=============================================================================
