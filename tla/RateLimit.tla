----------------------------- MODULE RateLimit -----------------------------
(***************************************************************************)
(* rate_limit_middleware (app/middleware/rate_limit.py) for one client     *)
(* address; the keys of different clients have nothing in common.  Every   *)
(* request increments a minute and an hour counter in Redis and renews     *)
(* their expiry, in one MULTI/EXEC, also when it is then refused.  Paths   *)
(* that are never limited (/health, /metrics, the docs) touch nothing.     *)
(*                                                                         *)
(* Time is a number of clock units; a key's time to live counts down and   *)
(* the key is gone at 0.  The ages of the last requests are kept for the   *)
(* properties; past the longest window an age counts no further.           *)
(***************************************************************************)
EXTENDS Naturals

CONSTANTS
    Length,     \* 60 s and 3600 s, in clock units
    Limit,      \* settings.RATE_LIMIT_REQUESTS_PER_MINUTE, _PER_HOUR
    MaxFaults   \* bound: Redis errors

Window == {"minute", "hour"}

ASSUME RateAssumption ==
    /\ Length \in [Window -> Nat \ {0}]
    /\ Length["minute"] <= Length["hour"]
    /\ Limit \in [Window -> Nat]
    /\ MaxFaults \in Nat

Longest == Length["hour"]
Ages == 0..Longest
Older(a) == IF a < Longest THEN a + 1 ELSE a

\* The last requests, one more than the limits allow in a window.
Last == 1..1 + (IF Limit["minute"] > Limit["hour"] THEN Limit["minute"] ELSE Limit["hour"])

VARIABLES
    counter,    \* rl:min:<ip> and rl:hour:<ip>, 0 when the key does not exist
    ttl,
    admitted,   \* ghost: the ages of the last requests let through after a
                \* check, the youngest first
    silence,    \* ghost: time since the client's last request
    faults

vars == <<counter, ttl, admitted, silence, faults>>

TypeOK ==
    /\ counter \in [Window -> Nat]
    /\ ttl \in [Window -> 0..Longest]
    /\ \A w \in Window : counter[w] = 0 <=> ttl[w] = 0
    /\ admitted \in [Last -> Ages]
    /\ silence \in Ages
    /\ faults \in 0..MaxFaults

Init ==
    /\ counter = [w \in Window |-> 0]
    /\ ttl = [w \in Window |-> 0]
    /\ admitted = [i \in Last |-> Longest]
    /\ silence = Longest
    /\ faults = 0

\* Bound on a counter: beyond the limit the code tells no counts apart.
Incremented(w) == IF counter[w] <= Limit[w] THEN counter[w] + 1 ELSE counter[w]

\* Mutant: the expiry is set only with a new key (a fixed window).
Count_FixedWindow ==
    /\ counter' = [w \in Window |-> Incremented(w)]
    /\ ttl' = [w \in Window |-> IF counter[w] = 0 THEN Length[w] ELSE ttl[w]]

\* Mutant: both keys live as long as the longer window.
Count_OneExpiry ==
    /\ counter' = [w \in Window |-> Incremented(w)]
    /\ ttl' = [w \in Window |-> Longest]

\* Mutant: INCR alone.
Count_NoExpiry ==
    /\ counter' = [w \in Window |-> Incremented(w)]
    /\ UNCHANGED ttl

\* INCR and EXPIRE of both keys.
Count ==
    /\ counter' = [w \in Window |-> Incremented(w)]
    /\ ttl' = [w \in Window |-> Length[w]]

\* A request that is counted, and refused when a counter exceeds its limit.
Request ==
    /\ Count
    /\ silence' = 0
    /\ admitted' = IF \E w \in Window : counter'[w] > Limit[w]
                   THEN admitted
                   ELSE [i \in Last |-> IF i = 1 THEN 0 ELSE admitted[i - 1]]
    /\ UNCHANGED faults

\* Redis fails, before or after the transaction was executed: the request
\* goes through unchecked.
RedisFails ==
    /\ faults < MaxFaults
    /\ faults' = faults + 1
    /\ Count \/ UNCHANGED <<counter, ttl>>
    /\ silence' = 0
    /\ UNCHANGED admitted

\* POST /admin/cache/flush deletes all keys; the limits start afresh.
FlushCache ==
    /\ counter' = [w \in Window |-> 0]
    /\ ttl' = [w \in Window |-> 0]
    /\ admitted' = [i \in Last |-> Longest]
    /\ UNCHANGED <<silence, faults>>

\* One unit of time; keys whose time to live is over disappear.
Tick ==
    /\ ttl' = [w \in Window |-> IF ttl[w] > 0 THEN ttl[w] - 1 ELSE 0]
    /\ counter' = [w \in Window |-> IF ttl[w] > 1 THEN counter[w] ELSE 0]
    /\ admitted' = [i \in Last |-> Older(admitted[i])]
    /\ silence' = Older(silence)
    /\ UNCHANGED faults

Next == Request \/ RedisFails \/ FlushCache \/ Tick

Spec == Init /\ [][Next]_vars

-----------------------------------------------------------------------------
(* Properties                                                              *)

\* The limits hold for every sliding window, not only for those that start
\* with a new key: of the requests of a client that pass the check, the one
\* beyond the limit, counted back from the last, is always a whole minute
\* (hour) old.
LimitsHoldInEveryWindow ==
    \A w \in Window, i \in Last : i > Limit[w] => admitted[i] >= Length[w]

\* Retry-After is the truth: a client that has sent nothing for the time the
\* refusal named (60 or 3600 seconds) finds the counter gone that refused it.
RetryAfterSuffices ==
    \A w \in Window : silence >= Length[w] => counter[w] = 0

=============================================================================
