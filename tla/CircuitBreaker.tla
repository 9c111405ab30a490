--------------------------- MODULE CircuitBreaker ---------------------------
(***************************************************************************)
(* CircuitBreaker (app/rabbitmq/circuit_breaker.py) of one provider, shared *)
(* by the coroutines of a process: a coroutine asks is_open(), calls the   *)
(* provider if it may, and records the result some time later, when the    *)
(* breaker may be in another state.  Nothing calls the breaker at this     *)
(* commit; the callers follow ARCHITECTURE.md, "Circuit Breaker Flow".     *)
(*                                                                         *)
(* Times are kept as ages, in units of the clock: opened is the age of     *)
(* opened_at and timestamps[a] counts the entries of _failure_timestamps   *)
(* of age a.  An age beyond the one the code compares with stays there.    *)
(***************************************************************************)
EXTENDS Naturals, Functions

CONSTANTS
    failure_threshold,
    success_threshold,
    timeout_seconds,
    window_seconds,
    MaxInFlight         \* bound: concurrent calls of the provider

ASSUME BreakerAssumption ==
    /\ failure_threshold \in Nat \ {0}
    /\ success_threshold \in Nat \ {0}
    /\ timeout_seconds \in Nat \ {0}
    /\ window_seconds \in Nat \ {0}
    /\ MaxInFlight \in Nat \ {0}

VARIABLES
    state, success_count, opened, timestamps,
    inflight,           \* calls admitted whose result is not recorded yet
    up,                 \* whether the provider works
    failed              \* ghost: failures recorded since the breaker was last
                        \* closed, by age, younger than the window

breaker == <<state, success_count, opened, timestamps>>
breakerVars == <<breaker, inflight, up, failed>>

FailureAges == 0..window_seconds
Young == 0..window_seconds - 1
NoFailures == [a \in FailureAges |-> 0]

\* The clock advances by one unit.
MovedOn(f) == [a \in FailureAges |->
    IF a = 0 THEN 0
    ELSE IF a = window_seconds THEN f[a] + f[a - 1] ELSE f[a - 1]]

Recorded(f) == [f EXCEPT ![0] = @ + 1]

BreakerTypeOK ==
    /\ state \in {"closed", "open", "half_open"}
    /\ success_count \in 0..success_threshold - 1
    /\ opened \in 0..timeout_seconds
    /\ timestamps \in [FailureAges -> Nat]
    /\ inflight \in 0..MaxInFlight
    /\ up \in BOOLEAN
    /\ failed \in [FailureAges -> Nat]

BreakerInit ==
    /\ state = "closed"
    /\ success_count = 0
    /\ opened = timeout_seconds
    /\ timestamps = NoFailures
    /\ inflight = 0
    /\ up = TRUE
    /\ failed = NoFailures

-----------------------------------------------------------------------------
(* The breaker                                                             *)

\* Mutant: failures are dropped one unit too early.
_cleanup_old_failures_TooSoon(f) ==
    [f EXCEPT ![window_seconds] = 0, ![window_seconds - 1] = 0]

\* Mutant: nothing is ever dropped.
_cleanup_old_failures_Never(f) == f

\* Keeps what is younger than the window.
_cleanup_old_failures(f) == [f EXCEPT ![window_seconds] = 0]

_transition_to_open ==
    /\ state' = "open"
    /\ opened' = 0
    /\ success_count' = 0

\* Mutant: calls are let through without leaving OPEN.
_transition_to_half_open_Dropped == UNCHANGED <<state, success_count>>

_transition_to_half_open ==
    /\ state' = "half_open"
    /\ success_count' = 0

_transition_to_closed ==
    /\ state' = "closed"
    /\ success_count' = 0
    /\ timestamps' = NoFailures
    /\ failed' = NoFailures

\* is_open() returns False and the call starts.  An OPEN breaker whose
\* timeout has passed becomes HALF_OPEN; a HALF_OPEN one lets everybody in.
\* (is_open() returning True changes nothing.)
is_open ==
    /\ inflight < MaxInFlight
    /\ inflight' = inflight + 1
    /\ \/ /\ state # "open"
          /\ UNCHANGED <<state, success_count>>
       \/ /\ state = "open"
          /\ opened >= timeout_seconds
          /\ _transition_to_half_open
    /\ UNCHANGED <<opened, timestamps, up, failed>>

\* A success recorded while OPEN (of a call made before) is ignored.
record_success ==
    /\ inflight > 0
    /\ up
    /\ inflight' = inflight - 1
    /\ \/ /\ state = "half_open"
          /\ success_count + 1 >= success_threshold
          /\ _transition_to_closed
       \/ /\ state = "half_open"
          /\ success_count + 1 < success_threshold
          /\ success_count' = success_count + 1
          /\ UNCHANGED <<state, timestamps, failed>>
       \/ /\ state = "closed"
          /\ timestamps' = _cleanup_old_failures(timestamps)
          /\ UNCHANGED <<state, success_count, failed>>
       \/ /\ state = "open"
          /\ UNCHANGED <<state, success_count, timestamps, failed>>
    /\ UNCHANGED <<opened, up>>

record_failure ==
    /\ inflight > 0
    /\ ~up
    /\ inflight' = inflight - 1
    /\ timestamps' = _cleanup_old_failures(Recorded(timestamps))
    /\ failed' = Recorded(failed)
    /\ IF \/ state = "half_open"
          \/ state = "closed" /\ SumFunction(timestamps') >= failure_threshold
       THEN _transition_to_open
       ELSE UNCHANGED <<state, success_count, opened>>
    /\ UNCHANGED up

-----------------------------------------------------------------------------
(* Clock and provider                                                      *)

BreakerTick ==
    /\ opened' = IF opened < timeout_seconds THEN opened + 1 ELSE opened
    /\ timestamps' = MovedOn(timestamps)
    /\ failed' = [MovedOn(failed) EXCEPT ![window_seconds] = 0]
    /\ UNCHANGED <<state, success_count, inflight, up>>

ProviderChanges ==
    /\ up' = ~up
    /\ UNCHANGED <<breaker, inflight, failed>>

BreakerNext == is_open \/ record_success \/ record_failure \/ BreakerTick \/ ProviderChanges

\* Time passes, results are recorded, and there is always something to send.
Fairness ==
    /\ WF_breakerVars(BreakerTick)
    /\ WF_breakerVars(is_open)
    /\ WF_breakerVars(record_success \/ record_failure)

BreakerSpec == BreakerInit /\ [][BreakerNext]_breakerVars /\ Fairness

-----------------------------------------------------------------------------
(* Properties                                                              *)

\* A CLOSED breaker never has failure_threshold failures within one window:
\* late results, successes in between and the cleanup hide none of them.
ClosedMeansFewFailures ==
    state = "closed" => SumFunctionOnSet(failed, Young) < failure_threshold

\* The breaker leaves CLOSED only for failure_threshold failures that really
\* lie within one window, however long ago the last cleanup was.
OpensForCause ==
    [][state = "closed" /\ state' = "open" =>
          SumFunctionOnSet(failed', Young) >= failure_threshold]_breakerVars

\* Once the provider works for good, the breaker closes for good, whatever
\* calls were under way when it was opened or tested.
Recovers == <>[]up => <>[](state = "closed")

=============================================================================
