------------------------------- MODULE MCApi -------------------------------
(***************************************************************************)
(* Three components of an API process that share no state: the rate limit, *)
(* the circuit breaker and the templates.  Interleaving them would only    *)
(* multiply their states, so one of them moves and the others rest.        *)
(***************************************************************************)
EXTENDS RateLimit, CircuitBreaker, MCTemplates

VARIABLE moving         \* the component whose behaviour it is

MCLength == [w \in Window |-> IF w = "minute" THEN 3 ELSE 7]
MCLimit == [w \in Window |-> IF w = "minute" THEN 2 ELSE 4]

allVars == <<vars, breakerVars, templatesVars, moving>>

OfLimit(A) ==
    moving = "limit" /\ A /\ UNCHANGED <<breakerVars, templatesVars, moving>>
OfBreaker(A) ==
    moving = "breaker" /\ A /\ UNCHANGED <<vars, templatesVars, moving>>
OfTemplates(A) ==
    moving = "templates" /\ A /\ UNCHANGED <<vars, breakerVars, moving>>

ApiInit ==
    /\ Init /\ BreakerInit /\ TemplatesInit
    /\ moving \in {"limit", "breaker", "templates"}

ApiNext == OfLimit(Next) \/ OfBreaker(BreakerNext) \/ OfTemplates(TemplatesNext)

\* The fairness of BreakerSpec and of FairSpec, for the component that moves.
ApiFairness ==
    /\ WF_breakerVars(OfBreaker(BreakerTick))
    /\ WF_breakerVars(OfBreaker(is_open))
    /\ WF_breakerVars(OfBreaker(record_success \/ record_failure))
    /\ \A r \in Replicas : WF_templatesVars(OfTemplates(Seed(r)))

ApiSpec == ApiInit /\ [][ApiNext]_allVars /\ ApiFairness

=============================================================================
