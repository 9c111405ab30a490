------------------------------ MODULE Taxonomy ------------------------------
(***************************************************************************)
(* The table of coded financial events (app/core/event_taxonomy.py) and    *)
(* the functions that look an event up in it.  Names, latencies and the    *)
(* fields of the message text are left out.                                *)
(***************************************************************************)
EXTENDS Naturals

CRITICAL == 1
HIGH == 2
MEDIUM == 3
LOW == 5
EventPriority == {CRITICAL, HIGH, MEDIUM, LOW}

NotificationChannel == {"sms", "email", "push", "whatsapp", "in_app", "call"}

\* An event of the table; bypass names what it is exempt from.
EventDefinition(code, priority, regulatory, classification, channels, bypass) ==
    [code |-> code, priority |-> priority, regulatory |-> regulatory,
     channels |-> channels, classification |-> classification, bypass |-> bypass]

Everything == {"quiet_hours", "dnd", "frequency_cap"}
Transactional(code, priority, regulatory, channels, bypass) ==
    EventDefinition(code, priority, regulatory, "transactional", channels, bypass)
Promotional(code, priority, regulatory, channels) ==
    EventDefinition(code, priority, regulatory, "promotional", channels, {})

TRANSACTION_EVENTS ==
    {Transactional("TXNX-001", HIGH, "sebi_mandatory", {"sms", "push", "email"}, {}),
     Transactional("TXNX-002", HIGH, "sebi_mandatory", {"sms", "push", "email"}, {}),
     Transactional("TXNX-003", HIGH, "advisory", {"push", "sms"}, {}),
     Transactional("TXNX-004", MEDIUM, "informational", {"email", "push"}, {}),
     Transactional("TXNX-005", HIGH, "banking_reg", {"sms", "push"}, {})}

RISK_EVENTS ==
    {Transactional("RISK-001", CRITICAL, "sebi_mandatory", {"sms", "push", "call"}, Everything),
     Transactional("RISK-002", CRITICAL, "sebi_mandatory", {"sms", "push", "email", "call"}, Everything),
     Transactional("RISK-003", CRITICAL, "sebi_mandatory", {"sms", "push", "email"}, Everything),
     Transactional("RISK-004", HIGH, "advisory", {"push", "email"}, {}),
     Transactional("RISK-005", MEDIUM, "advisory", {"email", "in_app"}, {})}

SIP_EVENTS ==
    {Transactional("SIPX-001", MEDIUM, "best_practice", {"push", "whatsapp"}, {}),
     Transactional("SIPX-002", HIGH, "amfi_required", {"sms", "email"}, {}),
     Transactional("SIPX-003", HIGH, "advisory", {"sms", "push", "email"}, {}),
     Promotional("SIPX-004", LOW, "advisory", {"email", "in_app"}),
     Promotional("SIPX-005", LOW, "engagement", {"push", "in_app"})}

MARKET_EVENTS ==
    {Transactional("MKTX-001", HIGH, "advisory", {"push", "sms"}, {}),
     Transactional("MKTX-002", CRITICAL, "exchange_mandate", {"push", "sms"}, Everything),
     Promotional("MKTX-003", LOW, "engagement", {"push"}),
     Transactional("MKTX-004", MEDIUM, "advisory", {"push", "email"}, {}),
     Promotional("MKTX-005", MEDIUM, "advisory", {"email", "in_app"})}

\* REGX-005 names a classification that the enumeration does not have, which
\* stops the import of this table and of the API (see Templates' Importable);
\* the table is the one that results when the line is mended: REGX-005 is
\* neither transactional nor promotional.
REGULATORY_EVENTS ==
    {Transactional("REGX-001", HIGH, "sebi_mandatory", {"sms", "email", "push"}, {"dnd"}),
     Transactional("REGX-002", MEDIUM, "advisory", {"email", "push"}, {}),
     Transactional("REGX-003", HIGH, "sebi_mandatory", {"email"}, {}),
     Transactional("REGX-004", MEDIUM, "it_act_required", {"email", "in_app"}, {}),
     EventDefinition("REGX-005", LOW, "informational", "informational", {"email"}, {})}

ALL_EVENTS ==
    TRANSACTION_EVENTS \cup RISK_EVENTS \cup SIP_EVENTS \cup MARKET_EVENTS \cup REGULATORY_EVENTS

\* By code; no two events have the same.
EVENT_REGISTRY ==
    [code \in {e.code : e \in ALL_EVENTS} |-> CHOOSE e \in ALL_EVENTS : e.code = code]

Known(code) == code \in DOMAIN EVENT_REGISTRY

get_priority_for_event(code) ==
    IF Known(code) THEN EVENT_REGISTRY[code].priority ELSE MEDIUM

is_dnd_exempt(code) ==
    /\ Known(code)
    /\ \/ "dnd" \in EVENT_REGISTRY[code].bypass
       \/ EVENT_REGISTRY[code].classification = "transactional"

is_quiet_hours_exempt(code) ==
    Known(code) /\ "quiet_hours" \in EVENT_REGISTRY[code].bypass

\* The channels regulation mandates, which a request cannot leave out.
get_mandatory_channels(code) ==
    IF /\ Known(code)
       /\ EVENT_REGISTRY[code].regulatory \in
              {"sebi_mandatory", "amfi_required", "banking_reg", "exchange_mandate"}
    THEN EVENT_REGISTRY[code].channels
    ELSE {}

=============================================================================
