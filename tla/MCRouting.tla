----------------------------- MODULE MCRouting -----------------------------
EXTENDS Routing

\* A critical event with mandatory channels, and one the taxonomy lacks.
MCCodes == {"MKTX-002", "transaction.success"}
MCAsked == {{}, {"push"}}

\* In the order of the code's 2, 5, 10 and 20.
MCPrefetch ==
    [critical |-> 1, high |-> 2, medium |-> 2, low |-> 3]

=============================================================================
