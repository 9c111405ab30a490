----------------------------- MODULE MCIngestion -----------------------------
EXTENDS Ingestion

\* The last two offsets carry the same event; the others have no key.
MCKeyOf == [e \in 1..LogLength |-> IF e + 2 > LogLength THEN CHOOSE k \in Keys : TRUE ELSE NoKey]

=============================================================================
