----------------------------- MODULE MCAccounts -----------------------------
EXTENDS Accounts, TLC

\* One address in two spellings, and another.
MCLower == [e \in Emails |-> IF e = "Asha" THEN "asha" ELSE e]

Symmetry == Permutations(Ids) \cup Permutations(Slots)

=============================================================================
