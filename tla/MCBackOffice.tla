---------------------------- MODULE MCBackOffice ----------------------------
EXTENDS BackOffice, TLC

Symmetry == Permutations(Notifications) \cup Permutations(Slots)

=============================================================================
