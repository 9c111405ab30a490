---------------------------- MODULE MCCompliance ----------------------------
EXTENDS Compliance, TLC

Symmetry == Permutations(Dispatches)

=============================================================================
