---- MODULE MCDelivery ----
EXTENDS Delivery, TLC
Symmetry == Permutations(Workers) \cup Permutations(Clients)
====
