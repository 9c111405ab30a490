--------------------------- MODULE MCFrequencyCap ---------------------------
EXTENDS FrequencyCap, TLC

Limits(h, d, w) == [window \in Window |->
    IF window = "hourly" THEN h ELSE IF window = "daily" THEN d ELSE w]

\* The day and the week fall back on the defaults.
MCCaps == Limits(1, 0, 0)
MCNoCaps == Limits(0, 0, 0)
MCDefaults == Limits(2, 2, 3)

Symmetry == Permutations(Callers)

=============================================================================
