SPECIFICATION Spec
CONSTANTS
    Callers = {c1, c2}
    Caps <- MCCaps
    Defaults <- MCDefaults
    HoursPerDay = 2
    DaysPerWeek = 2
    MaxHour = 4
    MaxFaults = 1
SYMMETRY Symmetry
INVARIANTS TypeOK OvershootBounded CountsAreEarned
