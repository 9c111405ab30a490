SPECIFICATION Spec
CONSTANTS
    Callers = {c1, c2}
    Caps <- MCNoCaps
    Defaults <- MCDefaults
    HoursPerDay = 2
    DaysPerWeek = 2
    MaxHour = 4
    MaxFaults = 1
SYMMETRY Symmetry
INVARIANT ZeroIsUnlimited
