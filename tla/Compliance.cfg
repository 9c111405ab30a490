SPECIFICATION Spec
CONSTANTS
    Dispatches = {d1, d2}
    HoursPerDay = 4
    Zone = 3
    DND_CACHE_TTL = 4
SYMMETRY Symmetry
INVARIANTS QuietHoursKept VerdictIsRecent
