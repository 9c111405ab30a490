SPECIFICATION Spec
CONSTANTS
    Ids = {u1, u2}
    Emails = {"Asha", "asha", "ravi"}
    Lower <- MCLower
    Phones = {"98"}
    NoPhone = "none"
    FIRST_SUPERUSER_EMAIL = "ravi"
    Slots = {q1, q2}
    NewRoles = {"USER", "MANAGER", "ADMIN"}
    AccessTTL = 2
    RefreshTTL = 4
    MaxRequests = 6
SYMMETRY Symmetry
INVARIANTS
    OneUserPerAddress
    RowsHaveTheirUser
    StandingIsRecent
    FewDeviceRows
CHECK_DEADLOCK FALSE
