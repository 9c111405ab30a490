------------------------------ MODULE Accounts ------------------------------
(***************************************************************************)
(* Users, their tokens, preference rows and devices: AuthService, the      *)
(* users, preferences and device_tokens endpoints and the check of access  *)
(* tokens in auth_middleware.  A request reads, with the early returns its *)
(* code has, and commits later, against the unique and foreign-key         *)
(* constraints, on rows that may have changed or gone since (an UPDATE of  *)
(* a row that is gone raises StaleDataError); requests overlap.            *)
(*                                                                         *)
(* Time is counted in units of which a request takes at most one.          *)
(* Passwords, names and the values of preferences are not told apart.      *)
(***************************************************************************)
EXTENDS Naturals, FiniteSets

CONSTANTS
    Ids,                \* user ids; an id is never used twice
    Emails, Lower,      \* addresses as typed, and str.lower of them
    FIRST_SUPERUSER_EMAIL,
    Phones, NoPhone,
    Slots,              \* concurrent requests
    NewRoles,           \* the roles administrators give
    AccessTTL,          \* JWT_ACCESS_TOKEN_EXPIRE_MINUTES
    RefreshTTL,         \* JWT_REFRESH_TOKEN_EXPIRE_DAYS
    MaxRequests         \* bound: requests in a behaviour

UserRole == {"USER", "ANALYST", "MANAGER", "ADMIN", "SUPERADMIN"}
Admins == {"ADMIN", "SUPERADMIN"}
Managers == Admins \cup {"MANAGER"}

ASSUME AccountsAssumption ==
    /\ Lower \in [Emails -> Emails]
    /\ \A e \in Emails : Lower[Lower[e]] = Lower[e]
    /\ FIRST_SUPERUSER_EMAIL \in Emails
    /\ NoPhone \notin Phones
    /\ IsFiniteSet(Slots)
    /\ NewRoles \subseteq UserRole
    /\ AccessTTL \in Nat \ {0}
    /\ RefreshTTL \in Nat \ {0}
    /\ MaxRequests \in Nat

VARIABLES
    users,          \* the row of each id
    prefs,          \* the number of its preference rows
    devices,        \* its rows for one device token, by is_active
    tokens,         \* the tokens that have not expired
    req,            \* what each slot is doing
    late,           \* and whether it was at it before the last tick
    spent,          \* requests made
    sinceActive,    \* ghost: time since the user was active
    sinceRole       \* ghost: time since the user had the role

tables == <<users, prefs, devices>>
ghosts == <<sinceActive, sinceRole>>
vars == <<tables, tokens, req, late, spent, ghosts>>

Unborn == [state |-> "unborn", email |-> CHOOSE e \in Emails : TRUE,
           phone |-> NoPhone, role |-> "USER", active |-> FALSE]
Idle == [op |-> "idle"]
Live(u) == users[u].state = "live"
Long == AccessTTL + 2       \* bound on the ghosts: longer ago is the same

TypeOK ==
    /\ users \in [Ids -> [state : {"unborn", "live", "deleted"}, email : Emails,
                          phone : Phones \cup {NoPhone}, role : UserRole,
                          active : BOOLEAN]]
    /\ prefs \in [Ids -> Nat]
    /\ devices \in [Ids -> [BOOLEAN -> Nat]]
    /\ \A t \in tokens :
        /\ users[t.user].state # "unborn"
        /\ t.role \in UserRole
        /\ t.left \in 1..(IF t.kind = "access" THEN AccessTTL ELSE RefreshTTL)
    /\ late \in [Slots -> BOOLEAN]
    /\ spent \in 0..MaxRequests
    /\ sinceActive \in [Ids -> 0..Long]
    /\ sinceRole \in [Ids -> [UserRole -> 0..Long]]

\* Before the first start.
Init ==
    /\ users = [u \in Ids |-> Unborn]
    /\ prefs = [u \in Ids |-> 0]
    /\ devices = [u \in Ids |-> [a \in BOOLEAN |-> 0]]
    /\ tokens = {}
    /\ req = [q \in Slots |-> Idle]
    /\ late = [q \in Slots |-> FALSE]
    /\ spent = 0
    /\ sinceActive = [u \in Ids |-> Long]
    /\ sinceRole = [u \in Ids |-> [r \in UserRole |-> Long]]

-----------------------------------------------------------------------------
(* Requests in general                                                     *)

\* A request starts, and goes on if what it reads allows it.
Begin(q, r) ==
    /\ req[q] = Idle
    /\ spent < MaxRequests
    /\ spent' = spent + 1
    /\ req' = [req EXCEPT ![q] = r]
    /\ UNCHANGED <<tables, tokens, late, ghosts>>

End(q) ==
    /\ req' = [req EXCEPT ![q] = Idle]
    /\ late' = [late EXCEPT ![q] = FALSE]
    /\ UNCHANGED spent

\* get_current_user and require_roles: a token that has not expired, of the
\* user or of a role, is enough; the user's row is not read.
AccessOf(roles) == \E t \in tokens : t.kind = "access" /\ t.role \in roles
Authorised(u, roles) ==
    AccessOf(roles) \/ \E t \in tokens : t.kind = "access" /\ t.user = u

\* The users table has changed.
Noted ==
    /\ sinceActive' = [u \in Ids |->
          IF users'[u].state = "live" /\ users'[u].active THEN 0 ELSE sinceActive[u]]
    /\ sinceRole' = [u \in Ids |-> [r \in UserRole |->
          IF users'[u].state = "live" /\ users'[u].role = r THEN 0 ELSE sinceRole[u][r]]]

\* The unique indexes of users.
PhoneTaken(phone) ==
    phone # NoPhone /\ \E v \in Ids : Live(v) /\ users[v].phone = phone
Taken(email, phone) ==
    PhoneTaken(phone) \/ \E v \in Ids : Live(v) /\ users[v].email = email

-----------------------------------------------------------------------------
(* AuthService                                                             *)

\* Of AuthService.register, what comes before the INSERT.
BeginRegister(q, email, phone, role) ==
    /\ Cardinality({p \in Slots : req[p].op = "register"})
          < Cardinality({u \in Ids : users[u].state = "unborn"})
    /\ ~Taken(Lower[email], phone)
    /\ Begin(q, [op |-> "register", email |-> email, phone |-> phone, role |-> role])

\* POST /auth/register, POST /admin/users/superadmin, and the first user.
auth_register(q, email, phone) == BeginRegister(q, email, phone, "USER")
create_admin_user(q, email, phone) ==
    AccessOf({"SUPERADMIN"}) /\ BeginRegister(q, email, phone, "ADMIN")
_seed_initial_data(q) == BeginRegister(q, FIRST_SUPERUSER_EMAIL, NoPhone, "SUPERADMIN")

\* Mutant: the address is stored as typed.
StoredEmail_AsTyped(email) == email

StoredEmail(email) == Lower[email]

Refused(q) == Taken(StoredEmail(req[q].email), req[q].phone)

\* The row and its default preferences, in one transaction.
register(q, u) ==
    /\ req[q].op = "register"
    /\ users[u].state = "unborn"
    /\ ~Refused(q)
    /\ users' = [users EXCEPT ![u] =
          [state |-> "live", email |-> StoredEmail(req[q].email),
           phone |-> req[q].phone, role |-> req[q].role, active |-> TRUE]]
    /\ prefs' = [prefs EXCEPT ![u] = 1]
    /\ Noted
    /\ End(q)
    /\ UNCHANGED <<devices, tokens>>

\* Another registration was faster: an index refuses the row.
RegisterFails(q) ==
    /\ req[q].op = "register"
    /\ Refused(q)
    /\ End(q)
    /\ UNCHANGED <<tables, tokens, ghosts>>

\* create_access_token and create_refresh_token
Issue(u, role) ==
    tokens' = tokens \cup
        {[user |-> u, role |-> role, kind |-> "access", left |-> AccessTTL],
         [user |-> u, role |-> role, kind |-> "refresh", left |-> RefreshTTL]}

\* The password is right and the account is active.
BeginLogin(q, u) ==
    /\ Live(u)
    /\ users[u].active
    /\ Begin(q, [op |-> "login", user |-> u])

\* last_login_at is written and the row read again, but not is_active.
login(q) ==
    /\ req[q].op = "login"
    /\ IF Live(req[q].user) THEN Issue(req[q].user, users[req[q].user].role)
       ELSE UNCHANGED tokens
    /\ End(q)
    /\ UNCHANGED <<tables, ghosts>>

\* Mutant: the claims of the old token are trusted.
refresh_Trusts(t) ==
    /\ t \in tokens
    /\ t.kind = "refresh"
    /\ spent < MaxRequests
    /\ spent' = spent + 1
    /\ Issue(t.user, t.role)
    /\ UNCHANGED <<tables, req, late, ghosts>>

\* One read, after which nothing is waited for.
refresh(t) ==
    /\ t \in tokens
    /\ t.kind = "refresh"
    /\ Live(t.user)
    /\ users[t.user].active
    /\ spent < MaxRequests
    /\ spent' = spent + 1
    /\ Issue(t.user, users[t.user].role)
    /\ UNCHANGED <<tables, req, late, ghosts>>

-----------------------------------------------------------------------------
(* users endpoints                                                         *)

BeginUpdate(q, u, field, value) ==
    /\ Live(u)
    /\ Begin(q, [op |-> "update", user |-> u, field |-> field, value |-> value])

\* PUT /users/<id>; of its fields the telephone number is the one that
\* matters here.
update_user(q, u, phone) ==
    /\ Authorised(u, Admins)
    /\ PhoneTaken(phone) => users[u].phone = phone
    /\ BeginUpdate(q, u, "phone", phone)

\* PUT /users/<id>/admin
admin_update_user(q, u, field, value) ==
    AccessOf(Admins) /\ BeginUpdate(q, u, field, value)

\* POST /auth/change-password: tokens stay as they are.
change_password(q, u) == Authorised(u, {}) /\ BeginUpdate(q, u, "password", 0)

\* The changed column is written.
update(q) ==
    LET u == req[q].user  f == req[q].field IN
    /\ req[q].op = "update"
    /\ IF \/ ~Live(u)
          \/ f = "password"
          \/ f = "phone" /\ PhoneTaken(req[q].value)
       THEN UNCHANGED <<users, ghosts>>
       ELSE users' = [users EXCEPT ![u][f] = req[q].value] /\ Noted
    /\ End(q)
    /\ UNCHANGED <<prefs, devices, tokens>>

BeginDelete(q, u) ==
    /\ AccessOf(Admins)
    /\ Live(u)
    /\ Begin(q, [op |-> "delete", user |-> u])

\* Mutant: the rows that belong to the user are left behind.
Cascade_None(u) == UNCHANGED <<prefs, devices>>

\* Preferences and devices go with the user.
Cascade(u) ==
    /\ prefs' = [prefs EXCEPT ![u] = 0]
    /\ devices' = [devices EXCEPT ![u] = [a \in BOOLEAN |-> 0]]

\* DELETE of a row that is gone already is not an error.
delete(q) ==
    LET u == req[q].user IN
    /\ req[q].op = "delete"
    /\ users' = [users EXCEPT ![u].state = "deleted"]
    /\ Cascade(u)
    /\ End(q)
    /\ UNCHANGED <<tokens, ghosts>>

-----------------------------------------------------------------------------
(* Preferences                                                             *)

\* GET, PUT and POST .../reset; the user may be deleted before or meanwhile.
BeginPreferences(q, u, op) ==
    /\ Authorised(u, Managers)
    /\ Begin(q, [op |-> op, user |-> u, rows |-> prefs[u]])

\* ensure_preferences inserts a row if it found none, and the indexes allow
\* it only if there still is none and the user exists.  Values are written
\* to the row that was found, or not at all when it has been replaced.
preferences(q) ==
    LET u == req[q].user IN
    /\ req[q].op \in {"get", "put"}
    /\ prefs' = IF Live(u) /\ req[q].rows = 0 /\ prefs[u] = 0
                THEN [prefs EXCEPT ![u] = 1] ELSE prefs
    /\ End(q)
    /\ UNCHANGED <<users, devices, tokens, ghosts>>

\* Mutant: the deletion is committed, whatever becomes of the new row.
reset_preferences_Commits(q) ==
    LET u == req[q].user IN
    /\ req[q].op = "reset"
    /\ prefs' \in {[prefs EXCEPT ![u] = 0], [prefs EXCEPT ![u] = IF Live(u) THEN 1 ELSE 0]}
    /\ End(q)
    /\ UNCHANGED <<users, devices, tokens, ghosts>>

\* The row is deleted and a default one inserted in one transaction, which
\* fails as a whole when the user is gone.
reset_preferences(q) ==
    LET u == req[q].user IN
    /\ req[q].op = "reset"
    /\ prefs' = IF Live(u) THEN [prefs EXCEPT ![u] = 1] ELSE prefs
    /\ End(q)
    /\ UNCHANGED <<users, devices, tokens, ghosts>>

-----------------------------------------------------------------------------
(* Device tokens                                                           *)

Rows(u) == devices[u][TRUE] + devices[u][FALSE]

\* More than one row raises MultipleResultsFound.
BeginDevice(q, u) ==
    /\ Authorised(u, {})
    /\ Rows(u) <= 1
    /\ Begin(q, [op |-> "device", user |-> u, found |-> Rows(u)])

\* Mutant: a new row for every registration.
register_device_token_Inserts(q) ==
    LET u == req[q].user IN
    /\ req[q].op = "device"
    /\ devices' = IF Live(u) THEN [devices EXCEPT ![u][TRUE] = @ + 1] ELSE devices
    /\ End(q)
    /\ UNCHANGED <<users, prefs, tokens, ghosts>>

\* The row found is made active, or a new one inserted.
register_device_token(q) ==
    LET u == req[q].user IN
    /\ req[q].op = "device"
    /\ devices' =
          IF ~Live(u) THEN devices
          ELSE IF req[q].found = 0 THEN [devices EXCEPT ![u][TRUE] = @ + 1]
          ELSE IF devices[u][FALSE] > 0
               THEN [devices EXCEPT ![u][TRUE] = @ + 1, ![u][FALSE] = @ - 1]
               ELSE devices
    /\ End(q)
    /\ UNCHANGED <<users, prefs, tokens, ghosts>>

\* By the row's id, in one step: a row that goes meanwhile is an error.
deactivate_device_token(u) ==
    /\ Authorised(u, {})
    /\ devices[u][TRUE] > 0
    /\ spent < MaxRequests
    /\ spent' = spent + 1
    /\ devices' = [devices EXCEPT ![u][TRUE] = @ - 1, ![u][FALSE] = @ + 1]
    /\ UNCHANGED <<users, prefs, tokens, req, late, ghosts>>

-----------------------------------------------------------------------------
\* A unit of time.  A request that was under way before is over by the next.
Tick ==
    /\ \A q \in Slots : ~late[q]
    /\ late' = [q \in Slots |-> req[q] # Idle]
    /\ tokens' = {[t EXCEPT !.left = @ - 1] : t \in {s \in tokens : s.left > 1}}
    /\ sinceActive' = [u \in Ids |->
          IF Live(u) /\ users[u].active THEN 0
          ELSE IF sinceActive[u] < Long THEN sinceActive[u] + 1 ELSE Long]
    /\ sinceRole' = [u \in Ids |-> [r \in UserRole |->
          IF Live(u) /\ users[u].role = r THEN 0
          ELSE IF sinceRole[u][r] < Long THEN sinceRole[u][r] + 1 ELSE Long]]
    /\ UNCHANGED <<tables, req, spent>>

Next ==
    \/ \E q \in Slots :
        \/ \E e \in Emails, p \in Phones \cup {NoPhone} :
              auth_register(q, e, p) \/ create_admin_user(q, e, p)
        \/ _seed_initial_data(q)
        \/ (\E u \in Ids : register(q, u)) \/ RegisterFails(q)
        \/ \E u \in Ids : BeginLogin(q, u)
        \/ login(q)
        \/ \E u \in Ids :
            \/ \E p \in Phones : update_user(q, u, p)
            \/ \E r \in NewRoles : admin_update_user(q, u, "role", r)
            \/ \E a \in BOOLEAN : admin_update_user(q, u, "active", a)
            \/ change_password(q, u)
        \/ update(q)
        \/ \E u \in Ids : BeginDelete(q, u)
        \/ delete(q)
        \/ \E u \in Ids, op \in {"get", "put", "reset"} : BeginPreferences(q, u, op)
        \/ preferences(q) \/ reset_preferences(q)
        \/ \E u \in Ids : BeginDevice(q, u)
        \/ register_device_token(q)
    \/ \E t \in tokens : refresh(t)
    \/ \E u \in Ids : deactivate_device_token(u)
    \/ Tick

Spec == Init /\ [][Next]_vars

-----------------------------------------------------------------------------
(* Properties                                                              *)

\* However registrations and changes overlap, no two users share an address
\* (in whatever case it was typed) or a telephone number.
OneUserPerAddress ==
    \A u, v \in Ids : Live(u) /\ Live(v) /\ u # v =>
        /\ Lower[users[u].email] # Lower[users[v].email]
        /\ users[u].phone = NoPhone \/ users[u].phone # users[v].phone

\* A user has preferences, and devices and preferences have a user, though a
\* deleted user's token still gets requests in that would create them.
RowsHaveTheirUser ==
    \A u \in Ids :
        /\ Live(u) <=> prefs[u] > 0
        /\ Rows(u) > 0 => Live(u)

\* Nothing is revoked, but nothing lasts: the user of an access token was
\* active, and had the role it carries, no longer ago than the token's age
\* and the time one request takes; a chain of refreshes does not add up.
StandingIsRecent ==
    \A t \in tokens : t.kind = "access" =>
        /\ sinceActive[t.user] <= AccessTTL - t.left + 1
        /\ sinceRole[t.user][t.role] <= AccessTTL - t.left + 1

\* A device token has at most as many rows as requests can race (there is no
\* unique index): a registration that finds a row adds none.
FewDeviceRows == \A u \in Ids : Rows(u) <= Cardinality(Slots)

=============================================================================
