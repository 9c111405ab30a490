--------------------------- MODULE AccountsProofs ---------------------------
(***************************************************************************)
(* The invariants of Accounts for any number of users, addresses, requests *)
(* and any lifetimes of the tokens.  What makes them inductive:            *)
(*  - addresses are stored in the form Lower gives them, so that the       *)
(*    unique index, which compares them as stored, compares them in        *)
(*    whatever case they were typed (AddressInv);                          *)
(*  - a login that is under way found its user active, and takes at most   *)
(*    one unit of time (StandingInv);                                      *)
(*  - every device registration that found no row may still add one, and   *)
(*    none starts to look while there is a row (DeviceInv).                *)
(***************************************************************************)
EXTENDS Accounts, FiniteSetTheorems, TLAPS

Row == [state : {"unborn", "live", "deleted"}, email : Emails,
        phone : Phones \cup {NoPhone}, role : UserRole, active : BOOLEAN]
Token == [user : Ids, role : UserRole, kind : {"access", "refresh"}, left : Nat]

\* What a request may be doing.
Registrations ==
    [op : {"register"}, email : Emails, phone : Phones \cup {NoPhone}, role : UserRole]
OfUser == [op : {"login", "delete"}, user : Ids]
Updates ==
    [op : {"update"}, user : Ids, field : {"phone"}, value : Phones]
    \cup [op : {"update"}, user : Ids, field : {"role"}, value : UserRole]
    \cup [op : {"update"}, user : Ids, field : {"active"}, value : BOOLEAN]
    \cup [op : {"update"}, user : Ids, field : {"password"}, value : {0}]
PreferenceWork == [op : {"get", "put", "reset"}, user : Ids, rows : Nat]
DeviceWork == [op : {"device"}, user : Ids, found : Nat]
Work ==
    {Idle} \cup Registrations \cup OfUser \cup Updates \cup PreferenceWork \cup DeviceWork

Types ==
    /\ TypeOK
    /\ tokens \subseteq Token
    /\ req \in [Slots -> Work]

AddressInv ==
    /\ \A u \in Ids : Live(u) => Lower[users[u].email] = users[u].email
    /\ OneUserPerAddress

\* The time a request has taken.
Lasted(q) == IF late[q] THEN 1 ELSE 0

StandingInv ==
    /\ StandingIsRecent
    /\ \A u \in Ids : Live(u) =>
        /\ users[u].active => sinceActive[u] = 0
        /\ sinceRole[u][users[u].role] = 0
    /\ \A q \in Slots :
        /\ req[q] = Idle => late[q] = FALSE
        /\ req[q].op = "login" => sinceActive[req[q].user] <= Lasted(q)

\* The device registrations of u that found no row.
Inserting(u) ==
    {q \in Slots : req[q].op = "device" /\ req[q].user = u /\ req[q].found = 0}

DeviceInv ==
    \A u \in Ids : Rows(u) + Cardinality(Inserting(u)) <= Cardinality(Slots)

Inv == Types /\ AddressInv /\ RowsHaveTheirUser /\ StandingInv /\ DeviceInv

-----------------------------------------------------------------------------
LEMMA Shapes ==
    ASSUME Types, NEW q \in Slots
    PROVE  /\ req[q].op = "register" => req[q] \in Registrations
           /\ req[q].op \in {"login", "delete"} => req[q] \in OfUser
           /\ req[q].op = "update" => req[q] \in Updates
           /\ req[q].op \in {"get", "put", "reset"} => req[q] \in PreferenceWork
           /\ req[q].op = "device" => req[q] \in DeviceWork
           /\ req[q] = Idle <=> req[q].op = "idle"
  BY DEF Types, Work, Idle, Registrations, OfUser, Updates, PreferenceWork, DeviceWork

LEMMA Longs == Long \in Nat /\ Long >= 2 /\ AccessTTL \in Nat /\ RefreshTTL \in Nat
  BY AccountsAssumption DEF Long

LEMMA Sizes ==
    /\ Cardinality(Slots) \in Nat
    /\ \A S \in SUBSET Slots :
          IsFiniteSet(S) /\ Cardinality(S) \in Nat /\ Cardinality(S) <= Cardinality(Slots)
  BY AccountsAssumption, FS_Subset, FS_CardinalityType

LEMMA RowTypes ==
    ASSUME NEW d \in [Ids -> [BOOLEAN -> Nat]], NEW u \in Ids
    PROVE  d[u][TRUE] \in Nat /\ d[u][FALSE] \in Nat
<1>1. TRUE \in BOOLEAN /\ FALSE \in BOOLEAN /\ d[u] \in [BOOLEAN -> Nat]
  BY Zenon
<1> QED
  BY <1>1, Zenon

LEMMA RowCounts ==
    ASSUME Types, NEW u \in Ids
    PROVE  Rows(u) \in Nat
<1>1. devices \in [Ids -> [BOOLEAN -> Nat]]
  BY DEF Types, TypeOK
<1>2. devices[u][TRUE] \in Nat /\ devices[u][FALSE] \in Nat
  BY <1>1, RowTypes
<1>3. \A a, b \in Nat : a + b \in Nat
  OBVIOUS
<1> QED
  BY <1>2, <1>3, Zenon DEF Rows

LEMMA InvInit == Init => Inv
<1> SUFFICES ASSUME Init
             PROVE  Inv
  OBVIOUS
<1>1. Unborn \in Row /\ Unborn.state = "unborn"
  <2>1. (CHOOSE e \in Emails : TRUE) \in Emails
    BY AccountsAssumption
  <2> DEFINE e == CHOOSE x \in Emails : TRUE
  <2> HIDE DEF e
  <2> QED
    BY <2>1 DEF Unborn, Row, UserRole, e
<1>2. Types
  <2>1. users \in [Ids -> Row]
    BY <1>1 DEF Init
  <2>2. late \in [Slots -> BOOLEAN]
    BY DEF Init
  <2>3. devices \in [Ids -> [BOOLEAN -> Nat]]
    BY DEF Init
  <2>4. /\ prefs \in [Ids -> Nat] /\ spent \in 0..MaxRequests
        /\ sinceActive \in [Ids -> 0..Long] /\ sinceRole \in [Ids -> [UserRole -> 0..Long]]
    BY Longs, AccountsAssumption DEF Init
  <2>5. tokens = {} /\ req \in [Slots -> Work]
    BY DEF Init, Work
  <2> QED
    BY <2>1, <2>2, <2>3, <2>4, <2>5 DEF Types, TypeOK, Row
<1>3. \A u \in Ids : ~Live(u) /\ prefs[u] = 0 /\ Rows(u) = 0
  BY <1>1 DEF Init, Live, Rows
<1>4. \A q \in Slots : req[q] = Idle /\ req[q].op = "idle" /\ late[q] = FALSE
  BY DEF Init, Idle
<1>5. AddressInv /\ RowsHaveTheirUser /\ StandingInv
  BY <1>3, <1>4 DEF Init, AddressInv, OneUserPerAddress, RowsHaveTheirUser, StandingInv,
     StandingIsRecent
<1>6. DeviceInv
  <2>1. \A u \in Ids : Inserting(u) = {}
    BY <1>4 DEF Inserting
  <2> QED
    BY <1>3, <2>1, Sizes, FS_EmptySet DEF DeviceInv
<1> QED
  BY <1>2, <1>5, <1>6 DEF Inv

-----------------------------------------------------------------------------
(* What the steps have in common                                           *)

\* A request that begins changes no table, and has read.
LEMMA BeginInv ==
    ASSUME Inv, NEW q \in Slots, NEW w \in Work, Begin(q, w),
           w.op = "login" => Live(w.user) /\ users[w.user].active /\ w.user \in Ids,
           w.op = "device" => w.found = Rows(w.user)
    PROVE  Inv'
<1>0. /\ req' = [req EXCEPT ![q] = w] /\ req[q] = Idle
      /\ UNCHANGED <<users, prefs, devices, tokens, late, sinceActive, sinceRole>>
  BY DEF Begin, tables, ghosts
<1>1. req'[q] = w /\ \A p \in Slots \ {q} : req'[p] = req[p]
  BY <1>0 DEF Inv, Types
<1>2. Types'
  <2>1. req' \in [Slots -> Work]
    BY <1>0 DEF Inv, Types
  <2>2. spent' \in 0..MaxRequests
    BY AccountsAssumption DEF Begin, Inv, Types, TypeOK
  <2> QED
    BY <1>0, <2>1, <2>2 DEF Inv, Types, TypeOK
<1>3. AddressInv' /\ RowsHaveTheirUser'
  BY <1>0 DEF Inv, AddressInv, OneUserPerAddress, RowsHaveTheirUser, Live, Rows
<1>4. StandingInv'
  <2>1. late[q] = FALSE /\ (w.op = "login" => sinceActive[w.user] = 0)
    BY <1>0 DEF Inv, StandingInv
  <2>2. \A p \in Slots :
            /\ req'[p] = Idle => late'[p] = FALSE
            /\ req'[p].op = "login" =>
                  sinceActive'[req'[p].user] <= IF late'[p] THEN 1 ELSE 0
    BY <1>0, <1>1, <2>1 DEF Inv, StandingInv, Lasted
  <2> QED
    BY <1>0, <2>2 DEF Inv, StandingInv, StandingIsRecent, Live, Lasted
<1>5. ASSUME NEW u \in Ids
      PROVE  Rows(u)' + Cardinality(Inserting(u)') <= Cardinality(Slots)
  <2>1. Rows(u)' = Rows(u) /\ Rows(u) \in Nat
    <3>1. Rows(u)' = Rows(u)
      BY <1>0, Zenon DEF Rows
    <3> QED
      BY <3>1, RowCounts DEF Inv
  <2>2. Inserting(u)' \in SUBSET Slots /\ Inserting(u) \in SUBSET Slots
    BY DEF Inserting
  <2>3. CASE w.op = "device" /\ w.user = u /\ w.found = 0
    BY <2>1, <2>2, <2>3, Sizes
  <2>4. CASE ~(w.op = "device" /\ w.user = u /\ w.found = 0)
    <3>1. Inserting(u)' \in SUBSET Inserting(u)
      BY <1>1, <2>4 DEF Inserting
    <3>2. Cardinality(Inserting(u)') <= Cardinality(Inserting(u))
      BY <2>2, <3>1, Sizes, FS_Subset
    <3> QED
      BY <2>1, <2>2, <3>2, Sizes DEF Inv, DeviceInv
  <2> QED
    BY <2>3, <2>4
<1> QED
  BY <1>2, <1>3, <1>4, <1>5 DEF Inv, DeviceInv

\* A request that ends leaves the others as they are, and adds no row after.
LEMMA Ended ==
    ASSUME Inv, NEW q \in Slots, End(q)
    PROVE  /\ req' \in [Slots -> Work] /\ late' \in [Slots -> BOOLEAN]
           /\ spent' \in 0..MaxRequests
           /\ (\A u \in Ids : sinceActive'[u] \in Nat /\ sinceActive'[u] <= sinceActive[u]) =>
                 \A p \in Slots :
                    /\ req'[p] = Idle => late'[p] = FALSE
                    /\ req'[p].op = "login" => sinceActive'[req'[p].user] <= Lasted(p)'
           /\ \A u \in Ids :
                 /\ Cardinality(Inserting(u)') \in Nat /\ Cardinality(Inserting(u)) \in Nat
                 /\ Cardinality(Inserting(u)') <= Cardinality(Inserting(u))
                 /\ q \in Inserting(u) =>
                       Cardinality(Inserting(u)') + 1 <= Cardinality(Inserting(u))
<1>1. /\ req'[q] = Idle /\ late'[q] = FALSE /\ Idle.op = "idle"
      /\ \A p \in Slots \ {q} : req'[p] = req[p] /\ late'[p] = late[p]
      /\ req' \in [Slots -> Work] /\ late' \in [Slots -> BOOLEAN]
      /\ spent' \in 0..MaxRequests
  BY DEF End, Inv, Types, TypeOK, Work, Idle
<1>2. ASSUME \A u \in Ids : sinceActive'[u] \in Nat /\ sinceActive'[u] <= sinceActive[u],
             NEW p \in Slots
      PROVE  /\ req'[p] = Idle => late'[p] = FALSE
             /\ req'[p].op = "login" => sinceActive'[req'[p].user] <= Lasted(p)'
  <2>1. CASE p = q
    BY <1>1, <2>1
  <2>2. CASE p # q
    <3>1. req'[p] = req[p] /\ late'[p] = late[p]
      BY <1>1, <2>2
    <3>2. req[p].op = "login" => req[p].user \in Ids
      BY Shapes DEF Inv, OfUser
    <3>3. /\ req[p] = Idle => late[p] = FALSE
          /\ req[p].op = "login" => sinceActive[req[p].user] <= Lasted(p)
      BY DEF Inv, StandingInv
    <3>4. Lasted(p)' = Lasted(p) /\ Lasted(p) \in 0..1
      BY <3>1 DEF Lasted
    <3>5. \A u \in Ids : sinceActive[u] \in Nat
      BY Longs DEF Inv, Types, TypeOK
    <3> QED
      BY <1>2, <3>1, <3>2, <3>3, <3>4, <3>5
  <2> QED
    BY <2>1, <2>2
<1>3. ASSUME NEW u \in Ids
      PROVE  /\ Cardinality(Inserting(u)') \in Nat /\ Cardinality(Inserting(u)) \in Nat
             /\ Cardinality(Inserting(u)') <= Cardinality(Inserting(u))
             /\ q \in Inserting(u) =>
                   Cardinality(Inserting(u)') + 1 <= Cardinality(Inserting(u))
  <2>1. /\ Inserting(u) \in SUBSET Slots /\ Inserting(u)' \in SUBSET Slots
        /\ Inserting(u)' = Inserting(u) \ {q}
    BY <1>1 DEF Inserting
  <2>2. IsFiniteSet(Inserting(u))
    BY <2>1, Sizes
  <2>3. Cardinality(Inserting(u)') =
            IF q \in Inserting(u) THEN Cardinality(Inserting(u)) - 1
                                  ELSE Cardinality(Inserting(u))
    BY <2>1, <2>2, FS_RemoveElement
  <2> QED
    BY <2>1, <2>3, Sizes
<1> QED
  BY <1>1, <1>2, <1>3

\* The standing of users after a change of the users table.
LEMMA NotedInv ==
    ASSUME Inv, users' \in [Ids -> Row], Noted
    PROVE  /\ sinceActive' \in [Ids -> 0..Long]
           /\ sinceRole' \in [Ids -> [UserRole -> 0..Long]]
           /\ \A u \in Ids : sinceActive'[u] \in Nat /\ sinceActive'[u] <= sinceActive[u]
           /\ \A u \in Ids, r \in UserRole : sinceRole'[u][r] <= sinceRole[u][r]
           /\ \A u \in Ids : Live(u)' =>
                 /\ users'[u].active => sinceActive'[u] = 0
                 /\ sinceRole'[u][users'[u].role] = 0
<1>1. /\ sinceActive \in [Ids -> 0..Long] /\ sinceRole \in [Ids -> [UserRole -> 0..Long]]
  BY DEF Inv, Types, TypeOK
<1>2. /\ sinceActive' \in [Ids -> 0..Long]
      /\ \A u \in Ids : sinceActive'[u] \in Nat /\ sinceActive'[u] <= sinceActive[u]
  BY <1>1, Longs DEF Noted
<1>3. /\ sinceRole' \in [Ids -> [UserRole -> 0..Long]]
      /\ \A u \in Ids, r \in UserRole : sinceRole'[u][r] <= sinceRole[u][r]
  BY <1>1, Longs DEF Noted
<1>4. \A u \in Ids : users'[u].role \in UserRole
  BY DEF Row
<1>5. \A u \in Ids : Live(u)' =>
          /\ users'[u].active => sinceActive'[u] = 0
          /\ sinceRole'[u][users'[u].role] = 0
  BY <1>4 DEF Noted, Live
<1> QED
  BY <1>2, <1>3, <1>5

\* The tokens stay recent when they stay, and nobody's standing gets older.
LEMMA TokensKept ==
    ASSUME Inv, UNCHANGED tokens,
           sinceActive' \in [Ids -> 0..Long], sinceRole' \in [Ids -> [UserRole -> 0..Long]],
           \A u \in Ids : sinceActive'[u] <= sinceActive[u],
           \A u \in Ids, r \in UserRole : sinceRole'[u][r] <= sinceRole[u][r]
    PROVE  StandingIsRecent'
<1> SUFFICES ASSUME NEW t \in tokens, t.kind = "access"
             PROVE  /\ sinceActive'[t.user] <= AccessTTL - t.left + 1
                    /\ sinceRole'[t.user][t.role] <= AccessTTL - t.left + 1
  BY DEF StandingIsRecent
<1>1. t.user \in Ids /\ t.role \in UserRole /\ t.left \in Nat
  BY DEF Inv, Types, Token
<1>2. /\ sinceActive[t.user] <= AccessTTL - t.left + 1
      /\ sinceRole[t.user][t.role] <= AccessTTL - t.left + 1
  BY DEF Inv, StandingInv, StandingIsRecent
<1>3. /\ sinceActive[t.user] \in Nat /\ sinceRole[t.user][t.role] \in Nat
      /\ sinceActive'[t.user] \in Nat /\ sinceRole'[t.user][t.role] \in Nat
      /\ AccessTTL - t.left + 1 \in Int
  BY <1>1, Longs DEF Inv, Types, TypeOK
<1> QED
  BY <1>1, <1>2, <1>3

\* A request that ends, having removed users at most, and written rows that
\* have their user.
LEMMA EndInv ==
    ASSUME Inv, NEW q \in Slots, End(q), UNCHANGED <<tokens, sinceActive, sinceRole>>,
           users' \in [Ids -> Row], prefs' \in [Ids -> Nat],
           devices' \in [Ids -> [BOOLEAN -> Nat]],
           \A u \in Ids : Live(u)' => Live(u) /\ users'[u] = users[u],
           \A u \in Ids : users'[u].state = "unborn" => users[u].state = "unborn",
           RowsHaveTheirUser', DeviceInv'
    PROVE  Inv'
<1>1. /\ req' \in [Slots -> Work] /\ late' \in [Slots -> BOOLEAN]
      /\ spent' \in 0..MaxRequests
  BY Ended
<1>2. /\ sinceActive \in [Ids -> 0..Long] /\ sinceRole \in [Ids -> [UserRole -> 0..Long]]
      /\ tokens \subseteq Token
      /\ \A t \in tokens :
            /\ users[t.user].state # "unborn"
            /\ t.role \in UserRole
            /\ t.left \in 1..(IF t.kind = "access" THEN AccessTTL ELSE RefreshTTL)
  BY DEF Inv, Types, TypeOK
<1>3. \A t \in tokens : users'[t.user].state # "unborn"
  BY <1>2 DEF Token
<1>4. Types'
  BY <1>1, <1>2, <1>3 DEF Types, TypeOK, Row
<1>5. AddressInv'
  BY DEF Inv, AddressInv, OneUserPerAddress
<1>6. /\ \A u \in Ids : sinceActive'[u] \in Nat /\ sinceActive'[u] <= sinceActive[u]
      /\ \A u \in Ids, r \in UserRole : sinceRole'[u][r] <= sinceRole[u][r]
  BY <1>2, Longs
<1>7. StandingIsRecent'
  BY <1>2, <1>6, TokensKept
<1>8. StandingInv'
  BY <1>6, <1>7, Ended DEF Inv, StandingInv
<1> QED
  BY <1>4, <1>5, <1>8 DEF Inv

\* A pair of tokens for a user who was active a unit of time ago at most.
LEMMA IssueInv ==
    ASSUME Inv, NEW u \in Ids, Live(u), sinceActive[u] <= 1,
           Issue(u, users[u].role), UNCHANGED <<users, sinceActive, sinceRole>>
    PROVE  /\ tokens' \subseteq Token
           /\ StandingIsRecent'
           /\ \A t \in tokens' :
                 /\ users'[t.user].state # "unborn"
                 /\ t.role \in UserRole
                 /\ t.left \in 1..(IF t.kind = "access" THEN AccessTTL ELSE RefreshTTL)
<1> DEFINE role == users[u].role
           a == [user |-> u, role |-> role, kind |-> "access", left |-> AccessTTL]
           b == [user |-> u, role |-> role, kind |-> "refresh", left |-> RefreshTTL]
<1>1. /\ role \in UserRole /\ users[u].state = "live" /\ sinceRole[u][role] = 0
      /\ sinceActive[u] \in Nat
      /\ AccessTTL \in Nat \ {0} /\ RefreshTTL \in Nat \ {0}
  BY AccountsAssumption, Longs DEF Inv, Types, TypeOK, StandingInv, Live
<1>2. tokens' = tokens \cup {a, b}
  BY DEF Issue
<1>3. /\ a \in Token /\ a.user = u /\ a.role = role /\ a.kind = "access" /\ a.left = AccessTTL
      /\ b \in Token /\ b.user = u /\ b.role = role /\ b.kind = "refresh" /\ b.left = RefreshTTL
  BY <1>1 DEF Token
<1> HIDE DEF a, b, role
<1>4. tokens' \subseteq Token
  BY <1>2, <1>3 DEF Inv, Types
<1>5. ASSUME NEW t \in tokens'
      PROVE  /\ users'[t.user].state # "unborn"
             /\ t.role \in UserRole
             /\ t.left \in 1..(IF t.kind = "access" THEN AccessTTL ELSE RefreshTTL)
  <2>1. CASE t \in tokens
    BY <2>1 DEF Inv, Types, TypeOK
  <2>2. CASE t = a \/ t = b
    BY <1>1, <1>3, <2>2
  <2> QED
    BY <1>2, <2>1, <2>2
<1>6. ASSUME NEW t \in tokens', t.kind = "access"
      PROVE  /\ sinceActive'[t.user] <= AccessTTL - t.left + 1
             /\ sinceRole'[t.user][t.role] <= AccessTTL - t.left + 1
  <2>1. CASE t \in tokens
    BY <1>6, <2>1 DEF Inv, StandingInv, StandingIsRecent
  <2>2. CASE t = a
    BY <1>1, <1>3, <2>2
  <2> QED
    BY <1>2, <1>3, <1>6, <2>1, <2>2
<1> QED
  BY <1>4, <1>5, <1>6 DEF StandingIsRecent

-----------------------------------------------------------------------------
(* The requests                                                            *)

Beginning(q) ==
    \/ \E e \in Emails, p \in Phones \cup {NoPhone} :
          auth_register(q, e, p) \/ create_admin_user(q, e, p)
    \/ _seed_initial_data(q)
    \/ \E u \in Ids : BeginLogin(q, u)
    \/ \E u \in Ids :
        \/ \E p \in Phones : update_user(q, u, p)
        \/ \E r \in NewRoles : admin_update_user(q, u, "role", r)
        \/ \E a \in BOOLEAN : admin_update_user(q, u, "active", a)
        \/ change_password(q, u)
    \/ \E u \in Ids : BeginDelete(q, u)
    \/ \E u \in Ids, op \in {"get", "put", "reset"} : BeginPreferences(q, u, op)
    \/ \E u \in Ids : BeginDevice(q, u)

LEMMA Beginnings ==
    ASSUME Inv, NEW q \in Slots, Beginning(q)
    PROVE  Inv'
<1>1. ASSUME NEW e \in Emails, NEW p \in Phones \cup {NoPhone}, NEW r \in UserRole,
             BeginRegister(q, e, p, r)
      PROVE  Inv'
  <2> DEFINE w == [op |-> "register", email |-> e, phone |-> p, role |-> r]
  <2>1. w \in Work /\ w.op = "register"
    BY DEF Work, Registrations
  <2>2. Begin(q, w)
    BY <1>1 DEF BeginRegister
  <2> HIDE DEF w
  <2> QED
    BY <2>1, <2>2, BeginInv
<1>2. CASE \E e \in Emails, p \in Phones \cup {NoPhone} :
               auth_register(q, e, p) \/ create_admin_user(q, e, p)
  BY <1>1, <1>2 DEF auth_register, create_admin_user, UserRole
<1>3. CASE _seed_initial_data(q)
  BY <1>1, <1>3, AccountsAssumption DEF _seed_initial_data, UserRole
<1>4. ASSUME NEW u \in Ids, BeginLogin(q, u)
      PROVE  Inv'
  <2> DEFINE w == [op |-> "login", user |-> u]
  <2>1. w \in Work /\ w.op = "login" /\ w.user = u
    BY DEF Work, OfUser
  <2>2. Begin(q, w) /\ Live(u) /\ users[u].active
    BY <1>4 DEF BeginLogin
  <2> HIDE DEF w
  <2> QED
    BY <2>1, <2>2, BeginInv
<1>5. ASSUME NEW u \in Ids, NEW f, NEW v, BeginUpdate(q, u, f, v),
             \/ f = "phone" /\ v \in Phones
             \/ f = "role" /\ v \in UserRole
             \/ f = "active" /\ v \in BOOLEAN
             \/ f = "password" /\ v = 0
      PROVE  Inv'
  <2> DEFINE w == [op |-> "update", user |-> u, field |-> f, value |-> v]
  <2>1. w.op = "update"
    OBVIOUS
  <2>2. w \in Work
    <3>1. CASE f = "phone" /\ v \in Phones
      BY <3>1 DEF Work, Updates
    <3>2. CASE f = "role" /\ v \in UserRole
      BY <3>2 DEF Work, Updates
    <3>3. CASE f = "active" /\ v \in BOOLEAN
      BY <3>3 DEF Work, Updates
    <3>4. CASE f = "password" /\ v = 0
      BY <3>4 DEF Work, Updates
    <3> QED
      BY <1>5, <3>1, <3>2, <3>3, <3>4
  <2>3. Begin(q, w)
    BY <1>5 DEF BeginUpdate
  <2> HIDE DEF w
  <2> QED
    BY <2>1, <2>2, <2>3, BeginInv
<1>6. ASSUME NEW u \in Ids,
             \/ \E p \in Phones : update_user(q, u, p)
             \/ \E r \in NewRoles : admin_update_user(q, u, "role", r)
             \/ \E a \in BOOLEAN : admin_update_user(q, u, "active", a)
             \/ change_password(q, u)
      PROVE  Inv'
  BY <1>5, <1>6, AccountsAssumption DEF update_user, admin_update_user, change_password
<1>7. ASSUME NEW u \in Ids, BeginDelete(q, u)
      PROVE  Inv'
  <2> DEFINE w == [op |-> "delete", user |-> u]
  <2>1. w \in Work /\ w.op = "delete"
    BY DEF Work, OfUser
  <2>2. Begin(q, w)
    BY <1>7 DEF BeginDelete
  <2> HIDE DEF w
  <2> QED
    BY <2>1, <2>2, BeginInv
<1>8. ASSUME NEW u \in Ids, NEW op \in {"get", "put", "reset"}, BeginPreferences(q, u, op)
      PROVE  Inv'
  <2> DEFINE w == [op |-> op, user |-> u, rows |-> prefs[u]]
  <2>1. w \in Work /\ w.op \in {"get", "put", "reset"}
    BY DEF Work, PreferenceWork, Inv, Types, TypeOK
  <2>2. Begin(q, w)
    BY <1>8 DEF BeginPreferences
  <2> HIDE DEF w
  <2> QED
    BY <2>1, <2>2, BeginInv
<1>9. ASSUME NEW u \in Ids, BeginDevice(q, u)
      PROVE  Inv'
  <2> DEFINE n == Rows(u)
             w == [op |-> "device", user |-> u, found |-> n]
  <2>1. n \in Nat
    BY RowCounts DEF Inv
  <2>2. Begin(q, w)
    BY <1>9 DEF BeginDevice
  <2> HIDE DEF n
  <2>3. w \in Work /\ w.op = "device" /\ w.user = u /\ w.found = n
    BY <2>1 DEF Work, DeviceWork
  <2> HIDE DEF w
  <2> QED
    BY <2>2, <2>3, BeginInv DEF n
<1> QED
  BY <1>2, <1>3, <1>4, <1>6, <1>7, <1>8, <1>9 DEF Beginning

\* After a change of the users table by register or update.
LEMMA UsersInv ==
    ASSUME Inv, NEW q \in Slots, End(q), Noted, UNCHANGED tokens,
           users' \in [Ids -> Row], prefs' \in [Ids -> Nat],
           devices' \in [Ids -> [BOOLEAN -> Nat]],
           \A u \in Ids : users'[u].state = "unborn" => users[u].state = "unborn",
           AddressInv', RowsHaveTheirUser', DeviceInv'
    PROVE  Inv'
<1>1. /\ req' \in [Slots -> Work] /\ late' \in [Slots -> BOOLEAN]
      /\ spent' \in 0..MaxRequests
  BY Ended
<1>2. /\ tokens \subseteq Token
      /\ \A t \in tokens :
            /\ users[t.user].state # "unborn"
            /\ t.role \in UserRole
            /\ t.left \in 1..(IF t.kind = "access" THEN AccessTTL ELSE RefreshTTL)
  BY DEF Inv, Types, TypeOK
<1>3. \A t \in tokens : users'[t.user].state # "unborn"
  BY <1>2 DEF Token
<1>4. /\ sinceActive' \in [Ids -> 0..Long]
      /\ sinceRole' \in [Ids -> [UserRole -> 0..Long]]
      /\ \A u \in Ids : sinceActive'[u] \in Nat /\ sinceActive'[u] <= sinceActive[u]
      /\ \A u \in Ids, r \in UserRole : sinceRole'[u][r] <= sinceRole[u][r]
      /\ \A u \in Ids : Live(u)' =>
            /\ users'[u].active => sinceActive'[u] = 0
            /\ sinceRole'[u][users'[u].role] = 0
  BY NotedInv
<1>5. Types'
  BY <1>1, <1>2, <1>3, <1>4 DEF Types, TypeOK, Row
<1>6. StandingIsRecent'
  BY <1>4, TokensKept
<1>7. StandingInv'
  BY <1>4, <1>6, Ended DEF StandingInv
<1> QED
  BY <1>5, <1>7 DEF Inv

\* DeviceInv after a step that ends a request and leaves devices alone.
LEMMA DevicesKept ==
    ASSUME Inv, NEW q \in Slots, End(q), UNCHANGED devices
    PROVE  DeviceInv' /\ devices' \in [Ids -> [BOOLEAN -> Nat]]
<1>1. \A u \in Ids : Rows(u)' = Rows(u) /\ Rows(u) \in Nat
  <2>1. \A u \in Ids : Rows(u)' = Rows(u)
    BY Zenon DEF Rows
  <2> QED
    BY <2>1, RowCounts DEF Inv
<1>2. ASSUME NEW u \in Ids
      PROVE  Rows(u)' + Cardinality(Inserting(u)') <= Cardinality(Slots)
  <2>1. /\ Cardinality(Inserting(u)') \in Nat /\ Cardinality(Inserting(u)) \in Nat
        /\ Cardinality(Inserting(u)') <= Cardinality(Inserting(u))
    BY Ended
  <2>2. Rows(u) + Cardinality(Inserting(u)) <= Cardinality(Slots)
    BY DEF Inv, DeviceInv
  <2> QED
    BY <1>1, <2>1, <2>2, Sizes
<1> QED
  BY <1>2 DEF Inv, Types, TypeOK, DeviceInv

LEMMA RegisterInv ==
    ASSUME Inv, NEW q \in Slots, NEW u \in Ids, register(q, u)
    PROVE  Inv'
<1> DEFINE e == Lower[req[q].email]
           p == req[q].phone
           r == req[q].role
           row == [state |-> "live", email |-> e, phone |-> p, role |-> r, active |-> TRUE]
<1>1. /\ req[q] \in Registrations /\ users[u].state = "unborn" /\ ~Taken(e, p)
      /\ users' = [users EXCEPT ![u] = row] /\ prefs' = [prefs EXCEPT ![u] = 1]
      /\ Noted /\ End(q) /\ UNCHANGED <<devices, tokens>>
  BY Shapes DEF register, Refused, StoredEmail, Inv
<1>2. e \in Emails /\ p \in Phones \cup {NoPhone} /\ r \in UserRole /\ Lower[e] = e
  BY <1>1, AccountsAssumption DEF Registrations
<1> HIDE DEF e, p, r
<1>3. /\ row \in Row /\ row.state = "live" /\ row.email = e /\ row.phone = p
  BY <1>2 DEF Row
<1> HIDE DEF row
<1>4. users \in [Ids -> Row] /\ prefs \in [Ids -> Nat]
  BY DEF Inv, Types, TypeOK, Row
<1>5. /\ users' \in [Ids -> Row] /\ users'[u] = row
      /\ \A v \in Ids \ {u} : users'[v] = users[v]
      /\ prefs' \in [Ids -> Nat] /\ prefs'[u] = 1
      /\ \A v \in Ids \ {u} : prefs'[v] = prefs[v]
  BY <1>1, <1>3, <1>4
<1>6. AddressInv'
  <2>1. \A v \in Ids : Live(v) =>
            users[v].email # e /\ (p = NoPhone \/ users[v].phone # p)
    BY <1>1 DEF Taken, PhoneTaken
  <2>2. \A v \in Ids : Live(v)' => Lower[users'[v].email] = users'[v].email
    BY <1>2, <1>3, <1>5 DEF Inv, AddressInv, Live
  <2>3. ASSUME NEW v \in Ids, NEW x \in Ids, Live(v)', Live(x)', v # x
        PROVE  /\ Lower[users'[v].email] # Lower[users'[x].email]
               /\ users'[v].phone = NoPhone \/ users'[v].phone # users'[x].phone
    <3>1. CASE v # u /\ x # u
      BY <1>5, <2>3, <3>1 DEF Inv, AddressInv, OneUserPerAddress, Live
    <3>2. CASE v = u
      <4>1. users'[v] = row /\ users'[x] = users[x] /\ Live(x)
        BY <1>5, <2>3, <3>2 DEF Live
      <4> QED
        BY <1>3, <2>1, <2>2, <2>3, <4>1
    <3>3. CASE x = u
      <4>1. users'[x] = row /\ users'[v] = users[v] /\ Live(v)
        BY <1>5, <2>3, <3>3 DEF Live
      <4> QED
        BY <1>3, <2>1, <2>2, <2>3, <4>1
    <3> QED
      BY <3>1, <3>2, <3>3
  <2> QED
    BY <2>2, <2>3 DEF AddressInv, OneUserPerAddress
<1>7. RowsHaveTheirUser'
  <2>1. \A v \in Ids : Rows(v)' = Rows(v)
    BY <1>1, Zenon DEF Rows
  <2> QED
    BY <1>3, <1>5, <2>1 DEF Inv, RowsHaveTheirUser, Live
<1>8. DeviceInv' /\ devices' \in [Ids -> [BOOLEAN -> Nat]]
  BY <1>1, DevicesKept
<1>9. \A v \in Ids : users'[v].state = "unborn" => users[v].state = "unborn"
  BY <1>3, <1>5
<1> QED
  BY <1>1, <1>5, <1>6, <1>7, <1>8, <1>9, UsersInv

LEMMA UpdateInv ==
    ASSUME Inv, NEW q \in Slots, update(q)
    PROVE  Inv'
<1> DEFINE u == req[q].user
           f == req[q].field
           v == req[q].value
<1>1. /\ req[q] \in Updates /\ End(q) /\ UNCHANGED <<prefs, devices, tokens>>
      /\ users \in [Ids -> Row] /\ prefs \in [Ids -> Nat]
  BY Shapes DEF update, Inv, Types, TypeOK, Row
<1>2. /\ u \in Ids
      /\ \/ f = "phone" /\ v \in Phones
         \/ f = "role" /\ v \in UserRole
         \/ f = "active" /\ v \in BOOLEAN
         \/ f = "password"
  BY <1>1 DEF Updates
<1>3. DeviceInv' /\ devices' \in [Ids -> [BOOLEAN -> Nat]]
  BY <1>1, DevicesKept
<1>4. \A x \in Ids : Rows(x)' = Rows(x)
  BY <1>1, Zenon DEF Rows
<1>5. CASE UNCHANGED <<users, ghosts>>
  <2>1. RowsHaveTheirUser'
    BY <1>1, <1>4, <1>5 DEF Inv, RowsHaveTheirUser, Live
  <2> QED
    BY <1>1, <1>3, <1>5, <2>1, EndInv DEF ghosts, Live
<1>6. CASE ~UNCHANGED <<users, ghosts>>
  <2>1. /\ Live(u) /\ f # "password" /\ (f = "phone" => ~PhoneTaken(v))
        /\ users' = [users EXCEPT ![u][f] = v] /\ Noted
    BY <1>6 DEF update
  <2>2. users[u] \in Row /\ users'[u] = [users[u] EXCEPT ![f] = v]
    BY <1>1, <1>2, <2>1
  <2> HIDE DEF u, f, v
  <2>3. /\ users'[u] \in Row /\ users'[u].state = users[u].state
        /\ users'[u].email = users[u].email
        /\ users'[u].phone = IF f = "phone" THEN v ELSE users[u].phone
    <3>1. CASE f = "phone" /\ v \in Phones
      BY <2>2, <3>1 DEF Row
    <3>2. CASE f = "role" /\ v \in UserRole
      BY <2>2, <3>2 DEF Row
    <3>3. CASE f = "active" /\ v \in BOOLEAN
      BY <2>2, <3>3 DEF Row
    <3> QED
      BY <1>2, <2>1, <3>1, <3>2, <3>3
  <2>4. users' \in [Ids -> Row] /\ \A x \in Ids \ {u} : users'[x] = users[x]
    BY <1>1, <2>1, <2>3
  <2>5. \A x \in Ids : users'[x].state = users[x].state /\ users'[x].email = users[x].email
    BY <2>3, <2>4
  <2>6. AddressInv'
    <3>1. \A x \in Ids : Live(x)' = Live(x)
      BY <2>5 DEF Live
    <3>2. ASSUME NEW x \in Ids, NEW y \in Ids, Live(x), Live(y), x # y
          PROVE  users'[x].phone = NoPhone \/ users'[x].phone # users'[y].phone
      <4>1. users[x].phone = NoPhone \/ users[x].phone # users[y].phone
        BY <3>2 DEF Inv, AddressInv, OneUserPerAddress
      <4>2. CASE f # "phone"
        BY <2>3, <2>4, <4>1, <4>2
      <4>3. CASE f = "phone"
        <5>1. \A z \in Ids : Live(z) => users[z].phone # v \/ v = NoPhone
          BY <2>1, <4>3 DEF PhoneTaken
        <5>2. v # NoPhone
          BY <1>2, <4>3, AccountsAssumption
        <5> QED
          BY <2>3, <2>4, <3>2, <4>1, <4>3, <5>1, <5>2
      <4> QED
        BY <4>2, <4>3
    <3> QED
      BY <2>5, <3>1, <3>2 DEF Inv, AddressInv, OneUserPerAddress
  <2>7. RowsHaveTheirUser'
    BY <1>1, <1>4, <2>5 DEF Inv, RowsHaveTheirUser, Live
  <2> QED
    BY <1>1, <1>3, <2>1, <2>4, <2>5, <2>6, <2>7, UsersInv
<1> QED
  BY <1>5, <1>6

-----------------------------------------------------------------------------
(* The rows of devices                                                     *)

Devices == [Ids -> [BOOLEAN -> Nat]]

\* e is d but for the rows of u, of which there are x active and y others.
Cells(d, e, u, x, y) ==
    /\ e \in Devices
    /\ \A v \in Ids \ {u} : e[v] = d[v]
    /\ e[u][TRUE] = x
    /\ e[u][FALSE] = y

LEMMA ActiveCell ==
    \A d \in Devices, u \in Ids, x \in Nat :
        Cells(d, [d EXCEPT ![u][TRUE] = x], u, x, d[u][FALSE])
<1> TAKE d \in Devices, u \in Ids, x \in Nat
<1> DEFINE e == [d EXCEPT ![u][TRUE] = x]
           g == [d[u] EXCEPT ![TRUE] = x]
<1>1. d \in [Ids -> [BOOLEAN -> Nat]] /\ d[u] \in [BOOLEAN -> Nat]
  BY Zenon DEF Devices
<1>2. g \in [BOOLEAN -> Nat] /\ g[TRUE] = x /\ g[FALSE] = d[u][FALSE]
  BY <1>1, Zenon
<1>3. e = [d EXCEPT ![u] = g]
  BY Zenon
<1> HIDE DEF e, g
<1>4. e \in Devices /\ e[u] = g /\ \A v \in Ids \ {u} : e[v] = d[v]
  BY <1>1, <1>2, <1>3, Zenon DEF Devices
<1>5. Cells(d, e, u, x, d[u][FALSE])
  BY <1>2, <1>4, Zenon DEF Cells
<1> QED
  BY <1>5 DEF e

LEMMA InactiveCell ==
    \A d \in Devices, u \in Ids, x \in Nat :
        Cells(d, [d EXCEPT ![u][FALSE] = x], u, d[u][TRUE], x)
<1> TAKE d \in Devices, u \in Ids, x \in Nat
<1> DEFINE e == [d EXCEPT ![u][FALSE] = x]
           g == [d[u] EXCEPT ![FALSE] = x]
<1>1. d \in [Ids -> [BOOLEAN -> Nat]] /\ d[u] \in [BOOLEAN -> Nat]
  BY Zenon DEF Devices
<1>2. g \in [BOOLEAN -> Nat] /\ g[TRUE] = d[u][TRUE] /\ g[FALSE] = x
  BY <1>1, Zenon
<1>3. e = [d EXCEPT ![u] = g]
  BY Zenon
<1> HIDE DEF e, g
<1>4. e \in Devices /\ e[u] = g /\ \A v \in Ids \ {u} : e[v] = d[v]
  BY <1>1, <1>2, <1>3, Zenon DEF Devices
<1>5. Cells(d, e, u, d[u][TRUE], x)
  BY <1>2, <1>4, Zenon DEF Cells
<1> QED
  BY <1>5 DEF e

LEMMA TwoCells ==
    \A d \in Devices, u \in Ids, x, y \in Nat :
        Cells(d, [d EXCEPT ![u][TRUE] = x, ![u][FALSE] = y], u, x, y)
<1> TAKE d \in Devices, u \in Ids, x, y \in Nat
<1> DEFINE g == [d EXCEPT ![u][TRUE] = x]
           e == [d EXCEPT ![u][TRUE] = x, ![u][FALSE] = y]
<1>1. e = [g EXCEPT ![u][FALSE] = y]
  BY Zenon
<1>2. Cells(d, g, u, x, d[u][FALSE])
  BY ActiveCell, Zenon
<1> HIDE DEF g, e
<1>3. g \in Devices
  BY <1>2, Zenon DEF Cells
<1>4. Cells(g, [g EXCEPT ![u][FALSE] = y], u, g[u][TRUE], y)
  BY <1>3, InactiveCell, Zenon
<1>5. Cells(g, e, u, g[u][TRUE], y)
  BY <1>1, <1>4, Zenon
<1>6. Cells(d, e, u, x, y)
  BY <1>2, <1>5, Zenon DEF Cells
<1> QED
  BY <1>6, Zenon DEF e

LEMMA RowsOfCells ==
    ASSUME NEW u \in Ids, NEW x \in Nat, NEW y \in Nat, Cells(devices, devices', u, x, y)
    PROVE  /\ devices' \in Devices /\ Rows(u)' = x + y
           /\ \A v \in Ids \ {u} : Rows(v)' = Rows(v)
  BY Zenon DEF Cells, Rows

\* A request on devices or preferences that ends: it adds a row if it found
\* none, and no other request adds one for it.
LEMMA DevicesInv ==
    ASSUME Inv, NEW q \in Slots, End(q), UNCHANGED <<users, tokens, ghosts>>,
           prefs' \in [Ids -> Nat], devices' \in Devices,
           \A v \in Ids : Live(v) <=> prefs'[v] > 0,
           \A v \in Ids :
               /\ Rows(v)' \in Nat
               /\ Rows(v)' > 0 => Live(v)
               /\ Rows(v)' <= Rows(v) \/ (q \in Inserting(v) /\ Rows(v)' = Rows(v) + 1)
    PROVE  Inv'
<1>1. RowsHaveTheirUser'
  BY DEF RowsHaveTheirUser, Live
<1>2. ASSUME NEW v \in Ids
      PROVE  Rows(v)' + Cardinality(Inserting(v)') <= Cardinality(Slots)
  <2>1. /\ Cardinality(Inserting(v)') \in Nat /\ Cardinality(Inserting(v)) \in Nat
        /\ Cardinality(Inserting(v)') <= Cardinality(Inserting(v))
        /\ q \in Inserting(v) => Cardinality(Inserting(v)') + 1 <= Cardinality(Inserting(v))
    BY Ended
  <2>2. Rows(v) + Cardinality(Inserting(v)) <= Cardinality(Slots) /\ Rows(v) \in Nat
    BY RowCounts DEF Inv, DeviceInv
  <2> QED
    BY <2>1, <2>2, Sizes
<1>3. users \in [Ids -> Row]
  BY DEF Inv, Types, TypeOK, Row
<1> QED
  BY <1>1, <1>2, <1>3, EndInv DEF DeviceInv, Devices, ghosts, Live

LEMMA RegisterDeviceInv ==
    ASSUME Inv, NEW q \in Slots, register_device_token(q)
    PROVE  Inv'
<1>1. /\ req[q] \in DeviceWork /\ req[q].op = "device"
      /\ End(q) /\ UNCHANGED <<users, prefs, tokens, ghosts>>
  BY Shapes DEF register_device_token, Inv
<1>2. PICK u \in Ids : u = req[q].user
  BY <1>1 DEF DeviceWork
<1>3. devices \in Devices /\ prefs \in [Ids -> Nat]
  BY DEF Inv, Types, TypeOK, Devices
<1> DEFINE a == devices[u][TRUE]
           b == devices[u][FALSE]
<1>11. a \in Nat /\ b \in Nat /\ Rows(u) = a + b
  <2>1. a \in Nat /\ b \in Nat
    BY <1>3, RowTypes DEF Devices
  <2> QED
    BY <2>1, Zenon DEF Rows
<1> HIDE DEF a, b
<1>4. \A v \in Ids : /\ Rows(v) \in Nat /\ (Live(v) <=> prefs[v] > 0)
                     /\ Rows(v) > 0 => Live(v)
  BY RowCounts DEF Inv, RowsHaveTheirUser
<1>5. ASSUME devices' = devices
      PROVE  Inv'
  <2>1. \A v \in Ids : Rows(v)' = Rows(v)
    BY <1>5, Zenon DEF Rows
  <2> QED
    BY <1>1, <1>3, <1>4, <1>5, <2>1, DevicesInv
<1>6. ASSUME Live(u), NEW x \in Nat, NEW y \in Nat, Cells(devices, devices', u, x, y),
             x + y = a + b \/ (req[q].found = 0 /\ x + y = a + b + 1)
      PROVE  Inv'
  <2>1. /\ devices' \in Devices /\ Rows(u)' = x + y
        /\ \A v \in Ids \ {u} : Rows(v)' = Rows(v)
    BY <1>6, RowsOfCells
  <2>2. req[q].found = 0 => q \in Inserting(u)
    BY <1>1, <1>2 DEF Inserting
  <2>3. ASSUME NEW v \in Ids
        PROVE  /\ Rows(v)' \in Nat
               /\ Rows(v)' > 0 => Live(v)
               /\ Rows(v)' <= Rows(v) \/ (q \in Inserting(v) /\ Rows(v)' = Rows(v) + 1)
    <3>1. CASE v = u
      BY <1>11, <1>6, <2>1, <2>2, <3>1
    <3>2. CASE v # u
      BY <1>4, <2>1, <3>2
    <3> QED
      BY <3>1, <3>2
  <2> QED
    BY <1>1, <1>3, <1>4, <2>1, <2>3, DevicesInv
<1>7. CASE ~Live(u)
  BY <1>2, <1>5, <1>7 DEF register_device_token
<1>8. CASE Live(u) /\ req[q].found = 0
  <2>1. devices' = [devices EXCEPT ![u][TRUE] = a + 1]
    BY <1>2, <1>8 DEF register_device_token, a
  <2>2. a + 1 \in Nat /\ (a + 1) + b = a + b + 1
    BY <1>11
  <2>3. Cells(devices, devices', u, a + 1, b)
    BY <1>3, <2>1, <2>2, ActiveCell, Zenon DEF b
  <2> QED
    BY <1>11, <1>6, <1>8, <2>2, <2>3
<1>9. CASE Live(u) /\ req[q].found # 0 /\ b > 0
  <2>1. devices' = [devices EXCEPT ![u][TRUE] = a + 1, ![u][FALSE] = b - 1]
    BY <1>2, <1>9 DEF register_device_token, a, b
  <2>2. a + 1 \in Nat /\ b - 1 \in Nat /\ (a + 1) + (b - 1) = a + b
    BY <1>11, <1>9
  <2>3. Cells(devices, devices', u, a + 1, b - 1)
    BY <1>3, <2>1, <2>2, TwoCells, Zenon
  <2> QED
    BY <1>11, <1>6, <1>9, <2>2, <2>3
<1>10. CASE Live(u) /\ req[q].found # 0 /\ ~(b > 0)
  BY <1>2, <1>5, <1>10 DEF register_device_token, b
<1> QED
  BY <1>7, <1>8, <1>9, <1>10

LEMMA RegisterFailsInv ==
    ASSUME Inv, NEW q \in Slots, RegisterFails(q)
    PROVE  Inv'
<1>1. End(q) /\ UNCHANGED <<users, prefs, devices, tokens, sinceActive, sinceRole>>
  BY DEF RegisterFails, tables, ghosts
<1>2. DeviceInv' /\ devices' \in [Ids -> [BOOLEAN -> Nat]]
  BY <1>1, DevicesKept
<1>3. RowsHaveTheirUser'
  BY <1>1 DEF Inv, RowsHaveTheirUser, Live, Rows
<1>4. users \in [Ids -> Row] /\ prefs \in [Ids -> Nat]
  BY DEF Inv, Types, TypeOK, Row
<1> QED
  BY <1>1, <1>2, <1>3, <1>4, EndInv DEF Live

\* The user of a login is active, or was when the login began.
LEMMA LoginInv ==
    ASSUME Inv, NEW q \in Slots, login(q)
    PROVE  Inv'
<1>1. /\ req[q] \in OfUser /\ req[q].op = "login" /\ End(q)
      /\ UNCHANGED <<users, prefs, devices, sinceActive, sinceRole>>
  BY Shapes DEF login, tables, ghosts, Inv
<1>2. PICK u \in Ids : u = req[q].user
  BY <1>1 DEF OfUser
<1>3. DeviceInv' /\ devices' \in [Ids -> [BOOLEAN -> Nat]]
  BY <1>1, DevicesKept
<1>4. RowsHaveTheirUser'
  BY <1>1 DEF Inv, RowsHaveTheirUser, Live, Rows
<1>5. users \in [Ids -> Row] /\ prefs \in [Ids -> Nat]
  BY DEF Inv, Types, TypeOK, Row
<1>6. CASE ~Live(u)
  <2>1. UNCHANGED tokens
    BY <1>2, <1>6 DEF login
  <2> QED
    BY <1>1, <1>3, <1>4, <1>5, <2>1, EndInv DEF Live
<1>7. CASE Live(u)
  <2>1. Issue(u, users[u].role)
    BY <1>2, <1>7 DEF login
  <2>2. sinceActive[u] <= 1
    <3>1. sinceActive[u] <= Lasted(q) /\ sinceActive[u] \in Nat
      BY <1>1, <1>2, Longs DEF Inv, StandingInv, Types, TypeOK
    <3> QED
      BY <3>1 DEF Lasted
  <2>3. /\ tokens' \subseteq Token /\ StandingIsRecent'
        /\ \A t \in tokens' :
              /\ users'[t.user].state # "unborn"
              /\ t.role \in UserRole
              /\ t.left \in 1..(IF t.kind = "access" THEN AccessTTL ELSE RefreshTTL)
    BY <1>1, <1>7, <2>1, <2>2, IssueInv
  <2>4. /\ req' \in [Slots -> Work] /\ late' \in [Slots -> BOOLEAN]
        /\ spent' \in 0..MaxRequests
    BY <1>1, Ended
  <2>5. Types'
    <3>1. sinceActive \in [Ids -> 0..Long] /\ sinceRole \in [Ids -> [UserRole -> 0..Long]]
      BY DEF Inv, Types, TypeOK
    <3> QED
      BY <1>1, <1>3, <1>5, <2>3, <2>4, <3>1 DEF Types, TypeOK, Row
  <2>6. AddressInv'
    BY <1>1 DEF Inv, AddressInv, OneUserPerAddress, Live
  <2>7. StandingInv'
    <3>1. \A v \in Ids : sinceActive'[v] \in Nat /\ sinceActive'[v] <= sinceActive[v]
      BY <1>1, Longs DEF Inv, Types, TypeOK
    <3>2. \A p \in Slots :
              /\ req'[p] = Idle => late'[p] = FALSE
              /\ req'[p].op = "login" => sinceActive'[req'[p].user] <= Lasted(p)'
      BY <1>1, <3>1, Ended
    <3>3. \A v \in Ids : Live(v)' =>
              /\ users'[v].active => sinceActive'[v] = 0
              /\ sinceRole'[v][users'[v].role] = 0
      BY <1>1 DEF Inv, StandingInv, Live
    <3> QED
      BY <2>3, <3>2, <3>3 DEF StandingInv
  <2> QED
    BY <1>3, <1>4, <2>5, <2>6, <2>7 DEF Inv
<1> QED
  BY <1>6, <1>7

LEMMA DeleteInv ==
    ASSUME Inv, NEW q \in Slots, delete(q)
    PROVE  Inv'
<1>1. req[q] \in OfUser /\ End(q) /\ UNCHANGED <<tokens, sinceActive, sinceRole>>
  BY Shapes DEF delete, ghosts, Inv
<1>2. PICK u \in Ids : u = req[q].user
  BY <1>1 DEF OfUser
<1> DEFINE none == [a \in BOOLEAN |-> 0]
<1>3. /\ users' = [users EXCEPT ![u].state = "deleted"]
      /\ prefs' = [prefs EXCEPT ![u] = 0]
      /\ devices' = [devices EXCEPT ![u] = none]
  BY <1>2 DEF delete, Cascade
<1>4. users \in [Ids -> Row] /\ prefs \in [Ids -> Nat] /\ devices \in Devices
  BY DEF Inv, Types, TypeOK, Row, Devices
<1>5. /\ users' \in [Ids -> Row] /\ users'[u].state = "deleted"
      /\ \A v \in Ids \ {u} : users'[v] = users[v]
      /\ prefs' \in [Ids -> Nat] /\ prefs'[u] = 0
      /\ \A v \in Ids \ {u} : prefs'[v] = prefs[v]
  BY <1>3, <1>4 DEF Row
<1>6. none \in [BOOLEAN -> Nat] /\ none[TRUE] = 0 /\ none[FALSE] = 0
  <2>1. 0 \in Nat
    OBVIOUS
  <2> QED
    BY <2>1, Zenon
<1> HIDE DEF none
<1>7. Cells(devices, devices', u, 0, 0)
  BY <1>3, <1>4, <1>6, Zenon DEF Cells, Devices
<1>8. /\ devices' \in Devices /\ Rows(u)' = 0
      /\ \A v \in Ids \ {u} : Rows(v)' = Rows(v)
  BY <1>7, RowsOfCells
<1>9. ASSUME NEW v \in Ids
      PROVE  /\ Rows(v)' \in Nat /\ Rows(v)' <= Rows(v) /\ Rows(v) \in Nat
  BY <1>8, RowCounts DEF Inv
<1>10. DeviceInv'
  <2>1. ASSUME NEW v \in Ids
        PROVE  Rows(v)' + Cardinality(Inserting(v)') <= Cardinality(Slots)
    <3>1. /\ Cardinality(Inserting(v)') \in Nat /\ Cardinality(Inserting(v)) \in Nat
          /\ Cardinality(Inserting(v)') <= Cardinality(Inserting(v))
      BY <1>1, Ended
    <3> QED
      BY <1>9, <3>1, Sizes DEF Inv, DeviceInv
  <2> QED
    BY <2>1 DEF DeviceInv
<1>11. RowsHaveTheirUser'
  BY <1>5, <1>8 DEF Inv, RowsHaveTheirUser, Live
<1>12. \A v \in Ids : Live(v)' => Live(v) /\ users'[v] = users[v]
  BY <1>5 DEF Live
<1>13. \A v \in Ids : users'[v].state = "unborn" => users[v].state = "unborn"
  BY <1>5
<1> QED
  BY <1>1, <1>5, <1>8, <1>10, <1>11, <1>12, <1>13, EndInv DEF Devices

LEMMA PreferencesInv ==
    ASSUME Inv, NEW q \in Slots, preferences(q) \/ reset_preferences(q)
    PROVE  Inv'
<1>1. /\ req[q] \in PreferenceWork /\ End(q) /\ UNCHANGED <<users, devices, tokens, ghosts>>
  BY Shapes DEF preferences, reset_preferences, Inv
<1>2. PICK u \in Ids : u = req[q].user
  BY <1>1 DEF PreferenceWork
<1>3. prefs \in [Ids -> Nat] /\ devices \in Devices
  BY DEF Inv, Types, TypeOK, Devices
<1>4. prefs' = prefs \/ (Live(u) /\ prefs' = [prefs EXCEPT ![u] = 1])
  BY <1>2 DEF preferences, reset_preferences
<1>5. \A v \in Ids : Rows(v)' = Rows(v) /\ Rows(v) \in Nat
  <2>1. \A v \in Ids : Rows(v)' = Rows(v)
    BY <1>1, Zenon DEF Rows
  <2> QED
    BY <2>1, RowCounts DEF Inv
<1>6. \A v \in Ids : (Live(v) <=> prefs[v] > 0) /\ (Rows(v) > 0 => Live(v))
  BY DEF Inv, RowsHaveTheirUser
<1>7. prefs' \in [Ids -> Nat] /\ \A v \in Ids : Live(v) <=> prefs'[v] > 0
  BY <1>3, <1>4, <1>6
<1> QED
  BY <1>1, <1>3, <1>5, <1>6, <1>7, DevicesInv

LEMMA RefreshInv ==
    ASSUME Inv, NEW t \in tokens, refresh(t)
    PROVE  Inv'
<1>1. /\ spent < MaxRequests /\ spent' = spent + 1 /\ Live(t.user) /\ users[t.user].active
      /\ Issue(t.user, users[t.user].role)
      /\ UNCHANGED <<users, prefs, devices, req, late, sinceActive, sinceRole>>
  BY DEF refresh, tables, ghosts
<1>2. t.user \in Ids /\ sinceActive[t.user] = 0
  BY <1>1 DEF Inv, Types, Token, StandingInv
<1>3. /\ tokens' \subseteq Token /\ StandingIsRecent'
      /\ \A s \in tokens' :
            /\ users'[s.user].state # "unborn"
            /\ s.role \in UserRole
            /\ s.left \in 1..(IF s.kind = "access" THEN AccessTTL ELSE RefreshTTL)
  BY <1>1, <1>2, IssueInv
<1>4. Types'
  <2>1. spent' \in 0..MaxRequests
    BY <1>1, AccountsAssumption DEF Inv, Types, TypeOK
  <2> QED
    BY <1>1, <1>3, <2>1 DEF Inv, Types, TypeOK
<1>5. AddressInv' /\ RowsHaveTheirUser'
  BY <1>1 DEF Inv, AddressInv, OneUserPerAddress, RowsHaveTheirUser, Live, Rows
<1>6. StandingInv'
  BY <1>1, <1>3 DEF Inv, StandingInv, Live, Lasted
<1>7. DeviceInv'
  BY <1>1 DEF Inv, DeviceInv, Rows, Inserting
<1> QED
  BY <1>4, <1>5, <1>6, <1>7 DEF Inv

LEMMA DeactivateDeviceInv ==
    ASSUME Inv, NEW u \in Ids, deactivate_device_token(u)
    PROVE  Inv'
<1>1. /\ spent < MaxRequests /\ spent' = spent + 1
      /\ UNCHANGED <<users, prefs, tokens, req, late, sinceActive, sinceRole>>
  BY DEF deactivate_device_token, ghosts
<1>2. devices \in Devices
  BY DEF Inv, Types, TypeOK, Devices
<1> DEFINE a == devices[u][TRUE]
           b == devices[u][FALSE]
<1>3. a \in Nat /\ b \in Nat /\ Rows(u) = a + b
  <2>1. a \in Nat /\ b \in Nat
    BY <1>2, RowTypes DEF Devices
  <2> QED
    BY <2>1, Zenon DEF Rows
<1>4. a > 0 /\ devices' = [devices EXCEPT ![u][TRUE] = a - 1, ![u][FALSE] = b + 1]
  BY DEF deactivate_device_token
<1> HIDE DEF a, b
<1>5. a - 1 \in Nat /\ b + 1 \in Nat /\ (a - 1) + (b + 1) = a + b
  BY <1>3, <1>4
<1>6. Cells(devices, devices', u, a - 1, b + 1)
  BY <1>2, <1>4, <1>5, TwoCells, Zenon
<1>7. devices' \in Devices /\ \A v \in Ids : Rows(v)' = Rows(v)
  <2>1. /\ devices' \in Devices /\ Rows(u)' = (a - 1) + (b + 1)
        /\ \A v \in Ids \ {u} : Rows(v)' = Rows(v)
    BY <1>5, <1>6, RowsOfCells
  <2> QED
    BY <1>3, <1>5, <2>1
<1>8. Types'
  <2>1. spent' \in 0..MaxRequests
    BY <1>1, AccountsAssumption DEF Inv, Types, TypeOK
  <2> QED
    BY <1>1, <1>7, <2>1 DEF Inv, Types, TypeOK, Devices
<1>9. AddressInv' /\ RowsHaveTheirUser'
  BY <1>1, <1>7 DEF Inv, AddressInv, OneUserPerAddress, RowsHaveTheirUser, Live
<1>10. StandingInv'
  BY <1>1 DEF Inv, StandingInv, StandingIsRecent, Live, Lasted
<1>11. DeviceInv'
  BY <1>1, <1>7 DEF Inv, DeviceInv, Inserting
<1> QED
  BY <1>8, <1>9, <1>10, <1>11 DEF Inv

\* A unit of time makes a token a unit older, and its user's standing at
\* most that; a login is late after its first.
LEMMA TickInv ==
    ASSUME Inv, Tick
    PROVE  Inv'
<1>1. /\ UNCHANGED <<users, prefs, devices, req, spent>>
      /\ \A q \in Slots : late[q] = FALSE
      /\ late' = [q \in Slots |-> req[q] # Idle]
  BY DEF Tick, tables, Inv, Types, TypeOK
<1>2. /\ sinceActive \in [Ids -> 0..Long] /\ sinceRole \in [Ids -> [UserRole -> 0..Long]]
      /\ tokens \subseteq Token /\ users \in [Ids -> Row]
  BY DEF Inv, Types, TypeOK, Row
<1>3. /\ sinceActive' \in [Ids -> 0..Long]
      /\ \A u \in Ids : /\ sinceActive'[u] \in Nat /\ sinceActive[u] \in Nat
                        /\ sinceActive'[u] <= sinceActive[u] + 1
                        /\ Live(u) /\ users[u].active => sinceActive'[u] = 0
  BY <1>2, Longs DEF Tick
<1>4. /\ sinceRole' \in [Ids -> [UserRole -> 0..Long]]
      /\ \A u \in Ids, r \in UserRole :
            /\ sinceRole'[u][r] \in Nat /\ sinceRole[u][r] \in Nat
            /\ sinceRole'[u][r] <= sinceRole[u][r] + 1
            /\ Live(u) /\ users[u].role = r => sinceRole'[u][r] = 0
  BY <1>2, Longs DEF Tick
<1>5. ASSUME NEW s \in tokens'
      PROVE  \E t \in tokens :
                /\ s.user = t.user /\ s.role = t.role /\ s.kind = t.kind
                /\ t.left > 1 /\ s.left = t.left - 1 /\ s \in Token /\ t \in Token
  <2>1. PICK t \in tokens : t.left > 1 /\ s = [t EXCEPT !.left = t.left - 1]
    BY DEF Tick
  <2>2. t \in Token
    BY <1>2
  <2>3. t.left - 1 \in Nat
    BY <2>1, <2>2 DEF Token
  <2>4. s \in Token /\ s.left = t.left - 1
    BY <2>1, <2>2, <2>3 DEF Token
  <2>5. s.user = t.user /\ s.role = t.role /\ s.kind = t.kind
    BY <2>1, <2>2 DEF Token
  <2> QED
    BY <2>1, <2>2, <2>4, <2>5
<1>6. Types'
  <2>1. late' \in [Slots -> BOOLEAN]
    BY <1>1
  <2>2. ASSUME NEW s \in tokens'
        PROVE  /\ users'[s.user].state # "unborn"
               /\ s.role \in UserRole
               /\ s.left \in 1..(IF s.kind = "access" THEN AccessTTL ELSE RefreshTTL)
    <3>1. PICK t \in tokens :
              /\ s.user = t.user /\ s.role = t.role /\ s.kind = t.kind
              /\ t.left > 1 /\ s.left = t.left - 1 /\ s \in Token /\ t \in Token
      BY <1>5
    <3>2. /\ users[t.user].state # "unborn"
          /\ t.role \in UserRole
          /\ t.left \in 1..(IF t.kind = "access" THEN AccessTTL ELSE RefreshTTL)
      BY DEF Inv, Types, TypeOK
    <3> QED
      BY <1>1, <3>1, <3>2, Longs
  <2>3. tokens' \subseteq Token
    BY <1>5
  <2> QED
    BY <1>1, <1>3, <1>4, <2>1, <2>2, <2>3 DEF Inv, Types, TypeOK
<1>7. AddressInv' /\ RowsHaveTheirUser'
  BY <1>1 DEF Inv, AddressInv, OneUserPerAddress, RowsHaveTheirUser, Live, Rows
<1>8. StandingIsRecent'
  <2> SUFFICES ASSUME NEW s \in tokens', s.kind = "access"
               PROVE  /\ sinceActive'[s.user] <= AccessTTL - s.left + 1
                      /\ sinceRole'[s.user][s.role] <= AccessTTL - s.left + 1
    BY DEF StandingIsRecent
  <2>1. PICK t \in tokens :
            /\ s.user = t.user /\ s.role = t.role /\ s.kind = t.kind
            /\ t.left > 1 /\ s.left = t.left - 1 /\ s \in Token /\ t \in Token
    BY <1>5
  <2>2. /\ sinceActive[t.user] <= AccessTTL - t.left + 1
        /\ sinceRole[t.user][t.role] <= AccessTTL - t.left + 1
    BY <2>1 DEF Inv, StandingInv, StandingIsRecent
  <2>3. t.user \in Ids /\ t.role \in UserRole /\ t.left \in Nat
    BY <2>1 DEF Token
  <2> QED
    BY <1>3, <1>4, <2>1, <2>2, <2>3, Longs
<1>9. StandingInv'
  <2>1. \A u \in Ids : Live(u)' =>
            /\ users'[u].active => sinceActive'[u] = 0
            /\ sinceRole'[u][users'[u].role] = 0
    BY <1>1, <1>2, <1>3, <1>4 DEF Live, Row
  <2>2. ASSUME NEW q \in Slots
        PROVE  /\ req'[q] = Idle => late'[q] = FALSE
               /\ req'[q].op = "login" => sinceActive'[req'[q].user] <= Lasted(q)'
    <3>1. req'[q] = req[q] /\ late'[q] = (req[q] # Idle)
      BY <1>1
    <3>2. ASSUME req[q].op = "login"
          PROVE  sinceActive'[req[q].user] <= Lasted(q)'
      <4>1. req[q] # Idle /\ req[q].user \in Ids
        BY <3>2, Shapes DEF Inv, OfUser, Idle
      <4>2. Lasted(q) = 0 /\ Lasted(q)' = 1
        BY <1>1, <3>1, <4>1 DEF Lasted
      <4>3. sinceActive[req[q].user] <= 0
        BY <3>2, <4>2 DEF Inv, StandingInv
      <4> QED
        BY <1>3, <4>1, <4>2, <4>3
    <3> QED
      BY <3>1, <3>2
  <2> QED
    BY <1>8, <2>1, <2>2 DEF StandingInv
<1>10. DeviceInv'
  BY <1>1 DEF Inv, DeviceInv, Rows, Inserting
<1> QED
  BY <1>6, <1>7, <1>9, <1>10 DEF Inv

-----------------------------------------------------------------------------
LEMMA InvStep == Inv /\ [Next]_vars => Inv'
<1> SUFFICES ASSUME Inv, [Next]_vars
             PROVE  Inv'
  OBVIOUS
<1>1. CASE UNCHANGED vars
  BY <1>1 DEF vars, tables, ghosts, Inv, Types, TypeOK, AddressInv, OneUserPerAddress,
     RowsHaveTheirUser, StandingInv, StandingIsRecent, DeviceInv, Live, Rows, Lasted, Inserting
<1>2. ASSUME NEW q \in Slots, Beginning(q)
      PROVE  Inv'
  BY <1>2, Beginnings
<1>3. ASSUME NEW q \in Slots, NEW u \in Ids, register(q, u)
      PROVE  Inv'
  BY <1>3, RegisterInv
<1>4. ASSUME NEW q \in Slots, RegisterFails(q)
      PROVE  Inv'
  BY <1>4, RegisterFailsInv
<1>5. ASSUME NEW q \in Slots, login(q)
      PROVE  Inv'
  BY <1>5, LoginInv
<1>6. ASSUME NEW q \in Slots, update(q)
      PROVE  Inv'
  BY <1>6, UpdateInv
<1>7. ASSUME NEW q \in Slots, delete(q)
      PROVE  Inv'
  BY <1>7, DeleteInv
<1>8. ASSUME NEW q \in Slots, preferences(q) \/ reset_preferences(q)
      PROVE  Inv'
  BY <1>8, PreferencesInv
<1>9. ASSUME NEW q \in Slots, register_device_token(q)
      PROVE  Inv'
  BY <1>9, RegisterDeviceInv
<1>10. ASSUME NEW t \in tokens, refresh(t)
       PROVE  Inv'
  BY <1>10, RefreshInv
<1>11. ASSUME NEW u \in Ids, deactivate_device_token(u)
       PROVE  Inv'
  BY <1>11, DeactivateDeviceInv
<1>12. CASE Tick
  BY <1>12, TickInv
<1> QED
  BY <1>1, <1>2, <1>3, <1>4, <1>5, <1>6, <1>7, <1>8, <1>9, <1>10, <1>11, <1>12
     DEF Next, Beginning

LEMMA InvAlways == Spec => []Inv
  BY InvInit, InvStep, PTL DEF Spec

\* The types of Accounts, for any set of requests and users.
THEOREM TypesAreKept == Spec => []TypeOK
<1>1. Inv => TypeOK
  BY DEF Inv, Types
<1> QED
  BY <1>1, InvAlways, PTL

\* Registration and PUT /users check an address before they write it, and
\* others write in between; the indexes on the stored form keep every address
\* and every number with one user all the same.
THEOREM AddressesAreUnique == Spec => []OneUserPerAddress
<1>1. Inv => OneUserPerAddress
  BY DEF Inv, AddressInv
<1> QED
  BY <1>1, InvAlways, PTL

\* However the requests of a deleted user's token and the deletion overlap,
\* a live user has preferences and no row is left without its user.
THEOREM RowsKeepTheirUser == Spec => []RowsHaveTheirUser
<1>1. Inv => RowsHaveTheirUser
  BY DEF Inv
<1> QED
  BY <1>1, InvAlways, PTL

\* An access token outlives its user's standing by its lifetime and one
\* request at most, whatever the chain of logins and refreshes it comes from.
THEOREM StandingStaysRecent == Spec => []StandingIsRecent
<1>1. Inv => StandingIsRecent
  BY DEF Inv, StandingInv
<1> QED
  BY <1>1, InvAlways, PTL

\* Registrations of one device that race leave no more rows than requests
\* that can run at a time, though no index limits them.
THEOREM DeviceRowsAreFew == Spec => []FewDeviceRows
<1>1. Inv => FewDeviceRows
  <2> SUFFICES ASSUME Inv, NEW u \in Ids
               PROVE  Rows(u) <= Cardinality(Slots)
    BY DEF FewDeviceRows
  <2>1. Inserting(u) \in SUBSET Slots
    BY DEF Inserting
  <2>2. Cardinality(Inserting(u)) \in Nat /\ Rows(u) \in Nat
    BY <2>1, Sizes, RowCounts DEF Inv
  <2> QED
    BY <2>2, Sizes DEF Inv, DeviceInv
<1> QED
  BY <1>1, InvAlways, PTL

=============================================================================
