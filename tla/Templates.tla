----------------------------- MODULE Templates -----------------------------
(***************************************************************************)
(* The notification_templates table: _seed_templates, which every API      *)
(* replica runs in one transaction before it serves requests, and the      *)
(* templates endpoints.  Replicas start and administrators act at the same *)
(* time.  A transaction sees committed rows and its own; the unique index  *)
(* on (event, channel, locale) makes an INSERT wait for another            *)
(* transaction's row of the same key, and fail if that is committed.       *)
(*                                                                         *)
(* The replicas are the workers of one gunicorn, each with its own copy of *)
(* the application.  A worker that is killed is replaced alone; one that   *)
(* cannot import the application, or whose lifespan raises, does not boot, *)
(* and then gunicorn stops the others too and the container is restarted.  *)
(*                                                                         *)
(* A key is an <<event and channel, locale>> pair.  Texts and the version  *)
(* number are left out.                                                    *)
(***************************************************************************)
EXTENDS Naturals, Sequences, Functions

CONSTANTS
    Keys,           \* the keys of templates
    Defaults,       \* default_templates: a sequence of keys
    Replicas,       \* the API's worker processes
    Importable,     \* whether "import app.main" succeeds
    Admins,         \* concurrent administrators
    MaxRequests,    \* bound: requests of administrators
    MaxCrashes      \* bound: replicas killed, or stopped by Redis or Kafka

English(k) == <<k[1], "en">>

ASSUME TemplatesAssumption ==
    /\ \A k \in Keys : English(k) \in Keys
    /\ Defaults \in Seq(Keys)
    /\ Importable \in BOOLEAN
    /\ \A i \in DOMAIN Defaults : Defaults[i] # English(Defaults[i]) =>
          \E j \in 1..i - 1 : Defaults[j] = English(Defaults[i])
    /\ MaxRequests \in Nat
    /\ MaxCrashes \in Nat

VARIABLES
    row,            \* of each key: "none", "active" or "inactive"
    number,         \* rows the key has had: tells a row from its successor
    replica,        \* "down", "loading", "seeding" or "ready"
    pos,            \* the default a seeding replica is at
    missing,        \* it has looked that one up and found nothing
    pending,        \* the keys it has inserted and not committed
    req,            \* what each administrator is doing
    spent, crashes,
    gap             \* ghost: keys an administrator took out of service

table == <<row, number>>
seeding == <<replica, pos, missing, pending>>
templatesVars == <<table, seeding, req, spent, crashes, gap>>

Idle == [op |-> "idle"]

\* An uncommitted row belongs to one transaction, of a replica that is
\* seeding, and has no committed row of its key beside it.
TemplatesTypeOK ==
    /\ row \in [Keys -> {"none", "active", "inactive"}]
    /\ number \in [Keys -> Nat]
    /\ replica \in [Replicas -> {"down", "loading", "seeding", "ready"}]
    /\ pos \in [Replicas -> 1..Len(Defaults) + 1]
    /\ missing \in [Replicas -> BOOLEAN]
    /\ \A r \in Replicas :
        /\ pending[r] \subseteq Range(Defaults)
        /\ pending[r] # {} => replica[r] = "seeding"
        /\ \A k \in pending[r] :
              row[k] = "none" /\ \A s \in Replicas \ {r} : k \notin pending[s]
    /\ spent \in 0..MaxRequests
    /\ crashes \in 0..MaxCrashes
    /\ gap \subseteq Keys

TemplatesInit ==
    /\ row = [k \in Keys |-> "none"]
    /\ number = [k \in Keys |-> 0]
    /\ replica = [r \in Replicas |-> "down"]
    /\ pos = [r \in Replicas |-> 1]
    /\ missing = [r \in Replicas |-> FALSE]
    /\ pending = [r \in Replicas |-> {}]
    /\ req = [a \in Admins |-> Idle]
    /\ spent = 0
    /\ crashes = 0
    /\ gap = {}

-----------------------------------------------------------------------------
(* The repository                                                          *)

\* Mutant: the filter on is_active is the wrong way round.
Visible_Inactive(k, own) == row[k] = "inactive" \/ k \in own

\* What a transaction with these rows of its own reads.
Visible(k, own) == row[k] = "active" \/ k \in own

\* get_by_event_channel_locale: the active row of the key, or else the
\* English one; the key it is found under, if any.
get_by_event_channel_locale(k, own) ==
    IF Visible(k, own) THEN {k}
    ELSE IF Visible(English(k), own) THEN {English(k)} ELSE {}

Locked(k, r) == \E s \in Replicas \ {r} : k \in pending[s]

-----------------------------------------------------------------------------
(* Start of a replica                                                      *)

\* gunicorn forks a worker, which imports the application.
Fork(r) ==
    /\ replica[r] = "down"
    /\ replica' = [replica EXCEPT ![r] = "loading"]
    /\ UNCHANGED <<table, pos, missing, pending, req, spent, crashes, gap>>

\* Every worker ends, and its transaction with it.
Halt ==
    /\ replica' = [r \in Replicas |-> "down"]
    /\ missing' = [r \in Replicas |-> FALSE]
    /\ pending' = [r \in Replicas |-> {}]

\* The application is imported; its lifespan begins to seed.
lifespan(r) ==
    /\ replica[r] = "loading"
    /\ IF Importable
       THEN /\ replica' = [replica EXCEPT ![r] = "seeding"]
            /\ pos' = [pos EXCEPT ![r] = 1]
            /\ UNCHANGED <<missing, pending>>
       ELSE Halt /\ UNCHANGED pos
    /\ UNCHANGED <<table, req, spent, crashes, gap>>

\* _seed_templates looks the next default up.
SeedLookup(r) ==
    /\ replica[r] = "seeding"
    /\ pos[r] <= Len(Defaults)
    /\ ~missing[r]
    /\ IF get_by_event_channel_locale(Defaults[pos[r]], pending[r]) = {}
       THEN missing' = [missing EXCEPT ![r] = TRUE] /\ UNCHANGED pos
       ELSE pos' = [pos EXCEPT ![r] = @ + 1] /\ UNCHANGED missing
    /\ UNCHANGED <<table, replica, pending, req, spent, crashes, gap>>

SeedCreate(r) ==
    LET k == Defaults[pos[r]] IN
    /\ replica[r] = "seeding"
    /\ missing[r]
    /\ row[k] = "none"
    /\ ~Locked(k, r)
    /\ pending' = [pending EXCEPT ![r] = @ \cup {k}]
    /\ missing' = [missing EXCEPT ![r] = FALSE]
    /\ pos' = [pos EXCEPT ![r] = @ + 1]
    /\ UNCHANGED <<table, replica, req, spent, crashes, gap>>

\* One worker ends, and its transaction with it.
RollBack(r) ==
    /\ replica' = [replica EXCEPT ![r] = "down"]
    /\ missing' = [missing EXCEPT ![r] = FALSE]
    /\ pending' = [pending EXCEPT ![r] = {}]

\* Someone else has committed a row of the key since it was looked up, or
\* there is an inactive one: IntegrityError, which nobody catches, and the
\* worker does not boot.
SeedFails(r) ==
    /\ replica[r] = "seeding"
    /\ missing[r]
    /\ row[Defaults[pos[r]]] # "none"
    /\ Halt
    /\ UNCHANGED <<table, pos, req, spent, crashes, gap>>

\* Mutant: the last default is forgotten.
SeedCommit_OneShort(r) ==
    /\ replica[r] = "seeding"
    /\ ~missing[r]
    /\ pos[r] >= Len(Defaults)
    /\ replica' = [replica EXCEPT ![r] = "ready"]
    /\ row' = [k \in Keys |-> IF k \in pending[r] THEN "active" ELSE row[k]]
    /\ number' = [k \in Keys |-> IF k \in pending[r] THEN number[k] + 1 ELSE number[k]]
    /\ pending' = [pending EXCEPT ![r] = {}]
    /\ UNCHANGED <<pos, missing, req, spent, crashes, gap>>

\* All or nothing; then the replica serves requests.
SeedCommit(r) ==
    /\ replica[r] = "seeding"
    /\ pos[r] > Len(Defaults)
    /\ replica' = [replica EXCEPT ![r] = "ready"]
    /\ row' = [k \in Keys |-> IF k \in pending[r] THEN "active" ELSE row[k]]
    /\ number' = [k \in Keys |-> IF k \in pending[r] THEN number[k] + 1 ELSE number[k]]
    /\ pending' = [pending EXCEPT ![r] = {}]
    /\ UNCHANGED <<pos, missing, req, spent, crashes, gap>>

\* A worker is killed, or Redis, Kafka or the database fails its lifespan.
Crash(r) ==
    /\ replica[r] # "down"
    /\ crashes < MaxCrashes
    /\ crashes' = crashes + 1
    /\ \/ RollBack(r)
       \/ replica[r] # "ready" /\ Halt
    /\ UNCHANGED <<table, pos, req, spent, gap>>

-----------------------------------------------------------------------------
(* Administrators: read, then commit                                       *)

Begin(a, r) ==
    /\ req[a] = Idle
    /\ \E s \in Replicas : replica[s] = "ready"
    /\ spent < MaxRequests
    /\ spent' = spent + 1
    /\ req' = [req EXCEPT ![a] = r]
    /\ UNCHANGED <<table, seeding, crashes, gap>>

\* Refused with 409 if the lookup, fallback included, finds a template.
BeginCreate(a, k) ==
    /\ get_by_event_channel_locale(k, {}) = {}
    /\ Begin(a, [op |-> "create", key |-> k])

\* By the row's id.
BeginUpdate(a, k, active) ==
    /\ row[k] # "none"
    /\ Begin(a, [op |-> "update", key |-> k, number |-> number[k], to |-> active])

BeginDelete(a, k) ==
    /\ row[k] # "none"
    /\ Begin(a, [op |-> "delete", key |-> k, number |-> number[k]])

\* The index may refuse the row.
create_template(a) ==
    LET k == req[a].key IN
    /\ req[a].op = "create"
    /\ \A r \in Replicas : k \notin pending[r]
    /\ IF row[k] = "none"
       THEN /\ row' = [row EXCEPT ![k] = "active"]
            /\ number' = [number EXCEPT ![k] = @ + 1]
       ELSE UNCHANGED table
    /\ req' = [req EXCEPT ![a] = Idle]
    /\ UNCHANGED <<seeding, spent, crashes, gap>>

\* The row it read is still there; an UPDATE fails and a DELETE does nothing
\* when it is not.
SameRow(a) == row[req[a].key] # "none" /\ number[req[a].key] = req[a].number

update_template(a) ==
    LET k == req[a].key IN
    /\ req[a].op = "update"
    /\ row' = IF SameRow(a) THEN [row EXCEPT ![k] = req[a].to] ELSE row
    /\ gap' = IF SameRow(a) /\ req[a].to = "inactive" THEN gap \cup {k} ELSE gap
    /\ req' = [req EXCEPT ![a] = Idle]
    /\ UNCHANGED <<number, seeding, spent, crashes>>

delete_template(a) ==
    LET k == req[a].key IN
    /\ req[a].op = "delete"
    /\ row' = IF SameRow(a) THEN [row EXCEPT ![k] = "none"] ELSE row
    /\ gap' = IF SameRow(a) THEN gap \cup {k} ELSE gap
    /\ req' = [req EXCEPT ![a] = Idle]
    /\ UNCHANGED <<number, seeding, spent, crashes>>

-----------------------------------------------------------------------------
Seed(r) ==
    \/ Fork(r) \/ lifespan(r)
    \/ SeedLookup(r) \/ SeedCreate(r) \/ SeedFails(r) \/ SeedCommit(r)

Commit(a) == create_template(a) \/ update_template(a) \/ delete_template(a)

TemplatesNext ==
    \/ \E r \in Replicas : Seed(r) \/ Crash(r)
    \/ \E a \in Admins, k \in Keys :
        \/ BeginCreate(a, k)
        \/ \E s \in {"active", "inactive"} : BeginUpdate(a, k, s)
        \/ BeginDelete(a, k)
    \/ \E a \in Admins : Commit(a)

TemplatesSpec == TemplatesInit /\ [][TemplatesNext]_templatesVars

\* A worker that ended is forked again, by gunicorn or by the restarted
\* container, and goes on with its seeding; an administrator's request may
\* be lost.
FairSpec == TemplatesSpec /\ \A r \in Replicas : WF_templatesVars(Seed(r))

-----------------------------------------------------------------------------
(* Properties                                                              *)

Resolves(k) == get_by_event_channel_locale(k, {}) # {}

\* A replica serves requests only when every default event can be rendered,
\* as far as administrators did not take its template away: whichever
\* replicas started together, failed on each other's rows or stopped midway.
ReadyMeansResolvable ==
    (\E r \in Replicas : replica[r] = "ready") =>
        \A k \in Range(Defaults) : Resolves(k) \/ English(k) \in gap

\* An inactive row that holds the key of a default nothing else resolves.
Blocked(k) == row[k] = "inactive" /\ ~Resolves(k)

\* If no default stays blocked, replicas stop failing on each other's rows,
\* although each such failure takes every worker down and makes all of them
\* seed again; and no transaction waits for another for ever.
SeedingSettles ==
    <>[](\A k \in Range(Defaults) : ~Blocked(k))
        => <>[](\A r \in Replicas : replica[r] # "seeding")

\* Every replica gets ready to serve requests.
StartsUp ==
    <>[](\A k \in Range(Defaults) : ~Blocked(k))
        => <>[](\A r \in Replicas : replica[r] = "ready")

=============================================================================
