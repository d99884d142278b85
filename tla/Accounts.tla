------------------------------ MODULE Accounts ------------------------------
(***************************************************************************)
(* Users, tenants and the tokens that act for them: the console's user     *)
(* administration (api/users.py), provisioning by an identity provider     *)
(* (api/scim.py, services/scim.py), SCIM and API tokens (api/scim_tokens.py*)
(* api/api_tokens.py), tenants (api/tenants.py) and how a request finds    *)
(* its actor (core/deps.py).                                               *)
(*                                                                         *)
(* A request authenticates, loads the rows it needs and decides on them;   *)
(* what it changed is committed later (core/db.py get_session), when other *)
(* requests may have committed in between.                                 *)
(***************************************************************************)
EXTENDS Naturals, FiniteSets

CONSTANTS
    Tenant,         \* tenants that may exist
    Default,        \* DEFAULT_TENANT_ID
    Uid,            \* ids of the user rows that may be created
    Root,           \* the super-admin the installation starts with
    Role,           \* roles given out, of "admin", "analyst" and "viewer"
    Email,          \* addresses
    RootEmail,
    Ext,            \* identifiers the identity provider uses
    Group,          \* host groups
    GroupTenant,    \* GroupTenant[g]: HostGroup.tenant_id
    Request,        \* requests in flight
    Seeded,         \* tenants other than Default that exist at the start
    Scim,           \* whether SCIM tokens are handed out (Seeded tenants and Default have theirs)
    MaxRequest      \* bound: requests made

Absent == [tenant |-> "none"]
Idle == [st |-> "idle"]

\* The columns of a user's row that these operations read and write.
User == [tenant : Tenant, email : Email, role : Role, disabled : BOOLEAN,
         super : BOOLEAN, ext : Ext \cup {"null"}, groups : SUBSET Group]

\* A tenant's row and the two kinds of token, as far as their state matters.
TenantState == {"absent", "enabled", "disabled"}
ApiTokenState == {"none", "live", "revoked"}
ScimTokenState == {"none", "live", "disabled"}

VARIABLES
    users,      \* users[u]: the row, or Absent
    tenants,    \* tenants[t]: "absent", "enabled" or "disabled"
    scim,       \* scim[t]: the tenant's SCIM token: "none", "live" or "disabled"
    tokens,     \* tokens[u]: the user's API token: "none", "live" or "revoked"
    audited,    \* tenants that own a row of the audit log
    req,        \* req[p]: the request in flight
    made        \* requests made

vars == <<users, tenants, scim, tokens, audited, req, made>>
tables == <<users, tenants, scim, tokens, audited>>

Init ==
    /\ users = [u \in Uid |-> IF u = Root
         THEN [tenant |-> Default, email |-> RootEmail, role |-> "admin", disabled |-> FALSE,
               super |-> TRUE, ext |-> "null", groups |-> {}]
         ELSE Absent]
    /\ tenants = [t \in Tenant |-> IF t \in Seeded \cup {Default} THEN "enabled" ELSE "absent"]
    /\ scim = [t \in Tenant |-> IF Scim /\ t \in Seeded \cup {Default} THEN "live" ELSE "none"]
    /\ tokens = [u \in Uid |-> "none"]
    /\ audited = Seeded \* create_tenant wrote a row
    /\ req = [p \in Request |-> Idle]
    /\ made = 0

Rows(t) == {u \in Uid : users[u].tenant = t}
Exists(u) == users[u] # Absent
EnabledAdmins(t) == {u \in Rows(t) : users[u].role = "admin" /\ ~users[u].disabled}

-----------------------------------------------------------------------------
(* Who makes the request.                                                  *)

\* current_actor: a JWT or a live API token of an enabled user, acting in the
\* user's tenant; a super-admin acts in the tenant its cookie names, which
\* nothing looks up.
Actors ==
    {[uid |-> u, tenant |-> t] : u \in {v \in Uid : Exists(v) /\ ~users[v].disabled}, t \in Tenant}

CurrentActor ==
    {a \in Actors : a.tenant = users[a.uid].tenant \/ users[a.uid].super}

RequireRole(roles) == {a \in CurrentActor : users[a.uid].role \in roles}
RequireAdmin == RequireRole({"admin"})
RequireAnalyst == RequireRole({"admin", "analyst"})
RequireSuperAdmin == {a \in CurrentActor : users[a.uid].super}

\* scim_actor: a token that is not disabled acts in its own tenant.
ScimActor == {[uid |-> "scim", tenant |-> t] : t \in {s \in Tenant : scim[s] = "live"}}

Free(p) == req[p] = Idle /\ made < MaxRequest

\* A request of actor a that will change "what" when it commits; "saw" is the
\* enabled admins of the tenant besides the user it is about, as it counted them.
Submit(p, a, what, saw) ==
    /\ made' = made + 1
    /\ req' = [req EXCEPT ![p] = [st |-> "held", actor |-> a, what |-> what, saw |-> saw]]
    /\ UNCHANGED tables

Change(do, u, row) == [do |-> do, uid |-> u, was |-> users[u], is |-> row]

-----------------------------------------------------------------------------
(* The console.                                                            *)

EmailTaken(e) == \E v \in Uid : Exists(v) /\ users[v].email = e

CreateUser(p) ==
    \E a \in RequireAdmin, u \in Uid, e \in Email, r \in Role :
        /\ ~Exists(u) /\ ~EmailTaken(e)
        /\ \A q \in Request : req[q] # Idle => req[q].what.uid # u
        /\ Submit(p, a, Change("insert", u,
             [tenant |-> a.tenant, email |-> e, role |-> r, disabled |-> FALSE,
              super |-> FALSE, ext |-> "null", groups |-> {}]), {})

LoadInTenant(a) == Rows(a.tenant)

Others(u) == EnabledAdmins(users[u].tenant) \ {u}

\* The guard of update_user and delete_user.
LastEnabledAdminNever(u) == FALSE
LastEnabledAdmin(u) == u \in EnabledAdmins(users[u].tenant) /\ Others(u) = {}

UpdateUser(p) ==
    \E a \in RequireAdmin : \E u \in LoadInTenant(a), r \in Role, d \in BOOLEAN :
        /\ r # "admin" \/ d => ~LastEnabledAdmin(u)
        /\ Submit(p, a, Change("update", u, [users[u] EXCEPT !.role = r, !.disabled = d]), Others(u))

DeleteUser(p) ==
    \E a \in RequireAdmin : \E u \in LoadInTenant(a) :
        /\ ~LastEnabledAdmin(u)
        /\ Submit(p, a, Change("delete", u, users[u]), Others(u))

\* replace_user_groups keeps only the groups of the actor's tenant.
ValidGroups(a, gs) == {g \in gs : GroupTenant[g] = a.tenant}

ReplaceUserGroups(p) ==
    \E a \in RequireAdmin : \E u \in LoadInTenant(a), gs \in SUBSET Group :
        Submit(p, a, Change("update", u, [users[u] EXCEPT !.groups = ValidGroups(a, gs)]), {})

-----------------------------------------------------------------------------
(* Provisioning.                                                           *)

\* The row a SCIM POST is about: by external id in the tenant, else by address,
\* which must then be a provisioned user of the tenant.
ExistingAnyTenant(t, e, x) ==
    LET byExt == {u \in Uid : Exists(u) /\ x # "null" /\ users[u].ext = x}
        byEmail == {u \in Uid : Exists(u) /\ users[u].email = e}
    IN  [rows |-> IF byExt # {} THEN byExt ELSE byEmail,
         conflict |-> byExt = {} /\ \E u \in byEmail : users[u].ext = "null"]

Existing(t, e, x) ==
    LET byExt == {u \in Rows(t) : x # "null" /\ users[u].ext = x}
        byEmail == {u \in Uid : Exists(u) /\ users[u].email = e}
    IN  [rows |-> IF byExt # {} THEN byExt ELSE byEmail,
         conflict |-> byExt = {} /\ \E u \in byEmail : users[u].ext = "null" \/ users[u].tenant # t]

ApplyScimUserFields(row, e, x, r, d) ==
    [row EXCEPT !.email = e, !.ext = IF x = "null" THEN @ ELSE x, !.role = r, !.disabled = d]

ScimCreateUser(p) ==
    \E a \in ScimActor, e \in Email, x \in Ext \cup {"null"}, r \in Role, d \in BOOLEAN :
        LET ex == Existing(a.tenant, e, x)
        IN  /\ ~ex.conflict
            /\ \/ \E u \in ex.rows :
                    Submit(p, a, Change("update", u, ApplyScimUserFields(users[u], e, x, r, d)), {})
               \/ /\ ex.rows = {}
                  /\ \E u \in Uid :
                       /\ ~Exists(u)
                       /\ \A q \in Request : req[q] # Idle => req[q].what.uid # u
                       /\ Submit(p, a, Change("insert", u,
                            [tenant |-> a.tenant, email |-> e, role |-> r, disabled |-> d,
                             super |-> FALSE, ext |-> x, groups |-> {}]), {})

ScimReplaceUser(p) ==
    \E a \in ScimActor : \E u \in Rows(a.tenant), e \in Email, x \in Ext \cup {"null"}, r \in Role, d \in BOOLEAN :
        Submit(p, a, Change("update", u, ApplyScimUserFields(users[u], e, x, r, d)), {})

\* _apply_patch_value and apply_scim_patch, one operation.
ScimPatch(row) ==
    {[row EXCEPT !.disabled = d] : d \in BOOLEAN} \cup {[row EXCEPT !.email = e] : e \in Email}
    \cup {[row EXCEPT !.ext = x] : x \in Ext \cup {"null"}} \cup {[row EXCEPT !.role = r] : r \in Role}

ScimPatchUser(p) ==
    \E a \in ScimActor : \E u \in Rows(a.tenant) : \E row \in ScimPatch(users[u]) :
        Submit(p, a, Change("update", u, row), {})

ScimDeleteUser(p) ==
    \E a \in ScimActor : \E u \in Rows(a.tenant) : Submit(p, a, Change("delete", u, users[u]), {})

-----------------------------------------------------------------------------
(* Tokens and tenants: single writes, decided and committed on one row.    *)

Write(a, t) ==
    /\ made < MaxRequest /\ made' = made + 1
    /\ audited' = audited \cup {t}
    /\ UNCHANGED <<users, req>>

ScimToken(to) ==
    \E a \in RequireAdmin :
        /\ Scim /\ tenants[a.tenant] # "absent"
        /\ CASE to = "live" -> scim[a.tenant] = "none"
             [] to = "disabled" -> scim[a.tenant] = "live"
             [] to = "none" -> scim[a.tenant] # "none"
        /\ scim' = [scim EXCEPT ![a.tenant] = to]
        /\ Write(a, a.tenant) /\ UNCHANGED <<tenants, tokens>>

CreateToken ==
    \E a \in RequireAnalyst :
        /\ tokens[a.uid] = "none" /\ tenants[a.tenant] # "absent"
        /\ tokens' = [tokens EXCEPT ![a.uid] = "live"]
        /\ Write(a, a.tenant) /\ UNCHANGED <<tenants, scim>>

RevokeToken ==
    \E a \in CurrentActor, u \in Uid :
        /\ tokens[u] = "live" /\ users[u].tenant = a.tenant
        /\ u = a.uid \/ users[a.uid].role = "admin"
        /\ tokens' = [tokens EXCEPT ![u] = "revoked"]
        /\ Write(a, a.tenant) /\ UNCHANGED <<tenants, scim>>

CreateTenant ==
    \E a \in RequireSuperAdmin, t \in Tenant :
        /\ tenants[t] = "absent"
        /\ tenants' = [tenants EXCEPT ![t] = "enabled"]
        /\ Write(a, t) /\ UNCHANGED <<scim, tokens>>

\* update_tenant: nothing but the row is told of the change.
UpdateTenant ==
    \E a \in RequireSuperAdmin, t \in Tenant, to \in {"enabled", "disabled"} :
        /\ tenants[t] \notin {"absent", to} /\ t # Default
        /\ tenants' = [tenants EXCEPT ![t] = to]
        /\ Write(a, t) /\ UNCHANGED <<scim, tokens>>

\* delete_tenant counts hosts and users; the other tables' foreign keys (RESTRICT)
\* are left to the database.
DeleteTenant(p) ==
    \E a \in RequireSuperAdmin, t \in Tenant \ {Default} :
        /\ tenants[t] # "absent" /\ Rows(t) = {}
        /\ Submit(p, a, [do |-> "drop", uid |-> t, was |-> Absent, is |-> Absent], {})

-----------------------------------------------------------------------------
(* The commit.                                                             *)

Merge(now, w) == [f \in DOMAIN now |-> IF w.is[f] # w.was[f] THEN w.is[f] ELSE now[f]]

\* The database's own constraints (models/user.py): unique address, unique
\* external id, an existing tenant.
Consistent(us) ==
    LET present == {u \in Uid : us[u] # Absent}
    IN  /\ \A u, v \in present : u # v =>
             us[u].email # us[v].email /\ (us[u].ext = "null" \/ us[u].ext # us[v].ext)
        /\ \A u \in present : tenants[us[u].tenant] # "absent"

\* What the table would be after request q: an update of a row that is gone
\* raises, and so leaves nothing.
Applied(q) ==
    LET w == q.what
    IN  CASE w.do = "insert" -> {[users EXCEPT ![w.uid] = w.is]}
          [] w.do = "update" -> IF Exists(w.uid) THEN {[users EXCEPT ![w.uid] = Merge(@, w)]} ELSE {}
          [] w.do = "delete" -> {[users EXCEPT ![w.uid] = Absent]}
          [] w.do = "drop"   -> {users}

\* A tenant is dropped only when no table refers to it.
Droppable(t) == Rows(t) = {} /\ scim[t] = "none" /\ t \notin audited

Outcomes(q) ==
    {us \in Applied(q) :
        /\ Consistent(us) /\ tenants[q.actor.tenant] # "absent"
        /\ q.what.do = "drop" => Droppable(q.what.uid)}

Commit(p) ==
    /\ req[p] # Idle
    /\ LET q == req[p]
       IN  \E us \in Outcomes(q) :
             /\ users' = us
             /\ tokens' = [u \in Uid |-> IF us[u] = Absent THEN "none" ELSE tokens[u]]
             /\ tenants' = IF q.what.do = "drop" THEN [tenants EXCEPT ![q.what.uid] = "absent"] ELSE tenants
             /\ audited' = audited \cup {q.actor.tenant}
    /\ req' = [req EXCEPT ![p] = Idle]
    /\ UNCHANGED <<scim, made>>

\* An integrity error rolls everything back. (Any other failure does too, and is
\* then as if the request had not been made.)
Rollback(p) ==
    /\ req[p] # Idle /\ Outcomes(req[p]) = {}
    /\ req' = [req EXCEPT ![p] = Idle]
    /\ UNCHANGED <<tables, made>>

Next ==
    \/ \E p \in Request :
        \/ /\ Free(p)
           /\ \/ CreateUser(p) \/ UpdateUser(p) \/ DeleteUser(p) \/ ReplaceUserGroups(p)
              \/ ScimCreateUser(p) \/ ScimReplaceUser(p) \/ ScimPatchUser(p) \/ ScimDeleteUser(p)
              \/ DeleteTenant(p)
        \/ Commit(p) \/ Rollback(p)
    \/ \E to \in ScimTokenState : ScimToken(to)
    \/ CreateToken \/ RevokeToken \/ CreateTenant \/ UpdateTenant

Spec == Init /\ [][Next]_vars

-----------------------------------------------------------------------------
\* Rows, tokens and tenants have their types.
TypeOK ==
    /\ users \in [Uid -> User \cup {Absent}]
    /\ tenants \in [Tenant -> TenantState]
    /\ tokens \in [Uid -> ApiTokenState]
    /\ scim \in [Tenant -> ScimTokenState]

\* No request, of an administrator, a super-admin abroad or an identity
\* provider, changes a user of a tenant other than the one it acts in, nor gives
\* a user a group of another tenant.
TenantIsolation ==
    \A p \in Request, u \in Uid :
        req[p] # Idle /\ req'[p] = Idle /\ users'[u] # users[u] =>
            /\ Exists(u) => users[u].tenant = req[p].actor.tenant
            /\ users'[u] # Absent => /\ users'[u].tenant = req[p].actor.tenant
                                     /\ \A g \in users'[u].groups : GroupTenant[g] = users'[u].tenant

\* The console's guard against the last administrator going can be passed only by
\* a race: a console request that leaves a tenant without an enabled admin had
\* counted another one, which a different request has removed since, or had
\* loaded a user that a different request has made an enabled admin since.
AdminsVanishByRace ==
    \A p \in Request, t \in Tenant :
        req[p] # Idle /\ req'[p] = Idle /\ req[p].actor.uid # "scim" /\ EnabledAdmins(t) # {}
            => \/ EnabledAdmins(t)' # {}
               \/ \E v \in req[p].saw : v \notin EnabledAdmins(t)
               \/ req[p].what.was.role # "admin" \/ req[p].what.was.disabled

-----------------------------------------------------------------------------
(* Claims of the comments and documents that the code does not keep.      *)

\* What the guard is for (api/users.py: "Two SOC admins each clicking 'delete me'
\* at the same time get one through and one bounced").
LastAdminKept == \A t \in Tenant : tenants[t] # "absent" /\ t = Default => EnabledAdmins(t) # {}

\* models/tenant.py of a disabled tenant: "no token issued against them validates".
DisabledTenantShut ==
    [][\A p \in Request : req[p] = Idle /\ req'[p] # Idle /\ ~(req'[p].actor.uid \in Uid /\ users[req'[p].actor.uid].super)
         => tenants[req'[p].actor.tenant] # "disabled"]_vars
=============================================================================
