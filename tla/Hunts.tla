-------------------------------- MODULE Hunts --------------------------------
(***************************************************************************)
(* Saved hunts: queries over the telemetry index that analysts keep and    *)
(* run by hand (api/hunt.py), and that a scheduler runs by a cron string   *)
(* and turns into alerts (workers/hunt_scheduler.py, services/hunt.py).    *)
(*                                                                         *)
(* A pass of the scheduler is one transaction over every hunt that is due. *)
(* It works on the rows as it loaded them; the rows it inserts lock the    *)
(* hunts and the hosts they refer to until it commits; an insert the       *)
(* database refuses loses the pass.  A request reads a hunt, checks who    *)
(* asks, and writes later, the columns it changes and no others.           *)
(***************************************************************************)
EXTENDS Naturals, FiniteSets

CONSTANTS
    Hunt, Host, Tenant,
    DefaultTenant,      \* DEFAULT_TENANT_ID, what a row is given that names no tenant
    User, Admin, Super, \* Admin and Super: sets of users
    TenantOf,           \* of a user or a host
    Groups,             \* Groups[u]: the hosts that share a group with u
    Event, HostOf,      \* documents of the index; HostOf[e] is a host or "" (no host.id)
    Matches,            \* Matches[q]: the events a query finds; its domain, what compiles
    Cron,               \* Cron[c]: five fields, each a set of chunks
    When,               \* When[m]: the calendar of the m-th minute
    Scope,              \* saved host scopes: sets of hosts
    Request,
    PerMinute, Interval,
    MaxTime, MaxEdit, MaxFault

VARIABLES
    now, wake,  \* time, and when the scheduler next wakes
    hunts,      \* hunts[h]: a row of saved_hunt
    hosts,      \* hosts with a row
    index,      \* events in telemetry-*
    pass,       \* the transaction of the scheduler
    runs,       \* hunt_run: [hunt, at, by, ok]
    alerts,     \* [hunt, event, tenant, at]
    reqs,       \* reqs[r]: a request, or the answer to the last one
    edits, faults,
    since,      \* history: when hunts[h] got its schedule
    seen,       \* history: the queries of h an admin wrote, or left standing
    raced,      \* history: hunts a request wrote over a newer commit
    lost,       \* history: minutes of passes that did not commit
    slow        \* history: a pass took longer than the interval leaves of a minute

vars == <<now, wake, hunts, hosts, index, pass, runs, alerts, reqs, edits, faults, since, seen, raced, lost, slow>>
clock == <<now, wake, pass, lost, slow>>
rows == <<hunts, runs, alerts>>
history == <<since, seen, raced>>

None == ""
AllHosts == {"*"}
Idle == [st |-> "idle"]
Absent == [st |-> "none", tenant |-> None, owner |-> None, query |-> None, cron |-> None,
           alert |-> FALSE, scope |-> AllHosts, rule |-> FALSE, last |-> 0]
Free == [st |-> "free", user |-> None, hits |-> {}]

Minute(t) == t \div PerMinute
Edit == edits < MaxEdit /\ edits' = edits + 1
Fault == faults < MaxFault /\ faults' = faults + 1

Init ==
    /\ now = 0 /\ wake = 0 /\ pass = Idle
    /\ hunts = [h \in Hunt |-> Absent] /\ hosts = Host /\ index = {} /\ runs = {} /\ alerts = {}
    /\ reqs = [r \in Request |-> Free] /\ edits = 0 /\ faults = 0
    /\ since = [h \in Hunt |-> 0] /\ seen = [h \in Hunt |-> {}] /\ raced = {} /\ lost = {} /\ slow = FALSE

-----------------------------------------------------------------------------
(* Cron strings.  A chunk is [any, a, b, step]: "*" or a-b, and the step   *)
(* after a slash, 0 where there is none.                                   *)

Star == {[any |-> TRUE, a |-> 0, b |-> 0, step |-> 0]}

\* _parse_field; a step below one, which it refuses, is not among the inputs.
First(k, lo) == IF k.any THEN lo ELSE k.a
Last(k, hi) == IF k.any THEN hi ELSE k.b
ParseField(spec, lo, hi) ==
    UNION {{v \in First(k, lo)..Last(k, hi) : k.step = 0 \/ (v - First(k, lo)) % k.step = 0} : k \in spec}
InRange(spec, lo, hi) == \A k \in spec : First(k, lo) >= lo /\ Last(k, hi) <= hi /\ First(k, lo) <= Last(k, hi)

ValidCron(c) ==
    LET f == Cron[c]
    IN  /\ InRange(f.minute, 0, 59) /\ InRange(f.hour, 0, 23) /\ InRange(f.dom, 1, 31)
        /\ InRange(f.month, 1, 12) /\ InRange(f.dow, 0, 6)

\* When[m].weekday counts from Monday as Python does, a cron weekday from Sunday.
CronMatches(c, m) ==
    LET f == Cron[c]
        w == When[m]
        dom == w.day \in ParseField(f.dom, 1, 31)
        dow == (w.weekday + 1) % 7 \in ParseField(f.dow, 0, 6)
    IN  /\ w.minute \in ParseField(f.minute, 0, 59)
        /\ w.hour \in ParseField(f.hour, 0, 23)
        /\ w.month \in ParseField(f.month, 1, 12)
        /\ IF f.dom # Star /\ f.dow # Star THEN dom \/ dow ELSE dom /\ dow

-----------------------------------------------------------------------------
(* Searches.                                                               *)

\* The host filter: what the actor may see ("*" for everyone's) within the saved scope.
HostFilter(visible, scope) ==
    CASE visible = AllHosts -> scope
      [] scope = AllHosts -> visible
      [] OTHER -> scope \cap visible

\* execute_search with build_search_body; t is a tenant or None, for all.
SearchNoTenant(q, filter, t) == {e \in index \cap Matches[q] : filter = AllHosts \/ HostOf[e] \in filter}
Search(q, filter, t) ==
    {e \in index \cap Matches[q] :
        /\ t # None => HostOf[e] # None /\ TenantOf[HostOf[e]] = t
        /\ filter = AllHosts \/ HostOf[e] \in filter}

\* visible_host_ids; eff_tenant of a request that may name a tenant.
VisibleHostIds(u) == IF u \in Admin THEN AllHosts ELSE {x \in Groups[u] \cap hosts : TenantOf[x] = TenantOf[u]}
EffTenants(u) == IF u \in Super THEN Tenant \cup {None} ELSE {TenantOf[u]}

-----------------------------------------------------------------------------
(* The scheduler.                                                          *)

\* The clock does not pass the moment the scheduler wakes.
Tick ==
    /\ now < MaxTime /\ (pass = Idle => now < wake) /\ now' = now + 1
    /\ UNCHANGED <<wake, pass, lost, slow, rows, hosts, index, reqs, edits, faults, history>>

IndexEvent(e) ==
    /\ e \notin index /\ index' = index \cup {e}
    /\ UNCHANGED <<clock, rows, hosts, reqs, edits, faults, history>>

\* _is_due; last is 0 until a run, else its time plus one.
SameNever(last, t) == FALSE
SameMinuteField(last, t) == When[Minute(last)].minute = When[Minute(t)].minute
SameMinute(last, t) == Minute(last) = Minute(t)
IsDue(row, t) ==
    /\ row.cron # None /\ CronMatches(row.cron, Minute(t))
    /\ row.last = 0 \/ ~SameMinute(row.last - 1, t)

RunOnce ==
    /\ pass = Idle /\ now = wake
    /\ LET due == {h \in Hunt : hunts[h].st = "saved" /\ IsDue(hunts[h], now)}
       IN  pass' = [st |-> "run", at |-> now, row |-> [h \in due |-> hunts[h]], todo |-> due, cur |-> None,
                    begun |-> {}, ran |-> {}, rule |-> {}, runs |-> {}, alerts |-> {}]
    /\ UNCHANGED <<now, wake, lost, slow, rows, hosts, index, reqs, edits, faults, history>>

Late(p) == now - p.at > PerMinute - Interval

\* The session is beyond use: the other hunts of the pass fail and nothing is committed.
PassLost ==
    /\ pass' = Idle /\ lost' = lost \cup {Minute(pass.at)} /\ wake' = now + Interval
    /\ slow' = (slow \/ Late(pass))

\* run_hunt up to the search: a hunt_run for a hunt that is gone is refused.
StartRun(h) ==
    /\ pass # Idle /\ pass.cur = None /\ h \in pass.todo
    /\ IF hunts[h].st = "saved"
       THEN /\ pass' = [pass EXCEPT !.cur = h, !.todo = @ \ {h}, !.begun = @ \cup {h}]
            /\ UNCHANGED <<wake, lost, slow>>
       ELSE PassLost
    /\ UNCHANGED <<now, rows, hosts, index, reqs, edits, faults, history>>

\* The search answers; _emit_alerts_for_hits skips hits without a host, and an alert
\* about a host that was deleted is refused.  It sets no tenant: the column's default does.
Hits(h) == Search(pass.row[h].query, HostFilter(AllHosts, pass.row[h].scope), pass.row[h].tenant)
EmitFor(h) == IF pass.row[h].alert THEN {e \in Hits(h) : HostOf[e] # None} ELSE {}

FinishRun ==
    /\ pass # Idle /\ pass.cur # None
    /\ LET h == pass.cur
           emit == EmitFor(h)
       IN  IF \A e \in emit : HostOf[e] \in hosts
           THEN /\ pass' = [pass EXCEPT
                     !.cur = None, !.ran = @ \cup {h},
                     !.rule = IF pass.row[h].alert /\ Hits(h) # {} THEN @ \cup {h} ELSE @,
                     !.runs = @ \cup {[hunt |-> h, at |-> pass.at, by |-> "cron", ok |-> TRUE]},
                     !.alerts = @ \cup {[hunt |-> h, event |-> e, tenant |-> DefaultTenant, at |-> pass.at] : e \in emit}]
                /\ UNCHANGED <<wake, lost, slow>>
           ELSE PassLost
    /\ UNCHANGED <<now, rows, hosts, index, reqs, edits, faults, history>>

\* The query no longer compiles or the search fails: a run with an error, last_run_at stands.
FailRun ==
    /\ pass # Idle /\ pass.cur # None /\ Fault
    /\ pass' = [pass EXCEPT !.cur = None,
                            !.runs = @ \cup {[hunt |-> pass.cur, at |-> pass.at, by |-> "cron", ok |-> FALSE]}]
    /\ UNCHANGED <<now, wake, lost, slow, rows, hosts, index, reqs, edits, history>>

CommitPass ==
    /\ pass # Idle /\ pass.todo = {} /\ pass.cur = None
    /\ hunts' = [h \in Hunt |-> IF h \notin pass.ran THEN hunts[h]
                                ELSE [hunts[h] EXCEPT !.last = pass.at + 1, !.rule = @ \/ h \in pass.rule]]
    /\ runs' = runs \cup pass.runs /\ alerts' = alerts \cup pass.alerts
    /\ slow' = (slow \/ Late(pass))
    /\ pass' = Idle /\ wake' = now + Interval
    /\ UNCHANGED <<now, lost, hosts, index, reqs, edits, faults, history>>

\* The manager stops within a pass, and starts again; run_forever begins with a pass.
Restart ==
    /\ pass # Idle /\ Fault
    /\ pass' = Idle /\ lost' = lost \cup {Minute(pass.at)} /\ wake' = now
    /\ slow' = (slow \/ Late(pass))
    /\ UNCHANGED <<now, rows, hosts, index, reqs, edits, history>>

-----------------------------------------------------------------------------
(* Requests.                                                               *)

\* _require_admin_for_side_effects
Gate(u, alert, cron) == alert \/ cron # None => u \in Admin

CreateSaved(u, h) ==
    /\ hunts[h].st = "none" /\ Edit
    /\ \E q \in DOMAIN Matches, c \in DOMAIN Cron \cup {None}, a \in BOOLEAN :
        /\ Gate(u, a, c) /\ (c # None => ValidCron(c))
        /\ hunts' = [hunts EXCEPT ![h] = [Absent EXCEPT !.st = "saved", !.tenant = TenantOf[u], !.owner = u,
                                                        !.query = q, !.cron = c, !.alert = a]]
        /\ seen' = [seen EXCEPT ![h] = IF u \in Admin THEN {q} ELSE {}]
    /\ since' = [since EXCEPT ![h] = now]
    /\ UNCHANGED <<clock, hosts, index, runs, alerts, reqs, faults, raced>>

\* _load_or_404 and _assert_owner_or_admin
MayTouch(u, h) ==
    /\ hunts[h].st = "saved" /\ hunts[h].tenant = TenantOf[u]
    /\ u \in Admin \/ hunts[h].owner = u

Load(r, req) ==
    /\ reqs[r].st = "free" /\ Edit /\ reqs' = [reqs EXCEPT ![r] = req]
    /\ UNCHANGED <<clock, rows, hosts, index, faults, history>>

\* What update_saved may set, a column at a time.
Patches ==
    {[column |-> "query", value |-> q] : q \in DOMAIN Matches}
    \cup {[column |-> "cron", value |-> c] : c \in {c \in DOMAIN Cron : ValidCron(c)} \cup {None}}
    \cup {[column |-> "alert", value |-> a] : a \in BOOLEAN}
    \cup {[column |-> "scope", value |-> x] : x \in Scope}
Patched(p, row) == [row EXCEPT ![p.column] = p.value]

\* update_saved up to its flush: the gate looks at the values after the patch.
GateOnPayload(u, p, row) == Gate(u, p.column = "alert" /\ p.value, IF p.column = "cron" THEN p.value ELSE None)
GateOnEffect(u, p, row) == Gate(u, Patched(p, row).alert, Patched(p, row).cron)

UpdateSaved(r, u, h) ==
    /\ MayTouch(u, h)
    /\ \E p \in Patches :
        /\ GateOnEffect(u, p, hunts[h])
        /\ Load(r, [st |-> "update", user |-> u, hunt |-> h, row |-> hunts[h], patch |-> p])

DeleteSaved(r, u, h) == MayTouch(u, h) /\ Load(r, [st |-> "delete", user |-> u, hunt |-> h])

\* The flush writes the column if its value is another than was loaded; it waits for the
\* pass that holds the row.  A hunt that is gone is an error.
Content(row) == [row EXCEPT !.last = 0, !.rule = FALSE]

CommitUpdate(r) ==
    /\ reqs[r].st = "update"
    /\ LET q == reqs[r]
           h == q.hunt
           new == IF Patched(q.patch, q.row) = q.row THEN hunts[h] ELSE Patched(q.patch, hunts[h])
       IN  /\ pass # Idle => h \notin pass.ran
           /\ IF hunts[h].st = "saved"
              THEN /\ hunts' = [hunts EXCEPT ![h] = new]
                   /\ since' = IF new.cron = hunts[h].cron THEN since ELSE [since EXCEPT ![h] = now]
                   /\ seen' = IF q.user \in Admin THEN [seen EXCEPT ![h] = @ \cup {Patched(q.patch, q.row).query}] ELSE seen
                   /\ raced' = IF Content(hunts[h]) = Content(q.row) THEN raced ELSE raced \cup {h}
              ELSE UNCHANGED <<hunts, history>>
    /\ reqs' = [reqs EXCEPT ![r] = Free]
    /\ UNCHANGED <<clock, hosts, index, runs, alerts, edits, faults>>

\* The runs of a hunt go with it, its alerts stay.
CommitDelete(r) ==
    /\ reqs[r].st = "delete"
    /\ LET h == reqs[r].hunt
       IN  /\ pass # Idle => h \notin pass.begun
           /\ hunts' = [hunts EXCEPT ![h] = [@ EXCEPT !.st = "deleted"]]
           /\ runs' = {x \in runs : x.hunt # h}
    /\ reqs' = [reqs EXCEPT ![r] = Free]
    /\ UNCHANGED <<clock, hosts, index, alerts, edits, faults, history>>

\* run_saved and run_adhoc: what the actor may see is read, then the search is made.
RunSaved(r, u, h) ==
    /\ MayTouch(u, h)
    /\ \E t \in EffTenants(u) :
        Load(r, [st |-> "search", user |-> u, hunt |-> h, query |-> hunts[h].query, tenant |-> t,
                 filter |-> HostFilter(VisibleHostIds(u), hunts[h].scope)])

RunAdhoc(r, u) ==
    \E q \in DOMAIN Matches, t \in EffTenants(u) :
        Load(r, [st |-> "search", user |-> u, hunt |-> None, query |-> q, tenant |-> t,
                 filter |-> VisibleHostIds(u)])

\* A manual run is recorded and alerts nobody; an empty filter skips the search.
AnswerSearch(r) ==
    /\ reqs[r].st = "search"
    /\ LET q == reqs[r]
           hits == IF q.filter = {} THEN {} ELSE Search(q.query, q.filter, q.tenant)
       IN  IF q.hunt # None /\ hunts[q.hunt].st # "saved"
           THEN reqs' = [reqs EXCEPT ![r] = Free] /\ UNCHANGED runs
           ELSE /\ reqs' = [reqs EXCEPT ![r] = [Free EXCEPT !.user = q.user, !.hits = hits]]
                /\ runs' = IF q.hunt = None THEN runs
                           ELSE runs \cup {[hunt |-> q.hunt, at |-> now, by |-> "user", ok |-> TRUE]}
    /\ UNCHANGED <<clock, hunts, hosts, index, alerts, edits, faults, history>>

\* delete_host: its alerts go with it, what it sent stays in the index.
DeleteHost(x) ==
    /\ x \in hosts /\ Edit /\ hosts' = hosts \ {x}
    /\ pass # Idle => \A a \in pass.alerts : HostOf[a.event] # x
    /\ alerts' = {a \in alerts : HostOf[a.event] # x}
    /\ UNCHANGED <<clock, hunts, runs, index, reqs, faults, history>>

-----------------------------------------------------------------------------
Next ==
    \/ Tick \/ RunOnce \/ FinishRun \/ FailRun \/ CommitPass \/ Restart
    \/ \E e \in Event : IndexEvent(e)
    \/ \E h \in Hunt : StartRun(h)
    \/ \E u \in User, h \in Hunt : CreateSaved(u, h)
    \/ \E r \in Request, u \in User, h \in Hunt : UpdateSaved(r, u, h) \/ DeleteSaved(r, u, h) \/ RunSaved(r, u, h)
    \/ \E r \in Request, u \in User : RunAdhoc(r, u)
    \/ \E r \in Request : CommitUpdate(r) \/ CommitDelete(r) \/ AnswerSearch(r)
    \/ \E x \in Host : DeleteHost(x)

Spec == Init /\ [][Next]_vars

-----------------------------------------------------------------------------
TypeOK ==
    /\ now \in 0..MaxTime /\ wake \in 0..(MaxTime + Interval)
    /\ \A h \in Hunt : /\ hunts[h].st \in {"none", "saved", "deleted"}
                       /\ hunts[h].last \in 0..(MaxTime + 1)
    /\ hosts \subseteq Host /\ index \subseteq Event
    /\ \A a \in alerts : a.hunt \in Hunt /\ a.event \in Event
    /\ \A r \in Request : reqs[r].st \in {"free", "update", "delete", "search"}

\* The scheduler (hunt_scheduler.py) runs a hunt in every minute its cron names, from
\* the one after it was scheduled on, whatever requests and failing searches come
\* between: only a pass that was lost with its transaction, or one that outlasts what
\* the interval leaves of a minute, makes it skip one.
MinuteFired ==
    \A h \in Hunt, m \in 0..MaxTime :
        /\ m < Minute(now) /\ hunts[h].st = "saved" /\ hunts[h].cron # None
        /\ CronMatches(hunts[h].cron, m) /\ since[h] < m * PerMinute
        => \/ \E x \in runs : x.hunt = h /\ x.by = "cron" /\ Minute(x.at) = m
           \/ m \in lost \/ slow
           \/ pass # Idle /\ (Minute(pass.at) = m \/ Late(pass))

\* It completes no run of a hunt twice in one minute, though it may wake several times
\* in it, fail, and start again (_is_due, last_run_at).
OncePerMinute ==
    \A x, y \in runs :
        x.hunt = y.hunt /\ {x.by, y.by} = {"cron"} /\ x.ok /\ y.ok /\ Minute(x.at) = Minute(y.at) => x = y

\* A hunt that alerts or runs by itself has a query some administrator wrote or left
\* standing, unless two requests for the hunt raced (update_saved).
SideEffectsApproved ==
    \A h \in Hunt : hunts[h].st = "saved" /\ (hunts[h].alert \/ hunts[h].cron # None)
                    => hunts[h].query \in seen[h] \/ h \in raced

\* An answer shows what its actor may see.  A hunt alerts about hosts that exist and are of
\* its tenant (build_search_body), and the alert shows to no other tenant than that and,
\* since the row names none, the default one.
ResultsConfined ==
    /\ \A r \in Request : LET q == reqs[r] IN
        q.st = "free" /\ q.user # None /\ q.user \notin Super =>
            \A e \in q.hits : /\ TenantOf[HostOf[e]] = TenantOf[q.user]
                              /\ q.user \in Admin \/ HostOf[e] \in Groups[q.user]
    /\ \A a \in alerts :
        /\ HostOf[a.event] \in hosts /\ TenantOf[HostOf[a.event]] = hunts[a.hunt].tenant
        /\ a.tenant \in {hunts[a.hunt].tenant, DefaultTenant}

\* "every alert / incident factory must stamp tenant_id from the originating host's tenant,
\* not the SQLAlchemy column default" (tests/test_alert_tenant_routing.py:1-3): the one of
\* scheduled hunts does not, and a tenant's hunt alerts the default tenant.
AlertsStayInTenant == \A a \in alerts : a.tenant = TenantOf[HostOf[a.event]]

\* What the handler of a failed run says, that "one flaky hunt mustn't poison the pass"
\* (hunt_scheduler.py:103), does not hold: a hunt or a host deleted meanwhile loses the
\* runs and alerts of every hunt of the pass.
PassNotPoisoned == faults = 0 => lost = {}
=============================================================================
