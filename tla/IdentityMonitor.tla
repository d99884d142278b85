--------------------------- MODULE IdentityMonitor ---------------------------
(***************************************************************************)
(* The identity threat monitor (workers/identity_monitor.py): on every     *)
(* tick each enabled source is polled past its cursor (Okta, Azure AD),    *)
(* the detectors (services/identity/detectors.py) run over what came back, *)
(* hits become alerts and the cursor moves; one commit ends the tick.      *)
(* Administrators edit the sources meanwhile (api/identity_sources.py).    *)
(*                                                                         *)
(* A sign-in shows up at the provider some time after it happened, and the *)
(* provider hands out at most a page at a time.                            *)
(***************************************************************************)
EXTENDS Naturals, FiniteSets, FiniteSetsExt

CONSTANTS
    Source,
    Kind,           \* Kind[s]: "okta" or "azure_ad"
    SignIns,        \* [id, src, ts, actor, ip, success, mfa, km]; km places it on a line
    Lookback,       \* _INITIAL_LOOKBACK
    PageLimit,      \* OKTA_PAGE_LIMIT, AZURE_PAGE_LIMIT
    WindowS,        \* window_s of the counting detectors
    FailThreshold, MfaThreshold, SprayThreshold,
    MaxKmph, MinKm, \* impossible travel: speed, and the distance below which it is ignored
    MaxTime,        \* bound: the clock
    MaxTick,        \* bound: ticks of the worker
    MaxEdit         \* bound: edits of sources and failures

VARIABLES
    now,
    visible,    \* sign-ins the provider returns
    sources,    \* sources[s]: [st, cursor], st "none", "enabled", "disabled", "deleted"
    tick,       \* the worker's transaction
    alerts,     \* committed alerts: [rule, key, events]
    evaluated,  \* history: evaluated[e], committed polls whose detectors saw e
    ticks, edits

vars == <<now, visible, sources, tick, alerts, evaluated, ticks, edits>>

Idle == [st |-> "idle"]
NoCursor == MaxTime + 1

Init ==
    /\ now = 0 /\ visible = {}
    /\ sources = [s \in Source |-> [st |-> "none", cursor |-> NoCursor]]
    /\ tick = Idle /\ alerts = {} /\ evaluated = [e \in SignIns |-> 0]
    /\ ticks = 0 /\ edits = 0

Edit == edits < MaxEdit /\ edits' = edits + 1
Exists(s) == sources[s].st \in {"enabled", "disabled"}

Tick ==
    /\ now < MaxTime /\ now' = now + 1
    /\ UNCHANGED <<visible, sources, tick, alerts, evaluated, ticks, edits>>

\* The provider publishes a sign-in, not before it happened.
Appear(e) ==
    /\ e \notin visible /\ e.ts <= now /\ visible' = visible \cup {e}
    /\ UNCHANGED <<now, sources, tick, alerts, evaluated, ticks, edits>>

-----------------------------------------------------------------------------
(* The detectors.                                                          *)

Newest(E) == CHOOSE t \in {e.ts : e \in E} : \A e \in E : e.ts <= t
Recent(E) == {e \in E : e.ts + WindowS >= Newest(E)}
Hit(rule, key, E) == [rule |-> rule, key |-> key, events |-> {e.id : e \in E}]

GroupByActor(E) == [a \in {e.actor : e \in E} |-> {e \in E : e.actor = a}]
GroupByIp(E) == [i \in {e.ip : e \in E} |-> {e \in E : e.ip = i}]

\* brute_force: more failures than the threshold, in the window that ends at the
\* newest event of the batch.
BruteForce(a, E) ==
    LET f == {e \in Recent(E) : ~e.success}
    IN  IF Cardinality(f) > FailThreshold THEN {Hit("brute_force", a, f)} ELSE {}

\* mfa_bomb
MfaBomb(a, E) ==
    LET c == {e \in Recent(E) : e.mfa}
    IN  IF Cardinality(c) >= MfaThreshold THEN {Hit("mfa_bomb", a, c)} ELSE {}

\* password_spray
PasswordSpray(i, E) ==
    LET f == {e \in Recent(E) : ~e.success}
    IN  IF Cardinality({e.actor : e \in f}) > SprayThreshold THEN {Hit("password_spray", i, f)} ELSE {}

\* impossible_travel, of two consecutive successful sign-ins.
Distance(e, f) == IF e.km > f.km THEN e.km - f.km ELSE f.km - e.km

ImpossibleTravel(a, E) ==
    LET ok == {e \in E : e.success}
        adjacent(e, f) == e.ts < f.ts /\ ~\E g \in ok : e.ts < g.ts /\ g.ts < f.ts
    IN  {Hit("impossible_travel", a, {p[1], p[2]}) :
            p \in {p \in ok \X ok : /\ adjacent(p[1], p[2])
                                    /\ Distance(p[1], p[2]) >= MinKm
                                    /\ Distance(p[1], p[2]) >= MaxKmph * (p[2].ts - p[1].ts)}}

RunDetectors(E) ==
    LET byActor == GroupByActor(E)
        byIp == GroupByIp(E)
    IN  (UNION {ImpossibleTravel(a, byActor[a]) \cup BruteForce(a, byActor[a]) \cup MfaBomb(a, byActor[a]) :
                a \in DOMAIN byActor})
        \cup (UNION {PasswordSpray(i, byIp[i]) : i \in DOMAIN byIp})

-----------------------------------------------------------------------------
(* The worker.                                                             *)

\* _run_once loads the enabled sources.
RunOnce ==
    /\ tick = Idle /\ ticks < MaxTick /\ ticks' = ticks + 1
    /\ LET on == {s \in Source : sources[s].st = "enabled"}
       IN  /\ on # {}
           /\ tick' = [st |-> "run", todo |-> on, read |-> [s \in on |-> sources[s].cursor],
                       moved |-> [s \in {} |-> 0], hits |-> {}, seen |-> {}]
    /\ UNCHANGED <<now, visible, sources, alerts, evaluated, edits>>

\* fetch_events: strictly after the cursor, a page of them.  Okta sends the oldest
\* first; Azure is asked for no order.
AfterInclusive(e, t) == e.ts >= t
After(e, t) == e.ts > t

Fetchable(s, t) == {e \in visible : e.src = s /\ After(e, t)}
Pages(s, t) ==
    LET all == Fetchable(s, t)
        n == IF Cardinality(all) < PageLimit THEN Cardinality(all) ELSE PageLimit
    IN  {P \in SUBSET all : /\ Cardinality(P) = n
                            /\ Kind[s] = "okta" => \A e \in P, f \in all \ P : e.ts <= f.ts}

Floor(s) == IF tick.read[s] = NoCursor THEN IF now > Lookback THEN now - Lookback ELSE 0
            ELSE tick.read[s]

\* _poll_source with an answer; without events the cursor goes to the present.
PollSource(s) ==
    /\ \E P \in Pages(s, Floor(s)) :
        tick' = [tick EXCEPT !.todo = @ \ {s}, !.hits = @ \cup RunDetectors(P), !.seen = @ \cup P,
                             !.moved = [x \in DOMAIN @ \cup {s} |->
                                          IF x # s THEN @[x] ELSE IF P = {} THEN now ELSE Newest(P)]]
    /\ UNCHANGED <<now, visible, sources, alerts, evaluated, ticks, edits>>

\* A source that cannot be read keeps its cursor.
FetchFails(s) ==
    /\ Edit /\ tick' = [tick EXCEPT !.todo = @ \ {s}]
    /\ UNCHANGED <<now, visible, sources, alerts, evaluated, ticks>>

\* The commit of the tick, for all sources; it fails when a source is gone.
CommitTick ==
    /\ tick.st = "run" /\ tick.todo = {}
    /\ IF \A s \in DOMAIN tick.moved : Exists(s)
       THEN /\ sources' = [s \in Source |-> IF s \in DOMAIN tick.moved
                                            THEN [sources[s] EXCEPT !.cursor = tick.moved[s]] ELSE sources[s]]
            /\ alerts' = alerts \cup tick.hits
            /\ evaluated' = [e \in SignIns |-> IF e \in tick.seen THEN evaluated[e] + 1 ELSE evaluated[e]]
       ELSE UNCHANGED <<sources, alerts, evaluated>>
    /\ tick' = Idle
    /\ UNCHANGED <<now, visible, ticks, edits>>

\* The process stops, or the database refuses.
TickDies ==
    /\ tick # Idle /\ Edit /\ tick' = Idle
    /\ UNCHANGED <<now, visible, sources, alerts, evaluated, ticks>>

Polling == IF tick = Idle THEN {} ELSE tick.todo

-----------------------------------------------------------------------------
(* api/identity_sources.py                                                 *)

SetStatus(s, from, to) ==
    /\ Edit /\ sources[s].st \in from
    /\ sources' = [sources EXCEPT ![s].st = to]
    /\ UNCHANGED <<now, visible, tick, alerts, evaluated, ticks>>

CreateSource(s) == \E st \in {"enabled", "disabled"} : SetStatus(s, {"none"}, st)
UpdateSource(s) == SetStatus(s, {"enabled"}, "disabled") \/ SetStatus(s, {"disabled"}, "enabled")
DeleteSource(s) == SetStatus(s, {"enabled", "disabled"}, "deleted")

Next ==
    \/ Tick \/ RunOnce \/ CommitTick \/ TickDies
    \/ \E e \in SignIns : Appear(e)
    \/ \E s \in Polling : PollSource(s) \/ FetchFails(s)
    \/ \E s \in Source : CreateSource(s) \/ UpdateSource(s) \/ DeleteSource(s)

Spec == Init /\ [][Next]_vars

-----------------------------------------------------------------------------
\* Cursors are times, and hits name sign-ins.
TypeOK ==
    /\ \A s \in Source : sources[s].cursor \in 0 .. MaxTime \cup {NoCursor}
    /\ \A a \in alerts : a.events \subseteq {e.id : e \in SignIns}

\* A sign-in is judged by at most one committed poll, although ticks fail, die and
\* start again, and an alert names only sign-ins that were judged: the alerts and
\* the cursors they stand for are committed together.
JudgedOnce ==
    /\ \A e \in SignIns : evaluated[e] <= 1
    /\ \A a \in alerts, e \in SignIns : e.id \in a.events => evaluated[e] = 1

-----------------------------------------------------------------------------
(* Claims of the comments and documents that the code does not keep.      *)

\* "fires on N failed login attempts for the same actor inside a sliding window":
\* failures that were all judged, and lie within one window, raised the alert.
BurstDetected ==
    \A E \in kSubset(FailThreshold + 1, {e \in SignIns : ~e.success /\ evaluated[e] = 1}) :
        /\ Cardinality({e.actor : e \in E}) = 1
        /\ \A e, f \in E : e.ts <= f.ts + WindowS
        => \E a \in alerts : a.rule = "brute_force" /\ a.key \in {e.actor : e \in E}
=============================================================================
