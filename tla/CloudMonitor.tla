----------------------------- MODULE CloudMonitor -----------------------------
(***************************************************************************)
(* The cloud IAM monitor (workers/cloud_iam_monitor.py): on every tick the *)
(* CloudTrail objects of each enabled source are listed, fetched and fed,  *)
(* event by event, to four detectors that compare them with a stored       *)
(* baseline of the principal (services/cloud/iam_anomaly.py).  One commit  *)
(* ends the tick.  Administrators edit sources (api/cloud_sources.py).     *)
(*                                                                         *)
(* The mark of a source is the time of the newest EVENT read; the listing  *)
(* compares it with the time an OBJECT was written, which is later, so the *)
(* same objects are listed and read again.                                 *)
(***************************************************************************)
EXTENDS Naturals, FiniteSets, Sequences, Bags

CONSTANTS
    Source,
    Bucket,
    Object,     \* [key, bucket, bad, events]; an event is [id, ts, principal, action, region, root]
    MaxTime,    \* bound: the clock
    MaxTick,    \* bound: ticks of the worker
    MaxEdit     \* bound: edits of sources and failures

VARIABLES
    now,
    written,    \* written[o]: LastModified of the objects in their buckets
    sources,    \* sources[s]: [st, bucket, mark], mark = last_event_ts
    baseline,   \* baseline[<<s, p>>]: [actions, regions] of the committed rows
    alerts,     \* bag of committed alerts [src, reason, principal, what, event]
    tick,       \* the worker's transaction
    read,       \* history: <<s, o>> whose events a committed tick judged
    ticks, edits

vars == <<now, written, sources, baseline, alerts, tick, read, ticks, edits>>

Idle == [st |-> "idle"]
NoMark == MaxTime + 1

Init ==
    /\ now = 0 /\ written = << >>
    /\ sources = [s \in Source |-> [st |-> "none", bucket |-> CHOOSE b \in Bucket : TRUE, mark |-> NoMark]]
    /\ baseline = << >> /\ alerts = EmptyBag /\ tick = Idle /\ read = {}
    /\ ticks = 0 /\ edits = 0

Edit == edits < MaxEdit /\ edits' = edits + 1
Exists(s) == sources[s].st \in {"enabled", "disabled"}
Put(f, k, v) == [x \in DOMAIN f \cup {k} |-> IF x = k THEN v ELSE f[x]]

Tick ==
    /\ now < MaxTime /\ now' = now + 1
    /\ UNCHANGED <<written, sources, baseline, alerts, tick, read, ticks, edits>>

\* CloudTrail writes an object after the events in it.
WriteObject(o) ==
    /\ o \notin DOMAIN written /\ \A i \in DOMAIN o.events : o.events[i].ts <= now
    /\ written' = Put(written, o, now)
    /\ UNCHANGED <<now, sources, baseline, alerts, tick, read, ticks, edits>>

-----------------------------------------------------------------------------
(* The detectors, each over w = [base, hits] of the open transaction.       *)

Alert(s, reason, e, what) ==
    [src |-> s, reason |-> reason, principal |-> e.principal, what |-> what, event |-> e.id]
FireAlert(w, a) == [w EXCEPT !.hits = @ (+) SetToBag({a})]

\* detect_new_principal: the founding event seeds the row and fires nothing.
DetectNewPrincipal(w, s, e) ==
    IF e.principal = "" \/ <<s, e.principal>> \in DOMAIN w.base THEN w
    ELSE [w EXCEPT !.base = Put(@, <<s, e.principal>>, [actions |-> {e.action}, regions |-> {e.region} \ {""}])]

\* detect_new_action
NewActionUnrecorded(w, s, e) ==
    LET k == <<s, e.principal>>
    IN  IF k \notin DOMAIN w.base THEN w
        ELSE IF e.action \in w.base[k].actions THEN w
        ELSE FireAlert(w, Alert(s, "new_action", e, e.action))
DetectNewAction(w, s, e) ==
    LET k == <<s, e.principal>>
    IN  IF k \notin DOMAIN w.base THEN w
        ELSE IF e.action \in w.base[k].actions THEN w
        ELSE FireAlert([w EXCEPT !.base[k].actions = @ \cup {e.action}], Alert(s, "new_action", e, e.action))

\* detect_new_region
DetectNewRegion(w, s, e) ==
    LET k == <<s, e.principal>>
    IN  IF e.region = "" \/ k \notin DOMAIN w.base THEN w
        ELSE IF e.region \in w.base[k].regions THEN w
        ELSE FireAlert([w EXCEPT !.base[k].regions = @ \cup {e.region}], Alert(s, "new_region", e, e.region))

\* detect_root_console_login has no memory.
DetectRoot(w, s, e) == IF e.root THEN FireAlert(w, Alert(s, "root", e, e.action)) ELSE w

Newer(m, e) == IF m = NoMark \/ e.ts > m THEN e.ts ELSE m

\* The detectors in their order, then the mark.
Judge(w, s, e) ==
    LET v == DetectRoot(DetectNewRegion(DetectNewAction(DetectNewPrincipal(w, s, e), s, e), s, e), s, e)
    IN  [v EXCEPT !.mark = Newer(@, e)]

JudgeAll(w, s, es) ==
    LET after[i \in 0 .. Len(es)] == IF i = 0 THEN w ELSE Judge(after[i - 1], s, es[i])
    IN  after[Len(es)]

-----------------------------------------------------------------------------
(* The worker.                                                             *)

\* _run_once loads the enabled sources.
RunOnce ==
    /\ tick = Idle /\ ticks < MaxTick /\ ticks' = ticks + 1
    /\ LET on == {s \in Source : sources[s].st = "enabled"}
       IN  /\ on # {}
           /\ tick' = [st |-> "next", loaded |-> [s \in on |-> sources[s]], todo |-> on, marks |-> << >>,
                       objects |-> {}, seen |-> {}, w |-> [base |-> baseline, hits |-> EmptyBag, mark |-> NoMark]]
    /\ UNCHANGED <<now, written, sources, baseline, alerts, read, edits>>

\* list_objects: what was written after the mark.
Listed(b, m) == {o \in DOMAIN written : o.bucket = b /\ (m = NoMark \/ written[o] > m)}

\* _process_source up to the listing; the mark it moves starts where it stood.
ListObjects(s) ==
    /\ tick.st = "next"
    /\ LET src == tick.loaded[s]
       IN  tick' = [tick EXCEPT !.st = s, !.todo = @ \ {s}, !.objects = Listed(src.bucket, src.mark), !.w.mark = src.mark]
    /\ UNCHANGED <<now, written, sources, baseline, alerts, read, ticks, edits>>

\* The configuration cannot be decrypted, or the bucket not listed.
ListFails(s) ==
    /\ tick.st = "next" /\ Edit
    /\ tick' = [tick EXCEPT !.todo = @ \ {s}, !.marks = Put(@, s, tick.loaded[s].mark)]
    /\ UNCHANGED <<now, written, sources, baseline, alerts, read, ticks>>

\* An object that was fetched is parsed and judged; one that parse_events rejects
\* raises out of the tick, which is rolled back.
FetchObject(o) ==
    /\ IF o.bad THEN tick' = Idle
       ELSE tick' = [tick EXCEPT !.objects = @ \ {o}, !.seen = @ \cup {<<tick.st, o>>},
                                 !.w = JudgeAll(@, tick.st, o.events)]
    /\ UNCHANGED <<now, written, sources, baseline, alerts, read, ticks, edits>>

\* An object that cannot be fetched is passed over.
FetchFails(o) ==
    /\ Edit /\ tick' = [tick EXCEPT !.objects = @ \ {o}]
    /\ UNCHANGED <<now, written, sources, baseline, alerts, read, ticks>>

\* The end of _process_source.
SourceDone ==
    /\ tick.st \in Source /\ tick.objects = {}
    /\ tick' = [tick EXCEPT !.st = "next", !.marks = Put(@, tick.st, tick.w.mark)]
    /\ UNCHANGED <<now, written, sources, baseline, alerts, read, ticks, edits>>

\* The commit, for all sources; a source deleted meanwhile fails it.
CommitTick ==
    /\ tick.st = "next" /\ tick.todo = {}
    /\ IF \A s \in DOMAIN tick.marks : Exists(s)
       THEN /\ sources' = [s \in Source |-> IF s \in DOMAIN tick.marks
                                            THEN [sources[s] EXCEPT !.mark = tick.marks[s]] ELSE sources[s]]
            /\ baseline' = [k \in {k \in DOMAIN tick.w.base : Exists(k[1])} |-> tick.w.base[k]]
            /\ alerts' = alerts (+) tick.w.hits /\ read' = read \cup tick.seen
       ELSE UNCHANGED <<sources, baseline, alerts, read>>
    /\ tick' = Idle
    /\ UNCHANGED <<now, written, ticks, edits>>

\* The process stops, or the database refuses.
TickDies ==
    /\ tick # Idle /\ Edit /\ tick' = Idle
    /\ UNCHANGED <<now, written, sources, baseline, alerts, read, ticks>>

Todo == IF tick = Idle THEN {} ELSE tick.todo
Fetching == IF tick = Idle THEN {} ELSE tick.objects

-----------------------------------------------------------------------------
(* api/cloud_sources.py.  A new source has a new id; its rows go with it.   *)

CreateSource(s) ==
    /\ sources[s].st = "none" /\ Edit
    /\ \E st \in {"enabled", "disabled"}, b \in Bucket :
        sources' = [sources EXCEPT ![s].st = st, ![s].bucket = b]
    /\ UNCHANGED <<now, written, baseline, alerts, tick, read, ticks>>

\* An update may switch the source, and point it at another bucket; the mark and the
\* baseline stay.
UpdateSource(s) ==
    /\ Exists(s) /\ Edit
    /\ \E st \in {"enabled", "disabled"}, b \in Bucket :
        /\ <<st, b>> # <<sources[s].st, sources[s].bucket>>
        /\ sources' = [sources EXCEPT ![s].st = st, ![s].bucket = b]
    /\ UNCHANGED <<now, written, baseline, alerts, tick, read, ticks>>

DeleteSource(s) ==
    /\ Exists(s) /\ Edit
    /\ sources' = [sources EXCEPT ![s].st = "deleted"]
    /\ baseline' = [k \in {k \in DOMAIN baseline : k[1] # s} |-> baseline[k]]
    /\ UNCHANGED <<now, written, alerts, tick, read, ticks>>

Next ==
    \/ Tick \/ RunOnce \/ SourceDone \/ CommitTick \/ TickDies
    \/ \E o \in Object : WriteObject(o)
    \/ \E s \in Todo : ListObjects(s) \/ ListFails(s)
    \/ \E o \in Fetching : FetchObject(o) \/ FetchFails(o)
    \/ \E s \in Source : CreateSource(s) \/ UpdateSource(s) \/ DeleteSource(s)

Spec == Init /\ [][Next]_vars

-----------------------------------------------------------------------------
\* Marks are times, and the baselines belong to sources that exist.
TypeOK ==
    /\ \A s \in Source : sources[s].mark \in 0 .. NoMark
    /\ \A k \in DOMAIN baseline : Exists(k[1])

Raised(s, reason, p) == {a \in BagToSet(alerts) : a.src = s /\ a.reason = reason /\ a.principal = p}

\* Objects are read again and again, ticks fail half way and sources move between
\* buckets; still every action and region a principal is known by was alerted exactly
\* once, except the founding one (its region may be unnamed), and what was judged is known.
BaselineExact ==
    \A k \in DOMAIN baseline :
        LET acts == Raised(k[1], "new_action", k[2])
            regs == Raised(k[1], "new_region", k[2])
        IN  /\ \A a \in acts \cup regs : CopiesIn(a, alerts) = 1
            /\ {a.what : a \in acts} \subseteq baseline[k].actions
            /\ Cardinality(acts) + 1 = Cardinality(baseline[k].actions)
            /\ {a.what : a \in regs} \subseteq baseline[k].regions
            /\ Cardinality(baseline[k].regions) - Cardinality(regs) \in {0, 1}
            /\ \A r \in read : r[1] = k[1] =>
                 \A i \in DOMAIN r[2].events :
                    LET e == r[2].events[i] IN e.principal = k[2] => e.action \in baseline[k].actions

-----------------------------------------------------------------------------
(* Claims of the comments and documents that the code does not keep.      *)

\* "The worker only fetches objects whose last-modified is newer than this watermark,
\* so on warm restart we don't re-replay history": a root login raises one alert.
RootAlertOnce == \A a \in BagToSet(alerts) : a.reason = "root" => CopiesIn(a, alerts) = 1
=============================================================================
