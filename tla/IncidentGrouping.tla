-------------------------- MODULE IncidentGrouping --------------------------
(***************************************************************************)
(* The periodic incident grouper (services/incident_grouping.py,           *)
(* workers/incident_grouper.py) over the alerts of one host, against the   *)
(* analysts' transitions of its incidents (api/incidents.py).  The grouper *)
(* buckets by host, so hosts are independent.  A pass reads, computes and  *)
(* commits at its end; analysts and new alerts come in between.            *)
(***************************************************************************)
EXTENDS Naturals, Sequences, SequencesExt, FiniteSetsExt

CONSTANTS
    Window,     \* VIGIL_INCIDENT_WINDOW_S
    Severity,   \* severity ranks, a set of naturals
    Pid,        \* pids an alert can carry, 0 for an alert without one
    PgParent,   \* the host's process_chain table: a function from pids to parents
    OsParent,   \* the same, as the process_started documents of OpenSearch have it
    TreeDepthLimit, \* _TREE_DEPTH_LIMIT
    MaxTime,    \* bound: clock
    MaxAlert    \* bound: alerts of the host

VARIABLES
    now,        \* clock
    alerts,     \* the host's alerts in order of commit: opened_at, severity, pid, incident (0: none)
    incidents,  \* the host's incidents, in order of creation
    pass        \* what the running pass will commit, or NoPass

vars == <<now, alerts, incidents, pass>>

IncidentStatus == {"open", "investigating", "resolved", "closed"}

INCIDENT_STATUS_TRANSITIONS(s) ==
    CASE s = "open" -> {"investigating", "resolved", "closed"}
      [] s = "investigating" -> {"resolved", "closed", "open"}
      [] s = "resolved" -> {"investigating", "closed"}
      [] s = "closed" -> {}

\* late (history): committed after an alert with a later opened_at.
Alert ==
    [opened : 0 .. MaxTime, severity : Severity, pid : Pid, incident : 0 .. MaxAlert, late : BOOLEAN]

\* settled: an analyst has resolved or closed it at some time.
Incident ==
    [opened : 0 .. MaxTime, severity : Severity, status : IncidentStatus,
     reason : {"window", "process_tree"}, settled : BOOLEAN]

NoPass == [running |-> FALSE, alerts |-> <<>>, incidents |-> <<>>]

Init == now = 0 /\ alerts = <<>> /\ incidents = <<>> /\ pass = NoPass

\* A producer commits an alert.  opened_at is the now() of its transaction, the time
\* it began; the row shows at the commit.
OpenAlert(sev, pid, began) ==
    /\ Len(alerts) < MaxAlert /\ began <= now
    /\ LET late == \E a \in Range(alerts) : a.opened > began
       IN  alerts' = Append(alerts, [opened |-> began, severity |-> sev, pid |-> pid,
                                     incident |-> 0, late |-> late])
    /\ UNCHANGED <<now, incidents, pass>>

\* Ungrouped alerts opened within twice the window, and the order of the query.
Recent == {i \in DOMAIN alerts : alerts[i].incident = 0 /\ alerts[i].opened + 2 * Window >= now}

ByOpenedAt(i, j) ==
    alerts[i].opened < alerts[j].opened \/ (alerts[i].opened = alerts[j].opened /\ i < j)

\* The open incident with the latest opened_at.
PrevOpen ==
    LET open == {n \in DOMAIN incidents : incidents[n].status \in {"open", "investigating"}}
    IN  {n \in open : \A m \in open : incidents[m].opened <= incidents[n].opened}

\* Mutant of HeadOf: the window runs from the incident's start.
HeadIsStart(n) == incidents[n].opened

\* The window anchor: opened_at of the latest alert attached to incident n.
HeadOf(n) == Max({alerts[i].opened : i \in {j \in DOMAIN alerts : alerts[j].incident = n}})

\* One alert of the walk: attach it to the current incident or open one.
Walk(acc, i) ==
    LET a == acc.alerts[i]
        fresh == [opened |-> a.opened, severity |-> a.severity, status |-> "open",
                  reason |-> "window", settled |-> FALSE]
        joins == acc.current # 0 /\ a.opened <= acc.head + Window
        n == IF joins THEN acc.current ELSE Len(acc.incidents) + 1
    IN  [acc EXCEPT !.alerts[i].incident = n, !.current = n, !.head = a.opened, !.touched = @ \cup {n},
                    !.incidents = IF joins THEN @ ELSE Append(@, fresh)]

Attached(rows, n) == {i \in DOMAIN rows : rows[i].incident = n}

\* At the end of the pass the severity of the current incident, and of no
\* other, is raised to the highest one this pass attached.
BumpSeverity(acc, batch) ==
    [acc EXCEPT !.incidents[acc.current].severity =
        Max({@} \cup {acc.alerts[i].severity : i \in batch \cap Attached(acc.alerts, acc.current)})]

\* One step of a walk towards init: it ends at a process without a known
\* parent, at pid 0 and where it would meet a process again.
Climb(parent, walk) ==
    IF walk.at \notin DOMAIN parent \/ parent[walk.at] \in walk.seen \cup {0} THEN walk
    ELSE [at |-> parent[walk.at], seen |-> walk.seen \cup {parent[walk.at]}]

\* _ancestor_pids_from_pg, _ancestor_pids_from_os, with the process itself.
AncestorPids(parent, pid) ==
    FoldLeft(LAMBDA walk, n : Climb(parent, walk), [at |-> pid, seen |-> {pid}],
             [n \in 1 .. TreeDepthLimit |-> n]).seen

\* _refine_process_tree: two attached alerts with a process in common, by
\* process_chain, or by OpenSearch when that table knows none of the pids.
SharesAncestor(rows, n) ==
    LET known == {i \in Attached(rows, n) : rows[i].pid # 0}
        parent == IF \E i \in known : AncestorPids(PgParent, rows[i].pid) # {rows[i].pid}
                  THEN PgParent ELSE OsParent
    IN  \E i, j \in known :
            i # j /\ AncestorPids(parent, rows[i].pid) \cap AncestorPids(parent, rows[j].pid) # {}

RefineProcessTree(acc) ==
    [acc EXCEPT !.incidents =
        [n \in DOMAIN @ |-> IF n \in acc.touched /\ SharesAncestor(acc.alerts, n)
                            THEN [@[n] EXCEPT !.reason = "process_tree"] ELSE @[n]]]

\* regroup_recent: everything up to the commit, from what the session reads.
PassReads ==
    LET prev == IF PrevOpen = {} THEN 0 ELSE CHOOSE n \in PrevOpen : TRUE
        batch == SetToSortSeq(Recent, ByOpenedAt)
        adopt == prev # 0 /\ alerts[batch[1]].opened <= HeadOf(prev) + Window
        walked == FoldLeft(Walk,
                           [alerts |-> alerts, incidents |-> incidents, touched |-> {},
                            current |-> IF adopt THEN prev ELSE 0,
                            head |-> IF prev = 0 THEN 0 ELSE HeadOf(prev)],
                           batch)
        result == RefineProcessTree(BumpSeverity(walked, Recent))
    IN  /\ ~pass.running /\ Recent # {}
        /\ pass' = [running |-> TRUE, alerts |-> result.alerts, incidents |-> result.incidents]
        /\ UNCHANGED <<now, alerts, incidents>>

\* The commit: only columns the pass changed are written, an analyst's status
\* stays.
PassCommitsAlertsOnly ==
    /\ pass.running
    /\ alerts' = [i \in DOMAIN alerts |->
                     IF i \in DOMAIN pass.alerts
                     THEN [alerts[i] EXCEPT !.incident = pass.alerts[i].incident] ELSE alerts[i]]
    /\ pass' = NoPass /\ UNCHANGED <<now, incidents>>

PassCommits ==
    /\ pass.running
    /\ alerts' = [i \in DOMAIN alerts |->
                     IF i \in DOMAIN pass.alerts
                     THEN [alerts[i] EXCEPT !.incident = pass.alerts[i].incident] ELSE alerts[i]]
    /\ incidents' = [n \in DOMAIN pass.incidents |->
                        IF n \in DOMAIN incidents
                        THEN [incidents[n] EXCEPT !.severity = pass.incidents[n].severity,
                                                  !.reason = pass.incidents[n].reason]
                        ELSE pass.incidents[n]]
    /\ pass' = NoPass /\ UNCHANGED now

\* The pass fails; the session is rolled back and the loop goes on.
PassFails ==
    /\ pass.running /\ pass' = NoPass /\ UNCHANGED <<now, alerts, incidents>>

\* POST /api/incidents/<id>/state.
ChangeState(n, to) ==
    /\ to \in INCIDENT_STATUS_TRANSITIONS(incidents[n].status)
    /\ incidents' = [incidents EXCEPT ![n].status = to,
                                      ![n].settled = @ \/ to \in {"resolved", "closed"}]
    /\ UNCHANGED <<now, alerts, pass>>

Tick == now < MaxTime /\ now' = now + 1 /\ UNCHANGED <<alerts, incidents, pass>>

Next ==
    \/ \E sev \in Severity, pid \in Pid, began \in 0 .. MaxTime : OpenAlert(sev, pid, began)
    \/ PassReads \/ PassCommits \/ PassFails
    \/ \E n \in DOMAIN incidents, to \in IncidentStatus : ChangeState(n, to)
    \/ Tick

Spec == Init /\ [][Next]_vars

TypeOK ==
    /\ Range(alerts) \subseteq Alert /\ Range(incidents) \subseteq Incident
    /\ \A i \in DOMAIN alerts : alerts[i].incident \in {0} \cup DOMAIN incidents

\* Two alerts opened within the window of one another end up in one incident,
\* whatever passes fell between them (regroup_recent: the window is anchored on the
\* latest alert), unless an analyst settled one of their incidents, or one of the
\* same start, which the query may prefer once it is taken up again; or one of their
\* incidents took in an alert that was committed after a younger one: such a one
\* joins whichever incident is open, and draws the anchor back.
SplitOnlyByWindow ==
    \A i, j \in DOMAIN alerts :
        LET theirs == {alerts[i].incident, alerts[j].incident}
        IN  (0 \notin theirs /\ alerts[i].opened <= alerts[j].opened
             /\ alerts[j].opened <= alerts[i].opened + Window)
            => \/ alerts[i].incident = alerts[j].incident
               \/ \E n \in DOMAIN incidents, m \in theirs :
                      incidents[n].settled /\ incidents[n].opened = incidents[m].opened
               \/ \E a \in Range(alerts) : a.late /\ a.incident \in theirs

-----------------------------------------------------------------------------
(* Claims of the comments and documents that the code does not keep.      *)

\* models/incident.py: "The incident's severity is the max severity of its
\* grouped alerts at the moment the incident is created/regrouped".
SeverityIsMax ==
    \A n \in DOMAIN incidents :
        incidents[n].severity = Max({alerts[i].severity : i \in Attached(alerts, n)})
=============================================================================
