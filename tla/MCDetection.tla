---------------------------- MODULE MCDetection -----------------------------
(***************************************************************************)
(* The detection side of the manager, one component at a time: which one   *)
(* steps is chosen in the initial state (focus) and the others do not      *)
(* exist. The components interact through topics and tables that each      *)
(* models at its own end, so nothing is lost by taking them one by one.    *)
(* v1, v2, ... hold the variables of the component in focus in the order   *)
(* its module declares them; those it has no use for are 0.                *)
(***************************************************************************)
EXTENDS Naturals, Sequences, TLC

VARIABLES
    focus,      \* the component that steps; it never changes
    v1, v2, v3, v4, v5, v6, v7, v8, v9, v10, v11, v12, v13, v14, v15, v16, v17, v18, v19

vars == <<focus, v1, v2, v3, v4, v5, v6, v7, v8, v9, v10, v11, v12, v13, v14, v15, v16, v17, v18, v19>>

\* The variables after the n-th, which the component in focus does not have.
Clear(n) ==
    /\ IF n < 4 THEN v4 = 0 ELSE TRUE
    /\ IF n < 5 THEN v5 = 0 ELSE TRUE
    /\ IF n < 6 THEN v6 = 0 ELSE TRUE
    /\ IF n < 7 THEN v7 = 0 ELSE TRUE
    /\ IF n < 8 THEN v8 = 0 ELSE TRUE
    /\ IF n < 9 THEN v9 = 0 ELSE TRUE
    /\ IF n < 10 THEN v10 = 0 ELSE TRUE
    /\ IF n < 11 THEN v11 = 0 ELSE TRUE
    /\ IF n < 12 THEN v12 = 0 ELSE TRUE
    /\ IF n < 13 THEN v13 = 0 ELSE TRUE
    /\ IF n < 14 THEN v14 = 0 ELSE TRUE
    /\ IF n < 15 THEN v15 = 0 ELSE TRUE
    /\ IF n < 16 THEN v16 = 0 ELSE TRUE
    /\ IF n < 17 THEN v17 = 0 ELSE TRUE
    /\ IF n < 18 THEN v18 = 0 ELSE TRUE
    /\ IF n < 19 THEN v19 = 0 ELSE TRUE

Keep(n) ==
    /\ UNCHANGED focus
    /\ IF n < 4 THEN UNCHANGED v4 ELSE TRUE
    /\ IF n < 5 THEN UNCHANGED v5 ELSE TRUE
    /\ IF n < 6 THEN UNCHANGED v6 ELSE TRUE
    /\ IF n < 7 THEN UNCHANGED v7 ELSE TRUE
    /\ IF n < 8 THEN UNCHANGED v8 ELSE TRUE
    /\ IF n < 9 THEN UNCHANGED v9 ELSE TRUE
    /\ IF n < 10 THEN UNCHANGED v10 ELSE TRUE
    /\ IF n < 11 THEN UNCHANGED v11 ELSE TRUE
    /\ IF n < 12 THEN UNCHANGED v12 ELSE TRUE
    /\ IF n < 13 THEN UNCHANGED v13 ELSE TRUE
    /\ IF n < 14 THEN UNCHANGED v14 ELSE TRUE
    /\ IF n < 15 THEN UNCHANGED v15 ELSE TRUE
    /\ IF n < 16 THEN UNCHANGED v16 ELSE TRUE
    /\ IF n < 17 THEN UNCHANGED v17 ELSE TRUE
    /\ IF n < 18 THEN UNCHANGED v18 ELSE TRUE
    /\ IF n < 19 THEN UNCHANGED v19 ELSE TRUE

-----------------------------------------------------------------------------
\* AlertPipeline: a match, an event without one, and one that two rules of a key match.
AlertLog == << [matches |-> <<"k">>, ecs |-> {"pid"}], [matches |-> <<>>, ecs |-> {}],
               [matches |-> <<"k", "k">>, ecs |-> {"file"}] >>

\* IncidentGrouping: the table knows one parent, the documents close a cycle.
PgParents == 2 :> 1
OsParents == 2 :> 1 @@ 3 :> 1 @@ 1 :> 3

\* EventPipeline: a process starts, exits and its pid starts again; one event is garbage.
Envelope(payload, action, parent, at) ==
    [payload |-> payload, action |-> action, pid |-> 7, parent |-> parent, at |-> at]
RawEvents == << Envelope("process", "process_started", 0, 1), Envelope("undecodable", "other", 0, 1),
                Envelope("process", "process_exited", 0, 2), Envelope("process", "process_started", 1, 3) >>

\* SequenceDetector: a rule of two legs with windows of their own, and its edited form.
StagedDoc ==
    [trigger |-> [event_kind |-> "process_started", where |-> {}], window |-> 0,
     legs |-> << [event_kind |-> "network_connection", where |-> {{[op |-> ">=", right |-> 2]}}, within |-> 1],
                 [event_kind |-> "any", within |-> 0,
                  where |-> {{[op |-> "in", right |-> {1}]}, {[op |-> "==", right |-> 3]}}] >>]
EditedDoc ==
    [trigger |-> [event_kind |-> "file_created",
                  where |-> {{[op |-> "!=", right |-> 2], [op |-> "<", right |-> 9]}}], window |-> 3,
     legs |-> << [event_kind |-> "network_connection", where |-> {}, within |-> 0] >>]
EcsEvents == { [has |-> {"process"}, cats |-> {"process"}, action |-> "start", val |-> 1],
               [has |-> {"network"}, cats |-> {"network"}, action |-> "", val |-> 2],
               [has |-> {"file"}, cats |-> {}, action |-> "create", val |-> 3] }

\* Investigation: pid 1 is reused by a descendant of its first owner.
Event(i, t, p, q, a) == [id |-> i, ts |-> t, pid |-> p, parent |-> q, action |-> a]
HostEvents ==
    { Event("e1", 1, 1, 0, "process_started"), Event("e2", 2, 2, 1, "process_started"),
      Event("e3", 3, 3, 2, "process_started"), Event("e4", 4, 1, 3, "process_started"),
      Event("e5", 4, 3, 2, "file_written"), Event("e6", 5, 4, 2, "process_started") }

\* IdentityMonitor: failures and successes of an actor, two of them at one instant.
SignIn(i, s, t, a, ok, m, k) ==
    [id |-> i, src |-> s, ts |-> t, actor |-> a, ip |-> "i", success |-> ok, mfa |-> m, km |-> k]
SignInLog ==
    { SignIn("e1", "s1", 1, "x", FALSE, TRUE, 0), SignIn("e2", "s1", 2, "x", FALSE, FALSE, 0),
      SignIn("e3", "s1", 2, "x", TRUE, TRUE, 0), SignIn("e4", "s2", 2, "y", FALSE, FALSE, 0),
      SignIn("e5", "s1", 1, "x", TRUE, FALSE, 9) }
Providers == "s1" :> "okta" @@ "s2" :> "azure_ad"

\* CloudMonitor: two objects of a bucket, one with a root sign-in, and an unreadable one.
Call(i, t, p, a, r, x) == [id |-> i, ts |-> t, principal |-> p, action |-> a, region |-> r, root |-> x]
Trail(k, b, bad, es) == [key |-> k, bucket |-> b, bad |-> bad, events |-> es]
TrailFiles ==
    { Trail("o1", "b1", FALSE, <<Call("e1", 0, "p", "a", "r", FALSE), Call("e2", 0, "p", "b", "r", TRUE)>>),
      Trail("o2", "b1", FALSE, <<Call("e3", 1, "p", "b", "q", FALSE), Call("e5", 0, "", "b", "q", FALSE)>>),
      Trail("o3", "b2", TRUE, <<Call("e4", 0, "p", "a", "r", FALSE)>>) }

\* ThreatIntel: two spellings of an indicator and an unsupported one; a sample of that hash.
NormalForm == "A" :> "a" @@ "a" :> "a" @@ "-" :> ""
SampleHash == "j" :> "a"

-----------------------------------------------------------------------------
Pipeline == INSTANCE AlertPipeline WITH
    Log <- AlertLog, Key <- {"k"}, Action <- "block", AutoMemoryScan <- TRUE,
    Analysts <- {"a1"}, DedupWindow <- 2, RefreshSeconds <- 1, MaxTime <- 2, MaxFault <- 1,
    MaxEdit <- 1,
    engine <- v1, now <- v2, edits <- v3, position <- v4, committed <- v5, phase <- v6,
    cached <- v7, tx <- v8, alerts <- v9, docs <- v10, commands <- v11, fired <- v12,
    uid <- v13, analyst <- v14, failed <- v15, skipped <- v16, faults <- v17

Grouping == INSTANCE IncidentGrouping WITH
    Window <- 1, Severity <- {1}, Pid <- {2, 3}, PgParent <- PgParents, OsParent <- OsParents,
    TreeDepthLimit <- 2, MaxTime <- 2, MaxAlert <- 3,
    now <- v1, alerts <- v2, incidents <- v3, pass <- v4

Telemetry == INSTANCE EventPipeline WITH
    Raw <- RawEvents, Pid <- {1, 7}, BatchSize <- 2, RetryCap <- 2, Dest <- {"d1", "d2"},
    Rotated <- {"d2"}, Retention <- 1, MaxTime <- 3, MaxFault <- 2, MaxToggle <- 1,
    group <- v1, now <- v2, topic <- v3, position <- v4, committed <- v5, phase <- v6,
    buffered <- v7, docs <- v8, rows <- v9, enabled <- v10, cached <- v11, todo <- v12,
    failing <- v13, errors <- v14, sent <- v15, owed <- v16, givenup <- v17, faults <- v18,
    toggles <- v19

Detector == INSTANCE SequenceDetector WITH
    Rules <- <<"r">>, Doc <- {EditedDoc}, FirstDoc <- StagedDoc, Ecs <- EcsEvents, WindowS <- 2,
    RefreshS <- 1, GcEvery <- 2, DedupWindow <- 3, MaxTime <- 2, MaxEvent <- 4, MaxFault <- 1,
    MaxEdit <- 1,
    now <- v1, topic <- v2, committed <- v3, pos <- v4, pc <- v5, rows <- v6, managed <- v7,
    cache <- v8, partials <- v9, refreshed <- v10, gcs <- v11, alerts <- v12, seen <- v13,
    found <- v14, clean <- v15, budget <- v16

Story == INSTANCE Investigation WITH
    Events <- HostEvents, Trigger <- {"e5"}, Opened <- 4, Day <- 4, WindowMinutes <- 2,
    MaxDepth <- 4, MaxHops <- 4, MaxHits <- 2,
    docs <- v1, graph <- v2, page <- v3

Identity == INSTANCE IdentityMonitor WITH
    Source <- {"s1", "s2"}, Kind <- Providers, SignIns <- SignInLog, Lookback <- 1,
    PageLimit <- 3, WindowS <- 1, FailThreshold <- 1, MfaThreshold <- 2, SprayThreshold <- 0,
    MaxKmph <- 5, MinKm <- 1, MaxTime <- 2, MaxTick <- 2, MaxEdit <- 3,
    now <- v1, visible <- v2, sources <- v3, tick <- v4, alerts <- v5, evaluated <- v6,
    ticks <- v7, edits <- v8

Cloud == INSTANCE CloudMonitor WITH
    Source <- {"s1", "s2"}, Bucket <- {"b1", "b2"}, Object <- TrailFiles, MaxTime <- 1,
    MaxTick <- 2, MaxEdit <- 3,
    now <- v1, written <- v2, sources <- v3, baseline <- v4, alerts <- v5, tick <- v6,
    read <- v7, ticks <- v8, edits <- v9

Intel == INSTANCE ThreatIntel WITH
    Feed <- {"f"}, Raw <- {"A", "a", "-"}, Norm <- NormalForm, Job <- {"j"}, Hash <- SampleHash,
    Provider <- {"p"}, MaxTx <- 3, MaxEdit <- 3,
    feeds <- v1, rules <- v2, rows <- v3, fired <- v4, providers <- v5, jobs <- v6, txs <- v7,
    ntx <- v8, edits <- v9, pulled <- v10, raced <- v11, optedOut <- v12, dropped <- v13

-----------------------------------------------------------------------------
Init ==
    \/ focus = "alert_pipeline" /\ Pipeline!Init /\ Clear(17)
    \/ focus = "incident_grouping" /\ Grouping!Init /\ Clear(4)
    \/ focus = "event_pipeline" /\ Telemetry!Init /\ Clear(19)
    \/ focus = "sequence_detector" /\ Detector!Init /\ Clear(16)
    \/ focus = "investigation" /\ Story!Init /\ Clear(3)
    \/ focus = "identity_monitor" /\ Identity!Init /\ Clear(8)
    \/ focus = "cloud_monitor" /\ Cloud!Init /\ Clear(9)
    \/ focus = "threat_intel" /\ Intel!Init /\ Clear(13)

Next ==
    \/ focus = "alert_pipeline" /\ Pipeline!Next /\ Keep(17)
    \/ focus = "incident_grouping" /\ Grouping!Next /\ Keep(4)
    \/ focus = "event_pipeline" /\ Telemetry!Next /\ Keep(19)
    \/ focus = "sequence_detector" /\ Detector!Next /\ Keep(16)
    \/ focus = "investigation" /\ Story!Next /\ Keep(3)
    \/ focus = "identity_monitor" /\ Identity!Next /\ Keep(8)
    \/ focus = "cloud_monitor" /\ Cloud!Next /\ Keep(9)
    \/ focus = "threat_intel" /\ Intel!Next /\ Keep(13)

Spec == Init /\ [][Next]_vars

-----------------------------------------------------------------------------
\* The type invariant of the component in focus.
TypeOK ==
    CASE focus = "alert_pipeline" -> Pipeline!TypeOK
      [] focus = "incident_grouping" -> Grouping!TypeOK
      [] focus = "event_pipeline" -> Telemetry!TypeOK
      [] focus = "sequence_detector" -> Detector!TypeOK
      [] focus = "investigation" -> Story!TypeOK
      [] focus = "identity_monitor" -> Identity!TypeOK
      [] focus = "cloud_monitor" -> Cloud!TypeOK
      [] focus = "threat_intel" -> Intel!TypeOK

\* A match is on an alert row before its offset is committed (detector,
\* sigma_realtime), whatever crashes.
NoMatchLost == focus = "alert_pipeline" => Pipeline!NoMatchLost

\* An alert is a new row only when none of its key is open within the window, and
\* it is built from rules no binding edit had replaced.
DedupHolds == focus = "alert_pipeline" => Pipeline!DedupHolds /\ Pipeline!RulesFresh

\* Passes of the grouper that come between alerts never split an incident.
SplitOnlyByWindow == focus = "incident_grouping" => Grouping!SplitOnlyByWindow

\* An acknowledged event has had its effect, once per process, at every hop from
\* the raw topic to the index, the process table and the SIEM.
NoEventLost ==
    focus = "event_pipeline" => Telemetry!NoEventLost /\ Telemetry!ChainRecorded /\ Telemetry!ChainOnce

\* The sequence evaluator finds exactly the chains its rules mean.
MatchesExactly == focus = "sequence_detector" => Detector!MatchesExactly

\* A page's process chain is one, though pids are reused and stores lag.
ChainSound == focus = "investigation" => Story!ChainSound

\* The polling monitors, whose ticks fail and start again, judge a sign-in once
\* and alert once on what is new for a cloud principal.
MonitorsExact ==
    /\ focus = "identity_monitor" => Identity!JudgedOnce
    /\ focus = "cloud_monitor" => Cloud!BaselineExact

\* The indicators of a feed are those of its last pull, and a malicious verdict
\* of the sandbox is one of them.
IndicatorsExact == focus = "threat_intel" => Intel!FullReplace /\ Intel!VerdictKnown
=============================================================================
