---------------------------- MODULE MCResponse ------------------------------
(***************************************************************************)
(* What follows an alert, one component at a time as in MCDetection:       *)
(* playbooks, webhooks, routing, the live stream and the console on the    *)
(* manager's side; job execution, quarantine and remote terminals on the   *)
(* endpoint's side. v1, v2, ... hold the variables of the component in     *)
(* focus in the order its module declares them.                            *)
(***************************************************************************)
EXTENDS Naturals, Sequences, TLC

VARIABLES
    focus,      \* the component that steps; it never changes
    v1, v2, v3, v4, v5, v6, v7, v8, v9, v10, v11, v12, v13, v14, v15, v16

vars == <<focus, v1, v2, v3, v4, v5, v6, v7, v8, v9, v10, v11, v12, v13, v14, v15, v16>>

\* The variables after the n-th, which the component in focus does not have.
Clear(n) ==
    /\ IF n < 7 THEN v7 = 0 ELSE TRUE
    /\ IF n < 8 THEN v8 = 0 ELSE TRUE
    /\ IF n < 9 THEN v9 = 0 ELSE TRUE
    /\ IF n < 10 THEN v10 = 0 ELSE TRUE
    /\ IF n < 11 THEN v11 = 0 ELSE TRUE
    /\ IF n < 12 THEN v12 = 0 ELSE TRUE
    /\ IF n < 13 THEN v13 = 0 ELSE TRUE
    /\ IF n < 14 THEN v14 = 0 ELSE TRUE
    /\ IF n < 15 THEN v15 = 0 ELSE TRUE
    /\ IF n < 16 THEN v16 = 0 ELSE TRUE

Keep(n) ==
    /\ UNCHANGED focus
    /\ IF n < 7 THEN UNCHANGED v7 ELSE TRUE
    /\ IF n < 8 THEN UNCHANGED v8 ELSE TRUE
    /\ IF n < 9 THEN UNCHANGED v9 ELSE TRUE
    /\ IF n < 10 THEN UNCHANGED v10 ELSE TRUE
    /\ IF n < 11 THEN UNCHANGED v11 ELSE TRUE
    /\ IF n < 12 THEN UNCHANGED v12 ELSE TRUE
    /\ IF n < 13 THEN UNCHANGED v13 ELSE TRUE
    /\ IF n < 14 THEN UNCHANGED v14 ELSE TRUE
    /\ IF n < 15 THEN UNCHANGED v15 ELSE TRUE
    /\ IF n < 16 THEN UNCHANGED v16 ELSE TRUE

-----------------------------------------------------------------------------
\* Playbooks: an alert without a process, one with all a step may need, and bodies
\* that branch, respond and notify over a working and a disabled channel.
AlertFacts ==
    "a1" :> [rule |-> "r1", severity |-> 3, techniques |-> {}, fields |-> {"host"}]
 @@ "a2" :> [rule |-> "r2", severity |-> 2, techniques |-> {"t1"}, fields |-> {"host", "pid", "path"}]
Triggers == "p1" :> [rule |-> "r1", severity |-> 0, techniques |-> {"t1"}]
NoticeChannels == "c1" :> [kind |-> "slack", enabled |-> TRUE] @@ "c2" :> [kind |-> "email", enabled |-> FALSE]
Step(k, x) == [kind |-> k, arg |-> x]
PlaybookBodies ==
    { << Step("branch_if", {3}), Step("kill", {}), Step("isolate", {}), Step("notify_slack", "c1") >>,
      << Step("quarantine", {}), Step("notify_email", "c1"), Step("triage_collect", {}) >> }

\* AlertRouting: rules by severity and kind, by host group, and a disabled one.
RoutedFacts == {[severity |-> 3, kind |-> "ioc", groups |-> {"g"}], [severity |-> 2, kind |-> "sigma", groups |-> {}]}
Routing(on, sev, kind, group, ids) ==
    [enabled |-> on, min_severity |-> sev, rule_kind |-> kind, host_group |-> group, channel_ids |-> ids]
RoutingBodies ==
    { Routing(TRUE, 3, "ioc", "any", {"c"}), Routing(TRUE, 1, "any", "g", {"c"}),
      Routing(FALSE, 1, "any", "any", {}) }
ChannelSettings ==
    { [kind |-> "slack", valid |-> TRUE, enabled |-> TRUE, readable |-> TRUE],
      [kind |-> "email", valid |-> TRUE, enabled |-> TRUE, readable |-> FALSE] }

\* AgentJobs: a tree with an unreadable file, one over the size limit and a link,
\* and a job of every kind over it.
File(size, base, mtime, readable) ==
    [type |-> "file", size |-> size, base |-> base, mtime |-> mtime, entries |-> <<>>, readable |-> readable]
Folder(base, entries) ==
    [type |-> "dir", size |-> 0, base |-> base, mtime |-> 0, entries |-> entries, readable |-> TRUE]
FileSystem ==
    "a/x" :> File(1, "x", 1, TRUE) @@ "b/x" :> File(2, "x", 2, TRUE) @@ "b/y" :> File(1, "y", 3, FALSE)
 @@ "b/big" :> File(5, "big", 4, TRUE) @@ "b/l" :> [File(0, "l", 5, TRUE) EXCEPT !.type = "link"]
 @@ "b" :> Folder("b", <<"b/x", "b/y", "b/big", "b/l">>) @@ "a" :> Folder("a", <<"a/x", "b">>)
JobDefaults == [max_size_bytes |-> 4, max_files |-> 2, max_entries |-> 3, walk_max_size |-> 4]
Kind(k, p) == [kind |-> k, params |-> p]
Scan(path, recurse, ids) == [path |-> path, recurse |-> recurse, rule_ids |-> ids, cached |-> {"y"}]
JobRuns ==
    "acquire" :> Kind("file_acquire", [paths |-> <<"a/x", "b/y", "b/x">>])
 @@ "dumps" :> Kind("crash_dump_collect", [max_files |-> 5])
 @@ "sweep" :> Kind("host_sweep",
        [categories |-> <<"account_audit", "usb_history", "process_memory_dump", "crash_dump_collect">>])
 @@ "hash" :> Kind("hash_files", [path |-> "a", recurse |-> TRUE])
 @@ "yara" :> Kind("yara_fs_scan", Scan("b", FALSE, {}))
 @@ "ioc" :> Kind("ioc_sweep", Scan("a", FALSE, {"z"}))
 @@ "memory" :> Kind("memory_yara_scan", [pid |-> 1, rule_ids |-> {}, cached |-> {"y"},
        regions |-> <<1, 0, 9, 2, 1>>, max_region |-> 4, max_total |-> 3])
 @@ "log" :> Kind("event_log_acquire", [exit |-> 1])
 @@ "shell" :> Kind("shell_command", [allowed |-> TRUE, args_ok |-> TRUE, ends |-> "timed out"])
 @@ "usb" :> Kind("usb_history", <<>>)
 @@ "triage" :> Kind("triage_collect", [include |-> {"persistence", "event_log"}, max |-> 4,
        sources |-> << [category |-> "event_log", path |-> "a/x"], [category |-> "persistence", path |-> "b"],
                       [category |-> "mft", path |-> "b/x"] >>,
        commands |-> << [category |-> "persistence", name |-> "units", size |-> 2],
                        [category |-> "persistence", name |-> "timers", size |-> 2] >>])

-----------------------------------------------------------------------------
Executor == INSTANCE Playbooks WITH
    Alerts <- {"a1", "a2"}, Facts <- AlertFacts, Playbook <- {"p1"}, Trigger <- Triggers,
    Bodies <- PlaybookBodies, MaxSteps <- 64, Channels <- NoticeChannels, MaxFault <- 2,
    MaxEdit <- 1,
    playbooks <- v1, pending <- v2, alerts <- v3, topic <- v4, position <- v5, committed <- v6,
    phase <- v7, run <- v8, runs <- v9, commands <- v10, notices <- v11, serial <- v12,
    passed <- v13, raised <- v14, faults <- v15, edits <- v16

Hooks == INSTANCE Webhooks WITH
    Sub <- {"s1"}, EventTypes <- {"e"}, Admin <- {"a", "b"}, RetryMax <- 1, Threshold <- 2,
    MaxEvent <- 2, MaxFault <- 1, MaxEdit <- 3,
    topic <- v1, position <- v2, committed <- v3, work <- v4, subs <- v5, created <- v6,
    deliveries <- v7, request <- v8, passed <- v9, streak <- v10, snatched <- v11,
    faults <- v12, edits <- v13

Router == INSTANCE AlertRouting WITH
    Facts <- RoutedFacts, RuleName <- {"r", "s"}, RuleBodies <- RoutingBodies,
    ChannelName <- {"c"}, ChannelConfigs <- ChannelSettings, Backfill <- 1, Batch <- 1,
    RETRY_ATTEMPTS <- 3, MaxTime <- 2, MaxAlert <- 2, MaxFault <- 1, MaxEdit <- 3,
    now <- v1, pending <- v2, alerts <- v3, last_seen <- v4, batch <- v5, mark <- v6,
    rules <- v7, channels <- v8, dispatched <- v9, sent <- v10, unsure <- v11, late <- v12,
    tied <- v13, faults <- v14, edits <- v15

Stream == INSTANCE AlertStream WITH
    Alert <- {"a", "b"}, Instance <- {"i1", "i2"}, Client <- {"c"}, Home <- "c" :> "i2",
    Visible <- "c" :> {"a", "b"}, Modes <- {TRUE, FALSE}, QUEUE_MAX <- 1, LOCK_TTL <- 1,
    BATCH <- 1, LOOKBACK <- 1, MaxTime <- 2, MaxFault <- 1,
    redis <- v1, now <- v2, created <- v3, committed <- v4, inst <- v5, lock <- v6,
    channel <- v7, queue <- v8, got <- v9, opened <- v10, owed <- v11, excused <- v12,
    faults <- v13

Console == INSTANCE AlertConsole WITH
    Alert <- {"a"}, Dest <- {"d"}, User <- {"u"}, Request <- {"p", "q"}, MaxTicket <- 2,
    MaxRequest <- 3, MaxEdit <- 3,
    alerts <- v1, history <- v2, dests <- v3, links <- v4, tickets <- v5, row <- v6, tx <- v7,
    poll <- v8, undone <- v9, refused <- v10, requests <- v11, edits <- v12

Worker == INSTANCE AgentJobs WITH
    Jobs <- JobRuns, Nodes <- FileSystem, DumpRoots <- <<"b", "a/x">>, Default <- JobDefaults,
    MaxPaths <- 4, Every <- 1, UploadMax <- 1, Capacity <- 2, MaxJobs <- 2, MaxFault <- 1,
    left <- v1, job <- v2, spawned <- v3, out <- v4, uploaded <- v5, store <- v6, rows <- v7,
    status <- v8, manifest <- v9, faults <- v10, dropped <- v11

Vault == INSTANCE Quarantine WITH
    Sha <- {"s", "t"}, MaxCommand <- 4, MaxFault <- 1, MaxRow <- 4,
    cmds <- v1, disk <- v2, log <- v3, pos <- v4, rows <- v5, worker <- v6, resumes <- v7,
    issued <- v8, faults <- v9, unlisted <- v10, asked <- v11

Shell == INSTANCE Terminal WITH
    Host <- {"h", "k"}, Ttl <- 1, Idle <- 1, BatchSize <- 2, MaxTime <- 1, MaxToken <- 1,
    MaxOpen <- 2, MaxStream <- 1, MaxChunk <- 2,
    now <- v1, tokens <- v2, dict <- v3, objs <- v4, streams <- v5, sent <- v6

-----------------------------------------------------------------------------
Init ==
    \/ focus = "playbooks" /\ Executor!Init /\ Clear(16)
    \/ focus = "webhooks" /\ Hooks!Init /\ Clear(13)
    \/ focus = "alert_routing" /\ Router!Init /\ Clear(15)
    \/ focus = "alert_stream" /\ Stream!Init /\ Clear(13)
    \/ focus = "alert_console" /\ Console!Init /\ Clear(12)
    \/ focus = "agent_jobs" /\ Worker!Init /\ Clear(11)
    \/ focus = "quarantine" /\ Vault!Init /\ Clear(11)
    \/ focus = "terminal" /\ Shell!Init /\ Clear(6)

Next ==
    \/ focus = "playbooks" /\ Executor!Next /\ Keep(16)
    \/ focus = "webhooks" /\ Hooks!Next /\ Keep(13)
    \/ focus = "alert_routing" /\ Router!Next /\ Keep(15)
    \/ focus = "alert_stream" /\ Stream!Next /\ Keep(13)
    \/ focus = "alert_console" /\ Console!Next /\ Keep(12)
    \/ focus = "agent_jobs" /\ Worker!Next /\ Keep(11)
    \/ focus = "quarantine" /\ Vault!Next /\ Keep(11)
    \/ focus = "terminal" /\ Shell!Next /\ Keep(6)

Spec == Init /\ [][Next]_vars

-----------------------------------------------------------------------------
\* The type invariant of the component in focus.
TypeOK ==
    CASE focus = "playbooks" -> Executor!TypeOK
      [] focus = "webhooks" -> Hooks!TypeOK
      [] focus = "alert_routing" -> Router!TypeOK
      [] focus = "alert_stream" -> Stream!TypeOK
      [] focus = "alert_console" -> Console!TypeOK
      [] focus = "agent_jobs" -> Worker!TypeOK
      [] focus = "quarantine" -> Vault!TypeOK
      [] focus = "terminal" -> Shell!TypeOK

\* A playbook run and its commands are committed together, and an acknowledged
\* trigger has led to a run (PlaybookExecutor).
RunMatchesCommands == focus = "playbooks" => Executor!RunMatchesCommands /\ Executor!FireHandled

\* The router passes no alert by and tells a channel once, and the failures that
\* disable a webhook are on record.
NotifiedOnce ==
    /\ focus = "alert_routing" => Router!MarkPassesNone /\ Router!OncePerChannel
    /\ focus = "webhooks" => Hooks!CountBacked

\* The lock between the instances of the manager drops copies of an alert and
\* never the alert (AlertBroker).
StreamComplete == focus = "alert_stream" => Stream!StreamComplete

\* Requests that race to mirror an alert open one ticket.
OneTicket == focus = "alert_console" => Console!OneTicket

\* What an endpoint did is on record: artifacts and triage manifests of jobs,
\* copies in quarantine, the I/O of terminals that were torn down.
EndpointOnRecord ==
    /\ focus = "agent_jobs" => Worker!CompletedHasArtifacts /\ Worker!TriageHonest
    /\ focus = "quarantine" => Vault!CopyListed
    /\ focus = "terminal" => Shell!TornDown
=============================================================================
