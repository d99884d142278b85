----------------------------- MODULE AgentJobs -----------------------------
(***************************************************************************)
(* How the agent runs a job (agent-core/src/jobs*.rs): the command worker  *)
(* hands RunJob to the dispatcher, the handler of the kind reports         *)
(* progress, uploads artifacts and returns, and the worker sends the       *)
(* CommandResult.  The manager grants uploads, stores the objects          *)
(* (api/uploads.py) and applies what arrives on the stream                 *)
(* (grpc/services.py).                                                     *)
(*                                                                         *)
(* A handler is the sequence of its effects, a function of its parameters  *)
(* and of the host: "progress" is an awaited send, "spawn" a send by a     *)
(* task nobody awaits, "upload" the three calls of an upload, "fail" the   *)
(* return of an error; running off the end is Ok.                          *)
(***************************************************************************)
EXTENDS Naturals, Sequences, SequencesExt, FiniteSets, FiniteSetsExt, TLC

CONSTANTS
    Jobs,           \* function: run id -> the job it runs
    Nodes,          \* the host's file system: path -> [type, size, base, mtime, entries, readable]
    DumpRoots,      \* enumerate_dump_paths' well-known locations
    Default,        \* serde's defaults of the numeric parameters, by name
    MaxPaths,       \* 200 paths in a file_acquire
    Every,          \* a walker reports progress every so many files
    UploadMax,      \* upload_max_bytes
    Capacity,       \* of the stream's send channel
    MaxJobs,        \* bound: commands the worker is sent
    MaxFault        \* bound: failed uploads and dropped streams

Run == DOMAIN Jobs
Idle == [st |-> "idle"]
NoManifest == [files |-> <<>>, skipped |-> <<>>, truncated |-> FALSE, total |-> 0]

VARIABLES
    left,       \* runs whose command has not reached the worker
    job,        \* the worker: the handler's effects still to come
    spawned,    \* progress reports of tasks nobody awaits
    out,        \* the stream's send channel
    uploaded,   \* history: artifacts whose PUT the agent saw succeed
    store,      \* the object store: key -> body
    rows,       \* JobArtifact rows
    status,     \* JobRun.status by run
    manifest,   \* the triage manifest the worker built last
    faults,
    dropped     \* history: some message never reached the manager

vars == <<left, job, spawned, out, uploaded, store, rows, status, manifest, faults, dropped>>

Init ==
    /\ left \in kSubset(MaxJobs, Run) /\ job = Idle /\ spawned = {} /\ out = <<>>
    /\ uploaded = {} /\ store = [k \in {} |-> ""] /\ rows = {}
    /\ status = [r \in Run |-> "dispatched"]
    /\ manifest = NoManifest /\ faults = 0 /\ dropped = FALSE

-----------------------------------------------------------------------------
(* Effects.                                                                *)

Progress == [op |-> "progress"]
Spawn(n) == [op |-> "spawn", n |-> n]
Fail == [op |-> "fail"]
Upload(kind, name, body) ==
    [op |-> "upload", kind |-> kind, name |-> name, body |-> body,
     size |-> IF body \in DOMAIN Nodes THEN Nodes[body].size ELSE 1]

\* A parameter, or the default serde fills in when the object lacks it.
Param(p, f) == IF f \in DOMAIN p THEN p[f] ELSE Default[f]

\* read_one_file: no symlink, a regular file, not too large, readable.
ReadOneFile(path, max) ==
    /\ Nodes[path].type = "file" /\ Nodes[path].size <= max /\ Nodes[path].readable

\* Progress and, when it could be read, the file, for every path in order.
Acquire(paths, max) ==
    FoldLeft(LAMBDA ops, path :
                 ops \o <<Progress>> \o
                 IF ReadOneFile(path, max) THEN <<Upload("file", Nodes[path].base, path)>> ELSE <<>>,
             <<>>, paths)

Uploads(ops) == SelectSeq(ops, LAMBDA o : o.op = "upload")

FileAcquire(p) ==
    IF p.paths = <<>> \/ Len(p.paths) > MaxPaths THEN <<Fail>>
    ELSE LET got == Acquire(p.paths, Param(p, "max_size_bytes"))
         IN  Append(got, Upload("json", "file_acquire_summary.json", "summary"))
                \o IF Uploads(got) = <<>> THEN <<Fail>> ELSE <<Progress>>

\* enumerate_dump_paths: a location is a dump, or a directory of dumps (is_file
\* follows links); the newest first.
DumpPaths ==
    LET at(c) == CASE Nodes[c].type = "file" -> <<c>>
                   [] Nodes[c].type = "dir" ->
                        SelectSeq(Nodes[c].entries, LAMBDA e : Nodes[e].type \in {"file", "link"})
                   [] OTHER -> <<>>
    IN  SortSeq(FlattenSeq([i \in 1 .. Len(DumpRoots) |-> at(DumpRoots[i])]),
                LAMBDA a, b : Nodes[a].mtime > Nodes[b].mtime)

\* Without parameters #[derive(Default)] applies, which knows nothing of serde's
\* defaults: both limits are then 0.
CrashDumpCollect(p) ==
    LET limit(f) == IF p = <<>> THEN 0 ELSE Param(p, f)
        found == DumpPaths
        taken == SubSeq(found, 1, Min({Len(found), limit("max_files")}))
    IN  <<Progress>> \o Acquire(taken, limit("max_size_bytes"))
            \o <<Upload("json", "crash_dump_summary.json", "summary"), Progress>>

\* collect_journal / collect_windows_events fail as their command does.
EventLogAcquire(p) ==
    IF p.exit # 0 THEN <<Progress, Fail>>
    ELSE <<Progress, Progress, Upload("json", "journal.json", "events"), Progress>>

ProcessMemoryDump(p) == <<Fail>>

\* The surveys collect and upload one document.
ProcessSnapshot(p) == <<Progress, Progress, Upload("json", "process_snapshot.json", "processes"), Progress>>
NetworkSnapshot(p) == <<Progress, Progress, Upload("json", "network_snapshot.json", "interfaces"), Progress>>
AccountAudit(p) == <<Progress, Upload("json", "account_audit.json", "accounts"), Progress>>
AgentDiagnostic(p) == <<Progress, Upload("diagnostic_bundle", "agent_diagnostic.json", "agent"), Progress>>

\* A command outside the allow-list, or with unusable arguments, is refused; one
\* that times out uploads its (empty) output and fails.
ShellCommand(p) ==
    IF ~p.allowed \/ ~p.args_ok \/ p.ends = "no such file" THEN <<Fail>>
    ELSE <<Progress, Upload("shell_output", "shell.json", p.ends), Progress>>
            \o IF p.ends = "timed out" THEN <<Fail>> ELSE <<>>

-----------------------------------------------------------------------------
(* The walkers: a stack, no symlinks, directories below the root only when *)
(* asked, files up to a size, at most max_entries of them.                 *)

RECURSIVE Walk(_, _, _, _)
Walk(stack, p, mode, acc) ==
    IF stack = <<>> \/ acc.done >= Param(p, "max_entries") THEN acc
    ELSE LET path == Last(stack)
             rest == Front(stack)
             md == Nodes[path]
             \* hash_files counts the files it tries to open, yara_fs_scan those
             \* it read, ioc_sweep every file
             tried == IF mode = "yara" /\ ~md.readable THEN acc.seen ELSE acc.seen + 1
             done == IF md.readable \/ mode = "ioc" THEN acc.done + 1 ELSE acc.done
             report == done > acc.done /\ tried % Every = 0
         IN  IF md.type = "dir"
             THEN Walk(IF path = p.path \/ p.recurse THEN rest \o md.entries ELSE rest, p, mode, acc)
             ELSE IF md.type # "file" \/ md.size > Param(p, "walk_max_size")
             THEN Walk(rest, p, mode, acc)
             ELSE Walk(rest, p, mode,
                       [seen |-> tried, done |-> done,
                        ops |-> IF report THEN Append(acc.ops, Spawn(tried)) ELSE acc.ops])

WalkAs(p, mode) == Walk(<<p.path>>, p, mode, [seen |-> 0, done |-> 0, ops |-> <<>>]).ops
WalkAndHash(p) == WalkAs(p, "hash")
WalkAndYaraScan(p) == WalkAs(p, "yara")
WalkAndIocSweep(p) == WalkAs(p, "ioc")

HashFiles(p) ==
    IF p.path = "" THEN <<Fail>>
    ELSE WalkAndHash(p) \o <<Upload("hash_list", "hash_files.json", "hashes"), Progress>>

\* filter_yara_rules / filter_ioc_rules: an empty filter selects every rule.
RulesFor(p) == IF p.rule_ids = {} THEN p.cached ELSE p.cached \cap p.rule_ids

\* One rule that does not compile fails the scan.
CompileRules(rules) == "bad" \notin rules

YaraFsScan(p) ==
    IF p.path = "" \/ RulesFor(p) = {} THEN <<Fail>>
    ELSE IF ~CompileRules(RulesFor(p)) THEN <<Progress, Fail>>
    ELSE <<Progress, Progress>> \o WalkAndYaraScan(p)
            \o <<Upload("yara_matches", "yara_matches.json", "matches"), Progress>>

IocSweep(p) ==
    IF p.path = "" \/ RulesFor(p) = {} THEN <<Fail>>
    ELSE WalkAndIocSweep(p) \o <<Upload("ioc_matches", "ioc_matches.json", "matches"), Progress>>

\* scan_regions: unreadable, empty and oversized regions are skipped; it stops
\* once the total is reached.
ScanRegions(p) ==
    FoldLeft(LAMBDA acc, size :
                 IF acc.total >= p.max_total \/ size = 0 \/ size > p.max_region THEN acc
                 ELSE [n |-> acc.n + 1, total |-> acc.total + size,
                       ops |-> IF (acc.n + 1) % Every = 0 THEN Append(acc.ops, Spawn(acc.n + 1)) ELSE acc.ops],
             [n |-> 0, total |-> 0, ops |-> <<>>], p.regions)

MemoryYaraScan(p) ==
    IF p.pid = 0 \/ RulesFor(p) = {} THEN <<Fail>>
    ELSE IF ~CompileRules(RulesFor(p)) THEN <<Progress, Fail>>
    ELSE <<Progress, Progress>> \o ScanRegions(p).ops
            \o <<Upload("yara_matches", "memory_yara.json", "matches"), Progress>>

-----------------------------------------------------------------------------
(* triage_collect: one archive within a budget, and a manifest of it.      *)

\* read_file_capped
ReadFileUncapped(path, cap) ==
    IF Nodes[path].type # "file" \/ ~Nodes[path].readable THEN "error" ELSE "ok"

ReadFileCapped(path, cap) ==
    CASE Nodes[path].type # "file" -> "error"
      [] Nodes[path].size > cap -> "exceed"
      [] ~Nodes[path].readable -> "error"
      [] OTHER -> "ok"

AddSource(m, path, max) ==
    LET got == IF m.total >= max THEN "exceed" ELSE ReadFileCapped(path, max - m.total)
    IN  IF got = "ok"
        THEN [m EXCEPT !.files = Append(@, path), !.total = @ + Nodes[path].size]
        ELSE [m EXCEPT !.skipped = Append(@, path), !.truncated = @ \/ got = "exceed"]

\* The output of a command goes in whole as long as the budget is not used up.
AddCommand(m, c, max) ==
    IF m.total >= max
    THEN [m EXCEPT !.skipped = Append(@, c.name), !.truncated = TRUE]
    ELSE [m EXCEPT !.files = Append(@, c.name), !.total = @ + c.size]

\* enumerate_triage_sources: the paths of the categories asked for; a persistence
\* directory stands for the files in it.
TriageSources(p) ==
    FlattenSeq([i \in 1 .. Len(p.sources) |->
        LET s == p.sources[i]
        IN  IF s.category \notin p.include THEN <<>>
            ELSE IF s.category = "persistence" /\ Nodes[s.path].type = "dir"
                 THEN SelectSeq(Nodes[s.path].entries, LAMBDA e : Nodes[e].type \in {"file", "link"})
                 ELSE <<s.path>>])

\* enumerate_triage_commands: the journal and the unit lists, or the text of
\* their failure.
TriageCommands(p) == SelectSeq(p.commands, LAMBDA c : c.category \in p.include)

BuildTriageArchive(p) ==
    LET files == FoldLeft(LAMBDA m, path : AddSource(m, path, p.max), NoManifest, TriageSources(p))
    IN  FoldLeft(LAMBDA m, c : AddCommand(m, c, p.max), files, TriageCommands(p))

TriageCollect(p) == <<Progress, Progress, Upload("diagnostic_bundle", "triage.zip", "archive"), Progress>>

-----------------------------------------------------------------------------
(* The dispatcher.                                                         *)

\* The registered handlers (register_*_handlers, make_sweep_handler).
Supported ==
    {"file_acquire", "crash_dump_collect", "event_log_acquire", "process_memory_dump",
     "triage_collect", "process_snapshot", "network_snapshot", "account_audit",
     "agent_diagnostic", "hash_files", "shell_command", "yara_fs_scan", "ioc_sweep",
     "memory_yara_scan", "host_sweep"}

HandlerOps(kind, p) ==
    CASE kind = "file_acquire" -> FileAcquire(p)
      [] kind = "crash_dump_collect" -> CrashDumpCollect(p)
      [] kind = "event_log_acquire" -> EventLogAcquire(p)
      [] kind = "process_memory_dump" -> ProcessMemoryDump(p)
      [] kind = "triage_collect" -> TriageCollect(p)
      [] kind = "process_snapshot" -> ProcessSnapshot(p)
      [] kind = "network_snapshot" -> NetworkSnapshot(p)
      [] kind = "account_audit" -> AccountAudit(p)
      [] kind = "agent_diagnostic" -> AgentDiagnostic(p)
      [] kind = "hash_files" -> HashFiles(p)
      [] kind = "shell_command" -> ShellCommand(p)
      [] kind = "yara_fs_scan" -> YaraFsScan(p)
      [] kind = "ioc_sweep" -> IocSweep(p)
      [] kind = "memory_yara_scan" -> MemoryYaraScan(p)

\* A dispatch is a block: "started", the effects, and "failed" on an error.
Block(kind, p, sub) == [sub |-> sub, ops |-> <<Progress>> \o HandlerOps(kind, p)]

\* HostSweepHandler.run: one nested dispatch, without parameters, per category that
\* has a handler, on the sweep's own reporter; then the summary.
SweepBlocks(p) ==
    LET wanted == IF p.categories = <<>> THEN p.default_categories ELSE p.categories
        per(k) == <<[sub |-> FALSE, ops |-> <<Progress>>]>>
                  \o IF k = "host_sweep" \/ k \notin Supported THEN <<>> ELSE <<Block(k, <<>>, TRUE)>>
    IN  <<[sub |-> FALSE, ops |-> <<Progress>>]>>
        \o FlattenSeq([i \in 1 .. Len(wanted) |-> per(wanted[i])])
        \o <<[sub |-> FALSE, ops |-> <<Upload("json", "host_sweep_summary.json", "summary"), Progress,
                                      [op |-> "verdict"]>>]>>

Blocks(j) == IF j.kind = "host_sweep" THEN SweepBlocks(j.params) ELSE <<Block(j.kind, j.params, FALSE)>>

-----------------------------------------------------------------------------
(* The worker.                                                             *)

\* The channel is bounded: a send waits for room.
Send(m) == Len(out) < Capacity /\ out' = Append(out, m)
Message(r, type) == [run |-> r, type |-> type]

\* The worker takes the next command; a kind without a handler, or parameters that
\* do not parse, fail without a word from the handler.
RunJob(r) ==
    /\ job = Idle /\ r \in left
    /\ left' = left \ {r}
    /\ job' = IF Jobs[r].kind \notin Supported THEN [st |-> "result", run |-> r, ok |-> FALSE]
              ELSE [st |-> "run", run |-> r, blocks |-> Blocks(Jobs[r]), succeeded |-> 0]
    /\ manifest' = IF Jobs[r].kind = "triage_collect" THEN BuildTriageArchive(Jobs[r].params) ELSE NoManifest
    /\ UNCHANGED <<spawned, out, uploaded, store, rows, status, faults, dropped>>

\* The next effect of the handler in hand.
Ops == job.blocks[1].ops
Op == IF job.st # "run" THEN "none" ELSE IF Ops = <<>> THEN "return" ELSE Ops[1].op
NextOps == [job EXCEPT !.blocks[1].ops = Tail(@)]

\* The handler in hand returns an error: reporter.failed, and a nested dispatch
\* leaves the sweep to go on with its next category.
Failed ==
    /\ Send(Message(job.run, "failed"))
    /\ job' = IF job.blocks[1].sub THEN [job EXCEPT !.blocks = Tail(@)]
              ELSE [st |-> "result", run |-> job.run, ok |-> FALSE]

Emit ==
    /\ Op = "progress"
    /\ Send(Message(job.run, "running"))
    /\ job' = NextOps
    /\ UNCHANGED <<left, spawned, uploaded, store, rows, status, manifest, faults, dropped>>

SpawnReport ==
    /\ Op = "spawn"
    /\ spawned' = spawned \cup {[run |-> job.run, n |-> Ops[1].n]}
    /\ job' = NextOps
    /\ UNCHANGED <<left, out, uploaded, store, rows, status, manifest, faults, dropped>>

\* A spawned task gets to run.
SpawnedSends ==
    /\ \E t \in spawned :
        /\ Send(Message(t.run, "running"))
        /\ spawned' = spawned \ {t}
    /\ UNCHANGED <<left, job, uploaded, store, rows, status, manifest, faults, dropped>>

HandlerFails ==
    /\ Op = "fail" \/ (Op = "verdict" /\ job.succeeded = 0)
    /\ Failed
    /\ UNCHANGED <<left, spawned, uploaded, store, rows, status, manifest, faults, dropped>>

\* A block ends well; the last one ends the job.
HandlerReturns ==
    /\ Op = "return" \/ (Op = "verdict" /\ job.succeeded > 0)
    /\ job' = IF Len(job.blocks) = 1 THEN [st |-> "result", run |-> job.run, ok |-> TRUE]
              ELSE [job EXCEPT !.blocks = Tail(@),
                               !.succeeded = IF job.blocks[1].sub THEN @ + 1 ELSE @]
    /\ UNCHANGED <<left, spawned, out, uploaded, store, rows, status, manifest, faults, dropped>>

SendResult ==
    /\ job.st = "result"
    /\ Send([run |-> job.run, type |-> IF job.ok THEN "succeeded" ELSE "error"])
    /\ job' = Idle
    /\ UNCHANGED <<left, spawned, uploaded, store, rows, status, manifest, faults, dropped>>

-----------------------------------------------------------------------------
(* Uploads.                                                                *)

\* artifact_object_key: the run's directory and the file's name.
ArtifactObjectKey(r, name) == <<r, name>>

\* upload: the grant, the PUT the manager passes to the object store, and the
\* report on the stream.  It fails on a refused grant, a body over the cap or a
\* failed PUT; the object may be stored although the answer is lost.
UploadArtifactSpawned ==
    /\ Op = "upload" /\ Ops[1].size <= UploadMax
    /\ LET u == Ops[1]
           key == ArtifactObjectKey(job.run, u.name)
           told == [run |-> job.run, type |-> "artifact", key |-> key, body |-> u.body]
       IN  /\ store' = (key :> u.body) @@ store
           /\ uploaded' = uploaded \cup {[run |-> job.run, key |-> key, body |-> u.body]}
           /\ Send(told) \/ UNCHANGED out
    /\ job' = NextOps
    /\ UNCHANGED <<left, spawned, rows, status, manifest, faults, dropped>>

UploadArtifact ==
    /\ Op = "upload" /\ Ops[1].size <= UploadMax
    /\ LET u == Ops[1]
           key == ArtifactObjectKey(job.run, u.name)
       IN  /\ store' = (key :> u.body) @@ store
           /\ uploaded' = uploaded \cup {[run |-> job.run, key |-> key, body |-> u.body]}
           /\ Send([run |-> job.run, type |-> "artifact", key |-> key, body |-> u.body])
    /\ job' = NextOps
    /\ UNCHANGED <<left, spawned, rows, status, manifest, faults, dropped>>

UploadFails ==
    /\ Op = "upload"
    /\ \/ Ops[1].size > UploadMax /\ UNCHANGED <<store, faults>>
       \/ /\ Ops[1].size <= UploadMax
          /\ faults < MaxFault /\ faults' = faults + 1
          /\ \/ UNCHANGED store
             \/ store' = (ArtifactObjectKey(job.run, Ops[1].name) :> Ops[1].body) @@ store
    /\ Failed
    /\ UNCHANGED <<left, spawned, uploaded, rows, status, manifest, dropped>>

-----------------------------------------------------------------------------
(* The manager.                                                            *)

\* _handle_job_progress, _handle_job_artifact and the command_result branch.
StatusAfter(m) ==
    CASE m.type = "running" -> "running"
      [] m.type \in {"failed", "error"} -> "failed"
      [] m.type = "succeeded" -> "completed"
      [] m.type = "artifact" -> status[m.run]

Receive ==
    /\ out # <<>>
    /\ LET m == Head(out)
       IN  /\ status' = [status EXCEPT ![m.run] = StatusAfter(m)]
           /\ rows' = IF m.type = "artifact" THEN rows \cup {[run |-> m.run, key |-> m.key, body |-> m.body]}
                      ELSE rows
    /\ out' = Tail(out)
    /\ UNCHANGED <<left, job, spawned, uploaded, store, manifest, faults, dropped>>

\* The stream breaks: what the channel held is gone.
StreamDrops ==
    /\ out # <<>> /\ faults < MaxFault
    /\ out' = <<>> /\ dropped' = TRUE /\ faults' = faults + 1
    /\ UNCHANGED <<left, job, spawned, uploaded, store, rows, status, manifest>>

Next ==
    \/ \E r \in Run : RunJob(r)
    \/ Emit \/ SpawnReport \/ SpawnedSends \/ HandlerFails \/ HandlerReturns \/ SendResult
    \/ UploadArtifact \/ UploadFails \/ Receive \/ StreamDrops

Spec == Init /\ [][Next]_vars

-----------------------------------------------------------------------------
\* The worker runs one of the jobs and the rows belong to runs.
TypeOK ==
    /\ left \subseteq Run
    /\ job # Idle => job.run \in Run
    /\ status \in [Run -> {"dispatched", "running", "failed", "completed"}]
    /\ \A a \in rows \cup uploaded : a.run \in Run /\ a.key \in DOMAIN store

\* A run the manager shows as completed has a row for every artifact its agent
\* uploaded, as the result follows the reports on one stream (unless the stream
\* dropped), and none of them stands for another run's object.
CompletedHasArtifacts ==
    /\ \A r \in Run : status[r] = "completed" /\ ~dropped =>
            {a \in uploaded : a.run = r} \subseteq rows
    /\ \A a, b \in rows : a.key = b.key => a.run = b.run

\* The triage manifest accounts for every source asked for, once, in the archive or
\* among the skipped; it says "truncated" exactly when the budget kept something
\* out; and the collected files alone never exceed the budget.
TriageHonest ==
    manifest # NoManifest =>
        \E r \in Run :
            LET p == Jobs[r].params
                asked == TriageSources(p) \o [i \in 1 .. Len(TriageCommands(p)) |-> TriageCommands(p)[i].name]
                size(f) == IF f \in DOMAIN Nodes THEN Nodes[f].size ELSE 0
                fits(f) == f \in DOMAIN Nodes /\ Nodes[f].type = "file" /\ Nodes[f].readable
            IN  /\ Jobs[r].kind = "triage_collect"
                /\ ToSet(asked) = ToSet(manifest.files) \cup ToSet(manifest.skipped)
                /\ Len(asked) = Len(manifest.files) + Len(manifest.skipped)
                /\ manifest.truncated => \E f \in ToSet(manifest.skipped) : fits(f) \/ f \notin DOMAIN Nodes
                /\ (\E f \in ToSet(manifest.skipped) : fits(f)) => manifest.truncated
                /\ FoldLeft(LAMBDA n, f : n + size(f), 0, manifest.files) <= p.max

-----------------------------------------------------------------------------
(* Claims of the comments and documents that the code does not keep.      *)

\* "These produce real files on the manager (artifacts of kind `file`)": the
\* object an artifact row points to is the one that row describes.
ArtifactBytes == \A a \in rows : store[a.key] = a.body
=============================================================================
