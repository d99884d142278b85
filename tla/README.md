# Vigil: a TLA+ model of the manager and its agents

Vigil is an endpoint detection and response system: agents on Linux and
Windows hosts stream telemetry to a manager (FastAPI, gRPC, Postgres, Kafka,
OpenSearch, Redis) and act on the commands it sends back. This directory models
the places where machines, a database and concurrent tasks have to agree:
connections, commands, jobs and the agent's uplink; the path from raw telemetry
to alerts and incidents; what an alert sets off; and the accounts, credentials
and policies the manager keeps.

## 1. Inventory

The components, the state they keep and what makes them correct. Paths are
below `src/backend/app/` unless they name an agent crate.

| component | source | state | operations | correct if |
|---|---|---|---|---|
| host connection | `grpc/services.py`, `api/hosts.py` | `Host.status`, `last_seen_at`, one handler per stream | open, admit, heartbeat, close, PATCH | status tells the live streams, a decommission sticks |
| command dispatch | `grpc/services.py`, `api/commands.py`, `services/command_notify.py`, `workers/dispatch_watchdog.py` | `commands` rows, NOTIFY events, queues on both sides | queue, cancel, drain, deliver, execute, store, expire | each command ends and its row tells what happened |
| job roll-up | `services/jobs.py`, `api/jobs.py`, `grpc/services.py` | `Job`, `JobRun`, bridging `Command` rows | create, progress, result, roll-up, cancel | the verdict is never early, every lock conflict resolves |
| job execution | `agent-core/src/jobs*.rs`, `api/uploads.py` | the worker's handler, send channel, object store, artifact rows | run, report, upload, finish, nested sweep | a completed run has its artifacts, a manifest lists its archive |
| agent uplink | `agent-core/src/client.rs`, `spool.rs` | channels, numbered files | emit, spool, evict, dial, replay, forward | order of emission, bounded disk use, the client comes back |
| rule distribution | `grpc/services.py`, `api/rules.py` | `rules` rows, watermark, the agent's cache | edit, delete, snapshot, poll, push | connected agents get a new newest edit |
| event pipeline | `workers/normalizer.py`, `indexer.py`, `process_chain_indexer.py`, `siem_forwarder.py` | Kafka positions and offsets, retry buffer, process rows | fetch, send, flush, handle, sweep, commit, restart | an acknowledged event has had its effect |
| alert producers | `workers/detector.py`, `sigma_realtime.py`, `services/alert_dedup.py`, `response.py` | offsets, rule cache, open alerts, commands | fetch, evaluate, probe, emit, index, commit | no match lost, no second row inside the window |
| sequence detector | `services/sequence.py`, `workers/sequence_detector.py` | partial matches, compiled rules | feed, expire, gc, refresh, emit | finds exactly the chains a rule means |
| incident grouping | `services/incident_grouping.py` | incidents, anchors | pass, commit, transition | a burst is split only by its window |
| investigation | `api/alerts.py`, `services/process_graph.py`, `opensearch.py` | documents, process rows | chain, lineage, detail, timeline | a chain is one, however stores lag and pids are reused |
| identity, cloud, intelligence | `workers/identity_monitor.py`, `cloud_iam_monitor.py`, `intel_ingest.py`, `detonation_poller.py` | cursors, baselines, managed rules, indicators | poll, detect, diff, commit, edit | nothing judged twice, indicators are those of the last pull |
| playbooks | `services/playbooks.py`, `workers/playbook_executor.py` | messages, runs, commands | fire, walk, commit, acknowledge | a run and its commands appear together |
| routing, webhooks, live stream, tickets | `workers/alert_router.py`, `services/webhook_dispatcher.py`, `alert_broker.py`, `case_management.py` | marks, failure counts, locks, client queues, links | poll, send, disable, publish, mirror | told once, never passed by, one ticket |
| quarantine, terminal | `workers/quarantine.py`, `api/host_terminal.py`, `services/terminal.py` | copies and rows; sessions, tasks, audit batches | quarantine, release; open, type, flush, close | no forgotten copy; sessions are torn down |
| sign-in, accounts | `api/auth.py`, `users.py`, `tenants.py`, `scim.py` | throttle, factors, sessions; users, tenants, tokens | sign in, enroll, reset; create, edit, delete, provision | guesses are bounded; tenants are apart |
| enrollment, attestation | `services/enrollment.py`, `ca.py`, `attestation.py` | tokens, hosts, authorities, baselines | redeem, sign, commit, report, promote | a token makes one host |
| endpoint policies | `api/allowlist.py`, `dns_block.py`, `device_policies.py`, `agent-linux/src/device_control.rs` | policy rows, queued pushes, the agent's copy | edit, push, apply, learn | an idle agent holds its groups' policies |
| fleet watch | `workers/silence.py`, `sweep_scheduler.py` | alerted hosts, stamps | tick, commit, restart | every silence is alerted on, sweeps keep their distance |
| audit log | `services/audit.py`, `audit_verifier.py` | one HMAC chain per tenant | append, verify | chains never fork, edits show |
| request limits | `core/rate_limit.py` | hits per identity, or counters in Redis | classify, collect, admit, count | no window admits more than the limit |
| hunts | `services/hunt.py`, `api/hunt.py`, `workers/hunt_scheduler.py` | saved hunts, runs, the pass | tick, run, emit, commit; create, edit, delete, run by hand | every minute of a schedule once, results within the actor's tenant and hosts |
| cold archive | `services/archive.py`, `workers/archive_worker.py`, `api/archive.py` | indices, blobs, `archive_job` rows | scroll, store, close, commit; rehydrate | a frozen index has its whole copy |
| not modelled | `PROJECT.json` | | | see section 7 |

How they interact. An agent holds one bidirectional `HostStream`, whose handler
owns four tasks: `_consume_client` reads what the agent sends,
`_command_dispatcher` is woken by a Postgres NOTIFY and drains PENDING rows,
`_rule_resync_dispatcher` polls the rules, `_pinger` sends pongs. Telemetry goes
to Kafka; the normaliser copies it to a second topic that the indexer, the
process-chain indexer, the SIEM forwarder, the two alert producers and the
sequence detector read, each as a consumer group of its own. Producers write
alerts and response commands to Postgres and publish playbook runs; the
grouper, the router and the live-stream broker poll the alert table. REST
handlers, workers and stream tasks share nothing but Postgres rows (READ
COMMITTED; SQLAlchemy writes back by primary key the columns whose value
changed since the session loaded them), Kafka topics, Redis locks and the
outside world. Policies, quarantine and playbooks reach a host as rows of
`commands`.

What is hard here: reads whose result is used after other transactions have
committed; UPDATEs by primary key that ignore what is there; side effects on
the wire (commands, tickets, messages, webhooks) before the commit that records
them; two handlers of one host that overlap; offsets committed past an event
whose handling failed; marks compared with time stamps that become visible
later; state in memory that is ahead of the database; lock order; bounded
channels and buffers; restarts. `PROJECT.json` lists each hazard at its line.

## 2. Modules

One module per component; the comments above its definitions say which function
they stand for, and `PROJECT.json` maps them to lines. A request or a worker's
tick is split where it awaits: what it read is kept in its state until its
commit, which may fail, and other actors commit in between. Variables marked
*history* are read by properties only. Names that begin like another
definition and are introduced as mutants (`EvictLate`, `LockNobody`, ...) are
faulty variants of the definition below them: used in its place they must
violate a property, and are not part of the model.

**HostStream** - one `Host` row and the handlers of its streams over time: row
read and admission, ONLINE commit, entry into the loop, read and commit of the
finally clause. `loaded` is the status its session has read; `OrmWrite` says
what SQLAlchemy then writes. Handlers of one host may overlap; `patched` and
`overrun` (history) name those whose status the operator or another handler's
finally clause has written since they read it. Between the ONLINE commit and the `try` a handler
may vanish without its finally clause (`AbandonOpen`).

**CommandDispatch** - the commands of one host. The drain is one SELECT
followed by `out.put` of the batch (`DrainRead`) and a later commit
(`DrainCommit`), which may fail or be cancelled with the stream. A row is
translated, marked FAILED (`Untranslatable`: the kind has no message) or makes
the translation raise at every drain (`Refused`: say a pid that does not fit its
field), which ends the drain after it has sent what stood before it. A broken
connection is noticed by the agent first (`Disconnect`) and by the manager
later (`CloseStream`). The agent's channel drops when full; its results may be
lost, or be stored through a later stream. The watchdog is its SELECT and its
guarded UPDATE, `cancel_job` its read and its commit.

**JobRollup** - one job. The transaction of a message handler is its
statements; row locks decide who waits, and Postgres breaks a deadlock by
aborting either side. The dispatch of the command is one step here;
CommandDispatch has it in detail. `overtaken` and `outdated` (history) follow a
count from the handler that took it to the commit that makes it stale.

**AgentSpool** - the agent's way out: reconnect loop, send and out channels,
files with a number and a size, eviction, replay, and restarts with files left.

**RuleSync** - the rules table, the dispatcher of one stream and the agent's
cache. A stamp stands for the content of an edit; it is taken at the flush and
visible at the commit.

**AgentJobs** - how a handler of each kind runs: it is the sequence of its
effects (awaited progress, progress from a task nobody awaits, upload, failure),
a function of its parameters and of the file system; the worker performs them
against a bounded channel, uploads that fail and streams that break.

**EventPipeline** - normaliser and one downstream group per behaviour (the
groups share nothing): the indexer's buffer, the process-chain rows and their
retention sweep, or the SIEM forwarder with its cache of destinations.
**AlertPipeline** - the two alert producers, again one per behaviour, since a
rule belongs to one of them. A restart of any consumer resumes at the stored
offset; before a group has stored one it starts at the end of the topic where the
worker says `auto_offset_reset="latest"` (Sigma, process chain, SIEM, sequences,
playbooks, webhooks, quarantine) and at its beginning otherwise, and what is
passed over is recorded. **SequenceDetector** - rule language, evaluator and
worker; `Chains` is the reference definition of a match. **IncidentGrouping**,
**Investigation** - the grouping pass over one host, whose alerts show in the
order of their commits and are sorted by the beginning of their transactions; the
pages built from two stores that lag. **IdentityMonitor**, **CloudMonitor**, **ThreatIntel** - ticks
that poll outside services and commit once, against edits of their sources.

**Playbooks** - messages published ahead of the alert's commit, and the
executor that walks the steps in one transaction. **AlertRouting**,
**AlertStream** - polls by `created_at`, which is stamped before it is visible.
A post may be taken and its answer lost, and is then tried again.
**Webhooks**, **AlertConsole** - rows written back after calls to the outside,
whose answer may not be readable.
**Quarantine**, **Terminal** - the agent's copies against the rows about them;
the three tasks of a WebSocket and the agent's stream around one session object.

**Login**, **Accounts**, **Enrollment**, **EndpointPolicy**, **FleetWatch** -
requests that decide on what they loaded and commit later, workers likewise.
An agent that restarts, or a host that reboots, loses the policies it keeps in
kernel maps and under `/run`, and nothing is pushed on connect.
**RateLimit** - both stores of the request limiter, one per behaviour, against a
clock; a call to Redis takes its time stamp before it is counted, from a clock
that may lead that of Redis. **Hunts** -
cron strings over a calendar of minutes, the scheduler's pass as one transaction
that a refused row loses, and the requests that edit, delete and run hunts
meanwhile; an alert row is in the default tenant, since the code names none.
**Archive** - freezing and rehydrating step by step: a scroll may come back
short, blobs and closed indices stay when the rows of a pass do not, and retention
deletes the rehydrated index too.

**AuditChain**, **AppendLog** - the chained audit log and the abstract log that
only grows; the first implements the second (`AppendOnly` is `Log!Spec` under
the mapping that reads off each tenant's chained rows). An HMAC is the pair it
digests.

**MCDetection, MCResponse, MCEstate** - instances of the components of one area
for TLC. A behaviour chooses a component (`focus`), whose variables are the
registers `v1`, `v2`, ... through `INSTANCE ... WITH`; the state space is the
union of the components'. A property of the pack is the conjunction of the
component properties it names.

**HostStreamProofs, CommandDispatchProofs, JobRollupProofs, AgentSpoolProofs,
AuditChainProofs** - theorems about the module of that name. **DetectionProofs**
(EventPipeline, ThreatIntel, IdentityMonitor), **ResponseProofs** (AlertConsole,
Playbooks, AlertStream, Quarantine, Terminal) and **EstateProofs** (FleetWatch,
Enrollment, Archive, Accounts, Hunts, Login) - theorems about the components the
packs instantiate, each under a name of its own (`Watch`, `Reg`, `Freezer`, ...)
with constants and variables left open. See 5.

## 3. Runs

Runs that pass. Each property is stated in its module with the code behaviour
it is about.

| run | bounds | shows |
|---|---|---|
| `host_stream` | 2 streams that may overlap, 2 fingerprints | `LiveMeansOnline`: reads, skipped columns and the OFFLINE of handlers before and beside combine correctly; only the operator and a late finally clause of another handler hide a live host. `DecommissionEndsStreams`: the heartbeat ends a decommissioned host's stream |
| `command_dispatch` | 3 commands (the oldest of an unsupported kind, the youngest makes the translation raise), 1 stream at a time, batches of 2, channels of 1, 1 failing drain | `SucceededWasExecuted`, `ExpiryKeepsResults`, `PendingIsDrained`, `DispatchedIsCompleted` |
| `job_rollup` | 2 runs, both handlers at once, 1 cancel | `VerdictIsEarned`: a verdict is never early, and missing only after an outdated roll-up (`FollowsUnlessOutdated`); `TransactionsEnd` |
| `agent_spool` | 5 messages, one of double size, channels of 2, budget 3, 3 failures or restarts | `ManagerOrder`; `SpoolSound` (numbers in order, budget kept); `DropsOldest`; `ReplayEnds`: a replay ends if it fits the channel, and otherwise only with a restart |
| `rule_sync` | 2 rules, 3 edits, 2 of them open at once, 1 delete, 2 streams, 1 failing push | `NewestEditIsPushed` |
| `audit_chain` | 2 tenants, 2 users, 2 requests at once, 2 rows, 1 deployment with the key, 1 edit behind the application | `ChainIntact`: no fork while nobody interferes; `TamperEvident`: the verifier reports every edit it can see; `AppendOnly`: the refinement of AppendLog |
| `detection` | per component 2 to 6 events, 1 or 2 faults, 1 to 3 edits | see below |
| `response` | per component 1 or 2 alerts, commands or sessions, 1 or 2 faults, 1 to 3 edits | see below |
| `estate` | per component 1 to 3 hosts, users or tokens, 2 requests at once; windows of 2 in a clock of 4 for the limiter; 3 minutes of 2 ticks for the schedule; 2 indices of 2 pages, 2 passes, 2 faults for the archive | see below |

| run | property | its parts |
|---|---|---|
| `detection` | `NoMatchLost` | AlertPipeline: a match of an acknowledged event is on an alert row, whatever crashes, unless its handling failed and was caught, its host has no tenant, or Sigma's worker restarted before its first commit |
| | `DedupHolds` | AlertPipeline: two rows of a key only after a quiet window or a closing; `RulesFresh`: no alert from rules older than the producer's promise |
| | `SplitOnlyByWindow` | IncidentGrouping: where passes fall between the alerts does not split an incident; a settled incident and an alert that was committed late do |
| | `NoEventLost` | EventPipeline: acknowledged events had their effect at every hop; `ChainRecorded`: so has every process start; `ChainOnce`: one row per process, also when redelivered |
| | `MatchesExactly` | SequenceDetector: the evaluator finds exactly the reference definition's chains |
| | `ChainSound` | Investigation: a page's chain is linked, acyclic and bounded |
| | `MonitorsExact` | IdentityMonitor `JudgedOnce`, CloudMonitor `BaselineExact`: failing ticks neither skip nor repeat |
| | `IndicatorsExact` | ThreatIntel `FullReplace`, `VerdictKnown` |
| `response` | `RunMatchesCommands` | Playbooks: run and commands together; `FireHandled`: no trigger acknowledged without its run, unless its handling raised or the executor restarted before its first commit |
| | `NotifiedOnce` | AlertRouting `MarkPassesNone`, `OncePerChannel` (a lost answer excepted); Webhooks `CountBacked` |
| | `StreamComplete` | AlertStream: the lock drops copies, never the alert |
| | `OneTicket` | AlertConsole: racing requests open one issue; only a rolled back request or an answer that could not be read leaves one behind |
| | `EndpointOnRecord` | AgentJobs `CompletedHasArtifacts`, `TriageHonest`; Quarantine `CopyListed`; Terminal `TornDown` |
| `estate` | `AccessBounded` | Login `ThrottleBound`, `EnabledHasSecret`; Enrollment `TokenBindsOne`, `CertBacked`; RateLimit `WindowExact`, `MinuteBounded`; Hunts `SideEffectsApproved`, `ResultsConfined` |
| | `CopiesTrue` | EndpointPolicy `AgentMirrors`: an agent with an empty queue holds its groups' policies, unless pushes raced, the host moved, a command failed or the agent restarted; Archive `FrozenHasBlob`, `ClosedIsListed`, `RehydratedServes`, partial scrolls and retention excepted |
| | `SchedulesKept` | FleetWatch `SilenceCaught`, `SweepsSpaced`; Hunts `MinuteFired`, `OncePerMinute` |
| | `AccountsGuarded` | Accounts: no step crosses tenants (`TenantIsolation`), and only a race of two requests removes the last administrator (`AdminsVanishByRace`) |

Where a property names an exception (a failed commit, a race, an event whose
failure was caught), the module keeps a history variable for exactly that case,
and section 4 says what happens in it.

Runs that show where the code departs from what the repository says of it
(`PROJECT.json` quotes the lines):

| run | property | what happens |
|---|---|---|
| `job_skew` | `JobFollowsRuns` | the handlers of the last two runs count each other's run as unfinished; the job stays RUNNING |
| `audit_break` | `BreakMeansTampering` | deleting a user sets `user_id` to NULL in rows whose HMAC covers it: a break nobody tampered for |
| `device_kinds` | `KindsSeparate` | all device kinds share one rule file on the agent: the tombstone of one removes the rule of another |

Why the bounds are enough. Every race here is between two transactions, two
handlers, a tick and a request, or a handler and one message, so two streams,
runs, requests or rules reach it; limits are set so low that they bite (a batch
of 1 or 2 against 2 to 4 events or commands, channels and client queues of 1, a retry
buffer of one batch, a window of 1 or 2 in a clock of 2 to 5). The counters that
only bound exploration (`MaxFault`, `MaxEdit`, `MaxTime`, `MaxBreaks`, `MaxRow`,
...) leave room for a failure before, during and after the interesting step.
Two limits of `command_dispatch` are deliberate: with two streams or two
executable commands the liveness check outgrows a run of minutes (and
`MaxResent` keeps a drain that fails each time from filling the queue);
`SucceededWasExecuted` and `ExpiryKeepsResults`, for which overlapping streams
matter, are proved for any number of both. `CHECK_DEADLOCK FALSE` appears where
a system with all its messages, edits or ticks used up has nothing left to do.
Components in a pack are independent: no variable of one is read by another, and
`focus` never changes. FleetWatch rests on a scale: its silence worker completes a
scan in every instant, so ticks are much closer together than the threshold, and
failing ones (`workers/silence.py:86`) do not fill a threshold; a tick whose
commit fails is in the model.

Fairness. Only what the code's own scheduling guarantees: an event loop task
that can run runs, its timers fire (the 30 s fallback, the 2 s poll, the
watchdog's interval, the passing of its timeout), Postgres grants a free lock
or breaks a deadlock, and, for `DecommissionEndsStreams`, the agent's periodic
heartbeat keeps arriving on a live stream. In AgentSpool a stream that does not
break delivers. Nothing is assumed of the operator, of NOTIFY, of the agent's
answers, or of commits and dials succeeding; failures are bounded by a counter,
so that they stop at some point, as a retry loop needs. The packs state safety
only.

## 4. Claims the code does not keep

The last section of a module states what a comment or document says and TLC
refutes. Three of them are runs (above). The others, found the same way and not
kept as runs, since each needs a configuration of its own and repeats one of
the patterns of section 1:

| definition | the repository says | what happens |
|---|---|---|
| HostStream `NoAdmissionAfterDecommission` | `docs/operator-guide.md:191` "rejects every future `HostStream` open" | the aborted stream's finally clause replaces DECOMMISSIONED by OFFLINE |
| HostStream `HeartbeatingHostInScope` | `services/jobs.py:36` "considered online if it's been heartbeating" | an old handler's OFFLINE lands after the new one's ONLINE |
| CommandDispatch `StatusFlow` | `workers/dispatch_watchdog.py:3` "PENDING -> DISPATCHED -> SUCCEEDED / FAILED" | a cancel or result committed between handout and commit is overwritten |
| CommandDispatch `AtMostOnce` | same file, "double-dispatch under flaky network is worse" | a stream that breaks in between leaves the row PENDING |
| CommandDispatch `NoRowBlocksTheQueue` | `grpc/services.py:167` "mark the row as FAILED rather than blocking the queue" | a payload the protobuf refuses makes the translation raise at every drain: its batch, and what is behind it, stays PENDING |
| AgentSpool `EveryReplayEnds` | `agent-core/src/spool.rs:6` "drains in order before live events resume" | a replay of more entries than the channel holds waits for a reader that starts after it |
| RuleSync `EditsReachAgent` | `grpc/services.py:638` | a delete lowers MAX(updated_at); stamps commit out of order |
| AlertPipeline `SigmaReplays`, EventPipeline `SiemReplays`, Playbooks `PlaybookRedelivered` | "the consumer will replay the same message on the next poll" | the consumer's position has moved on; the next commit passes over it |
| AlertPipeline `SigmaRuleFresh` | `_get_rule_fresh` | an edit of severity or action does not change the revision |
| EventPipeline `LongRunningKept` | "Long-running processes are kept regardless" | the sweep deletes by start time |
| SequenceDetector `OneManagedRule`, `OncePerCompletingEvent` | "lazily created on first hit"; "at most once per completing event" | the id is written to a detached row; two partials complete on one event |
| IncidentGrouping `SeverityIsMax` | `models/incident.py` | a pass that extends one incident and opens another raises the last one only |
| Investigation `LeafIsTrigger` | `schemas/alert.py:118` | the chain from OpenSearch is trigger first |
| IdentityMonitor `BurstDetected` | "inside a sliding window" | a burst split over two polls raises nothing |
| CloudMonitor `RootAlertOnce` | "we don't re-replay history" | the mark is an event's time, the listing compares an object's |
| ThreatIntel `NoOrphans`, `OptOutHonoured` | `api/intel.py:205`; "delete the rule to opt out" | overlapping pulls make two rules; the next verdict makes the rule again |
| AlertRouting `EveryAlertRouted` | "For every newly-inserted Alert" | an alert that becomes visible behind the mark is passed by |
| AlertStream `OpenedOnce` | `services/alert_broker.py:243` "exactly one notification per alert" | only the stream is behind the lock, not the event bus |
| AlertConsole `ClosedTerminal`, `SyncNeverBlocks` | "Closed states (FP/TP) are terminal"; "mustn't block the state change" | the transition is checked on a stale row; the links are flushed outside the `try` |
| Webhooks `CleanSlate` | "don't expect a subscription they just re-enabled to instantly auto-disable" | the count is written back from an earlier load |
| AgentJobs `ArtifactBytes` | artifacts are the files acquired | the object key is run and base name: equal names overwrite each other |
| Quarantine `ReleasedAsAsked` | `api/quarantine.py:6` | a release is booked on the newest row of the content |
| Terminal `AuditComplete`, `EitherSideCloses`, `EntryIsActive` | `api/host_terminal.py:12`; `services/terminal.py:119`; "one entry per active terminal session" | chunks that arrive during the write are reset; the end of the agent's stream is not signalled; a last flush that fails skips `broker.close` |
| Accounts `LastAdminKept`, `DisabledTenantShut` | "one through and one bounced"; "no token issued against them validates" | each of two deletions counts the other's user; tokens outlive the disabling |
| Enrollment `SingletonCa`, `StatusComparesLatest` | "Singleton row"; "Latest event matches golden -> ok" | two bootstraps see no row; the verdict is stored with the report |
| EndpointPolicy `LastEntryKept` | `api/allowlist.py:214` | two deletions each count the other's entry |
| Hunts `AlertsStayInTenant` | `tests/test_alert_tenant_routing.py:1` "every alert / incident factory must stamp tenant_id from the originating host's tenant" | the alert of a scheduled hunt names no tenant and gets the default one |
| Hunts `PassNotPoisoned` | `workers/hunt_scheduler.py:103` "one flaky hunt mustn't poison the pass" | a hunt or a host deleted meanwhile makes the database refuse a row; the pass shares one session, and nothing of it is committed |
| Archive `CrashLeavesRow` | `services/archive.py:17` "a crash mid-freeze leaves a ``failed`` row" | rows are committed with the pass; the index stays closed and fails every later pass |
| RateLimit `WithinOne` | `core/rate_limit.py:14` "within ±1 request of the in-memory shape over any 60-second span" | around the turn of a minute twice the limit is admitted |
| FleetWatch `OnePerSilence` | "one alert per silence-window" | the memory is lost with the process |

Seen while modelling, without a property of their own: the manager restarts no
dispatcher task whose LISTEN connection failed (`services/command_notify.py:70`);
the watchdog fails a bridging Command and not its run
(`workers/dispatch_watchdog.py:117`); `drain` removes files before the stream is
up (`client.rs:247`); the webhook dispatcher gives up an event for all when one
secret does not decrypt (`services/webhook_dispatcher.py:241`); an audit row for a
failed second factor is rolled back with its request (`api/auth.py:398`); device
policies: deleting the only policy of a kind queues nothing; a change of group
membership pushes nothing; nothing calls `stage_observation`, and nothing writes
the `RolloutEvent` rows the rollout breaker counts; the index document of an
alert is not written again when a crash falls between commit and index
(`workers/detector.py:93`); with the hunt scheduler's default interval of 60 s
any time a pass takes counts against the next minute, so that schedules skip a
minute now and then (`workers/hunt_scheduler.py:42`, `slow` in Hunts); the answer
to the bulk request of a rehydrate is not looked at (`services/archive.py:250`), nor
`_shards.failed` in that of a scroll (`services/archive.py:85`); the retention
pattern matches the rehydrated index as well (`services/opensearch.py:253`), and its
row stays; nothing pushes policies to an agent that connects with empty maps; a
consumer that starts at the end of the topic skips what it had read before its
group's first commit (the `auto_offset_reset` of section 2); the copy of a released
file stays when its removal fails (`agent-linux/src/command_worker.rs:583`); a
tracker's 2xx answer that cannot be read leaves an issue without a link
(`api/alerts.py:463`).

## 5. Theorems

Proved with TLAPS for every value of the constants that satisfies the named
assumption of the module (`HostStreamAssumption`, `CommandDispatchAssumption`,
`JobRollupAssumption`, `AgentSpoolAssumption`, `AuditChainAssumption`). For the
components that only the packs instantiate the hypotheses are part of the
theorem. They say that marks are not names of things, that times and bounds are
numbers, and in particular:

| hypotheses | of | say |
|---|---|---|
| `FleetConstants` | FleetWatch | the threshold is at least one instant; intervals are numbers |
| `EnrollmentConstants` | Enrollment | NULL is neither host nor authority; a time to live is a number |
| `ArchiveConstants` | Archive | the bounds are numbers |
| `AccountConstants` | Accounts | "none" is no tenant; the installation starts with an administrator of the default tenant |
| `HuntConstants` | Hunts | "none" and "*" are no names; a minute has at least one tick |
| `LoginConstants` | Login | an empty column is no secret |
| `EventConstants` | EventPipeline | what agents sent is a sequence of events |
| `IntelConstants` | ThreatIntel | the marks for no feed and for the sandbox are no feeds; a feed lists finitely many values |
| `IdentityConstants` | IdentityMonitor | times are numbers; sign-ins have ids of their own |
| `ConsoleConstants` | AlertConsole | the marks for a free row and a test issue are no request and no alert |
| `PlaybookConstants` | Playbooks | finitely many playbooks; a body is a sequence of steps |
| `StreamConstants` | AlertStream | finitely many alerts, queue and page hold at least one, each client has its instance |
| `TerminalConstants` | Terminal | times and the bound on messages are numbers |

Quarantine needs none.

| module | theorem | says |
|---|---|---|
| HostStreamProofs | `HostStreamTypes` | type correctness |
| | `LiveStaysOnline` | always `LiveMeansOnline` |
| CommandDispatchProofs | `CommandDispatchTypes` | type correctness |
| | `SuccessIsEarned` | always `SucceededWasExecuted` |
| | `ExpiryIsGuarded` | `ExpiryKeepsResults` |
| JobRollupProofs | `JobRollupTypes` | type correctness with `HasMessage`: an open transaction still has its message |
| | `VerdictsAreEarned` | always `VerdictIsEarned` |
| | `RollupFollows` | always `FollowsUnlessOutdated` |
| AgentSpoolProofs | `SpoolStaysSound` | always `SpoolSound` |
| | `ManagerOrderHolds` | always `ManagerOrder` |
| | `EvictionDropsOldest` | `DropsOldest` |
| AuditChainProofs | `AuditChainTypes` | type correctness |
| | `ChainNeverForks` | always `ChainIntact` |
| | `EditsStayEvident` | always `TamperEvident` |
| | `ImplementsAppendLog` | `AppendOnly`: AuditChain implements AppendLog |
| DetectionProofs | `EventPipelineTypes`, `AcknowledgedHadEffect` | EventPipeline: type correctness, always `NoEventLost` |
| | `ThreatIntelTypes`, `FullReplaceHolds`, `VerdictsKnown` | ThreatIntel: type correctness, always `FullReplace`, `VerdictKnown` |
| | `IdentityMonitorTypes`, `SignInsJudgedOnce` | IdentityMonitor: type correctness, always `JudgedOnce` |
| ResponseProofs | `AlertConsoleTypes`, `OneTicketPerAlert` | AlertConsole: type correctness, always `OneTicket` |
| | `PlaybooksTypes`, `RunsMatchCommands`, `AcknowledgedFireHandled` | Playbooks: type correctness, always `RunMatchesCommands`, `FireHandled` |
| | `AlertStreamTypes`, `StreamIsComplete` | AlertStream: type correctness, always `StreamComplete` |
| | `QuarantineTypes`, `CopyAlwaysListed` | Quarantine: type correctness, always `CopyListed` |
| | `TerminalTypes`, `TerminalsTornDown` | Terminal: type correctness, always `TornDown` |
| EstateProofs | `FleetWatchTypes`, `SilenceIsCaught`, `SweepsAreSpaced` | FleetWatch: type correctness, always `SilenceCaught`, `SweepsSpaced` |
| | `EnrollmentTypes`, `TokenAlwaysBindsOne`, `CertAlwaysBacked` | Enrollment: type correctness, always `TokenBindsOne`, `CertBacked` |
| | `ArchiveTypes`, `FrozenAlwaysHasBlob`, `ClosedAlwaysListed`, `RehydratedAlwaysServes` | Archive: type correctness, always `FrozenHasBlob`, `ClosedIsListed`, `RehydratedServes` |
| | `AccountsTypes`, `TenantsIsolated`, `LastAdminByRaceOnly` | Accounts: type correctness, and for every step `TenantIsolation`, `AdminsVanishByRace` |
| | `HuntsTypes`, `OnceAMinute`, `NoMinuteSkipped`, `SideEffectsAlwaysApproved`, `ResultsAlwaysConfined` | Hunts: type correctness, always `OncePerMinute`, `MinuteFired`, `SideEffectsApproved`, `ResultsConfined` |
| | `SecretAlwaysThere` | Login: always `EnabledHasSecret` |

The arguments.

- `LiveStaysOnline`. `LiveMeansOnline` is not inductive: the commit of ONLINE
  writes nothing if the session loaded ONLINE. `OnlineInv` adds that a handler
  that is about to commit and loaded ONLINE still finds it (`SkipIsSafe`) and that
  after the commit the status is ONLINE (`OnlineCommitted`), both unless the
  operator or another handler's finally clause wrote in between. So handlers may
  begin and commit beside each other as they like; `HeartbeatingHostInScope`
  fails through that finally clause and nothing else.
- `SuccessIsEarned`. The evidence travels: the command being executed has been
  started, and so has every command a result in transit speaks of
  (`SuccessInv`). All other writers of the row write something else.
- `ExpiryIsGuarded` needs no invariant beyond the types: only the watchdog's
  UPDATE empties its selection, and it repeats the guard.
- `VerdictsAreEarned`. `VerdictInv` says what every status rests on, wherever it
  currently is: in the table (`RunsBacked`), flushed in a session
  (`FlushesBacked`), on the wire (`MessagesBacked`), or already counted
  (`CountsBacked`). Since agents never take back that they finished and cancels
  are not undone, a count may be stale when it is written and its verdict is
  still true. So the roll-up race can make the job late, as `job_skew` shows,
  and never early.
- `RollupFollows` shows that the overlap is the only thing that makes it late: a
  count that no other commit has overtaken is a verdict if the tables with the
  handler's own run call for one (`CountIsCurrent`), the job it loaded is the one it will
  replace (`JobIsCurrent`), and so its commit leaves a job that follows its runs.
  Aborted transactions and lost messages take no part in it.
- AgentSpool. A message goes from the send channel to the manager through
  sections that never overtake each other: what the manager has, the out
  channel, the replay list, the message in forward's hand, the spool, the send
  channel, what is still to be emitted. `SpoolInv` says that each section is in
  the order of emission and before the next (`SectionsInOrder`), that file
  numbers follow that order (`SpoolOrder`), also after a restart renumbers, that
  the directory is within its budget, and which sections are empty in which state
  of the reconnect loop (`PhaseInv`). That an eviction ends within the budget
  follows from the definition of what it keeps, at the oldest file kept.
- AuditChain. Two requests that read the same last row would fork a chain. They
  cannot: whoever is past the read holds the tenant's advisory lock (`LockHeld`),
  its rows are numbered after all committed rows of the chain
  (`NewerThanChain`), and chain and rows together are linked (`ChainsLinked`).
  `EditsLeaveTraces` says what a forged or a deleted row leaves behind, which
  nothing that is appended or deleted with a user removes. The refinement maps
  the chained rows, in the order of their numbers, to the log: a commit appends
  the request's rows (`CommitAppends`), an edit is the log's breach
  (`TamperBreaches`), everything else stutters. The assumption only keeps the
  marks `free` and `forged` apart from requests and actions.
- FleetWatch. `SilenceInv` covers the time between two scans: a host the worker
  remembers as alerted on was alerted on in this very silence or was heard from at
  or after the last scan (`Remembered`); any other was not silent then
  (`NotSilent`). The next scan is at most one instant later, so the threshold has
  to be at least one, which the worker guarantees by scanning several times within
  it. `SweepInv` adds that what a tick has read of a host still holds when it
  commits (`SweepPending`).
- Archive. The properties speak of rows, and what makes a row true happened
  steps before it was committed. `PassInv` follows the copy from the scroll to
  the close (`PassOK`), and shows that an index with a copied row is never open
  again, so no two rows copy one index (`OneCopy`). `TaskInv` shows that two
  tasks are at work on one row only if two requests found it frozen (`OneTask`),
  so the index a task makes anew is nobody else's (`TasksServe`).
  What is stored is what the scroll
  brought, so a copy is whole or the index is one of those a scroll was short for
  (`Whole`). `RehydratedServes` names the ways out of the promise: a short copy,
  documents the cluster refused, retention of the rehydrated index, two requests
  for one row; the proof shows that there is no other.
- Enrollment. `TokenBindsOne` rests on what a transaction has read of its token
  staying true until it commits: it holds the row, so nobody else uses, binds or
  revokes it (`Claims`, `OneHolder`). `CertBacked` needs that the authority a
  transaction signs with is committed already or is committed with it
  (`SignedBy`), also when several requests and the server's start each generate a
  key. `EnrollmentConstants` keeps NULL apart from hosts and authorities.

- EventPipeline. `NoEventLost` speaks of the stored offset. `EventInv` says the
  same of the position in memory, with the event in hand excepted: an event behind
  it has had its effect, is in the indexer's buffer, or is the one being sent. A
  commit is reached only when the exception is empty. A restart falls back to the
  stored offset, or, if there is none, jumps to the end of the topic in two of the
  groups; then every event it jumps over is recorded as given up. What the forwarder owes for an event is what its last pass
  over it found, so a pass a crash cut off does not count.
- ThreatIntel. A transaction writes a difference it computed earlier. `IntelInv`
  says that while nobody has changed the feed since it was loaded, the difference
  leads from the rows to what was pulled; a change in between is the recorded race
  that `FullReplace` excepts. A malicious verdict is in the feed, in the
  transaction that will add it, or among what an operator removed.
- IdentityMonitor. `IdentityInv` says that nobody else moves the cursor between
  poll and commit (`PollsOk`), that what was judged lies at or before the cursor
  (`Behind`), and that every alert is of a sign-in that was judged
  (`AlertsBacked`).
- AlertConsole. A second issue for an alert can only be opened by a request that
  has the destination on its list. The list is made while the request holds the
  alert's row, when every issue of the alert is linked, undone (its request was
  rolled back, or the tracker's answer could not be read) or of a deleted
  destination, and until the request ends nobody else opens one.
- Playbooks. The agreement of run and commands is settled while the run is in hand:
  after each step what is queued is what the steps so far call for, branches
  included. Its id is younger than every committed one, so a run that is rolled
  back and done again is never taken for another. A message behind the position has
  been handled or is recorded as passed, also by a restart at the end of the topic.
- AlertStream. A client connected when an alert was committed has stayed so, hence
  its instance has been up. Until the alert's lock is taken, that instance has the
  alert ahead of its mark; who takes the lock publishes to it, or a fault excuses
  the row; what is published waits in the channel, then in the queue.
- Quarantine. `QuarantineInv`: a copy on disk has an event that nothing after it
  takes back (`OnRecord`), and the worker, as far as it has come, has an active row
  for each such event (`Shown`). What would break either is recorded: a lost event, a
  start at the end of the topic, a deleted record, a copy that could not be removed.
- Terminal. An id may be used again, so a close could take out a later session or
  leave its own. `Broker` and `Objects` say that the broker's entry and the open
  object of an id are one and the same at every step. `Books` says that what was
  seen of a direction is on an audit row or still in a batch, which only a finished
  flush and the finally block empty, each after a row of at least one chunk. A
  finally block the database interrupts leaves a `failed` session, which is excepted
  until the agent's stream ends and takes its entry out.
- Accounts. `AccountInv` says what stays true of a request that waits: the id it was
  given is nobody else's (`Reserved`), a user it will change is still of its tenant
  (`OwnTenant`), so are the groups it will give (`OwnGroups`), and if it takes an
  enabled administrator away it has counted another one. So an administrator less
  than one takes two requests that counted each other.
- Hunts. That no minute is skipped is about the past; `HuntInv` says that every
  minute before the one the scheduler works in, or will wake in, is dealt with,
  unless a pass was slow (`Caught`): a pass that is not slow puts the next wake at
  most a minute after it began. That no minute is run twice is `last_run_at`: no
  completed run is later (`RunRows`) and nobody else writes it during a pass
  (`PassOk`). Who may do what rests on the requests in flight: an update that waits
  passed the gate on the row it loaded.
- Login. Stale rows are written over each other column by column. `LoginInv` says
  that the flag is set exactly when there is a secret, in the row, in what every
  request loaded and in what it will write, so a request that changes one of the two
  columns changes both.

Each inductive invariant was also model-checked on a small instance.

Only model-checked, and why:

- the liveness properties (`DecommissionEndsStreams`, `PendingIsDrained`,
  `DispatchedIsCompleted`, `TransactionsEnd`, `ReplayEnds`, `NewestEditIsPushed`):
  fairness and ENABLED are beyond the prover;
- what is computed by recursion or a fold over data, since induction over data is
  beyond it too: AgentJobs' directory walk, AlertPipeline's deduplication,
  IncidentGrouping's pass, EndpointPolicy's `AgentMirrors`, CloudMonitor's judging
  of a page, AlertRouting's sorted batches, the sequence detector's automaton;
- what counts the elements a filter leaves (`SelectSeq`): Login's `ThrottleBound`
  and type correctness, RateLimit, EventPipeline's `ChainOnce` and `ChainRecorded`,
  Webhooks;
- Investigation's `ChainSound`, whose pages are walks over two stores;
- the packs' own properties. They conjoin component properties for one choice of
  constants. Of `IndicatorsExact`, `RunMatchesCommands`, `StreamComplete`,
  `OneTicket`, `SchedulesKept` and `AccountsGuarded` every part is proved for all
  constants; of `NoEventLost`, `MonitorsExact`, `EndpointOnRecord`, `AccessBounded`
  and `CopiesTrue` the parts named above are.

## 6. Plan

Open: EndpointPolicy `AgentMirrors`, which with Archive's theorems would give every
part of `CopiesTrue`, and which needs its folds over policies as functions; Webhooks
`CountBacked` and CloudMonitor `BaselineExact`, once what they filter is counted by a
set; for Enrollment, that an attestation verdict is true to the baseline it was
compared with. Deeper coverage of the agent rollout waits for code that feeds its
breaker.

## 7. Not modelled

Within the modelled components: TLS identity, the per-host token bucket, scope
resolution and host-group visibility of lists, bodies of rules and how an event
matches one, wire formats of sinks and trackers, templates, backoff arithmetic,
cryptography, single-file read and remove failures of the spool, and endpoints
that only read. The components left out are in `PROJECT.json` with their reason:
pure I/O (sensors, exporters, the vulnerability, anomaly and tamper workers), compilation to OpenSearch queries
(Sigma), read-only queries (dashboards), external services (AI, rule packs), the
rollout breaker, which has no input in this source, and the web console.
