--------------------------- MODULE AlertPipeline ---------------------------
(***************************************************************************)
(* The two alert producers (workers/detector.py for IOC rules and          *)
(* workers/sigma_realtime.py for Sigma rules), which read the same topic   *)
(* of normalized events, deduplicate against open alerts and queue         *)
(* response commands; and the analysts' POST /api/alerts/<id>/state.       *)
(*                                                                         *)
(* A producer holds one Kafka consumer: getone() advances its in-memory    *)
(* position, commit() writes that position to the broker, a restart goes   *)
(* back to the committed one.  A group that has committed nothing starts   *)
(* at the first event (detector, "earliest") or at the end of the topic    *)
(* (sigma_realtime, "latest").  A rule belongs to one producer, so the two  *)
(* share no dedup key and no alert row: a behaviour follows one of them.   *)
(***************************************************************************)
EXTENDS Naturals, Sequences, SequencesExt, FiniteSetsExt

CONSTANTS
    Log,            \* the topic: what each event carries, see EventType
    Key,            \* dedup keys: rule, host, canonical signal
    Action,         \* effective action of the rules that match
    AutoMemoryScan, \* Rule.auto_memory_scan
    Analysts,       \* requests changing an alert's state
    DedupWindow,    \* alert_dedup_window_s
    RefreshSeconds, \* DetectorState.REFRESH_SECONDS
    MaxTime,        \* bound: clock
    MaxFault,       \* bound: crashes and failed calls
    MaxEdit         \* bound: rule edits

Idle == [st |-> "idle"]

\* An event: the keys of its matches in order, and the ECS fields that decide
\* which commands can be built.
EventType ==
    [matches : Seq(Key), ecs : SUBSET {"pid", "exe", "file", "detonated"}]

AlertState == {"new", "investigating", "false_positive", "true_positive"}
Closed == {"false_positive", "true_positive"}

ALERT_STATE_TRANSITIONS(s) == IF s \in Closed THEN {} ELSE AlertState \ {s}

VARIABLES
    engine,     \* the producer: "detector" or "sigma"
    now,        \* clock
    edits,      \* the edits of the rules: when, and whether the body changed
    position,   \* events the consumer has fetched
    committed,  \* offset committed to the broker
    phase,      \* where the worker stands with the event in hand
    cached,     \* the rules it holds: their revision, the edits they reflect, when read
    tx,         \* the alert rows as its transaction sees them, and the
                \* uids of those it inserted
    alerts,     \* committed rows, oldest first
    docs,       \* uids of the alert documents in OpenSearch
    commands,   \* committed response commands: <<uid, kinds>>
    fired,      \* uids of the alerts published to playbook.runs
    uid,        \* source of alert ids
    analyst,    \* analyst[a]: the request in flight
    failed,     \* history: offsets of the events whose matches were given up: a
                \* call failed and was caught, or their host could not be resolved
    skipped,    \* history: offsets passed over by a start at the end of the topic
    faults      \* crashes and failed calls so far

vars == <<engine, now, edits, position, committed, phase, cached, tx, alerts, docs, commands,
          fired, uid, analyst, failed, skipped, faults>>
consumer == <<position, committed, cached, tx, uid>>
store == <<alerts, docs, commands, fired>>
env == <<engine, now, edits, analyst>>
past == <<failed, skipped>>

NoRules == [revision |-> 0, seen |-> 0, loaded |-> 0, ok |-> FALSE]

NoTx == [rows |-> <<>>, created |-> {}]

Init ==
    /\ engine \in {"detector", "sigma"}
    /\ now = 0 /\ edits = <<>>
    /\ position = 0 /\ committed = position
    /\ phase = "idle"
    /\ cached = NoRules
    /\ tx = NoTx
    /\ alerts = <<>>
    /\ docs = {} /\ commands = <<>> /\ fired = {} /\ uid = 0
    /\ analyst = [a \in Analysts |-> Idle]
    /\ failed = {} /\ skipped = {} /\ faults = 0

Event == Log[position]

\* evaluate, percolate: the rules the event matches, by their dedup key.
Evaluate(e) == e.matches

Goto(p) == phase' = p

Fault == faults < MaxFault /\ faults' = faults + 1

-----------------------------------------------------------------------------
\* Mutant of OpenDupes: an alert under investigation is not found.
OpenDupesNewOnly(rows, k) ==
    {i \in DOMAIN rows : rows[i].key = k /\ rows[i].last + DedupWindow > now /\ rows[i].state = "new"}

\* find_open_dupe: the open rows of key k inside the window.
OpenDupes(rows, k) ==
    {i \in DOMAIN rows : rows[i].key = k /\ rows[i].last + DedupWindow > now
                         /\ rows[i].state \notin Closed}

\* ... of which the most recently occurred one is taken.
Latest(rows, S) == CHOOSE i \in S : \A j \in S : rows[j].last <= rows[i].last

\* _matched_hash_is_detonation_ioc raises the action to quarantine.
Effective(ecs) == IF "detonated" \in ecs THEN "quarantine" ELSE Action

\* _pick_block_pattern: the process before the file, nothing without either.
BlockPattern(ecs) ==
    IF "exe" \in ecs THEN {"block_process"} ELSE IF "file" \in ecs THEN {"block_file"} ELSE {}

\* _queue_memory_yara_job, for a rule with auto_memory_scan and a known pid.
MemoryScan(ecs) == IF AutoMemoryScan /\ "pid" \in ecs THEN {"run_job"} ELSE {}

\* queue_command_for_match: the kinds of command an event leads to.
CommandsFor(ecs) ==
    LET kill == IF "pid" \in ecs THEN {"kill_process"} ELSE {}
        move == IF Effective(ecs) = "quarantine" /\ "file" \in ecs THEN {"quarantine_file"} ELSE {}
    IN  MemoryScan(ecs)
        \cup IF Effective(ecs) = "alert" THEN {} ELSE kill \cup BlockPattern(ecs) \cup move

\* One iteration of emit_alerts: bump the open duplicate or insert a row.
EmitMatch(acc, k, seen) ==
    LET dupes == OpenDupes(acc.rows, k)
        row == [uid |-> acc.next, key |-> k, state |-> "new", count |-> 1, last |-> now,
                opened |-> now, seen |-> seen, closings |-> 0]
    IN  IF dupes # {}
        THEN LET i == Latest(acc.rows, dupes)
             IN  [acc EXCEPT !.rows[i].count = @ + 1, !.rows[i].last = now]
        ELSE [rows |-> Append(acc.rows, row), next |-> acc.next + 1]

\* getone(); an event without a match goes straight to the commit.
Fetch ==
    /\ phase = "idle" /\ position < Len(Log)
    /\ position' = position + 1
    /\ Goto(IF Evaluate(Log[position + 1]) = <<>> THEN "ack" ELSE "fetched")
    /\ UNCHANGED <<env, store, committed, cached, tx, uid, past, faults>>

\* Rule.revision: update_rule increments it for a new body or new indicators,
\* not for a new severity or action.
Revision == Len(SelectSeq(edits, LAMBDA e : e.body))

\* Mutant of Stale: rules are read once and kept.
StaleNever == ~cached.ok

\* The rules are read again: by the detector when its snapshot is older than
\* REFRESH_SECONDS, by sigma_realtime whenever the row's revision moved.
Stale ==
    \/ ~cached.ok
    \/ engine = "detector" /\ now > cached.loaded + RefreshSeconds
    \/ engine = "sigma" /\ cached.revision # Revision

\* IocSnapshot.load, _refresh_rule_cache.
LoadRules == [revision |-> Revision, seen |-> Len(edits), loaded |-> now, ok |-> TRUE]

\* _fire_matching_playbooks: best effort, and ahead of the commit.
FirePlaybooks(new) == \E sent \in SUBSET new : fired' = fired \cup sent

\* evaluate and emit_alerts: rows are probed, bumped or inserted, matching
\* playbooks published; nothing is committed.
Emit ==
    LET rules == IF Stale THEN LoadRules ELSE cached
        acc == FoldLeft(LAMBDA s, k : EmitMatch(s, k, rules.seen),
                        [rows |-> alerts, next |-> uid], Evaluate(Event))
        new == uid .. (acc.next - 1)
    IN  /\ phase = "fetched"
        /\ cached' = rules
        /\ tx' = [rows |-> acc.rows, created |-> new]
        /\ uid' = acc.next
        /\ FirePlaybooks(new)
        /\ Goto(IF engine = "detector" THEN "commit" ELSE "index")
        /\ UNCHANGED <<env, position, committed, alerts, docs, commands, past, faults>>

\* The evaluation raises: the detector carries on with no match, sigma_realtime
\* goes on to the next event without committing.
EvaluateFails ==
    /\ phase = "fetched" /\ Fault
    /\ Goto(IF engine = "detector" THEN "ack" ELSE "idle")
    /\ failed' = failed \cup {position}
    /\ UNCHANGED <<env, store, consumer, skipped>>

\* resolve_alert_tenant_id finds no tenant, in the event or for its host, or
\* the event names no host: its matches are dropped and its offset committed.
TenantLookupMiss ==
    /\ phase = "fetched" /\ Fault /\ Goto("ack")
    /\ failed' = failed \cup {position}
    /\ UNCHANGED <<env, store, consumer, skipped>>

\* The rows for which emit_alerts called queue_command_for_match.
Queued == tx.created

\* db.commit(): the columns the producer wrote, the new rows and their commands.
CommitTx ==
    /\ phase = "commit"
    /\ alerts' = [i \in DOMAIN tx.rows |->
                    IF i \in DOMAIN alerts
                    THEN [alerts[i] EXCEPT !.count = tx.rows[i].count, !.last = tx.rows[i].last]
                    ELSE tx.rows[i]]
    /\ commands' = commands \o SetToSeq({<<u, CommandsFor(Event.ecs)>> : u \in Queued})
    /\ Goto(IF engine = "detector" THEN "index" ELSE "ack")
    /\ UNCHANGED <<env, consumer, docs, fired, past, faults>>

\* The documents of the new alerts are indexed: by the detector after its
\* commit, by sigma_realtime before it.
Index ==
    /\ phase = "index"
    /\ docs' = docs \cup tx.created
    /\ Goto(IF engine = "detector" THEN "ack" ELSE "commit")
    /\ UNCHANGED <<env, consumer, alerts, commands, fired, past, faults>>

\* AlertIndexError: some documents are in, the transaction is rolled back and
\* the loop goes on without committing the offset.
IndexFails ==
    /\ engine = "sigma" /\ phase = "index" /\ tx.created # {} /\ Fault
    /\ \E part \in SUBSET tx.created : part # tx.created /\ docs' = docs \cup part
    /\ failed' = failed \cup {position}
    /\ Goto("idle")
    /\ UNCHANGED <<env, consumer, alerts, commands, fired, skipped>>

\* consumer.commit(): everything fetched so far.
Ack ==
    /\ phase = "ack" /\ Goto("idle")
    /\ committed' = position
    /\ UNCHANGED <<env, store, position, cached, tx, uid, past, faults>>

\* Mutant of Restart: auto-commit, the offset of the event in hand is committed.
RestartAtPosition ==
    /\ Fault /\ phase # "idle" /\ Goto("idle")
    /\ cached' = NoRules
    /\ committed' = position
    /\ UNCHANGED <<env, store, position, tx, uid, past>>

\* Where a new consumer starts: at the committed offset, or where
\* auto_offset_reset says if there is none.  The end of the topic lies at or
\* behind the last event fetched.
Resume ==
    IF committed = 0 /\ engine = "sigma" THEN position .. Len(Log) ELSE {committed}

\* The process dies (every exception the loop does not catch included), its
\* transaction with it; a new one starts.
Restart ==
    /\ Fault /\ Goto("idle")
    /\ position' \in Resume
    /\ skipped' = skipped \cup (committed + 1 .. position')
    /\ cached' = NoRules
    /\ UNCHANGED <<env, store, committed, tx, uid, failed>>

-----------------------------------------------------------------------------
\* change_state up to its commit: the row is read, the transition checked.
LoadAlert(a, i, to) ==
    /\ analyst[a].st = "idle"
    /\ to \in ALERT_STATE_TRANSITIONS(alerts[i].state)
    /\ analyst' = [analyst EXCEPT ![a] = [st |-> "loaded", i |-> i, to |-> to]]
    /\ UNCHANGED <<engine, now, edits, consumer, phase, store, past, faults>>

\* The commit at the end of the request.  The slot takes no other request.
CommitState(a) ==
    LET req == analyst[a]
    IN  /\ analyst[a].st = "loaded"
        /\ alerts' = [alerts EXCEPT ![req.i].state = req.to,
                                    ![req.i].closings = IF req.to \in Closed THEN @ + 1 ELSE @]
        /\ analyst' = [analyst EXCEPT ![a] = [st |-> "done"]]
        /\ UNCHANGED <<engine, now, edits, consumer, phase, docs, commands, fired, past, faults>>

\* PATCH /api/rules/<id>.
EditRule(body) ==
    /\ Len(edits) < MaxEdit /\ edits' = Append(edits, [at |-> now, body |-> body])
    /\ UNCHANGED <<engine, now, consumer, phase, store, analyst, past, faults>>

Tick ==
    /\ now < MaxTime /\ now' = now + 1
    /\ UNCHANGED <<engine, edits, consumer, phase, store, analyst, past, faults>>

Step == Fetch \/ Emit \/ CommitTx \/ Index \/ Ack

Next ==
    \/ Step \/ EvaluateFails \/ TenantLookupMiss \/ IndexFails \/ Restart
    \/ \E a \in Analysts, i \in DOMAIN alerts, to \in AlertState : LoadAlert(a, i, to)
    \/ \E a \in Analysts : CommitState(a)
    \/ \E body \in BOOLEAN : EditRule(body)
    \/ Tick

Spec == Init /\ [][Next]_vars

-----------------------------------------------------------------------------
AlertRow ==
    [uid : Nat, key : Key, state : AlertState, count : Nat \ {0}, last : 0 .. MaxTime,
     opened : 0 .. MaxTime, seen : 0 .. MaxEdit, closings : Nat]

TypeOK ==
    /\ Range(Log) \subseteq EventType
    /\ committed <= position /\ position <= Len(Log)
    /\ Range(alerts) \subseteq AlertRow
    /\ phase \in {"idle", "fetched", "index", "commit", "ack"}

Matches(k, n) == Len(SelectSeq(Evaluate(Log[n]), LAMBDA m : m = k))

\* Whatever crashes and redeliveries happen, a match of an event whose offset
\* is committed is counted on an alert row (detector: the offset is committed
\* after the database), unless the event was given up, or passed over by a
\* restart of sigma_realtime before its group's first commit.
NoMatchLost ==
    \A k \in Key :
        MapThenSumSet(LAMBDA n : Matches(k, n), (1 .. committed) \ (failed \cup skipped))
        <= MapThenSumSet(LAMBDA i : IF alerts[i].key = k THEN alerts[i].count ELSE 0,
                         DOMAIN alerts)

\* Two rows of one key stand side by side only if the older had gone quiet for
\* the whole window, or an analyst had closed it.
DedupHolds ==
    \A i, j \in DOMAIN alerts :
        i < j /\ alerts[i].key = alerts[j].key
        => \/ alerts[j].opened >= alerts[i].last + DedupWindow
           \/ alerts[i].closings > 0

\* Edits no alert opened at time t may ignore: for the detector those older
\* than its refresh period, for sigma_realtime those of a rule's body.
Binding(n, t) ==
    IF engine = "detector" THEN edits[n].at + RefreshSeconds < t
    ELSE edits[n].body /\ edits[n].at < t

\* An alert is never built from rules that a binding edit had replaced before
\* it was opened (DetectorState.get, _get_rule_fresh).
RulesFresh ==
    \A i \in DOMAIN alerts, n \in DOMAIN edits :
        Binding(n, alerts[i].opened) => n <= alerts[i].seen

-----------------------------------------------------------------------------
(* Claims of the comments and documents that the code does not keep.      *)

\* _get_rule_fresh, whose comment has "a rule edited from low to critical kept
\* emitting low alerts" as the fault it removes: no alert of sigma_realtime is
\* built from a rule as it was before an earlier edit.
SigmaRuleFresh ==
    engine = "sigma" =>
    \A i \in DOMAIN alerts, n \in DOMAIN edits :
        edits[n].at < alerts[i].opened => n <= alerts[i].seen

\* workers/sigma_realtime.py on a failed call: the offset stays where it is and
\* "the consumer will replay the same message on the next poll".
SigmaReplays ==
    engine = "sigma" =>
    \A k \in Key :
        MapThenSumSet(LAMBDA n : Matches(k, n), 1 .. committed)
        <= MapThenSumSet(LAMBDA i : IF alerts[i].key = k THEN alerts[i].count ELSE 0,
                         DOMAIN alerts)
=============================================================================
