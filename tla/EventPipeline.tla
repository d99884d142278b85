--------------------------- MODULE EventPipeline ---------------------------
(***************************************************************************)
(* The telemetry path behind the ingest: the normalizer copies             *)
(* telemetry.raw to telemetry.normalized, and a consumer group reads that  *)
(* topic: the indexer (bulk writes to OpenSearch), the process-chain       *)
(* indexer (rows of process_chain in Postgres) or the SIEM forwarder.  The *)
(* groups share nothing, so a behaviour follows one of them.               *)
(*                                                                         *)
(* Every worker disables auto-commit: getone() advances the position in    *)
(* memory, commit() stores it, a restart returns to the stored one, or, in *)
(* the groups that say "latest", to the end of the topic if there is none. *)
(***************************************************************************)
EXTENDS Naturals, Sequences, SequencesExt, FiniteSetsExt

CONSTANTS
    Raw,        \* telemetry.raw: a sequence of RawEvent
    Pid,        \* process ids
    BatchSize,  \* BATCH_SIZE of the indexer
    RetryCap,   \* its retry buffer: BATCH_SIZE * 10 in the code
    Dest,       \* SIEM destinations
    Rotated,    \* those whose stored config no longer decrypts
    Retention,  \* VIGIL_PROCESS_CHAIN_RETENTION_DAYS
    MaxTime,    \* bound: clock
    MaxFault,   \* bound: crashes and failed calls
    MaxToggle   \* bound: operator edits of a destination

Payload == {"process", "file", "auth", "undecodable"}

RawEvent == [payload : Payload, action : {"process_started", "process_exited", "other"},
             pid : Pid, parent : Pid \cup {0}, at : Nat]

VARIABLES
    group,      \* the downstream consumer group followed: "indexer", "chain" or "siem"
    now,        \* clock
    topic,      \* telemetry.normalized: documents, each with the offset of its raw event
    position,   \* position[w]: events worker w has fetched
    committed,  \* committed[w]: its stored offset
    phase,      \* phase[w]: where its loop stands
    buffered,   \* indexer: offsets waiting for a bulk write
    docs,       \* offsets of normalized events in the telemetry index
    rows,       \* process_chain: its rows in order of insertion
    enabled,    \* siem_destinations: enabled rows
    cached,     \* forwarder: destinations in its cache
    todo,       \* forwarder: destinations left for the event in hand
    failing,    \* forwarder: a send of the event in hand failed
    errors,     \* destinations with error_count > 0
    sent,       \* <<offset, destination>> delivered
    owed,       \* history: <<offset, destination>> of the last pass over each event
    givenup,    \* history: <<worker, offset>> of a failure the loop caught and passed over,
                \* or of an event a start at the end of the topic left behind
    faults, toggles

norm == <<topic, docs, buffered>>
siem == <<enabled, cached, todo, failing, errors, sent, owed, toggles>>
vars == <<group, now, norm, position, committed, phase, rows, siem, givenup, faults>>

Worker == {"normalizer", group}

Init ==
    /\ group \in {"indexer", "chain", "siem"}
    /\ now = 0 /\ topic = <<>> /\ buffered = <<>> /\ docs = {} /\ rows = <<>>
    /\ position = [w \in Worker |-> 0] /\ committed = [w \in Worker |-> 0]
    /\ phase = [w \in Worker |-> "idle"]
    /\ enabled = Dest /\ cached = Dest /\ todo = {} /\ failing = FALSE
    /\ errors = {} /\ sent = {} /\ owed = {} /\ givenup = {} /\ faults = 0 /\ toggles = 0

Goto(w, p) == phase' = [phase EXCEPT ![w] = p]

Fault == faults < MaxFault /\ faults' = faults + 1

\* getone()
GetOne(w) == position' = [position EXCEPT ![w] = @ + 1]

GiveUp(w) == givenup' = givenup \cup {<<w, position[w]>>}

\* consumer.commit(): everything fetched so far.
Commit(w) ==
    /\ phase[w] = "commit" /\ Goto(w, "idle")
    /\ committed' = [committed EXCEPT ![w] = position[w]]
    /\ UNCHANGED <<group, now, norm, position, rows, siem, givenup, faults>>

\* auto_offset_reset="latest" applies: the group has never stored an offset (a
\* commit follows a getone(), so a stored one is above 0).
AtEnd(w) == w \in {"chain", "siem"} /\ committed[w] = 0

\* The process dies and starts again from the stored offset, or at the end of the
\* topic; what it held in memory is gone.
Restart(w) ==
    /\ Fault /\ Goto(w, "idle")
    /\ position' = [position EXCEPT ![w] = IF AtEnd(w) THEN Len(topic) ELSE committed[w]]
    /\ givenup' = givenup \cup {<<w, n>> : n \in {m \in 1 .. Len(topic) : AtEnd(w) /\ m >= position[w]}}
    /\ buffered' = IF w = "indexer" THEN <<>> ELSE buffered
    /\ cached' = IF w = "siem" THEN enabled ELSE cached
    /\ todo' = IF w = "siem" THEN {} ELSE todo
    /\ failing' = IF w = "siem" THEN FALSE ELSE failing
    /\ UNCHANGED <<group, now, topic, docs, committed, rows, enabled, errors, sent, owed, toggles>>

-----------------------------------------------------------------------------
\* to_ecs: every payload with a process carries its pid up to process.pid, the
\* parent comes with process events only and 0 is pruned like any empty value.
ToEcs(n) ==
    LET e == Raw[n]
    IN  [raw |-> n, action |-> e.action, at |-> e.at,
         pid |-> IF e.payload \in {"process", "file"} THEN {e.pid} ELSE {},
         parent |-> IF e.payload = "process" THEN {e.parent} \ {0} ELSE {}]

\* A message that does not decode is skipped: its offset is committed.
NormalizerFetch ==
    /\ phase["normalizer"] = "idle" /\ position["normalizer"] < Len(Raw)
    /\ GetOne("normalizer")
    /\ LET bad == Raw[position["normalizer"] + 1].payload = "undecodable"
       IN  Goto("normalizer", IF bad THEN "commit" ELSE "send")
    /\ UNCHANGED <<group, now, norm, committed, rows, siem, givenup, faults>>

\* send_and_wait to telemetry.normalized.
NormalizerSend ==
    /\ phase["normalizer"] = "send" /\ Goto("normalizer", "commit")
    /\ topic' = Append(topic, ToEcs(position["normalizer"]))
    /\ UNCHANGED <<group, now, docs, buffered, position, committed, rows, siem, givenup, faults>>

\* The send raises: logged, and the loop reads on without a commit.
NormalizerSendFails ==
    /\ phase["normalizer"] = "send" /\ Fault /\ Goto("normalizer", "idle")
    /\ GiveUp("normalizer")
    /\ UNCHANGED <<group, now, norm, position, committed, rows, siem>>

-----------------------------------------------------------------------------
\* One message into the buffer; a flush follows when the batch is full or
\* BATCH_LINGER_S has passed since the last one.
IndexerFetch ==
    /\ phase[group] = "idle" /\ group = "indexer" /\ position[group] < Len(topic)
    /\ GetOne(group)
    /\ buffered' = Append(buffered, position[group] + 1)
    /\ \E lingered \in BOOLEAN :
           Goto(group, IF lingered \/ Len(buffered) + 1 >= BatchSize THEN "flush" ELSE "idle")
    /\ UNCHANGED <<group, now, topic, docs, committed, rows, siem, givenup, faults>>

\* getone() times out with something in the buffer.
IndexerTimeout ==
    /\ group = "indexer" /\ phase[group] = "idle" /\ buffered # <<>> /\ Goto(group, "flush")
    /\ UNCHANGED <<group, now, norm, position, committed, rows, siem, givenup, faults>>

\* flush: the bulk write succeeds.
Flush ==
    /\ group = "indexer" /\ phase[group] = "flush" /\ Goto(group, "commit")
    /\ docs' = docs \cup Range(buffered) /\ buffered' = <<>>
    /\ UNCHANGED <<group, now, topic, position, committed, rows, siem, givenup, faults>>

\* Mutant of FlushFails: the batch is cleared and its offset committed.
FlushFailsClears ==
    /\ group = "indexer" /\ phase[group] = "flush" /\ Fault
    /\ buffered' = <<>> /\ Goto(group, "commit") /\ docs' = docs
    /\ UNCHANGED <<group, now, topic, position, committed, rows, siem, givenup>>

\* The bulk write raises: batch and offset stay for the next flush, unless the
\* buffer is at its cap: then the older half is dropped and everything fetched
\* is committed, the half that is kept included.
FlushFails ==
    /\ group = "indexer" /\ phase[group] = "flush" /\ Fault
    /\ \E part \in SUBSET Range(buffered) : docs' = docs \cup part
    /\ IF Len(buffered) >= RetryCap
       THEN /\ buffered' = SubSeq(buffered, Len(buffered) \div 2 + 1, Len(buffered))
            /\ givenup' = givenup \cup {<<group, n>> : n \in Range(buffered)}
            /\ Goto(group, "commit")
       ELSE UNCHANGED <<buffered, givenup>> /\ Goto(group, "idle")
    /\ UNCHANGED <<group, now, topic, position, committed, rows, siem>>

-----------------------------------------------------------------------------
ChainFetch ==
    /\ group = "chain" /\ phase[group] = "idle" /\ position[group] < Len(topic)
    /\ GetOne(group) /\ Goto(group, "handle")
    /\ UNCHANGED <<group, now, norm, committed, rows, siem, givenup, faults>>

\* Mutant of HandleProcessStarted: a plain INSERT.
InsertAlways(d) ==
    Append(rows, [pid |-> d.pid, parent |-> d.parent, started |-> d.at, ended |-> 0, raw |-> d.raw])

\* INSERT ... ON CONFLICT (host_id, pid, started_at) DO NOTHING.
HandleProcessStarted(d) ==
    LET row == [pid |-> d.pid, parent |-> d.parent, started |-> d.at, ended |-> 0, raw |-> d.raw]
    IN  IF \E r \in Range(rows) : r.pid = d.pid /\ r.started = d.at THEN rows ELSE Append(rows, row)

\* The latest open row of the pid gets its end (0: still running).
HandleProcessExited(d) ==
    LET open == {i \in DOMAIN rows : rows[i].pid = d.pid /\ rows[i].ended = 0}
        last == CHOOSE i \in open : \A j \in open : rows[j].started <= rows[i].started
    IN  IF open = {} THEN rows ELSE [rows EXCEPT ![last].ended = d.at]

\* handle_doc and the database commit.
ChainHandle ==
    LET d == topic[position[group]]
    IN  /\ group = "chain" /\ phase[group] = "handle" /\ Goto(group, "commit")
        /\ rows' = CASE d.pid = {} -> rows
                     [] d.action = "process_started" /\ d.pid # {} -> HandleProcessStarted(d)
                     [] d.action = "process_exited" /\ d.pid # {} -> HandleProcessExited(d)
                     [] OTHER -> rows
        /\ UNCHANGED <<group, now, norm, position, committed, siem, givenup, faults>>

\* It raises: logged, and the offset is committed all the same.
ChainHandleFails ==
    /\ group = "chain" /\ phase[group] = "handle" /\ Fault /\ Goto(group, "commit")
    /\ GiveUp(group)
    /\ UNCHANGED <<group, now, norm, position, committed, rows, siem>>

\* _sweep_retention: rows started before the cutoff are deleted.
SweepRetention ==
    LET old(r) == r.started + Retention < now
    IN  /\ group = "chain" /\ \E r \in Range(rows) : old(r)
        /\ rows' = SelectSeq(rows, LAMBDA r : ~old(r))
        /\ UNCHANGED <<group, now, norm, position, committed, phase, siem, givenup, faults>>

-----------------------------------------------------------------------------
\* _refresh_destinations, at the top of the loop once CACHE_REFRESH_S are over.
SiemRefresh ==
    /\ group = "siem" /\ phase[group] = "idle" /\ cached # enabled /\ cached' = enabled
    /\ UNCHANGED <<group, now, norm, position, committed, phase, rows, enabled, todo, failing,
                   errors, sent, owed, toggles, givenup, faults>>

\* _dispatch begins: one pass over the cached destinations.
SiemFetch ==
    /\ group = "siem" /\ phase[group] = "idle" /\ position[group] < Len(topic)
    /\ GetOne(group) /\ Goto(group, "dispatch")
    /\ todo' = cached /\ failing' = FALSE
    /\ owed' = {p \in owed : p[1] # position[group] + 1}
               \cup {<<position[group] + 1, d>> : d \in cached \ Rotated}
    /\ UNCHANGED <<group, now, norm, committed, rows, enabled, cached, errors, sent, toggles, givenup, faults>>

\* send_for_kind and _record_send.
SiemSend(d) ==
    /\ group = "siem" /\ phase[group] = "dispatch" /\ d \in todo \ Rotated
    /\ todo' = todo \ {d}
    /\ sent' = sent \cup {<<position[group], d>>} /\ errors' = errors \ {d}
    /\ UNCHANGED <<group, now, norm, position, committed, phase, rows, enabled, cached, failing,
                   owed, toggles, givenup, faults>>

\* SendError (or any other exception) and _record_error.
SiemSendFails(d) ==
    /\ group = "siem" /\ phase[group] = "dispatch" /\ d \in todo \ Rotated /\ Fault
    /\ todo' = todo \ {d} /\ failing' = TRUE /\ errors' = errors \cup {d}
    /\ UNCHANGED <<group, now, norm, position, committed, phase, rows, enabled, cached,
                   sent, owed, toggles, givenup>>

\* A config that no longer decrypts counts as an error of the destination and
\* does not hold the event back.
SiemUndecryptable(d) ==
    /\ group = "siem" /\ phase[group] = "dispatch" /\ d \in todo \cap Rotated
    /\ todo' = todo \ {d} /\ errors' = errors \cup {d}
    /\ UNCHANGED <<group, now, norm, position, committed, phase, rows, enabled, cached, failing,
                   sent, owed, toggles, givenup, faults>>

\* The end of run's iteration: commit, or refresh the cache and read on.
SiemDispatched ==
    /\ group = "siem" /\ phase[group] = "dispatch" /\ todo = {}
    /\ IF failing THEN GiveUp(group) /\ cached' = enabled /\ Goto(group, "idle")
                  ELSE Goto(group, "commit") /\ UNCHANGED <<givenup, cached>>
    /\ UNCHANGED <<group, now, norm, position, committed, rows, enabled, todo, failing,
                   errors, sent, owed, toggles, faults>>

\* PATCH or DELETE /api/siem/destinations/<id>: enable, disable or remove.
EditDestination(d) ==
    /\ group = "siem" /\ toggles < MaxToggle /\ toggles' = toggles + 1
    /\ enabled' = IF d \in enabled THEN enabled \ {d} ELSE enabled \cup {d}
    /\ UNCHANGED <<group, now, norm, position, committed, phase, rows, cached, todo, failing,
                   errors, sent, owed, givenup, faults>>

Tick ==
    /\ group = "chain" /\ now < MaxTime /\ now' = now + 1
    /\ UNCHANGED <<group, norm, position, committed, phase, rows, siem, givenup, faults>>

Next ==
    \/ \E w \in Worker : Commit(w) \/ Restart(w)
    \/ NormalizerFetch \/ NormalizerSend \/ NormalizerSendFails
    \/ IndexerFetch \/ IndexerTimeout \/ Flush \/ FlushFails
    \/ ChainFetch \/ ChainHandle \/ ChainHandleFails \/ SweepRetention
    \/ SiemFetch \/ SiemRefresh \/ SiemDispatched
    \/ \E d \in Dest : SiemSend(d) \/ SiemSendFails(d) \/ SiemUndecryptable(d) \/ EditDestination(d)
    \/ Tick

Spec == Init /\ [][Next]_vars

-----------------------------------------------------------------------------
TypeOK ==
    /\ Range(Raw) \subseteq RawEvent
    /\ \A w \in Worker :
           committed[w] <= position[w]
           /\ phase[w] \in {"idle", "send", "flush", "handle", "dispatch", "commit"}
    /\ cached \subseteq Dest /\ todo \subseteq Dest /\ errors \subseteq Dest
    /\ docs \cup Range(buffered) \subseteq 1 .. Len(topic)

Decodable(n) == Raw[n].payload # "undecodable"

\* An event a worker has acknowledged has had its effect (a copy in the
\* normalized topic, a document in the index, a delivery to every cached
\* destination), whatever crashed in between, unless the loop caught a failure
\* of it and read on, gave its buffer up at the cap (Indexer.flush), or the
\* forwarder crashed before its group's first commit and started at the end.
NoEventLost ==
    /\ \A n \in 1 .. committed["normalizer"] :
           Decodable(n) /\ <<"normalizer", n>> \notin givenup => \E i \in DOMAIN topic : topic[i].raw = n
    /\ group = "indexer" =>
       \A n \in 1 .. committed[group] : n \in docs \/ <<group, n>> \in givenup
    /\ \A p \in owed : p[1] <= committed[group] => p \in sent \/ <<group, p[1]>> \in givenup

\* A start the chain indexer has acknowledged has its row (pid and start time) until
\* the retention sweep may take it, though redelivered exits and starts rewrite the
\* table, unless the handler failed or a crash before the first commit left it behind.
ChainRecorded ==
    group = "chain" =>
        \A n \in 1 .. committed[group] :
            LET d == topic[n]
            IN  d.action = "process_started" /\ d.pid # {} /\ <<group, n>> \notin givenup =>
                    \/ \E r \in Range(rows) : r.pid = d.pid /\ r.started = d.at
                    \/ d.at + Retention < now

\* Redelivery at either hop (normalizer and indexer both replay after a crash)
\* collapses onto one row per started process (process_chain_indexer: "Kafka
\* redelivers ... all collapse onto the same row"), and no process is recorded
\* as ended by an exit older than its start, unless a failed send of the
\* normalizer let a later event overtake the failed one.
ChainOnce ==
    /\ \A i, j \in DOMAIN rows : rows[i].raw = rows[j].raw => i = j
    /\ \A i \in DOMAIN rows :
           rows[i].ended # 0 /\ (\A n \in DOMAIN Raw : <<"normalizer", n>> \notin givenup)
           => rows[i].ended > rows[i].started

-----------------------------------------------------------------------------
(* Claims of the comments and documents that the code does not keep.      *)

\* siem_forwarder: "Transient SendError on any destination -> we DON'T commit;
\* the consumer replays the offset on the next poll".
SiemReplays == \A p \in owed : p[1] <= committed[group] => p \in sent

\* process_chain_indexer: "Long-running processes are kept regardless": the
\* sweep deletes no row of a process that has not exited.
LongRunningKept ==
    [][\A i \in DOMAIN rows : rows[i].ended = 0 => \E j \in DOMAIN rows' : rows'[j].raw = rows[i].raw]_vars
=============================================================================
