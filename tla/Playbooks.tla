----------------------------- MODULE Playbooks -----------------------------
(***************************************************************************)
(* Response playbooks: the alert producers match them and publish one      *)
(* message per match (services/response.py, services/kafka.py), ahead of   *)
(* the commit of the alert itself; the executor worker                     *)
(* (workers/playbook_executor.py) walks the steps (services/playbooks.py)  *)
(* in one transaction; operators edit playbooks meanwhile                  *)
(* (api/playbooks.py).                                                     *)
(***************************************************************************)
EXTENDS Naturals, Sequences, SequencesExt, FiniteSets

CONSTANTS
    Alerts,     \* alert ids
    Facts,      \* Facts[a]: what alert a carries: rule, severity, techniques, fields
    Playbook,   \* playbook ids
    Trigger,    \* Trigger[p]: rule, severity, techniques; "none", 0 and {} if unset
    Bodies,     \* step sequences an operator may save
    MaxSteps,   \* MAX_STEPS
    Channels,   \* Channels[c]: kind and enabled, of the notification channels
    MaxFault,   \* bound: crashes and failed calls
    MaxEdit     \* bound: operator edits

STEP_KINDS == {"isolate", "kill", "quarantine", "memory_yara", "triage_collect",
               "notify_slack", "notify_pagerduty", "notify_email",
               "wait_seconds", "branch_if", "ai_suggest"}

\* The channel kind a notify step requires.
ExpectedKind(k) ==
    CASE k = "notify_slack" -> "slack" [] k = "notify_pagerduty" -> "pagerduty" [] OTHER -> "email"

\* parse_yaml and _validate_step_params: what create and update accept.
ParseYaml(body) ==
    /\ body # <<>> /\ Len(body) <= MaxSteps
    /\ \A i \in DOMAIN body : body[i].kind \in STEP_KINDS

VARIABLES
    playbooks,  \* rows by id: enabled, body; absent when deleted
    pending,    \* alerts inserted by a producer that has not committed yet
    alerts,     \* committed alerts
    topic,      \* playbook.runs: <<playbook, alert>>
    position, committed, phase,     \* the executor's consumer
    run,        \* the run in hand
    runs,       \* committed PlaybookRun rows
    commands,   \* committed commands: the run that queued it and its kind
    notices,    \* notifications sent, by run: they cannot be rolled back
    serial,     \* source of run ids
    passed,     \* history: offsets whose handling raised, that found no playbook to run,
                \* whose run was deleted, or that a start at the end of the topic left behind
    raised,     \* history: offsets whose handling raised
    faults, edits

producer == <<pending, alerts, topic>>
db == <<runs, commands>>
vars == <<playbooks, producer, position, committed, phase, run, db, notices, serial,
          passed, raised, faults, edits>>

NoRun == [id |-> 0]

Init ==
    /\ playbooks \in [Playbook -> [enabled : {TRUE}, body : Bodies]]
    /\ pending = {} /\ alerts = {} /\ topic = <<>>
    /\ position = 0 /\ committed = 0 /\ phase = "idle" /\ run = NoRun
    /\ runs = {} /\ commands = {} /\ notices = {} /\ serial = 0
    /\ passed = {} /\ raised = {} /\ faults = 0 /\ edits = 0

Fault == faults < MaxFault /\ faults' = faults + 1

-----------------------------------------------------------------------------
\* matches_alert: any trigger that is set may match; without one the playbook
\* is dormant.
MatchesAlert(p, a) ==
    LET t == Trigger[p]
        f == Facts[a]
    IN  /\ playbooks[p].enabled
        /\ \/ t.rule # "none" /\ t.rule = f.rule
           \/ t.severity # 0 /\ f.severity >= t.severity
           \/ t.techniques \cap f.techniques # {}

FindMatchingPlaybooks(a) == {p \in DOMAIN playbooks : MatchesAlert(p, a)}

\* A producer inserts alert a and publishes its playbooks, in the order the query
\* returns them; a publication that fails is skipped.
FireMatchingPlaybooks(a) ==
    /\ a \notin pending \cup alerts /\ \A i \in DOMAIN topic : topic[i][2] # a
    /\ pending' = pending \cup {a}
    /\ \E out \in SUBSET FindMatchingPlaybooks(a) :
           /\ out = FindMatchingPlaybooks(a) \/ faults < MaxFault
           /\ faults' = IF out = FindMatchingPlaybooks(a) THEN faults ELSE faults + 1
           /\ \E order \in [1 .. Cardinality(out) -> out] :
                  /\ Range(order) = out
                  /\ topic' = topic \o [i \in 1 .. Cardinality(out) |-> <<order[i], a>>]
    /\ UNCHANGED <<playbooks, alerts, position, committed, phase, run, db, notices, serial,
                   passed, raised, edits>>

CommitAlert(a) ==
    /\ a \in pending /\ pending' = pending \ {a} /\ alerts' = alerts \cup {a}
    /\ UNCHANGED <<playbooks, topic, position, committed, phase, run, db, notices, serial,
                   passed, raised, faults, edits>>

\* sigma_realtime rolls its transaction back when indexing fails.
RollbackAlert(a) ==
    /\ a \in pending /\ Fault /\ pending' = pending \ {a}
    /\ UNCHANGED <<playbooks, alerts, topic, position, committed, phase, run, db, notices, serial,
                   passed, raised, edits>>

-----------------------------------------------------------------------------
Ok(extra) == [outcome |-> "ok", skip |-> FALSE, queues |-> extra, sends |-> FALSE]
Skipped == [outcome |-> "skipped", skip |-> FALSE, queues |-> {}, sends |-> FALSE]
Failed == [Skipped EXCEPT !.outcome = "failed"]

\* _run_isolate, _run_kill, _run_quarantine, _run_triage_collect: a command for
\* the alert's host, when the alert has what it needs.
RunResponse(needs, kind, fields) == IF needs \subseteq fields THEN Ok({kind}) ELSE Skipped

\* _run_notify: the channel must exist, be of the right kind and enabled.
RunNotify(step) ==
    CASE step.arg \notin DOMAIN Channels -> Failed
      [] step.arg \in DOMAIN Channels /\ Channels[step.arg].kind # ExpectedKind(step.kind) -> Failed
      [] step.arg \in DOMAIN Channels /\ Channels[step.arg].kind = ExpectedKind(step.kind) ->
            IF Channels[step.arg].enabled THEN [Ok({}) EXCEPT !.sends = TRUE] ELSE Skipped

\* Mutant of EvalBranchIf: a false condition is recorded and nothing skipped.
BranchIfIgnored(step, a) == Ok({})

\* _eval_branch_if, with _eval_condition as a severity set.
EvalBranchIf(step, a) == [Ok({}) EXCEPT !.skip = Facts[a].severity \notin step.arg]

\* _run_step; memory_yara, wait_seconds and ai_suggest only leave a record.
RunStep(step, a) ==
    LET fields == Facts[a].fields
    IN  CASE step.kind = "isolate" -> RunResponse({"host"}, "isolate", fields)
          [] step.kind = "kill" -> RunResponse({"host", "pid"}, "kill_process", fields)
          [] step.kind = "quarantine" -> RunResponse({"host", "path"}, "quarantine_file", fields)
          [] step.kind = "triage_collect" -> RunResponse({"host"}, "run_job", fields)
          [] step.kind \in {"notify_slack", "notify_pagerduty", "notify_email"} -> RunNotify(step)
          [] step.kind = "branch_if" -> EvalBranchIf(step, a)
          [] OTHER -> Ok({})

Fetch ==
    /\ phase = "idle" /\ position < Len(topic)
    /\ position' = position + 1 /\ phase' = "handle"
    /\ UNCHANGED <<playbooks, producer, committed, run, db, notices, serial, passed, raised, faults, edits>>

Runnable(p) == IF p \in DOMAIN playbooks THEN playbooks[p].enabled ELSE FALSE

\* handle_message: a deleted or disabled playbook is dropped.
HandleDrops ==
    LET p == topic[position][1]
    IN  /\ phase = "handle" /\ ~Runnable(p)
        /\ phase' = "commit" /\ passed' = passed \cup {position}
        /\ UNCHANGED <<playbooks, producer, position, committed, run, db, notices, serial, raised, faults, edits>>

\* execute_playbook up to the steps: the run is inserted (not committed).
HandleStarts ==
    LET p == topic[position][1]
        a == topic[position][2]
    IN  /\ phase = "handle" /\ Runnable(p) /\ a \in alerts
        /\ phase' = "steps" /\ serial' = serial + 1
        /\ run' = [id |-> serial + 1, playbook |-> p, alert |-> a, body |-> playbooks[p].body,
                   outcomes |-> <<>>, skip |-> FALSE, queued |-> {}]
        /\ UNCHANGED <<playbooks, producer, position, committed, db, notices, passed, raised, faults, edits>>

\* The handler raises; the session is rolled back and the loop reads on without
\* a commit.
Raise ==
    /\ phase' = "idle" /\ run' = NoRun
    /\ passed' = passed \cup {position} /\ raised' = raised \cup {position}

\* The alert is not committed (yet): the row of a failed run would reference it,
\* and the insert violates the foreign key of playbook_run.alert_id.
HandleAlertMissing ==
    LET p == topic[position][1]
    IN  /\ phase = "handle" /\ Runnable(p)
        /\ topic[position][2] \notin alerts
        /\ Raise
        /\ UNCHANGED <<playbooks, producer, position, committed, db, notices, serial, faults, edits>>

HandleRaises ==
    /\ phase \in {"handle", "steps"} /\ Fault /\ Raise
    /\ UNCHANGED <<playbooks, producer, position, committed, db, notices, serial, edits>>

\* One iteration of the loop over the steps.  A step whose code raises counts
\* as failed.
Step ==
    LET i == Len(run.outcomes) + 1
        kind == run.body[i].kind
        res == IF run.skip THEN Skipped ELSE RunStep(run.body[i], run.alert)
    IN  /\ phase = "steps" /\ i <= Len(run.body)
        /\ \/ /\ run' = [run EXCEPT !.outcomes = Append(@, res.outcome), !.skip = res.skip,
                                    !.queued = @ \cup {<<i, k>> : k \in res.queues}]
              /\ notices' = IF res.sends THEN notices \cup {<<run.id, i>>} ELSE notices
              /\ faults' = faults
           \/ /\ ~run.skip /\ kind # "branch_if" /\ Fault
              /\ run' = [run EXCEPT !.outcomes = Append(@, "failed")]
              /\ notices' = notices
        /\ UNCHANGED <<playbooks, producer, position, committed, phase, db, serial, passed, raised, edits>>

FinalStatus(outcomes) ==
    LET failed == "failed" \in Range(outcomes)
        ok == "ok" \in Range(outcomes)
    IN  CASE failed /\ ok -> "partial" [] failed /\ ~ok -> "failed" [] OTHER -> "succeeded"

\* The end of execute_playbook and the commit of its transaction.
Finish ==
    /\ phase = "steps" /\ Len(run.outcomes) = Len(run.body) /\ phase' = "commit"
    /\ runs' = runs \cup {[id |-> run.id, playbook |-> run.playbook, alert |-> run.alert,
                           body |-> run.body, outcomes |-> run.outcomes,
                           status |-> FinalStatus(run.outcomes), offset |-> position]}
    /\ commands' = commands \cup {<<run.id, q[1], q[2]>> : q \in run.queued}
    /\ run' = NoRun
    /\ UNCHANGED <<playbooks, producer, position, committed, notices, serial, passed, raised, faults, edits>>

\* consumer.commit()
Commit ==
    /\ phase = "commit" /\ phase' = "idle" /\ committed' = position
    /\ UNCHANGED <<playbooks, producer, position, run, db, notices, serial, passed, raised, faults, edits>>

\* Mutant of Restart: the offset is committed when the message is received.
RestartAfterAutoCommit ==
    /\ Fault /\ phase # "idle" /\ phase' = "idle" /\ committed' = position /\ run' = NoRun
    /\ UNCHANGED <<playbooks, producer, position, db, notices, serial, passed, raised, edits>>

\* The process dies, or a commit is refused because the steps outlasted
\* max_poll_interval_ms; a new one resumes at the committed offset, or, before the
\* group's first commit, at the end of the topic (auto_offset_reset="latest").
Restart ==
    /\ Fault /\ phase' = "idle" /\ run' = NoRun
    /\ position' = IF committed = 0 THEN Len(topic) ELSE committed
    /\ passed' = passed \cup {n \in 1 .. Len(topic) : committed = 0 /\ n >= position}
    /\ UNCHANGED <<playbooks, producer, committed, db, notices, serial, raised, edits>>

-----------------------------------------------------------------------------
Edit == edits < MaxEdit /\ edits' = edits + 1

\* create_playbook, update_playbook: a body is saved only if it parses.
SavePlaybook(p, on, body) ==
    /\ Edit /\ ParseYaml(body)
    /\ playbooks' = [q \in DOMAIN playbooks \cup {p} |->
                        IF q = p THEN [enabled |-> on, body |-> body] ELSE playbooks[q]]
    /\ UNCHANGED <<producer, position, committed, phase, run, db, notices, serial, passed, raised, faults>>

\* delete_playbook: the runs go with it (ON DELETE CASCADE).  The uncommitted row
\* of a run in hand holds the delete off until it ends.
DeletePlaybook(p) ==
    /\ Edit /\ p \in DOMAIN playbooks /\ run.id = 0
    /\ playbooks' = [q \in DOMAIN playbooks \ {p} |-> playbooks[q]]
    /\ runs' = {r \in runs : r.playbook # p}
    /\ passed' = passed \cup {r.offset : r \in runs \ runs'}
    /\ UNCHANGED <<producer, position, committed, phase, run, commands, notices, serial, raised, faults>>

Next ==
    \/ \E a \in Alerts : FireMatchingPlaybooks(a) \/ CommitAlert(a) \/ RollbackAlert(a)
    \/ Fetch \/ HandleDrops \/ HandleStarts \/ HandleAlertMissing \/ HandleRaises
    \/ Step \/ Finish \/ Commit \/ Restart
    \/ \E p \in Playbook, on \in BOOLEAN, body \in Bodies : SavePlaybook(p, on, body)
    \/ \E p \in Playbook : DeletePlaybook(p)

Spec == Init /\ [][Next]_vars

-----------------------------------------------------------------------------
TypeOK ==
    /\ DOMAIN playbooks \subseteq Playbook /\ pending \cap alerts = {}
    /\ phase \in {"idle", "handle", "steps", "commit"} /\ committed <= position
    /\ \A r \in runs : r.status \in {"succeeded", "failed", "partial"}

CommandKinds == {"isolate", "kill", "quarantine", "triage_collect"}

\* A committed run and the commands it queued are there together, whatever
\* failed in between: each step of a command kind recorded "ok" has its command,
\* and a step behind a branch_if whose condition is false has none.
RunMatchesCommands ==
    \A r \in runs : \A i \in DOMAIN r.body :
        /\ r.body[i].kind \in CommandKinds =>
           (r.outcomes[i] = "ok" <=> \E c \in commands : c[1] = r.id /\ c[2] = i)
        /\ i > 1 /\ r.body[i - 1].kind = "branch_if" /\ Facts[r.alert].severity \notin r.body[i - 1].arg
           => r.outcomes[i] = "skipped" \/ r.outcomes[i - 1] = "skipped"

\* A message the executor has acknowledged has led to a run, whatever crashed in
\* between, unless its handling raised, its playbook was gone or disabled (CODE-28 of
\* PlaybookExecutor.run) or the executor crashed before its group's first commit.
FireHandled ==
    \A n \in 1 .. committed :
        n \in passed \/ \E r \in runs : r.offset = n

-----------------------------------------------------------------------------
(* Claims of the comments and documents that the code does not keep.      *)

\* workers/playbook_executor.py: "leaving the offset uncommitted makes the
\* consumer re-deliver the message on the next poll cycle": no offset whose
\* handling raised is acknowledged without a run.
PlaybookRedelivered ==
    \A n \in raised : n <= committed => \E r \in runs : r.offset = n
=============================================================================
