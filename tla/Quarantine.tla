------------------------------- MODULE Quarantine -------------------------------
(***************************************************************************)
(* Quarantined files of one host: the commands, what the agent keeps under *)
(* its quarantine directory (command_worker.rs), the events it reports and *)
(* the rows the quarantine worker makes of them (workers/quarantine.py,    *)
(* api/quarantine.py).  The copy on disk is named after its content, the   *)
(* rows are one per file that was quarantined.  Events are delivered in    *)
(* order; the worker commits its offset after the row, and a group that    *)
(* never stored one starts at the end of the log.                          *)
(***************************************************************************)
EXTENDS Naturals, Sequences, FiniteSets, FiniteSetsExt

CONSTANTS
    Sha,            \* contents
    MaxCommand, MaxFault, MaxRow    \* bounds: commands issued, failures, rows

VARIABLES
    cmds,       \* commands to the agent: [do, sha]
    disk,       \* contents that have a copy under quarantine/
    log, pos,   \* telemetry about quarantines, and where in it the worker stands
    rows,       \* rows[i]: [sha, status], in the order of quarantined_at
    worker,     \* "idle", or "stored": the row is committed and the offset is not
    resumes,    \* the worker's consumer group has stored an offset
    issued, faults,
    unlisted,   \* history: contents whose event was lost or passed over, whose row was
                \* deleted, or whose copy could not be removed
    asked       \* history: rows whose release was asked for

vars == <<cmds, disk, log, pos, rows, worker, resumes, issued, faults, unlisted, asked>>

\* The group reads the telemetry of all hosts: this host's events may be its first.
Init ==
    /\ resumes \in BOOLEAN
    /\ cmds = << >> /\ disk = {} /\ log = << >> /\ pos = 0 /\ rows = << >> /\ worker = "idle"
    /\ issued = 0 /\ faults = 0 /\ unlisted = {} /\ asked = {}

Issue(c) == issued < MaxCommand /\ issued' = issued + 1 /\ cmds' = Append(cmds, c)
Fault == faults < MaxFault /\ faults' = faults + 1
Emit(o, s) == log' = Append(log, [outcome |-> o, sha |-> s])

\* A rule, a playbook or an analyst has a file quarantined; its content is not known yet.
QuarantineFile ==
    /\ Issue([do |-> "quarantine", sha |-> ""])
    /\ UNCHANGED <<disk, log, pos, rows, worker, resumes, faults, unlisted, asked>>

\* release_quarantined_file: the row must be active, and stays so until the agent reports.
ReleaseQuarantinedFile(i) ==
    /\ rows[i].status = "active" /\ asked' = asked \cup {i}
    /\ Issue([do |-> "release", sha |-> rows[i].sha])
    /\ UNCHANGED <<disk, log, pos, rows, worker, resumes, faults, unlisted>>

\* delete_quarantined_record leaves the copy alone.
DeleteQuarantinedRecord(i) ==
    /\ rows[i].status # "deleted" /\ Fault /\ rows' = [rows EXCEPT ![i].status = "deleted"]
    /\ unlisted' = unlisted \cup {rows[i].sha}
    /\ UNCHANGED <<cmds, disk, log, pos, worker, resumes, issued, asked>>

-----------------------------------------------------------------------------
(* The agent.                                                              *)

\* quarantine_file: copied unless the content has a copy; nothing if the file is gone; an
\* error, also after the copy, is reported without the content and makes no row.
AgentQuarantine ==
    /\ cmds # << >> /\ cmds[1].do = "quarantine" /\ cmds' = Tail(cmds)
    /\ \/ \E s \in Sha : disk' = disk \cup {s} /\ Emit("quarantined", s) /\ UNCHANGED <<faults, unlisted>>
       \/ UNCHANGED <<disk, log, faults, unlisted>>
       \/ \E s \in Sha : Fault /\ disk' = disk \cup {s} /\ unlisted' = unlisted \cup {s} /\ UNCHANGED log
    /\ UNCHANGED <<pos, rows, worker, resumes, issued, asked>>

\* release_quarantine: the copy is put back and removed, or there is none.  An error of the
\* restoring copy is reported; one of the removal is not, and the copy stays.
AgentRelease ==
    LET s == cmds[1].sha
    IN  /\ cmds # << >> /\ cmds[1].do = "release" /\ cmds' = Tail(cmds)
        /\ \/ s \in disk /\ disk' = disk \ {s} /\ Emit("released", s) /\ UNCHANGED <<faults, unlisted>>
           \/ s \notin disk /\ Emit("failed", s) /\ UNCHANGED <<disk, faults, unlisted>>
           \/ s \in disk /\ Fault /\ Emit("failed", s) /\ UNCHANGED <<disk, unlisted>>
           \/ s \in disk /\ Fault /\ Emit("released", s) /\ unlisted' = unlisted \cup {s} /\ UNCHANGED disk
        /\ UNCHANGED <<pos, rows, worker, resumes, issued, asked>>

-----------------------------------------------------------------------------
(* QuarantineWorker.                                                       *)

\* A release is booked on the newest active row of the content.
ActiveRows(s) == {i \in DOMAIN rows : rows[i].sha = s /\ rows[i].status = "active"}
Released(s) == IF ActiveRows(s) = {} THEN rows ELSE [rows EXCEPT ![Max(ActiveRows(s))].status = "released"]

Booked(e) ==
    CASE e.outcome = "quarantined" -> Append(rows, [sha |-> e.sha, status |-> "active"])
      [] e.outcome = "released" -> Released(e.sha)
      [] OTHER -> rows

Handle ==
    /\ worker = "idle" /\ pos < Len(log) /\ Len(rows) < MaxRow
    /\ rows' = Booked(log[pos + 1]) /\ worker' = "stored"
    /\ UNCHANGED <<cmds, disk, log, pos, resumes, issued, faults, unlisted, asked>>

CommitOffset ==
    /\ worker = "stored" /\ worker' = "idle" /\ pos' = pos + 1 /\ resumes' = TRUE
    /\ UNCHANGED <<cmds, disk, log, rows, issued, faults, unlisted, asked>>

\* The database fails: logged, and the offset is committed all the same.
HandleFails ==
    /\ worker = "idle" /\ pos < Len(log) /\ Fault /\ pos' = pos + 1 /\ resumes' = TRUE
    /\ unlisted' = unlisted \cup {log[pos + 1].sha}
    /\ UNCHANGED <<cmds, disk, log, rows, worker, issued, asked>>

\* A restart before the offset is committed delivers the event again.
RestartResumes ==
    /\ resumes /\ worker = "stored" /\ Fault /\ worker' = "idle"
    /\ unlisted' = unlisted \cup IF log[pos + 1].outcome = "released" THEN {log[pos + 1].sha} ELSE {}
    /\ UNCHANGED <<cmds, disk, log, pos, rows, resumes, issued, asked>>

\* A restart of a group that has stored none passes over all there is (auto_offset_reset
\* is "latest").
RestartAtEnd ==
    /\ ~resumes /\ pos < Len(log) /\ Fault /\ worker' = "idle" /\ pos' = Len(log)
    /\ unlisted' = unlisted \cup {log[n].sha : n \in pos + 1 .. Len(log)}
    /\ UNCHANGED <<cmds, disk, log, rows, resumes, issued, asked>>

Next ==
    \/ QuarantineFile \/ AgentQuarantine \/ AgentRelease
    \/ \E i \in DOMAIN rows : ReleaseQuarantinedFile(i) \/ DeleteQuarantinedRecord(i)
    \/ Handle \/ CommitOffset \/ HandleFails \/ RestartResumes \/ RestartAtEnd

Spec == Init /\ [][Next]_vars

-----------------------------------------------------------------------------
\* Rows have a known status, and the worker is never ahead of the log.
TypeOK ==
    /\ disk \subseteq Sha /\ pos <= Len(log)
    /\ \A i \in DOMAIN rows : rows[i].sha \in Sha /\ rows[i].status \in {"active", "released", "deleted"}

\* No forgotten copy: once the worker has caught up, a content that is in quarantine on the
\* host is on an active row, where an analyst can release it, unless an event of its was
\* lost, repeated or passed over, its record was deleted, or the agent could not remove the
\* copy of a file it reported as released.
CopyListed ==
    pos = Len(log) => \A s \in disk \ unlisted : ActiveRows(s) # {}

-----------------------------------------------------------------------------
(* Claims of the comments and documents that the code does not keep.      *)

\* "Quarantined_files row flips to released only after the agent confirms": a row that is
\* released is one whose release somebody asked for.
ReleasedAsAsked ==
    \A i \in DOMAIN rows : rows[i].status = "released" => i \in asked
=============================================================================
