------------------------------ MODULE JobRollup ------------------------------
(***************************************************************************)
(* One Job, its JobRuns and their bridging Commands: fan-out, the agent's  *)
(* progress and result messages, the roll-up of run statuses into          *)
(* Job.status (services/jobs.py, grpc/services.py) and the operator's      *)
(* cancel (api/jobs.py).                                                   *)
(*                                                                         *)
(* A handler's transaction is several statements at READ COMMITTED: it     *)
(* reads its run, flushes the new status (from then on the row is locked   *)
(* and the value is visible to itself only), counts the runs of the job,   *)
(* loads the job and commits.  A cancel writes the Job row first and the   *)
(* JobRun rows after it, a handler in the opposite order.                  *)
(***************************************************************************)
EXTENDS Naturals, Sequences, FiniteSets

CONSTANTS
    Runs,           \* hosts the job's scope resolved to, one JobRun each
    MaxTxn,         \* bound: message handlers inside a transaction at once
    MaxCancels      \* bound: cancel requests

ASSUME JobRollupAssumption ==
    IsFiniteSet(Runs) /\ MaxTxn \in Nat \ {0} /\ MaxCancels \in Nat

JobStatus    == {"none", "queued", "running", "completed", "failed", "canceled"}
NonTerminal  == {"queued", "dispatched", "running"}
Terminal     == {"completed", "failed", "canceled", "timeout"}
JobRunStatus == NonTerminal \cup Terminal \cup {"none"}
CmdStatus    == {"none", "pending", "dispatched", "succeeded", "failed"}
JobTerminal  == {"completed", "failed", "canceled"}

\* What agents send for a run: JobProgress RUNNING and FAILED, CommandResult
\* with success true and false.
Wire == {"running", "failed", "ok", "err"}

TxnState == {"idle", "read", "flushed", "counted", "ready"}

VARIABLES
    job,            \* Job.status, "none" before create_job
    run,            \* JobRun.status as committed, "none" where no run exists
    cmd,            \* status of the bridging Command
    agent,          \* where the agent stands with the run's command
    msgs,           \* messages about the run on their way to the manager
    txn,            \* transaction of the run's message handler
    seen,           \* the run status that transaction loaded
    mine,           \* the run status it has flushed, not yet committed
    agg,            \* what aggregate_status returned to it
    seenJob,        \* the job status it loaded
    cancel,         \* the cancel request: idle, job, runs, locked
    victims,        \* runs it found non-terminal
    doomed,         \* those of them whose Command it found PENDING
    cancels,        \* cancel requests so far
    canceled,       \* history: runs a committed cancel has marked CANCELED
    overtaken,      \* history: handlers since whose count another one, or a
                    \* cancel, has committed
    outdated        \* history: such a handler has committed its roll-up

tables  == <<job, run, cmd>>
session == <<txn, seen, mine, agg, seenJob>>
past    == <<overtaken, outdated>>
request == <<cancel, victims, doomed, cancels, canceled>>
vars    == <<tables, agent, msgs, session, request, past>>

Init ==
    /\ job = "none"
    /\ run = [r \in Runs |-> "none"] /\ cmd = [r \in Runs |-> "none"]
    /\ agent = [r \in Runs |-> "none"] /\ msgs = [r \in Runs |-> <<>>]
    /\ txn = [r \in Runs |-> "idle"]
    /\ seen = [r \in Runs |-> "none"] /\ mine = [r \in Runs |-> "none"]
    /\ agg = [r \in Runs |-> "none"] /\ seenJob = [r \in Runs |-> "none"]
    /\ cancel = "idle" /\ victims = {} /\ doomed = {} /\ cancels = 0 /\ canceled = {}
    /\ overtaken = {} /\ outdated = FALSE
-----------------------------------------------------------------------------
\* create_job and fanout, one transaction: hosts are the targets that pass
\* the rollout filter of an UPDATE job, possibly none of them.
CreateJob(hosts) ==
    /\ job = "none"
    /\ job' = IF hosts = {} THEN "queued" ELSE "running"
    /\ run' = [r \in Runs |-> IF r \in hosts THEN "queued" ELSE "none"]
    /\ cmd' = [r \in Runs |-> IF r \in hosts THEN "pending" ELSE "none"]
    /\ UNCHANGED <<agent, msgs, session, request, past>>

\* Mutant of Aggregate: QUEUED forgotten among the non-terminal statuses.
AggregateWithoutQueued(f) ==
    LET Any(S) == \E r \in Runs : f[r] \in S
    IN  IF Any({"dispatched", "running"}) THEN "running"
        ELSE IF Any({"failed", "timeout"}) THEN "failed"
        ELSE IF Any({"canceled"}) /\ ~Any({"completed"}) THEN "canceled"
        ELSE "completed"

\* aggregate_status over the run statuses f.
Aggregate(f) ==
    LET Any(S) == \E r \in Runs : f[r] \in S
    IN  IF ~Any(NonTerminal \cup Terminal) THEN "queued"
        ELSE IF Any(NonTerminal) THEN "running"
        ELSE IF Any({"failed", "timeout"}) THEN "failed"
        ELSE IF Any({"canceled"}) /\ ~Any({"completed"}) THEN "canceled"
        ELSE "completed"
-----------------------------------------------------------------------------
\* The dispatcher's drain, as one step (CommandDispatch has it in detail).
Dispatch(r) ==
    /\ cmd[r] = "pending" /\ agent[r] = "none"
    /\ cmd' = [cmd EXCEPT ![r] = "dispatched"]
    /\ agent' = [agent EXCEPT ![r] = "queued"]
    /\ UNCHANGED <<job, run, msgs, session, request, past>>

\* The dispatch watchdog gives up on the command; it knows nothing of runs.
Expire(r) ==
    /\ cmd[r] = "dispatched"
    /\ cmd' = [cmd EXCEPT ![r] = "failed"]
    /\ UNCHANGED <<job, run, agent, msgs, session, request, past>>

Send(r, ms) == msgs' = [msgs EXCEPT ![r] = @ \o ms]

\* JobDispatcher.dispatch: the handler is about to run.
AgentStart(r) ==
    /\ agent[r] = "queued"
    /\ agent' = [agent EXCEPT ![r] = "running"]
    /\ Send(r, <<"running">>)
    /\ UNCHANGED <<tables, session, request, past>>

\* It returned Ok; or it failed, which is reported twice; or no handler
\* supports the kind, and only the command fails.
AgentFinish(r, ok) ==
    /\ agent[r] = "running" \/ (agent[r] = "queued" /\ ~ok)
    /\ agent' = [agent EXCEPT ![r] = IF ok THEN "ok" ELSE "err"]
    /\ Send(r, IF ok THEN <<"ok">>
               ELSE IF agent[r] = "running" THEN <<"failed", "err">> ELSE <<"err">>)
    /\ UNCHANGED <<tables, session, request, past>>

\* A message is lost on the way, or its transaction failed in the database.
LoseMessage(r) ==
    /\ txn[r] = "idle" /\ msgs[r] # <<>>
    /\ msgs' = [msgs EXCEPT ![r] = Tail(@)]
    /\ UNCHANGED <<tables, agent, session, request, past>>
-----------------------------------------------------------------------------
\* Mutant of Reported: a failure under a name the enum lacks.
ReportedError(m) ==
    CASE m = "running" -> "running" [] m = "ok" -> "completed" [] OTHER -> "error"

\* The run status a message stands for.
Reported(m) ==
    CASE m = "running" -> "running" [] m = "ok" -> "completed" [] OTHER -> "failed"

\* _handle_job_progress with a non-terminal status: no roll-up.
StoreRunning(r) ==
    /\ txn[r] = "idle" /\ msgs[r] # <<>> /\ Head(msgs[r]) = "running"
    /\ run' = [run EXCEPT ![r] = "running"]
    /\ msgs' = [msgs EXCEPT ![r] = Tail(@)]
    /\ UNCHANGED <<job, cmd, agent, session, request, past>>

Open == {r \in Runs : txn[r] # "idle"}

\* _handle_job_progress or the CommandResult branch of _consume_client, with a
\* terminal status: the run is read ...
ReadRun(r) ==
    /\ txn[r] = "idle" /\ msgs[r] # <<>> /\ Head(msgs[r]) # "running"
    /\ Cardinality(Open) < MaxTxn
    /\ txn' = [txn EXCEPT ![r] = "read"]
    /\ seen' = [seen EXCEPT ![r] = run[r]]
    /\ UNCHANGED <<tables, agent, msgs, mine, agg, seenJob, request, past>>

\* ... the new status flushed: written if it differs from what was read ...
FlushRun(r) ==
    /\ txn[r] = "read"
    /\ txn' = [txn EXCEPT ![r] = "flushed"]
    /\ LET new == Reported(Head(msgs[r]))
       IN mine' = [mine EXCEPT ![r] = IF seen[r] = new THEN run[r] ELSE new]
    /\ UNCHANGED <<tables, agent, msgs, seen, agg, seenJob, request, past>>

\* ... aggregate_status sees it, and of the other runs what is committed ...
CountRuns(r) ==
    /\ txn[r] = "flushed"
    /\ txn' = [txn EXCEPT ![r] = "counted"]
    /\ agg' = [agg EXCEPT ![r] = Aggregate([run EXCEPT ![r] = mine[r]])]
    /\ overtaken' = overtaken \ {r}
    /\ UNCHANGED <<tables, agent, msgs, seen, mine, seenJob, request, outdated>>

LoadJob(r) ==
    /\ txn[r] = "counted"
    /\ txn' = [txn EXCEPT ![r] = "ready"]
    /\ seenJob' = [seenJob EXCEPT ![r] = job]
    /\ UNCHANGED <<tables, agent, msgs, seen, mine, agg, request, past>>

WritesJob(r) == txn[r] = "ready" /\ agg[r] # seenJob[r]

\* Handlers that hold a count and have not committed.
Counted == {r \in Runs : txn[r] \in {"counted", "ready"}}

\* Mutant of CommitRun: the session is left open if the job does not change.
CommitIfChanged(r) ==
    /\ WritesJob(r) /\ cancel # "locked"
    /\ run' = [run EXCEPT ![r] = mine[r]]
    /\ job' = agg[r]
    /\ txn' = [txn EXCEPT ![r] = "idle"]
    /\ msgs' = [msgs EXCEPT ![r] = Tail(@)]
    /\ overtaken' = overtaken \cup (Counted \ {r})
    /\ outdated' = (outdated \/ r \in overtaken)
    /\ UNCHANGED <<cmd, agent, seen, mine, agg, seenJob, request>>

\* ... and the commit, which waits for the Job row if a cancel has locked it.
CommitRun(r) ==
    /\ txn[r] = "ready"
    /\ WritesJob(r) => cancel # "locked"
    /\ run' = [run EXCEPT ![r] = mine[r]]
    /\ job' = IF WritesJob(r) THEN agg[r] ELSE job
    /\ cmd' = CASE Head(msgs[r]) = "ok"  -> [cmd EXCEPT ![r] = "succeeded"]
                [] Head(msgs[r]) = "err" -> [cmd EXCEPT ![r] = "failed"]
                [] OTHER -> cmd
    /\ txn' = [txn EXCEPT ![r] = "idle"]
    /\ msgs' = [msgs EXCEPT ![r] = Tail(@)]
    /\ overtaken' = overtaken \cup (Counted \ {r})
    /\ outdated' = (outdated \/ r \in overtaken)
    /\ UNCHANGED <<agent, seen, mine, agg, seenJob, request>>
-----------------------------------------------------------------------------
\* cancel_job: the Job is loaded and refused if terminal ...
CancelReadJob ==
    /\ cancel = "idle" /\ cancels < MaxCancels
    /\ job \notin JobTerminal \cup {"none"}
    /\ cancel' = "job" /\ cancels' = cancels + 1
    /\ UNCHANGED <<tables, agent, msgs, session, victims, doomed, canceled, past>>

\* ... then its runs ...
CancelReadRuns ==
    /\ cancel = "job"
    /\ cancel' = "runs"
    /\ victims' = {r \in Runs : run[r] \in NonTerminal}
    /\ UNCHANGED <<tables, agent, msgs, session, doomed, cancels, canceled, past>>

\* ... the autoflush before the first Command is loaded writes and locks the
\* Job row; the Commands are read ...
CancelLockJob ==
    /\ cancel = "runs"
    /\ cancel' = "locked"
    /\ doomed' = {r \in victims : cmd[r] = "pending"}
    /\ UNCHANGED <<tables, agent, msgs, session, victims, cancels, canceled, past>>

\* The run row has been flushed by a handler that has not committed.
Locked(r) == txn[r] \in {"flushed", "counted", "ready"}

\* ... waits for the run rows, writes them and commits.
CancelCommit ==
    /\ cancel = "locked" /\ \A r \in victims : ~Locked(r)
    /\ job' = "canceled"
    /\ run' = [r \in Runs |-> IF r \in victims THEN "canceled" ELSE run[r]]
    /\ cmd' = [r \in Runs |-> IF r \in doomed THEN "failed" ELSE cmd[r]]
    /\ canceled' = canceled \cup victims
    /\ cancel' = "idle" /\ victims' = {} /\ doomed' = {}
    /\ overtaken' = overtaken \cup Counted
    /\ UNCHANGED <<agent, msgs, session, cancels, outdated>>

\* A cancel that holds the Job row and waits for a run row, and the handler
\* that holds that row and waits for the Job row.  Or a cancel that holds the
\* run row and waits for the Command row, and the handler of a CommandResult
\* that has flushed the Command and waits for the run row.
Deadlocked(r) ==
    /\ cancel = "locked" /\ r \in victims
    /\ \/ WritesJob(r)
       \/ r \in doomed /\ txn[r] = "read" /\ Head(msgs[r]) \in {"ok", "err"}

\* Postgres aborts the handler: the exception is logged, the message is gone.
AbortTxn(r) ==
    /\ Deadlocked(r)
    /\ txn' = [txn EXCEPT ![r] = "idle"]
    /\ msgs' = [msgs EXCEPT ![r] = Tail(@)]
    /\ UNCHANGED <<tables, agent, seen, mine, agg, seenJob, request, past>>

\* Or it aborts the cancel: the request fails, nothing was written.
AbortCancel ==
    /\ \E r \in Runs : Deadlocked(r)
    /\ cancel' = "idle" /\ victims' = {} /\ doomed' = {}
    /\ UNCHANGED <<tables, agent, msgs, session, cancels, canceled, past>>

Transaction(r) == FlushRun(r) \/ CountRuns(r) \/ LoadJob(r) \/ CommitRun(r) \/ AbortTxn(r)

CancelRequest == CancelReadRuns \/ CancelLockJob \/ CancelCommit

Next ==
    \/ \E hosts \in SUBSET Runs : CreateJob(hosts)
    \/ \E r \in Runs :
          \/ Dispatch(r) \/ Expire(r) \/ AgentStart(r) \/ LoseMessage(r)
          \/ StoreRunning(r) \/ ReadRun(r) \/ Transaction(r)
          \/ \E ok \in BOOLEAN : AgentFinish(r, ok)
    \/ CancelReadJob \/ CancelRequest \/ AbortCancel

\* An open transaction goes on: the event loop runs and Postgres grants locks
\* or breaks the deadlock.
Fairness ==
    /\ \A r \in Runs : WF_vars(Transaction(r))
    /\ WF_vars(CancelRequest)

Spec == Init /\ [][Next]_vars

FairSpec == Spec /\ Fairness
-----------------------------------------------------------------------------
\* Tables, sessions and messages stay in their types; a run status is one the
\* enum has, whatever the agent reported.
TypeOK ==
    /\ job \in JobStatus
    /\ run \in [Runs -> JobRunStatus]
    /\ cmd \in [Runs -> CmdStatus]
    /\ agent \in [Runs -> {"none", "queued", "running", "ok", "err"}]
    /\ msgs \in [Runs -> Seq(Wire)]
    /\ txn \in [Runs -> TxnState]
    /\ seen \in [Runs -> JobRunStatus]
    /\ mine \in [Runs -> JobRunStatus]
    /\ agg \in [Runs -> JobStatus]
    /\ seenJob \in [Runs -> JobStatus]
    /\ cancel \in {"idle", "job", "runs", "locked"}
    /\ victims \subseteq Runs
    /\ doomed \subseteq Runs
    /\ cancels \in 0 .. MaxCancels
    /\ canceled \subseteq Runs
    /\ overtaken \subseteq Runs
    /\ outdated \in BOOLEAN

\* A verdict is never missing, whatever messages are lost and whichever
\* transactions Postgres aborts, with one exception, named by its cause: a
\* handler that has counted the runs commits after another commit has made its
\* count, or the job status it loaded, outdated.
FollowsUnlessOutdated ==
    /\ \A r \in Runs : run[r] \in Terminal \cup {"none"}
    /\ \E r \in Runs : run[r] # "none"
    => job \in JobTerminal \/ outdated

\* A verdict is never early: a job says COMPLETED or FAILED only if every one
\* of its hosts has finished the work or had its run canceled, and FAILED only
\* if some host failed.  Stale counts, cancels, aborted transactions and lost
\* messages cannot produce one.  Nor is it missing, as far as
\* FollowsUnlessOutdated says.
VerdictIsEarned ==
    /\ job \in {"completed", "failed"} =>
          \A r \in Runs : run[r] # "none" => agent[r] \in {"ok", "err"} \/ r \in canceled
    /\ job = "failed" => \E r \in Runs : agent[r] = "err"
    /\ FollowsUnlessOutdated

\* Lock conflicts between handlers and a cancel always resolve: every
\* transaction that was opened ends.
TransactionsEnd ==
    /\ \A r \in Runs : txn[r] # "idle" ~> txn[r] = "idle"
    /\ cancel # "idle" ~> cancel = "idle"

-----------------------------------------------------------------------------
(* Claims of the comments and documents that the code does not keep.      *)

\* "Once all runs reach a terminal state the Job follows" (models/job.py):
\* when no handler and no cancel is at work, a job all of whose runs are
\* terminal is terminal itself.
JobFollowsRuns ==
    /\ \A r \in Runs : txn[r] = "idle" /\ run[r] \in Terminal \cup {"none"}
    /\ cancel = "idle"
    /\ \E r \in Runs : run[r] # "none"
    => job \in JobTerminal
=============================================================================
