--------------------------- MODULE CommandDispatch ---------------------------
(***************************************************************************)
(* The commands table and everyone who moves a row of one host through     *)
(* it: the REST handlers that queue and cancel, the command dispatcher     *)
(* task of each HostStream handler, the agent's command channel and worker,*)
(* the handler of CommandResult, and the dispatch watchdog.                *)
(*                                                                         *)
(* A dispatcher hands the protobufs of a batch to the stream before it     *)
(* commits the rows, so delivery, execution and the result may all come    *)
(* between the two.  UPDATEs are by primary key at READ COMMITTED; only    *)
(* the watchdog repeats the status in its WHERE clause.                    *)
(***************************************************************************)
EXTENDS Naturals, Sequences, FiniteSets

CONSTANTS
    N,              \* bound: commands ever queued for this host
    Streams,        \* HostStream handlers that may run at the same time
    None,           \* no stream, no command
    Untranslatable, \* commands _command_to_pb returns None for
    Refused,        \* commands whose stored payload makes it raise, each time
    BatchLimit,     \* rows one drain takes (16)
    ChanCap,        \* capacity of the agent's commands channel (64)
    SendCap,        \* capacity of the agent's send channel (1024)
    MaxRuns,        \* bound: the execution counter saturates here
    MaxFails,       \* bound: drains that fail in the database
    MaxResent       \* bound: messages waiting when a failing drain repeats its own

Cmds == 1 .. N

ASSUME CommandDispatchAssumption ==
    /\ N \in Nat /\ None \notin Cmds /\ None \notin Streams
    /\ Untranslatable \subseteq Cmds /\ Refused \subseteq Cmds
    /\ Untranslatable \cap Refused = {}
    /\ BatchLimit \in Nat \ {0} /\ ChanCap \in Nat \ {0} /\ SendCap \in Nat \ {0}
    /\ MaxRuns \in Nat \ {0} /\ MaxFails \in Nat /\ MaxResent \in Nat

Status == {"none", "pending", "dispatched", "succeeded", "failed"}
DispatcherState == {"down", "listen", "drain", "commit", "wait", "dead"}
Result == [cmd : Cmds, ok : BOOLEAN]

VARIABLES
    status,     \* Command.status; "none" before the INSERT
    aged,       \* dispatched_at is older than the watchdog's timeout
    next,       \* the next command to be queued; ids grow with created_at
    disp,       \* dispatcher task of each handler, "down" when there is none
    batch,      \* rows its drain has read and handed out, not yet committed
    notified,   \* its notify_event
    outq,       \* its out_queue with what is on the wire behind it
    conn,       \* the stream the agent is connected to
    cmdq,       \* the agent's commands channel
    exec,       \* the command the agent's worker is executing
    runs,       \* how often the agent started each command
    results,    \* CommandResults in the agent's send channel or spool
    expiring,   \* ids the watchdog has selected
    canceling,  \* commands a cancel_job request has read as PENDING
    fails       \* drains that failed

rows    == <<status, aged, next>>
manager == <<disp, batch, notified, outq>>
agent   == <<conn, cmdq, exec, runs, results>>
others  == <<expiring, canceling, fails>>
vars    == <<rows, manager, agent, others>>

Pending == {c \in Cmds : status[c] = "pending"}

Init ==
    /\ status = [c \in Cmds |-> "none"] /\ aged = [c \in Cmds |-> FALSE] /\ next = 1
    /\ disp = [s \in Streams |-> "down"] /\ batch = [s \in Streams |-> {}]
    /\ notified = [s \in Streams |-> FALSE] /\ outq = [s \in Streams |-> <<>>]
    /\ conn = None /\ cmdq = <<>> /\ exec = None /\ results = <<>>
    /\ runs = [c \in Cmds |-> 0]
    /\ expiring = {} /\ canceling = {} /\ fails = 0
-----------------------------------------------------------------------------
\* queue_command, fanout and the other writers: INSERT a PENDING row; the
\* trigger notifies every dispatcher that has its listener up.
QueueCommand ==
    /\ next <= N
    /\ status' = [status EXCEPT ![next] = "pending"]
    /\ next' = next + 1
    /\ notified' = [s \in Streams |-> notified[s] \/ disp[s] \in {"drain", "commit", "wait"}]
    /\ UNCHANGED <<aged, disp, batch, outq, agent, others>>

\* cancel_job reads the bridging Command as PENDING ...
CancelRead(c) ==
    /\ status[c] = "pending" /\ c \notin canceling
    /\ canceling' = canceling \cup {c}
    /\ UNCHANGED <<rows, manager, agent, expiring, fails>>

\* ... and commits FAILED, by primary key.
CancelCommit(c) ==
    /\ c \in canceling
    /\ status' = [status EXCEPT ![c] = "failed"]
    /\ canceling' = canceling \ {c}
    /\ UNCHANGED <<aged, next, manager, agent, expiring, fails>>
-----------------------------------------------------------------------------
\* The agent dials; a new handler starts its dispatcher task.
Connect(s) ==
    /\ conn = None /\ disp[s] = "down"
    /\ conn' = s
    /\ disp' = [disp EXCEPT ![s] = "listen"]
    /\ UNCHANGED <<rows, batch, notified, outq, cmdq, exec, runs, results, others>>

\* listen_for_commands connects and LISTENs; the initial drain follows ...
ListenUp(s) ==
    /\ disp[s] = "listen"
    /\ disp' = [disp EXCEPT ![s] = "drain"]
    /\ UNCHANGED <<rows, batch, notified, outq, agent, others>>

\* ... or asyncpg.connect raises and the task dies with the stream still up.
ListenFails(s) ==
    /\ disp[s] = "listen"
    /\ disp' = [disp EXCEPT ![s] = "dead"]
    /\ UNCHANGED <<rows, batch, notified, outq, agent, others>>

\* notify_event.wait() returns and the event is cleared before the drain.
WakeByNotify(s) ==
    /\ disp[s] = "wait" /\ notified[s]
    /\ disp' = [disp EXCEPT ![s] = "drain"]
    /\ notified' = [notified EXCEPT ![s] = FALSE]
    /\ UNCHANGED <<rows, batch, outq, agent, others>>

\* Mutant of WakeByTimeout: no fallback, only a NOTIFY wakes the dispatcher.
WakeWithoutFallback(s) ==
    /\ disp[s] = "wait" /\ notified[s]
    /\ disp' = [disp EXCEPT ![s] = "drain"]
    /\ notified' = [notified EXCEPT ![s] = FALSE]
    /\ UNCHANGED <<rows, batch, outq, agent, others>>

\* The 30 s fallback.
WakeByTimeout(s) ==
    /\ disp[s] = "wait"
    /\ disp' = [disp EXCEPT ![s] = "drain"]
    /\ notified' = [notified EXCEPT ![s] = FALSE]
    /\ UNCHANGED <<rows, batch, outq, agent, others>>

\* The SELECT ... ORDER BY created_at LIMIT of a drain.
Oldest == {c \in Pending : Cardinality({d \in Pending : d < c}) < BatchLimit}

\* m lists the translatable commands of a batch in created_at order.
InOrder(m, b) ==
    /\ \A c \in b \ Untranslatable : \E i \in 1 .. Len(m) : m[i] = c
    /\ \A i \in 1 .. Len(m) : m[i] \in b \ Untranslatable
    /\ \A i, j \in 1 .. Len(m) : i < j => m[i] < m[j]

\* The part of the batch the loop translates: all of it, or what stands before
\* the first row _command_to_pb raises for.
Reached == {c \in Oldest : \A d \in Oldest \cap Refused : c < d}

\* The loop of _drain_pending puts messages on the unbounded queue, which never
\* suspends: one step.
HandOut(s) ==
    \E k \in 0 .. BatchLimit : \E m \in [1 .. k -> Oldest] :
        /\ InOrder(m, Reached)
        /\ outq' = [outq EXCEPT ![s] = @ \o m]

\* _drain_pending up to its commit.  A row that makes the translation raise ends
\* the drain: what was put before it stays on the queue, every row of the
\* batch stays PENDING, and the next wake-up meets the same row again.
DrainRead(s) ==
    /\ disp[s] = "drain"
    /\ \/ /\ Pending = {}
          /\ disp' = [disp EXCEPT ![s] = "wait"]
          /\ UNCHANGED <<batch, outq>>
       \/ /\ Pending # {} /\ Oldest \cap Refused = {}
          /\ disp' = [disp EXCEPT ![s] = "commit"]
          /\ batch' = [batch EXCEPT ![s] = Oldest]
          /\ HandOut(s)
       \/ /\ Oldest \cap Refused # {} /\ Len(outq[s]) <= MaxResent
          /\ disp' = [disp EXCEPT ![s] = "wait"]
          /\ HandOut(s)
          /\ UNCHANGED batch
    /\ UNCHANGED <<rows, notified, agent, others>>

\* Mutant of Committed: fire and forget, a row handed out has succeeded.
CommittedAtOnce(c) == IF c \in Untranslatable THEN "failed" ELSE "succeeded"

\* What the commit writes to a row of the batch.
Committed(c) == IF c \in Untranslatable THEN "failed" ELSE "dispatched"

DrainCommit(s) ==
    /\ disp[s] = "commit"
    /\ status' = [c \in Cmds |-> IF c \in batch[s] THEN Committed(c) ELSE status[c]]
    /\ aged' = [c \in Cmds |-> aged[c] /\ c \notin batch[s]]
    /\ disp' = [disp EXCEPT ![s] = "wait"]
    /\ batch' = [batch EXCEPT ![s] = {}]
    /\ UNCHANGED <<next, notified, outq, agent, others>>

\* The SELECT or the commit raises: logged, rolled back, retried at the next
\* wake-up.
DrainFails(s) ==
    /\ disp[s] \in {"drain", "commit"} /\ fails < MaxFails
    /\ fails' = fails + 1
    /\ disp' = [disp EXCEPT ![s] = "wait"]
    /\ batch' = [batch EXCEPT ![s] = {}]
    /\ UNCHANGED <<rows, notified, outq, agent, expiring, canceling>>

\* The manager notices the stream is gone: the dispatcher is cancelled, an
\* open transaction rolled back, and what was queued for the agent is lost.
CloseStream(s) ==
    /\ disp[s] # "down" /\ conn # s
    /\ disp' = [disp EXCEPT ![s] = "down"]
    /\ batch' = [batch EXCEPT ![s] = {}]
    /\ notified' = [notified EXCEPT ![s] = FALSE]
    /\ outq' = [outq EXCEPT ![s] = <<>>]
    /\ UNCHANGED <<rows, agent, others>>
-----------------------------------------------------------------------------
\* The connection breaks; the agent notices first.
Disconnect ==
    /\ conn # None
    /\ conn' = None
    /\ UNCHANGED <<rows, manager, cmdq, exec, runs, results, others>>

\* A Command reaches the agent, whose inbound loop forwards it with try_send:
\* dropped when the channel is full.
Deliver(s) ==
    /\ conn = s /\ outq[s] # <<>>
    /\ outq' = [outq EXCEPT ![s] = Tail(@)]
    /\ cmdq' = IF Len(cmdq) < ChanCap THEN Append(cmdq, Head(outq[s])) ELSE cmdq
    /\ UNCHANGED <<rows, disp, batch, notified, conn, exec, runs, results, others>>

\* The command worker takes the next command and starts to act on it.
StartCommand ==
    /\ exec = None /\ cmdq # <<>>
    /\ exec' = Head(cmdq) /\ cmdq' = Tail(cmdq)
    /\ runs' = [runs EXCEPT ![Head(cmdq)] = IF @ < MaxRuns THEN @ + 1 ELSE @]
    /\ UNCHANGED <<rows, manager, conn, results, others>>

\* It is done and sends the CommandResult, waiting for room in the channel.
FinishCommand(ok) ==
    /\ exec # None /\ Len(results) < SendCap
    /\ results' = Append(results, [cmd |-> exec, ok |-> ok])
    /\ exec' = None
    /\ UNCHANGED <<rows, manager, conn, cmdq, runs, others>>

\* The agent process dies with what it held in memory.
AgentCrash ==
    /\ conn' = None /\ cmdq' = <<>> /\ exec' = None
    /\ UNCHANGED <<rows, manager, runs, results, others>>

\* The oldest result is lost: with a broken connection, or a crash before it
\* was spooled.
LoseResult ==
    /\ results # <<>>
    /\ results' = Tail(results)
    /\ UNCHANGED <<rows, manager, conn, cmdq, exec, runs, others>>

\* Mutant of StoreResult: a failure is stored under a name the enum lacks.
StoreError ==
    /\ results # <<>>
    /\ \E s \in Streams : disp[s] # "down"
    /\ status' = [status EXCEPT ![Head(results).cmd] =
                     IF Head(results).ok THEN "succeeded" ELSE "error"]
    /\ results' = Tail(results)
    /\ UNCHANGED <<aged, next, manager, conn, cmdq, exec, runs, others>>

\* _consume_client of a handler that is up stores a CommandResult, whatever
\* the row's status.
StoreResult ==
    /\ results # <<>>
    /\ \E s \in Streams : disp[s] # "down"
    /\ LET r == Head(results)
       IN status' = [status EXCEPT ![r.cmd] = IF r.ok THEN "succeeded" ELSE "failed"]
    /\ results' = Tail(results)
    /\ UNCHANGED <<aged, next, manager, conn, cmdq, exec, runs, others>>
-----------------------------------------------------------------------------
\* Time passes: a row has been DISPATCHED longer than the timeout.
Age(c) ==
    /\ status[c] = "dispatched" /\ ~aged[c]
    /\ aged' = [aged EXCEPT ![c] = TRUE]
    /\ UNCHANGED <<status, next, manager, agent, others>>

\* Mutant of WatchdogSelect: only hosts without a stream are looked at.
WatchdogSelectOffline ==
    /\ expiring = {} /\ conn = None
    /\ expiring' = {c \in Cmds : status[c] = "dispatched" /\ aged[c]}
    /\ expiring' # {}
    /\ UNCHANGED <<rows, manager, agent, canceling, fails>>

\* dispatch_watchdog._run_once: SELECT the expired rows ...
WatchdogSelect ==
    /\ expiring = {}
    /\ expiring' = {c \in Cmds : status[c] = "dispatched" /\ aged[c]}
    /\ expiring' # {}
    /\ UNCHANGED <<rows, manager, agent, canceling, fails>>

\* Mutant of WatchdogUpdate: the status guard of the UPDATE dropped.
WatchdogUpdateById ==
    /\ expiring # {}
    /\ status' = [c \in Cmds |-> IF c \in expiring THEN "failed" ELSE status[c]]
    /\ expiring' = {}
    /\ UNCHANGED <<aged, next, manager, agent, canceling, fails>>

\* ... then UPDATE ... WHERE id IN ids AND status = DISPATCHED.
WatchdogUpdate ==
    /\ expiring # {}
    /\ status' = [c \in Cmds |-> IF c \in expiring /\ status[c] = "dispatched"
                                 THEN "failed" ELSE status[c]]
    /\ expiring' = {}
    /\ UNCHANGED <<aged, next, manager, agent, canceling, fails>>

Dispatcher(s) ==
    \/ ListenUp(s) \/ WakeByTimeout(s) \/ DrainRead(s) \/ DrainCommit(s)

Next ==
    \/ QueueCommand
    \/ \E c \in Cmds : CancelRead(c) \/ CancelCommit(c) \/ Age(c)
    \/ \E s \in Streams :
          \/ Connect(s) \/ ListenFails(s) \/ WakeByNotify(s) \/ DrainFails(s)
          \/ CloseStream(s) \/ Deliver(s) \/ Dispatcher(s)
    \/ Disconnect \/ AgentCrash \/ LoseResult \/ StoreResult \/ StartCommand
    \/ \E ok \in BOOLEAN : FinishCommand(ok)
    \/ WatchdogSelect \/ WatchdogUpdate

\* The tasks of the manager's event loop run on and its timers fire.  Nothing
\* is assumed of the agent, the network, the operator or NOTIFY.
Fairness ==
    /\ \A s \in Streams : WF_vars(Dispatcher(s))
    /\ \A c \in Cmds : WF_vars(Age(c))
    /\ WF_vars(WatchdogSelect) /\ WF_vars(WatchdogUpdate)

Spec == Init /\ [][Next]_vars

FairSpec == Spec /\ Fairness
-----------------------------------------------------------------------------
\* Rows, queues and channels stay in their types; what is on the wire and in
\* the agent is about commands that were queued.
TypeOK ==
    /\ status \in [Cmds -> Status]
    /\ aged \in [Cmds -> BOOLEAN]
    /\ next \in 1 .. N + 1
    /\ disp \in [Streams -> DispatcherState]
    /\ batch \in [Streams -> SUBSET Cmds]
    /\ notified \in [Streams -> BOOLEAN]
    /\ outq \in [Streams -> Seq(Cmds)]
    /\ conn \in Streams \cup {None}
    /\ cmdq \in Seq(Cmds)
    /\ exec \in Cmds \cup {None}
    /\ runs \in [Cmds -> 0 .. MaxRuns]
    /\ results \in Seq(Result)
    /\ expiring \subseteq Cmds
    /\ canceling \subseteq Cmds
    /\ fails \in 0 .. MaxFails

\* A row says SUCCEEDED only if the agent really acted on the command: across
\* late, duplicated and lost messages, watchdog and cancel, success is never
\* invented.
SucceededWasExecuted == \A c \in Cmds : status[c] = "succeeded" => runs[c] > 0

\* The guard repeated in the watchdog's UPDATE: an expiry pass never turns a
\* result that arrived between its SELECT and its UPDATE into a failure.
ExpiryKeepsResults ==
    [][\A c \in Cmds :
          expiring # {} /\ expiring' = {} /\ status[c] = "succeeded"
          => status'[c] = "succeeded"]_vars

\* A dispatcher that is up gets every PENDING row off the queue, oldest first
\* and a batch at a time, whether or not its NOTIFY arrives and whatever rows
\* it has no message for.  The one thing that stops it is a row of the current
\* batch whose payload the translation raises for: until somebody cancels that
\* row, nothing of the batch or behind it is dispatched.
PendingIsDrained ==
    \A c \in Cmds, s \in Streams :
        (status[c] = "pending" /\ disp[s] \in {"drain", "commit", "wait"})
        ~> (status[c] # "pending" \/ disp[s] = "down" \/ Oldest \cap Refused # {})

\* No row sits in DISPATCHED forever: a result, or else the watchdog, ends it,
\* even if the agent never answers again.
DispatchedIsCompleted ==
    \A c \in Cmds : status[c] = "dispatched" ~> status[c] \in {"succeeded", "failed"}

-----------------------------------------------------------------------------
(* Claims of the comments and documents that the code does not keep.      *)

\* "Commands flow PENDING -> DISPATCHED -> SUCCEEDED / FAILED" (module comment
\* of workers/dispatch_watchdog.py): a row that has its result, or that
\* cancel_job has marked FAILED "so the gRPC dispatch path doesn't keep" it
\* (api/jobs.py), is never DISPATCHED afterwards.
StatusFlow ==
    [][\A c \in Cmds : status[c] \in {"succeeded", "failed"} => status'[c] # "dispatched"]_vars

\* "No auto-requeue - double-dispatch under flaky network is worse than asking
\* the operator" (same comment): the agent never starts one command twice.
AtMostOnce == \A c \in Cmds : runs[c] <= 1

\* "Returns None for an unsupported kind so the caller can mark the row as
\* FAILED rather than blocking the queue" (docstring of _command_to_pb): no
\* row blocks a dispatcher that is up.  A payload the translation raises for
\* does, and the commands before it in the batch are sent at every wake-up.
NoRowBlocksTheQueue ==
    \A c \in Cmds, s \in Streams :
        (status[c] = "pending" /\ disp[s] \in {"drain", "commit", "wait"})
        ~> (status[c] # "pending" \/ disp[s] = "down")
=============================================================================
