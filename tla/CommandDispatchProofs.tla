----------------------- MODULE CommandDispatchProofs -----------------------
(***************************************************************************)
(* Proofs about CommandDispatch: its type invariant, that a row never      *)
(* claims a success the agent did not earn, and that the watchdog's UPDATE *)
(* respects results that beat it.                                          *)
(***************************************************************************)
EXTENDS CommandDispatch, SequenceTheorems, TLAPS

\* The tables, queues and channels start in their types.
LEMMA InitTypes == Init => TypeOK
<1> SUFFICES ASSUME Init PROVE TypeOK
  OBVIOUS
<1>1. 1 \in 1 .. N + 1 /\ 0 \in 0 .. MaxRuns /\ 0 \in 0 .. MaxFails
  BY CommandDispatchAssumption
<1> QED
  BY <1>1 DEF Init, TypeOK, Status, DispatcherState

\* What a drain hands out is a sequence of commands.
LEMMA HandedOut ==
    ASSUME NEW k \in Nat, NEW m \in [1 .. k -> Oldest]
    PROVE  m \in Seq(Cmds)
<1>1. Oldest \subseteq Cmds
  BY DEF Oldest, Pending
<1> QED
  BY <1>1

\* The REST handlers, the result handler and the watchdog keep the types.
LEMMA RowWriterTypes ==
    ASSUME TypeOK,
           \/ QueueCommand
           \/ \E c \in Cmds : CancelRead(c) \/ CancelCommit(c) \/ Age(c)
           \/ WatchdogSelect \/ WatchdogUpdate
    PROVE  TypeOK'
<1> USE DEF TypeOK, Status, rows, manager, agent, others
<1>1. CASE QueueCommand
  <2>1. next \in Cmds /\ next + 1 \in 1 .. N + 1
    BY <1>1, CommandDispatchAssumption DEF QueueCommand, Cmds
  <2> QED
    BY <1>1, <2>1 DEF QueueCommand
<1>2. ASSUME NEW c \in Cmds, CancelRead(c) \/ CancelCommit(c) \/ Age(c) PROVE TypeOK'
  BY <1>2 DEF CancelRead, CancelCommit, Age
<1>3. CASE WatchdogSelect
  BY <1>3 DEF WatchdogSelect
<1>4. CASE WatchdogUpdate
  BY <1>4 DEF WatchdogUpdate
<1> QED
  BY <1>1, <1>2, <1>3, <1>4

\* The dispatcher tasks and the close of a stream keep the types.
LEMMA ManagerTypes ==
    ASSUME TypeOK, NEW s \in Streams,
           \/ Connect(s) \/ ListenFails(s) \/ WakeByNotify(s) \/ DrainFails(s)
           \/ CloseStream(s) \/ Dispatcher(s)
    PROVE  TypeOK'
<1> USE DEF TypeOK, Status, DispatcherState, rows, manager, agent, others
<1>1. CASE Connect(s)
  BY <1>1 DEF Connect
<1>2. CASE ListenUp(s) \/ ListenFails(s) \/ WakeByNotify(s) \/ WakeByTimeout(s)
  BY <1>2 DEF ListenUp, ListenFails, WakeByNotify, WakeByTimeout
<1>3. CASE DrainFails(s)
  <2>1. fails + 1 \in 0 .. MaxFails
    BY <1>3, CommandDispatchAssumption DEF DrainFails
  <2> QED
    BY <1>3, <2>1 DEF DrainFails
<1>4. CASE CloseStream(s)
  BY <1>4 DEF CloseStream
<1>5. CASE DrainCommit(s)
  BY <1>5 DEF DrainCommit, Committed
<1>6. CASE DrainRead(s)
  <2>1. CASE UNCHANGED <<batch, outq>>
    BY <1>6, <2>1 DEF DrainRead
  <2>2. CASE HandOut(s)
    <3>1. PICK k \in 0 .. BatchLimit : \E m \in [1 .. k -> Oldest] :
              outq' = [outq EXCEPT ![s] = @ \o m]
      BY <2>2 DEF HandOut
    <3>2. PICK m \in [1 .. k -> Oldest] : outq' = [outq EXCEPT ![s] = @ \o m]
      BY <3>1
    <3>3. k \in Nat
      BY CommandDispatchAssumption
    <3>4. outq[s] \o m \in Seq(Cmds)
      BY <3>3, HandedOut, ConcatProperties
    <3>5. Oldest \subseteq Cmds
      BY DEF Oldest, Pending
    <3> QED
      BY <1>6, <3>2, <3>4, <3>5 DEF DrainRead
  <2> QED
    BY <1>6, <2>1, <2>2 DEF DrainRead
<1> QED
  BY <1>1, <1>2, <1>3, <1>4, <1>5, <1>6 DEF Dispatcher

\* Delivery, the agent's worker and what it loses keep the types.
LEMMA AgentTypes ==
    ASSUME TypeOK,
           \/ \E s \in Streams : Deliver(s)
           \/ Disconnect \/ AgentCrash \/ LoseResult \/ StoreResult \/ StartCommand
           \/ \E ok \in BOOLEAN : FinishCommand(ok)
    PROVE  TypeOK'
<1> USE DEF TypeOK, rows, manager, agent, others
<1>1. ASSUME NEW s \in Streams, Deliver(s) PROVE TypeOK'
  <2>1. Tail(outq[s]) \in Seq(Cmds) /\ Head(outq[s]) \in Cmds
    BY <1>1 DEF Deliver
  <2>2. Append(cmdq, Head(outq[s])) \in Seq(Cmds)
    BY <2>1
  <2> QED
    BY <1>1, <2>1, <2>2 DEF Deliver
<1>2. CASE Disconnect \/ AgentCrash
  <2>1. conn' = None /\ (cmdq' = cmdq \/ cmdq' = <<>>) /\ exec' \in {exec, None}
        /\ UNCHANGED <<rows, manager, runs, results, others>>
    BY <1>2 DEF Disconnect, AgentCrash
  <2>2. cmdq' \in Seq(Cmds)
    BY <2>1, EmptySeq
  <2> QED
    BY <2>1, <2>2
<1>3. CASE LoseResult
  BY <1>3 DEF LoseResult
<1>4. CASE StoreResult
  <2>1. Head(results) \in Result /\ Tail(results) \in Seq(Result)
    BY <1>4 DEF StoreResult
  <2> QED
    BY <1>4, <2>1 DEF StoreResult, Result, Status
<1>5. CASE StartCommand
  <2>1. Head(cmdq) \in Cmds /\ Tail(cmdq) \in Seq(Cmds)
    BY <1>5 DEF StartCommand
  <2>2. \A n \in 0 .. MaxRuns : (IF n < MaxRuns THEN n + 1 ELSE n) \in 0 .. MaxRuns
    BY CommandDispatchAssumption
  <2>3. runs' \in [Cmds -> 0 .. MaxRuns]
    BY <1>5, <2>1, <2>2 DEF StartCommand
  <2> QED
    BY <1>5, <2>1, <2>3 DEF StartCommand
<1>6. ASSUME NEW ok \in BOOLEAN, FinishCommand(ok) PROVE TypeOK'
  <2>1. [cmd |-> exec, ok |-> ok] \in Result
    BY <1>6 DEF FinishCommand, Result
  <2> QED
    BY <1>6, <2>1 DEF FinishCommand
<1> QED
  BY <1>1, <1>2, <1>3, <1>4, <1>5, <1>6

\* Every writer of the commands table, every dispatcher and the agent keep
\* their state in its type: statuses, queues of commands, bounded counters.
THEOREM CommandDispatchTypes == Spec => []TypeOK
<1>1. TypeOK /\ [Next]_vars => TypeOK'
  <2> SUFFICES ASSUME TypeOK, [Next]_vars PROVE TypeOK'
    OBVIOUS
  <2>1. CASE UNCHANGED vars
    BY <2>1 DEF TypeOK, vars, rows, manager, agent, others
  <2> QED
    BY <2>1, RowWriterTypes, ManagerTypes, AgentTypes DEF Next
<1> QED
  BY <1>1, InitTypes, PTL DEF Spec
-----------------------------------------------------------------------------
\* Evidence of execution travels with the command: whatever is being executed,
\* and whatever a result on its way speaks of, has been started.
ExecutingWasStarted == exec # None => runs[exec] > 0

ResultsWereStarted == \A i \in 1 .. Len(results) : runs[results[i].cmd] > 0

SuccessInv == TypeOK /\ ExecutingWasStarted /\ ResultsWereStarted /\ SucceededWasExecuted

\* Nothing has been executed and nothing claims to have been.
LEMMA SuccessInvInit == Init => SuccessInv
  BY InitTypes DEF Init, SuccessInv, ExecutingWasStarted, ResultsWereStarted,
                   SucceededWasExecuted

\* The commands of the results behind the first one.
LEMMA TailWasStarted ==
    ASSUME TypeOK, ResultsWereStarted, results # <<>>
    PROVE  /\ Head(results) \in Result /\ runs[Head(results).cmd] > 0
           /\ \A i \in 1 .. Len(Tail(results)) : runs[Tail(results)[i].cmd] > 0
<1> USE DEF TypeOK, ResultsWereStarted
<1>1. results \in Seq(Result)
  OBVIOUS
<1>2. Head(results) \in Result /\ Head(results) = results[1] /\ 1 \in 1 .. Len(results)
  BY <1>1
<1>3. ASSUME NEW i \in 1 .. Len(Tail(results))
      PROVE  Tail(results)[i] = results[i + 1] /\ i + 1 \in 1 .. Len(results)
  BY <1>1
<1> QED
  BY <1>2, <1>3

\* Every step carries the evidence of execution along.
LEMMA SuccessInvStep ==
    ASSUME SuccessInv, TypeOK', [Next]_vars
    PROVE  SuccessInv'
<1> USE DEF SuccessInv, ExecutingWasStarted, ResultsWereStarted, SucceededWasExecuted,
            rows, manager, agent, others
<1>1. CASE QueueCommand
  BY <1>1 DEF QueueCommand, TypeOK
<1>2. ASSUME NEW c \in Cmds, CancelRead(c) \/ CancelCommit(c) \/ Age(c)
      PROVE SuccessInv'
  BY <1>2 DEF CancelRead, CancelCommit, Age, TypeOK
<1>3. CASE WatchdogSelect \/ WatchdogUpdate
  BY <1>3 DEF WatchdogSelect, WatchdogUpdate, TypeOK
<1>4. ASSUME NEW s \in Streams,
             \/ Connect(s) \/ ListenUp(s) \/ ListenFails(s) \/ WakeByNotify(s)
             \/ WakeByTimeout(s) \/ DrainFails(s) \/ CloseStream(s) \/ Deliver(s)
      PROVE SuccessInv'
  BY <1>4 DEF Connect, ListenUp, ListenFails, WakeByNotify, WakeByTimeout,
              DrainFails, CloseStream, Deliver
<1>5. ASSUME NEW s \in Streams, DrainRead(s) PROVE SuccessInv'
  BY <1>5 DEF DrainRead
<1>6. ASSUME NEW s \in Streams, DrainCommit(s) PROVE SuccessInv'
  BY <1>6 DEF DrainCommit, Committed, TypeOK
<1>7. CASE Disconnect
  BY <1>7 DEF Disconnect
<1>8. CASE AgentCrash
  BY <1>8 DEF AgentCrash
<1>9. CASE LoseResult
  BY <1>9, TailWasStarted DEF LoseResult
<1>10. CASE StoreResult
  <2>1. Head(results) \in Result /\ runs[Head(results).cmd] > 0
    BY <1>10, TailWasStarted DEF StoreResult
  <2>2. SucceededWasExecuted'
    BY <1>10, <2>1 DEF StoreResult, Result, TypeOK
  <2>3. ResultsWereStarted'
    BY <1>10, TailWasStarted DEF StoreResult
  <2> QED
    BY <1>10, <2>2, <2>3 DEF StoreResult
<1>11. CASE StartCommand
  <2>1. Head(cmdq) \in Cmds
    BY <1>11 DEF StartCommand, TypeOK
  <2>2. \A n \in 0 .. MaxRuns : (IF n < MaxRuns THEN n + 1 ELSE n) > 0
    BY CommandDispatchAssumption
  <2>3. runs'[Head(cmdq)] > 0
    BY <1>11, <2>1, <2>2 DEF StartCommand, TypeOK
  <2>4. \A c \in Cmds : c # Head(cmdq) => runs'[c] = runs[c]
    BY <1>11, <2>1 DEF StartCommand, TypeOK
  <2>5. \A i \in 1 .. Len(results) : results[i].cmd \in Cmds
    <3>1. results \in Seq(Result)
      BY DEF TypeOK
    <3> QED
      <4>1. \A i \in 1 .. Len(results) : results[i] \in Result
        BY <3>1
      <4> QED
        BY <4>1 DEF Result
  <2>6. exec' = Head(cmdq) /\ results' = results /\ status' = status
    BY <1>11 DEF StartCommand
  <2> QED
    BY <2>1, <2>3, <2>4, <2>5, <2>6
<1>12. ASSUME NEW ok \in BOOLEAN, FinishCommand(ok) PROVE SuccessInv'
  <2>1. exec # None /\ runs[exec] > 0
    BY <1>12 DEF FinishCommand
  <2>2. \A i \in 1 .. Len(results') :
            results'[i] = IF i = Len(results) + 1 THEN [cmd |-> exec, ok |-> ok] ELSE results[i]
    <3>1. results \in Seq(Result) /\ results' = Append(results, [cmd |-> exec, ok |-> ok])
      BY <1>12 DEF FinishCommand, TypeOK
    <3> QED
      BY <3>1, AppendProperties
  <2>3. Len(results') = Len(results) + 1 /\ Len(results) \in Nat
    BY <1>12 DEF FinishCommand, TypeOK
  <2>4. ResultsWereStarted'
    BY <1>12, <2>1, <2>2, <2>3 DEF FinishCommand
  <2> QED
    BY <1>12, <2>4 DEF FinishCommand
<1>13. CASE UNCHANGED vars
  BY <1>13 DEF vars
<1> QED
  BY <1>1, <1>2, <1>3, <1>4, <1>5, <1>6, <1>7, <1>8, <1>9, <1>10, <1>11, <1>12, <1>13
     DEF Next, Dispatcher

\* For any number of commands, streams and retries, and any channel and batch
\* sizes: a row with status SUCCEEDED names a command the agent has started.
\* Lost, repeated and late results, the watchdog and cancels cannot forge one.
THEOREM SuccessIsEarned == Spec => []SucceededWasExecuted
<1>1. SuccessInv => SucceededWasExecuted
  BY DEF SuccessInv
<1>2. SuccessInv /\ TypeOK' /\ [Next]_vars => SuccessInv'
  BY SuccessInvStep
<1> QED
  BY <1>1, <1>2, SuccessInvInit, CommandDispatchTypes, PTL DEF Spec
-----------------------------------------------------------------------------
\* The one step that empties the watchdog's selection is its UPDATE, and the
\* status guard repeated there keeps every SUCCEEDED row as it is, although
\* the selection was made from an older state.
THEOREM ExpiryIsGuarded == Spec => ExpiryKeepsResults
<1> DEFINE Kept(c) == expiring # {} /\ expiring' = {} /\ status[c] = "succeeded"
                      => status'[c] = "succeeded"
<1>1. TypeOK /\ [Next]_vars => [\A c \in Cmds : Kept(c)]_vars
  <2> SUFFICES ASSUME TypeOK, Next, NEW c \in Cmds,
                      expiring # {}, expiring' = {}, status[c] = "succeeded"
               PROVE  status'[c] = "succeeded"
    OBVIOUS
  <2> USE DEF rows, manager, agent, others
  <2>1. WatchdogUpdate
    <3>1. UNCHANGED expiring \/ WatchdogSelect \/ WatchdogUpdate
      BY DEF Next, Dispatcher, QueueCommand, CancelRead, CancelCommit, Age, Connect,
             ListenUp, ListenFails, WakeByNotify, WakeByTimeout, DrainRead, DrainCommit,
             DrainFails, CloseStream, Deliver, Disconnect, AgentCrash, LoseResult,
             StoreResult, StartCommand, FinishCommand
    <3> QED
      BY <3>1 DEF WatchdogSelect
  <2> QED
    BY <2>1 DEF WatchdogUpdate, TypeOK
<1> QED
  BY <1>1, CommandDispatchTypes, PTL DEF Spec, ExpiryKeepsResults
=============================================================================
