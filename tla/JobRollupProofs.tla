-------------------------- MODULE JobRollupProofs --------------------------
(***************************************************************************)
(* Proofs about JobRollup, for any number of runs: types, that a verdict   *)
(* on a job is earned by its hosts, and that the job follows its runs      *)
(* unless a roll-up was committed after it had become outdated.            *)
(***************************************************************************)
EXTENDS JobRollup, FiniteSetTheorems, SequenceTheorems, TLAPS

\* The tables, sessions and messages start in their types.
LEMMA InitTypes == Init => TypeOK
<1> SUFFICES ASSUME Init PROVE TypeOK
  OBVIOUS
<1>1. 0 \in 0 .. MaxCancels
  BY JobRollupAssumption
<1>2. msgs \in [Runs -> Seq(Wire)]
  BY EmptySeq DEF Init
<1> QED
  BY <1>1, <1>2 DEF Init, TypeOK, JobStatus, JobRunStatus, CmdStatus, TxnState

\* aggregate_status always returns a status of the enum.
LEMMA AggregateType == \A f : Aggregate(f) \in JobStatus \ {"none"}
  BY DEF Aggregate, JobStatus

\* The messages of a run after one more was sent, and after one was taken.
LEMMA MessageTypes ==
    ASSUME TypeOK, NEW r \in Runs
    PROVE  /\ \A ms \in Seq(Wire) : [msgs EXCEPT ![r] = @ \o ms] \in [Runs -> Seq(Wire)]
           /\ msgs[r] # <<>> => [msgs EXCEPT ![r] = Tail(@)] \in [Runs -> Seq(Wire)]
<1>1. msgs[r] \in Seq(Wire)
  BY DEF TypeOK
<1>2. \A ms \in Seq(Wire) : msgs[r] \o ms \in Seq(Wire)
  BY <1>1
<1>3. msgs[r] # <<>> => Tail(msgs[r]) \in Seq(Wire)
  BY <1>1
<1> QED
  BY <1>2, <1>3 DEF TypeOK

\* A handler with an open transaction still has its message in hand.
HasMessage == \A r \in Runs : txn[r] # "idle" => msgs[r] # <<>> /\ Head(msgs[r]) # "running"

\* What an agent sends is a sequence of wire messages.
LEMMA WireSequences ==
    /\ <<"running">> \in Seq(Wire) /\ <<"ok">> \in Seq(Wire) /\ <<"err">> \in Seq(Wire)
    /\ <<"failed", "err">> \in Seq(Wire)
  BY DEF Wire

\* Every statement of a handler or a cancel keeps the types.
LEMMA TypeStep ==
    ASSUME TypeOK, HasMessage, [Next]_vars
    PROVE  TypeOK'
<1> USE DEF tables, session, request, past
<1>1. ASSUME NEW hosts \in SUBSET Runs, CreateJob(hosts) PROVE TypeOK'
  BY <1>1 DEF CreateJob, TypeOK, JobStatus, JobRunStatus, CmdStatus, NonTerminal
<1>2. ASSUME NEW r \in Runs, Dispatch(r) \/ Expire(r) PROVE TypeOK'
  BY <1>2 DEF Dispatch, Expire, TypeOK, CmdStatus
<1>3. ASSUME NEW r \in Runs, AgentStart(r) PROVE TypeOK'
  BY <1>3, MessageTypes, WireSequences DEF AgentStart, Send, TypeOK
<1>4. ASSUME NEW r \in Runs, NEW ok \in BOOLEAN, AgentFinish(r, ok) PROVE TypeOK'
  <2>1. PICK ms \in Seq(Wire) : msgs' = [msgs EXCEPT ![r] = @ \o ms]
    BY <1>4, WireSequences DEF AgentFinish, Send
  <2> QED
    BY <1>4, <2>1, MessageTypes DEF AgentFinish, TypeOK
<1>5. ASSUME NEW r \in Runs, LoseMessage(r) \/ StoreRunning(r) PROVE TypeOK'
  <2>1. msgs' \in [Runs -> Seq(Wire)]
    BY <1>5, MessageTypes DEF LoseMessage, StoreRunning
  <2> QED
    <3>1. CASE LoseMessage(r)
      BY <3>1, <2>1 DEF LoseMessage, TypeOK
    <3>2. CASE StoreRunning(r)
      BY <3>2, <2>1 DEF StoreRunning, TypeOK, JobRunStatus, NonTerminal
    <3> QED
      BY <1>5, <3>1, <3>2
<1>6. ASSUME NEW r \in Runs, ReadRun(r) \/ LoadJob(r) PROVE TypeOK'
  <2>1. CASE ReadRun(r)
    BY <2>1 DEF ReadRun, TypeOK, TxnState
  <2>2. CASE LoadJob(r)
    BY <2>2 DEF LoadJob, TypeOK, TxnState
  <2> QED
    BY <1>6, <2>1, <2>2
<1>7. ASSUME NEW r \in Runs, FlushRun(r) PROVE TypeOK'
  BY <1>7 DEF FlushRun, Reported, TypeOK, TxnState, JobRunStatus, Terminal, NonTerminal
<1>8. ASSUME NEW r \in Runs, CountRuns(r) PROVE TypeOK'
  BY <1>8, AggregateType DEF CountRuns, TypeOK, TxnState
<1>9. ASSUME NEW r \in Runs, CommitRun(r) PROVE TypeOK'
  <2>1. msgs' \in [Runs -> Seq(Wire)]
    BY <1>9, MessageTypes DEF CommitRun, HasMessage
  <2>2. cmd' \in [Runs -> CmdStatus]
    BY <1>9 DEF CommitRun, TypeOK, CmdStatus
  <2>3. overtaken' \subseteq Runs /\ outdated' \in BOOLEAN
    BY <1>9 DEF CommitRun, Counted, TypeOK
  <2> QED
    BY <1>9, <2>1, <2>2, <2>3 DEF CommitRun, TypeOK, TxnState
<1>10. ASSUME NEW r \in Runs, AbortTxn(r) PROVE TypeOK'
  <2>1. msgs' \in [Runs -> Seq(Wire)]
    BY <1>10, MessageTypes DEF AbortTxn, Deadlocked, WritesJob, HasMessage
  <2> QED
    BY <1>10, <2>1 DEF AbortTxn, TypeOK, TxnState
<1>11. CASE CancelReadJob
  <2>1. cancels + 1 \in 0 .. MaxCancels
    BY <1>11, JobRollupAssumption DEF CancelReadJob, TypeOK
  <2> QED
    BY <1>11, <2>1 DEF CancelReadJob, TypeOK
<1>12. CASE CancelRequest
  BY <1>12 DEF CancelRequest, CancelReadRuns, CancelLockJob, CancelCommit, Counted, TypeOK,
               JobStatus, JobRunStatus, Terminal, CmdStatus
<1>13. CASE AbortCancel
  BY <1>13 DEF AbortCancel, TypeOK
<1>14. CASE UNCHANGED vars
  BY <1>14 DEF vars, TypeOK
<1> QED
  BY <1>1, <1>2, <1>3, <1>4, <1>5, <1>6, <1>7, <1>8, <1>9, <1>10, <1>11, <1>12,
     <1>13, <1>14 DEF Next, Transaction

\* Sending appends, so the message in hand stays in hand.
LEMMA HeadOfSent ==
    ASSUME NEW s \in Seq(Wire), s # <<>>, NEW t \in Seq(Wire)
    PROVE  s \o t # <<>> /\ Head(s \o t) = Head(s)
  OBVIOUS

\* A message is taken only when its transaction ends.
LEMMA HasMessageStep ==
    ASSUME TypeOK, HasMessage, [Next]_vars
    PROVE  HasMessage'
<1> USE DEF HasMessage, tables, session, request, past
<1>1. ASSUME NEW hosts \in SUBSET Runs, CreateJob(hosts) PROVE HasMessage'
  BY <1>1 DEF CreateJob
<1>2. ASSUME NEW r \in Runs, Dispatch(r) \/ Expire(r) PROVE HasMessage'
  BY <1>2 DEF Dispatch, Expire
<1>3. ASSUME NEW r \in Runs,
             AgentStart(r) \/ \E ok \in BOOLEAN : AgentFinish(r, ok)
      PROVE HasMessage'
  <2>1. PICK ms \in Seq(Wire) : msgs' = [msgs EXCEPT ![r] = @ \o ms]
    BY <1>3, WireSequences DEF AgentStart, AgentFinish, Send
  <2>2. txn' = txn
    BY <1>3 DEF AgentStart, AgentFinish
  <2>3. msgs[r] \in Seq(Wire) /\ msgs'[r] = msgs[r] \o ms
        /\ \A s \in Runs : s # r => msgs'[s] = msgs[s]
    BY <2>1 DEF TypeOK
  <2>4. msgs[r] # <<>> => msgs'[r] # <<>> /\ Head(msgs'[r]) = Head(msgs[r])
    BY <2>3, HeadOfSent
  <2> QED
    BY <2>2, <2>3, <2>4
<1>4. ASSUME NEW r \in Runs, LoseMessage(r) \/ StoreRunning(r) \/ CommitRun(r) \/ AbortTxn(r)
      PROVE HasMessage'
  <2>1. txn'[r] = "idle" /\ \A s \in Runs : s # r => txn'[s] = txn[s] /\ msgs'[s] = msgs[s]
    <3>1. CASE LoseMessage(r) \/ StoreRunning(r)
      BY <3>1 DEF LoseMessage, StoreRunning, TypeOK
    <3>2. CASE CommitRun(r)
      BY <3>2 DEF CommitRun, TypeOK
    <3>3. CASE AbortTxn(r)
      BY <3>3 DEF AbortTxn, TypeOK
    <3> QED
      BY <1>4, <3>1, <3>2, <3>3
  <2> QED
    BY <2>1
<1>5. ASSUME NEW r \in Runs, ReadRun(r) \/ FlushRun(r) \/ CountRuns(r) \/ LoadJob(r)
      PROVE HasMessage'
  BY <1>5 DEF ReadRun, FlushRun, CountRuns, LoadJob, TypeOK
<1>6. CASE CancelReadJob \/ CancelRequest \/ AbortCancel
  BY <1>6 DEF CancelReadJob, CancelRequest, CancelReadRuns, CancelLockJob, CancelCommit,
              AbortCancel
<1>7. CASE UNCHANGED vars
  BY <1>7 DEF vars
<1> QED
  BY <1>1, <1>2, <1>3, <1>4, <1>5, <1>6, <1>7 DEF Next, Transaction

\* Fan-out, roll-up, cancel and deadlock victims keep every table, session and
\* message queue in its type.
THEOREM JobRollupTypes == Spec => [](TypeOK /\ HasMessage)
<1>1. Init => TypeOK /\ HasMessage
  BY InitTypes DEF Init, HasMessage
<1>2. TypeOK /\ HasMessage /\ [Next]_vars => (TypeOK /\ HasMessage)'
  BY TypeStep, HasMessageStep
<1> QED
  BY <1>1, <1>2, PTL DEF Spec
-----------------------------------------------------------------------------
\* Before create_job nothing of the job exists.
NothingYet ==
    job = "none" => \A r \in Runs : /\ cmd[r] = "none" /\ agent[r] = "none"
                                    /\ msgs[r] = <<>> /\ txn[r] = "idle"

CountIsStatus == \A r \in Runs : txn[r] \in {"counted", "ready"} => agg[r] # "none"

JobExists == NothingYet /\ CountIsStatus

\* Runs, messages and transactions come after create_job.
LEMMA JobExistsStep ==
    ASSUME TypeOK, HasMessage, JobExists, [Next]_vars
    PROVE  JobExists'
<1> USE DEF JobExists, NothingYet, CountIsStatus, HasMessage, tables, session, request, past
<1>1. ASSUME NEW hosts \in SUBSET Runs, CreateJob(hosts) PROVE JobExists'
  BY <1>1 DEF CreateJob
<1>2. ASSUME NEW r \in Runs, Dispatch(r) PROVE JobExists'
  BY <1>2 DEF Dispatch, TypeOK
<1>3. ASSUME NEW r \in Runs, Expire(r) PROVE JobExists'
  BY <1>3 DEF Expire, TypeOK
<1>4. ASSUME NEW r \in Runs, AgentStart(r) \/ \E ok \in BOOLEAN : AgentFinish(r, ok)
      PROVE JobExists'
  BY <1>4 DEF AgentStart, AgentFinish, TypeOK
<1>5. ASSUME NEW r \in Runs, LoseMessage(r) \/ StoreRunning(r) PROVE JobExists'
  BY <1>5 DEF LoseMessage, StoreRunning, TypeOK
<1>6. ASSUME NEW r \in Runs, ReadRun(r) \/ FlushRun(r) PROVE JobExists'
  BY <1>6 DEF ReadRun, FlushRun, TypeOK
<1>7. ASSUME NEW r \in Runs, CountRuns(r) PROVE JobExists'
  BY <1>7, AggregateType DEF CountRuns, TypeOK
<1>8. ASSUME NEW r \in Runs, LoadJob(r) PROVE JobExists'
  BY <1>8 DEF LoadJob, TypeOK
<1>9. ASSUME NEW r \in Runs, CommitRun(r) PROVE JobExists'
  <2>1. job # "none" /\ agg[r] # "none"
    BY <1>9 DEF CommitRun
  <2>2. job' # "none"
    BY <1>9, <2>1 DEF CommitRun
  <2> QED
    BY <1>9, <2>2 DEF CommitRun, TypeOK
<1>10. ASSUME NEW r \in Runs, AbortTxn(r) PROVE JobExists'
  <2>1. job' # "none"
    BY <1>10 DEF AbortTxn, Deadlocked, WritesJob
  <2> QED
    BY <1>10, <2>1 DEF AbortTxn, TypeOK
<1>11. CASE CancelReadJob \/ CancelRequest \/ AbortCancel
  BY <1>11 DEF CancelReadJob, CancelRequest, CancelReadRuns, CancelLockJob, CancelCommit,
               AbortCancel
<1>12. CASE UNCHANGED vars
  BY <1>12 DEF vars
<1> QED
  BY <1>1, <1>2, <1>3, <1>4, <1>5, <1>6, <1>7, <1>8, <1>9, <1>10, <1>11, <1>12
     DEF Next, Transaction

\* Before create_job there is nothing to roll up.
LEMMA JobExistsAlways == Spec => []JobExists
<1>1. Init => JobExists
  BY DEF Init, JobExists, NothingYet, CountIsStatus
<1>2. TypeOK /\ HasMessage /\ JobExists /\ [Next]_vars => JobExists'
  BY JobExistsStep
<1> QED
  BY <1>1, <1>2, JobRollupTypes, PTL DEF Spec
-----------------------------------------------------------------------------
\* Until another transaction commits, the count a handler holds is of the runs
\* as they will be once it commits, and the job it loaded is still the job.
AllTerminal(f) == /\ \A r \in Runs : f[r] \in Terminal \cup {"none"}
                  /\ \E r \in Runs : f[r] # "none"

CountIsCurrent ==
    \A r \in Counted \ overtaken :
        AllTerminal([run EXCEPT ![r] = mine[r]]) => agg[r] \in JobTerminal

JobIsCurrent == \A r \in Counted \ overtaken : txn[r] = "ready" => seenJob[r] = job

FollowInv == CountIsCurrent /\ JobIsCurrent /\ FollowsUnlessOutdated

\* aggregate_status is terminal when there are runs and all of them are.
LEMMA AggregateTerminal ==
    ASSUME NEW f, AllTerminal(f), \A r \in Runs : f[r] \in JobRunStatus
    PROVE  Aggregate(f) \in JobTerminal
<1>1. (\E r \in Runs : f[r] \in NonTerminal \cup Terminal)
      /\ ~(\E r \in Runs : f[r] \in NonTerminal)
  BY DEF AllTerminal, NonTerminal, Terminal, JobRunStatus
<1> QED
  BY <1>1 DEF Aggregate, JobTerminal

\* A step that leaves the tables and the sessions alone leaves the counts as
\* current as they were.
LEMMA FollowKept ==
    ASSUME FollowInv, UNCHANGED <<job, run, session, past>>
    PROVE  FollowInv'
  BY DEF FollowInv, CountIsCurrent, JobIsCurrent, FollowsUnlessOutdated, Counted, session, past

\* Every step keeps a count current that no other commit has overtaken.
LEMMA FollowStep ==
    ASSUME TypeOK, HasMessage, JobExists, FollowInv, [Next]_vars
    PROVE  FollowInv'
<1> USE DEF FollowInv, tables, session, request, past
<1>1. ASSUME NEW hosts \in SUBSET Runs, CreateJob(hosts) PROVE FollowInv'
  <2>1. \A r \in Runs : txn'[r] = "idle"
    BY <1>1 DEF CreateJob, JobExists, NothingYet
  <2>2. FollowsUnlessOutdated'
    BY <1>1 DEF CreateJob, FollowsUnlessOutdated, Terminal
  <2> QED
    BY <2>1, <2>2 DEF CountIsCurrent, JobIsCurrent, Counted
<1>2. ASSUME NEW r \in Runs, \/ Dispatch(r) \/ Expire(r) \/ AgentStart(r) \/ LoseMessage(r)
                              \/ \E ok \in BOOLEAN : AgentFinish(r, ok)
      PROVE FollowInv'
  <2>1. UNCHANGED <<job, run, session, past>>
    BY <1>2 DEF Dispatch, Expire, AgentStart, LoseMessage, AgentFinish
  <2> QED
    BY <2>1, FollowKept
<1>3. ASSUME NEW r \in Runs, StoreRunning(r) PROVE FollowInv'
  <2>1. run'[r] = "running" /\ txn[r] = "idle" /\ UNCHANGED <<job, session, past>>
    BY <1>3 DEF StoreRunning, TypeOK
  <2>2. \A s \in Runs : s # r => ~AllTerminal([run' EXCEPT ![s] = mine'[s]])
    BY <1>3, <2>1 DEF AllTerminal, Terminal, StoreRunning, TypeOK
  <2>3. CountIsCurrent'
    BY <2>1, <2>2 DEF CountIsCurrent, Counted
  <2>4. FollowsUnlessOutdated'
    BY <2>1 DEF FollowsUnlessOutdated, Terminal
  <2> QED
    BY <2>1, <2>3, <2>4 DEF JobIsCurrent, Counted
<1>4. ASSUME NEW r \in Runs, ReadRun(r) \/ FlushRun(r) PROVE FollowInv'
  <2>1. /\ UNCHANGED <<job, run, agg, seenJob, past>> /\ Counted' = Counted
        /\ \A s \in Counted : s # r /\ txn'[s] = txn[s] /\ mine'[s] = mine[s]
    BY <1>4 DEF ReadRun, FlushRun, Counted, TypeOK
  <2> QED
    BY <2>1 DEF CountIsCurrent, JobIsCurrent, FollowsUnlessOutdated
<1>5. ASSUME NEW r \in Runs, CountRuns(r) PROVE FollowInv'
  <2> DEFINE f == [run EXCEPT ![r] = mine[r]]
  <2>1. agg'[r] = Aggregate(f) /\ UNCHANGED <<job, run, mine, seenJob, outdated>>
    BY <1>5 DEF CountRuns, TypeOK
  <2>2. \A s \in Runs : f[s] \in JobRunStatus
    BY DEF TypeOK
  <2>3. AllTerminal(f) => agg'[r] \in JobTerminal
    BY <2>1, <2>2, AggregateTerminal
  <2>4. \A s \in Counted' \ overtaken' :
            s # r => s \in Counted \ overtaken /\ agg'[s] = agg[s] /\ txn'[s] = txn[s]
    BY <1>5 DEF CountRuns, Counted, TypeOK
  <2>5. txn'[r] = "counted"
    BY <1>5 DEF CountRuns, TypeOK
  <2>6. CountIsCurrent'
    BY <2>1, <2>3, <2>4 DEF CountIsCurrent
  <2>7. JobIsCurrent'
    BY <2>1, <2>4, <2>5 DEF JobIsCurrent
  <2> QED
    BY <2>1, <2>6, <2>7 DEF FollowsUnlessOutdated
<1>6. ASSUME NEW r \in Runs, LoadJob(r) PROVE FollowInv'
  <2>1. UNCHANGED <<job, run, mine, agg, past>> /\ Counted' = Counted /\ seenJob'[r] = job
        /\ \A s \in Runs : s # r => txn'[s] = txn[s] /\ seenJob'[s] = seenJob[s]
    BY <1>6 DEF LoadJob, Counted, TypeOK
  <2> QED
    BY <2>1 DEF CountIsCurrent, JobIsCurrent, FollowsUnlessOutdated, Counted
<1>7. ASSUME NEW r \in Runs, CommitRun(r) PROVE FollowInv'
  <2>1. Counted' \ overtaken' = {}
    BY <1>7 DEF CommitRun, Counted, TypeOK
  <2>2. r \in Counted /\ run' = [run EXCEPT ![r] = mine[r]]
    BY <1>7 DEF CommitRun, Counted
  <2>3. r \notin overtaken => job' = agg[r]
    BY <1>7, <2>2 DEF CommitRun, WritesJob, JobIsCurrent
  <2>4. r \notin overtaken /\ AllTerminal(run') => job' \in JobTerminal
    BY <2>2, <2>3 DEF CountIsCurrent
  <2>5. r \in overtaken => outdated'
    BY <1>7 DEF CommitRun
  <2>6. FollowsUnlessOutdated'
    BY <2>4, <2>5 DEF FollowsUnlessOutdated, AllTerminal
  <2> QED
    BY <2>1, <2>6 DEF CountIsCurrent, JobIsCurrent
<1>8. ASSUME NEW r \in Runs, AbortTxn(r) PROVE FollowInv'
  <2>1. /\ UNCHANGED <<job, run, mine, agg, seenJob, past>>
        /\ \A s \in Counted' : s \in Counted /\ txn'[s] = txn[s]
    BY <1>8 DEF AbortTxn, Counted, TypeOK
  <2> QED
    BY <2>1 DEF CountIsCurrent, JobIsCurrent, FollowsUnlessOutdated
<1>9. CASE CancelReadJob \/ CancelReadRuns \/ CancelLockJob \/ AbortCancel
  <2>1. UNCHANGED <<job, run, session, past>>
    BY <1>9 DEF CancelReadJob, CancelReadRuns, CancelLockJob, AbortCancel
  <2> QED
    BY <2>1, FollowKept
<1>10. CASE CancelCommit
  <2>1. Counted' \ overtaken' = {} /\ job' = "canceled"
    BY <1>10 DEF CancelCommit, Counted
  <2> QED
    BY <2>1 DEF CountIsCurrent, JobIsCurrent, FollowsUnlessOutdated, JobTerminal
<1>11. CASE UNCHANGED vars
  BY <1>11, FollowKept DEF vars
<1> QED
  BY <1>1, <1>2, <1>3, <1>4, <1>5, <1>6, <1>7, <1>8, <1>9, <1>10, <1>11
     DEF Next, Transaction, CancelRequest

\* For any number of hosts, of overlapping roll-ups and of cancels, and any loss
\* of messages: a job all of whose runs have ended has ended itself, unless a
\* handler committed a roll-up that another commit had made outdated.  What
\* breaks the promise of models/job.py is that overlap and nothing else.
THEOREM RollupFollows == Spec => []FollowsUnlessOutdated
<1>1. Init => FollowInv
  BY DEF Init, FollowInv, CountIsCurrent, JobIsCurrent, Counted, FollowsUnlessOutdated
<1>2. TypeOK /\ HasMessage /\ JobExists /\ FollowInv /\ [Next]_vars => FollowInv'
  BY FollowStep
<1>3. FollowInv => FollowsUnlessOutdated
  BY DEF FollowInv
<1> QED
  BY <1>1, <1>2, <1>3, JobRollupTypes, JobExistsAlways, PTL DEF Spec
-----------------------------------------------------------------------------
\* What a status of a run has to rest on: a terminal run was finished by its
\* agent or canceled, a failed one failed on the agent.
Settled(r) == agent[r] \in {"ok", "err"} \/ r \in canceled

Backed(st, r) == /\ st \in Terminal => Settled(r)
                 /\ st = "failed" => agent[r] = "err"
                 /\ st # "timeout"

RunsBacked == \A r \in Runs : Backed(run[r], r)

FlushesBacked == \A r \in Runs : Locked(r) => Backed(mine[r], r)

MessagesBacked ==
    \A r \in Runs : \A i \in 1 .. Len(msgs[r]) :
        /\ msgs[r][i] = "ok" => agent[r] = "ok"
        /\ msgs[r][i] \in {"failed", "err"} => agent[r] = "err"

Verdict(st) ==
    /\ st \in {"completed", "failed"} => \A r \in Runs : run[r] # "none" => Settled(r)
    /\ st = "failed" => \E r \in Runs : agent[r] = "err"

CountsBacked == \A r \in Runs : txn[r] \in {"counted", "ready"} => Verdict(agg[r])

VerdictInv == /\ RunsBacked /\ FlushesBacked /\ MessagesBacked /\ CountsBacked
              /\ Verdict(job)

\* Agents do not take back that they finished, cancels are not undone, and a
\* run that exists was there before unless create_job just made it.
Grows == /\ \A r \in Runs : agent[r] \in {"ok", "err"} => agent'[r] = agent[r]
         /\ canceled \subseteq canceled'

NoNewRuns == \A r \in Runs : run'[r] # "none" => run[r] # "none"

\* A status that is backed stays backed.
LEMMA BackedGrows ==
    ASSUME Grows, NEW r \in Runs, NEW st, Backed(st, r)
    PROVE  Backed(st, r)'
  BY DEF Grows, Backed, Settled

\* A verdict that is earned stays earned.
LEMMA VerdictGrows ==
    ASSUME Grows, NoNewRuns, NEW st, Verdict(st)
    PROVE  Verdict(st)'
  BY DEF Grows, NoNewRuns, Verdict, Settled

\* aggregate_status turns backed statuses into a backed verdict.
LEMMA AggregateBacked ==
    ASSUME NEW f, \A r \in Runs : Backed(f[r], r) /\ f[r] \in JobRunStatus,
           \A r \in Runs : run[r] # "none" => f[r] # "none"
    PROVE  Verdict(Aggregate(f))
<1>1. ASSUME Aggregate(f) \in {"completed", "failed"}, NEW r \in Runs, run[r] # "none"
      PROVE  Settled(r)
  <2>1. \A s \in Runs : f[s] \notin NonTerminal
    BY <1>1 DEF Aggregate
  <2>2. f[r] \in Terminal
    BY <1>1, <2>1 DEF JobRunStatus
  <2> QED
    BY <2>2 DEF Backed
<1>2. ASSUME Aggregate(f) = "failed" PROVE \E r \in Runs : agent[r] = "err"
  <2>1. PICK r \in Runs : f[r] \in {"failed", "timeout"}
    BY <1>2 DEF Aggregate
  <2> QED
    BY <2>1 DEF Backed
<1> QED
  BY <1>1, <1>2 DEF Verdict

\* The status a handler takes from its message is backed.
LEMMA HeadBacked ==
    ASSUME TypeOK, HasMessage, MessagesBacked, NEW r \in Runs, txn[r] # "idle"
    PROVE  Backed(Reported(Head(msgs[r])), r)
<1>1. msgs[r] \in Seq(Wire) /\ msgs[r] # <<>> /\ Head(msgs[r]) # "running"
  BY DEF TypeOK, HasMessage
<1>2. Head(msgs[r]) = msgs[r][1] /\ 1 \in 1 .. Len(msgs[r]) /\ Head(msgs[r]) \in Wire
  BY <1>1
<1>3. /\ Head(msgs[r]) = "ok" => agent[r] = "ok"
      /\ Head(msgs[r]) \in {"failed", "err"} => agent[r] = "err"
  BY <1>2 DEF MessagesBacked
<1> QED
  BY <1>1, <1>2, <1>3 DEF Reported, Backed, Settled, Terminal, Wire

\* What is behind the first message was in the queue before.
LEMMA TailElement ==
    ASSUME NEW s \in Seq(Wire), s # <<>>, NEW i \in 1 .. Len(Tail(s))
    PROVE  Tail(s)[i] = s[i + 1] /\ i + 1 \in 1 .. Len(s)
<1>1. Len(Tail(s)) = Len(s) - 1 /\ Len(s) \in Nat /\ Tail(s)[i] = s[i + 1]
  BY HeadTailProperties, LenProperties
<1> QED
  BY <1>1

\* Taking a message leaves the others backed.
LEMMA TailBacked ==
    ASSUME TypeOK, MessagesBacked, UNCHANGED agent, NEW r \in Runs, msgs[r] # <<>>,
           msgs' = [msgs EXCEPT ![r] = Tail(@)]
    PROVE  MessagesBacked'
<1>1. msgs[r] \in Seq(Wire) /\ msgs'[r] = Tail(msgs[r])
      /\ \A s \in Runs : s # r => msgs'[s] = msgs[s]
  BY DEF TypeOK
<1>2. ASSUME NEW i \in 1 .. Len(msgs'[r])
      PROVE  msgs'[r][i] = msgs[r][i + 1] /\ i + 1 \in 1 .. Len(msgs[r])
  BY <1>1, TailElement
<1> QED
  BY <1>1, <1>2 DEF MessagesBacked

\* What an agent sends is backed by where it then stands.
LEMMA SendBacked ==
    ASSUME TypeOK, MessagesBacked, Grows, NEW r \in Runs, NEW ms \in Seq(Wire),
           msgs' = [msgs EXCEPT ![r] = @ \o ms],
           \A s \in Runs : s # r => agent'[s] = agent[s],
           \A i \in 1 .. Len(ms) : /\ ms[i] = "ok" => agent'[r] = "ok"
                                   /\ ms[i] \in {"failed", "err"} => agent'[r] = "err"
    PROVE  MessagesBacked'
<1>1. msgs[r] \in Seq(Wire) /\ msgs'[r] = msgs[r] \o ms
      /\ \A s \in Runs : s # r => msgs'[s] = msgs[s]
  BY DEF TypeOK
<1>2. ASSUME NEW i \in 1 .. Len(msgs'[r])
      PROVE  /\ msgs'[r][i] = "ok" => agent'[r] = "ok"
             /\ msgs'[r][i] \in {"failed", "err"} => agent'[r] = "err"
  <2>1. CASE i \in 1 .. Len(msgs[r])
    <3>1. msgs'[r][i] = msgs[r][i]
      BY <1>1, <2>1
    <3> QED
      BY <2>1, <3>1 DEF MessagesBacked, Grows
  <2>2. CASE i \notin 1 .. Len(msgs[r])
    <3>1. msgs'[r][i] = ms[i - Len(msgs[r])] /\ i - Len(msgs[r]) \in 1 .. Len(ms)
      BY <1>1, <2>2
    <3> QED
      BY <3>1
  <2> QED
    BY <2>1, <2>2
<1> QED
  BY <1>1, <1>2 DEF MessagesBacked

\* Commands, agents and messages are about runs that exist.
RunsExist ==
    /\ \A r \in Runs :
          /\ cmd[r] # "none" \/ agent[r] # "none" \/ msgs[r] # <<>> => run[r] # "none"
          /\ Locked(r) => mine[r] # "none"
          /\ r \in victims \cup doomed => run[r] # "none" /\ job # "none"
    /\ cancel # "idle" => job # "none"

\* No step makes a command, agent or message without its run.
LEMMA RunsExistStep ==
    ASSUME TypeOK, HasMessage, JobExists, RunsExist, [Next]_vars
    PROVE  RunsExist'
<1> USE DEF RunsExist, Locked, tables, session, request, past
<1>1. ASSUME NEW hosts \in SUBSET Runs, CreateJob(hosts) PROVE RunsExist'
  BY <1>1 DEF CreateJob, JobExists, NothingYet
<1>2. ASSUME NEW r \in Runs, Dispatch(r) \/ Expire(r) PROVE RunsExist'
  BY <1>2 DEF Dispatch, Expire, TypeOK
<1>3. ASSUME NEW r \in Runs, AgentStart(r) \/ \E ok \in BOOLEAN : AgentFinish(r, ok)
      PROVE RunsExist'
  BY <1>3 DEF AgentStart, AgentFinish, Send, TypeOK
<1>4. ASSUME NEW r \in Runs, LoseMessage(r) PROVE RunsExist'
  BY <1>4 DEF LoseMessage, TypeOK
<1>5. ASSUME NEW r \in Runs, StoreRunning(r) PROVE RunsExist'
  BY <1>5 DEF StoreRunning, TypeOK
<1>6. ASSUME NEW r \in Runs, ReadRun(r) PROVE RunsExist'
  BY <1>6 DEF ReadRun, TypeOK
<1>7. ASSUME NEW r \in Runs, FlushRun(r) PROVE RunsExist'
  <2>1. msgs[r] # <<>> /\ run[r] # "none"
    BY <1>7 DEF FlushRun, HasMessage
  <2>2. mine'[r] # "none"
    BY <1>7, <2>1 DEF FlushRun, Reported, TypeOK
  <2> QED
    BY <1>7, <2>2 DEF FlushRun, TypeOK
<1>8. ASSUME NEW r \in Runs, CountRuns(r) \/ LoadJob(r) PROVE RunsExist'
  BY <1>8 DEF CountRuns, LoadJob, TypeOK
<1>9. ASSUME NEW r \in Runs, CommitRun(r) PROVE RunsExist'
  <2>1. run'[r] # "none" /\ \A s \in Runs : s # r => run'[s] = run[s] /\ msgs'[s] = msgs[s]
    BY <1>9 DEF CommitRun, TypeOK
  <2>2. \A s \in Runs : s # r => cmd'[s] = cmd[s]
    BY <1>9 DEF CommitRun, TypeOK
  <2>3. \A s \in Runs : txn'[s] \in {"idle", txn[s]}
    BY <1>9 DEF CommitRun, TypeOK
  <2>4. job # "none" => job' # "none"
    BY <1>9 DEF CommitRun, JobExists, CountIsStatus
  <2> QED
    BY <1>9, <2>1, <2>2, <2>3, <2>4 DEF CommitRun
<1>10. ASSUME NEW r \in Runs, AbortTxn(r) PROVE RunsExist'
  <2>1. msgs[r] # <<>>
    BY <1>10 DEF AbortTxn, Deadlocked, WritesJob, HasMessage
  <2> QED
    BY <1>10, <2>1 DEF AbortTxn, TypeOK
<1>11. CASE CancelReadJob \/ CancelLockJob \/ AbortCancel
  BY <1>11 DEF CancelReadJob, CancelLockJob, AbortCancel
<1>12. CASE CancelCommit
  <2>1. \A r \in Runs : run[r] # "none" => run'[r] # "none"
    BY <1>12 DEF CancelCommit
  <2>2. \A r \in Runs : r \in doomed => run'[r] # "none"
    BY <2>1
  <2> QED
    BY <1>12, <2>1, <2>2 DEF CancelCommit
<1>13. CASE UNCHANGED vars
  BY <1>13 DEF vars
<1>14. CASE CancelReadRuns
  BY <1>14 DEF CancelReadRuns, NonTerminal
<1> QED
  BY <1>1, <1>2, <1>3, <1>4, <1>5, <1>6, <1>7, <1>8, <1>9, <1>10, <1>11, <1>12, <1>13,
     <1>14 DEF Next, Transaction, CancelRequest

\* Every step keeps runs, flushed values, messages, counts and the job backed.
LEMMA VerdictStep ==
    ASSUME TypeOK, HasMessage, JobExists, RunsExist, VerdictInv, [Next]_vars
    PROVE  VerdictInv'
<1> USE DEF VerdictInv, tables, session, request, past
<1>1. ASSUME NEW hosts \in SUBSET Runs, CreateJob(hosts) PROVE VerdictInv'
  <2>1. \A r \in Runs : txn'[r] = "idle" /\ run'[r] \in {"queued", "none"}
    BY <1>1 DEF CreateJob, JobExists, NothingYet
  <2>2. job' \in {"queued", "running"} /\ UNCHANGED <<agent, msgs>>
    BY <1>1 DEF CreateJob
  <2> QED
    BY <2>1, <2>2 DEF RunsBacked, Backed, Terminal, FlushesBacked, Locked, MessagesBacked,
                      CountsBacked, Verdict
<1>2. ASSUME NEW r \in Runs, Dispatch(r) \/ Expire(r) PROVE VerdictInv'
  <2>1. Grows /\ NoNewRuns /\ UNCHANGED <<job, run, msgs, session>>
    BY <1>2 DEF Dispatch, Expire, Grows, NoNewRuns, TypeOK
  <2>2. RunsBacked' /\ FlushesBacked'
    BY <2>1, BackedGrows DEF RunsBacked, FlushesBacked, Locked
  <2>3. CountsBacked' /\ Verdict(job)'
    BY <2>1, VerdictGrows DEF CountsBacked
  <2>4. MessagesBacked'
    BY <2>1 DEF MessagesBacked, Grows
  <2> QED
    BY <2>2, <2>3, <2>4
<1>3. ASSUME NEW r \in Runs, AgentStart(r) \/ \E ok \in BOOLEAN : AgentFinish(r, ok)
      PROVE VerdictInv'
  <2>1. Grows /\ NoNewRuns /\ UNCHANGED <<job, run, session>>
        /\ \A s \in Runs : s # r => agent'[s] = agent[s]
    BY <1>3 DEF AgentStart, AgentFinish, Grows, NoNewRuns, TypeOK
  <2>2. RunsBacked' /\ FlushesBacked'
    BY <2>1, BackedGrows DEF RunsBacked, FlushesBacked, Locked
  <2>3. CountsBacked' /\ Verdict(job)'
    BY <2>1, VerdictGrows DEF CountsBacked
  <2>4. MessagesBacked'
    <3>1. CASE AgentStart(r)
      <4>1. msgs' = [msgs EXCEPT ![r] = @ \o <<"running">>]
        BY <3>1 DEF AgentStart, Send
      <4>2. \A i \in 1 .. Len(<<"running">>) : <<"running">>[i] = "running"
        OBVIOUS
      <4> QED
        BY <2>1, <4>1, <4>2, WireSequences, SendBacked
    <3>2. CASE AgentFinish(r, TRUE)
      <4>1. msgs' = [msgs EXCEPT ![r] = @ \o <<"ok">>] /\ agent'[r] = "ok"
        BY <3>2 DEF AgentFinish, Send, TypeOK
      <4>2. \A i \in 1 .. Len(<<"ok">>) : <<"ok">>[i] = "ok"
        OBVIOUS
      <4> QED
        BY <2>1, <4>1, <4>2, WireSequences, SendBacked
    <3>3. CASE AgentFinish(r, FALSE)
      <4>1. /\ \/ msgs' = [msgs EXCEPT ![r] = @ \o <<"failed", "err">>]
               \/ msgs' = [msgs EXCEPT ![r] = @ \o <<"err">>]
            /\ agent'[r] = "err"
        BY <3>3 DEF AgentFinish, Send, TypeOK
      <4>2. \A i \in 1 .. Len(<<"failed", "err">>) : <<"failed", "err">>[i] # "ok"
        OBVIOUS
      <4>3. \A i \in 1 .. Len(<<"err">>) : <<"err">>[i] = "err"
        OBVIOUS
      <4>4. CASE msgs' = [msgs EXCEPT ![r] = @ \o <<"err">>]
        BY <2>1, <4>3, <4>1, <4>4, WireSequences, SendBacked
      <4>5. CASE msgs' = [msgs EXCEPT ![r] = @ \o <<"failed", "err">>]
        BY <2>1, <4>1, <4>2, <4>5, WireSequences, SendBacked
      <4> QED
        BY <4>1, <4>4, <4>5
    <3> QED
      BY <1>3, <3>1, <3>2, <3>3
  <2> QED
    BY <2>2, <2>3, <2>4
<1>4. ASSUME NEW r \in Runs, LoseMessage(r) \/ AbortTxn(r) PROVE VerdictInv'
  <2>1. msgs[r] # <<>> /\ msgs' = [msgs EXCEPT ![r] = Tail(@)] /\ UNCHANGED <<agent, job, run, mine, agg, canceled>>
        /\ \A s \in Runs : txn'[s] \in {"idle", txn[s]}
    BY <1>4 DEF LoseMessage, AbortTxn, Deadlocked, WritesJob, HasMessage, TypeOK
  <2>2. MessagesBacked'
    BY <2>1, TailBacked
  <2> QED
    BY <2>1, <2>2 DEF RunsBacked, FlushesBacked, Locked, CountsBacked, Verdict, Backed, Settled
<1>5. ASSUME NEW r \in Runs, StoreRunning(r) PROVE VerdictInv'
  <2>1. msgs[r] # <<>> /\ msgs' = [msgs EXCEPT ![r] = Tail(@)]
        /\ UNCHANGED <<agent, job, session, canceled>>
        /\ run'[r] = "running" /\ \A s \in Runs : s # r => run'[s] = run[s]
    BY <1>5 DEF StoreRunning, TypeOK
  <2>2. MessagesBacked'
    BY <2>1, TailBacked
  <2>3. Grows /\ NoNewRuns
    BY <2>1 DEF Grows, NoNewRuns, RunsExist
  <2>4. CountsBacked' /\ Verdict(job)'
    BY <2>1, <2>3, VerdictGrows DEF CountsBacked
  <2>5. RunsBacked' /\ FlushesBacked'
    BY <2>1 DEF RunsBacked, FlushesBacked, Locked, Backed, Settled, Terminal
  <2> QED
    BY <2>2, <2>4, <2>5
<1>6. ASSUME NEW r \in Runs, ReadRun(r) \/ LoadJob(r) PROVE VerdictInv'
  <2>1. UNCHANGED <<agent, msgs, job, run, mine, agg, canceled>>
        /\ \A s \in Runs : txn'[s] # txn[s] => txn'[s] = "read" \/ txn[s] = "counted"
    BY <1>6 DEF ReadRun, LoadJob, TypeOK
  <2> QED
    BY <2>1 DEF RunsBacked, FlushesBacked, Locked, MessagesBacked, CountsBacked, Verdict,
                Backed, Settled
<1>7. ASSUME NEW r \in Runs, FlushRun(r) PROVE VerdictInv'
  <2>1. UNCHANGED <<agent, msgs, job, run, agg, canceled>>
        /\ txn[r] = "read" /\ txn'[r] = "flushed"
        /\ \A s \in Runs : s # r => txn'[s] = txn[s] /\ mine'[s] = mine[s]
    BY <1>7 DEF FlushRun, TypeOK
  <2>2. mine'[r] \in {run[r], Reported(Head(msgs[r]))}
    BY <1>7 DEF FlushRun, TypeOK
  <2>3. Backed(mine'[r], r)
    BY <2>1, <2>2, HeadBacked DEF RunsBacked
  <2>4. FlushesBacked'
    BY <2>1, <2>3 DEF FlushesBacked, Locked, Backed, Settled
  <2> QED
    BY <2>1, <2>4 DEF RunsBacked, MessagesBacked, CountsBacked, Verdict, Backed, Settled
<1>8. ASSUME NEW r \in Runs, CountRuns(r) PROVE VerdictInv'
  <2> DEFINE f == [run EXCEPT ![r] = mine[r]]
  <2>1. UNCHANGED <<agent, msgs, job, run, mine, canceled>>
        /\ txn[r] = "flushed" /\ txn'[r] = "counted" /\ agg'[r] = Aggregate(f)
        /\ \A s \in Runs : s # r => txn'[s] = txn[s] /\ agg'[s] = agg[s]
    BY <1>8 DEF CountRuns, TypeOK
  <2>2. \A s \in Runs : Backed(f[s], s) /\ f[s] \in JobRunStatus
    BY <2>1 DEF RunsBacked, FlushesBacked, Locked, TypeOK
  <2>3. \A s \in Runs : run[s] # "none" => f[s] # "none"
    BY <2>1 DEF RunsExist, Locked, TypeOK
  <2>4. Verdict(agg'[r])
    BY <2>1, <2>2, <2>3, AggregateBacked
  <2>5. CountsBacked'
    BY <2>1, <2>4 DEF CountsBacked, Verdict, Settled
  <2> QED
    BY <2>1, <2>5 DEF RunsBacked, FlushesBacked, Locked, MessagesBacked, Verdict, Backed,
                      Settled
<1>9. ASSUME NEW r \in Runs, CommitRun(r) PROVE VerdictInv'
  <2>1. msgs[r] # <<>> /\ msgs' = [msgs EXCEPT ![r] = Tail(@)]
        /\ UNCHANGED <<agent, mine, agg, canceled>>
    BY <1>9 DEF CommitRun, HasMessage
  <2>2. txn[r] = "ready" /\ run'[r] = mine[r] /\ txn'[r] = "idle"
        /\ \A s \in Runs : s # r => run'[s] = run[s] /\ txn'[s] = txn[s]
    BY <1>9 DEF CommitRun, TypeOK
  <2>3. MessagesBacked'
    BY <2>1, TailBacked
  <2>4. Grows /\ NoNewRuns
    BY <2>1, <2>2 DEF Grows, NoNewRuns, RunsExist
  <2>5. RunsBacked' /\ FlushesBacked'
    BY <2>1, <2>2 DEF RunsBacked, FlushesBacked, Locked, Backed, Settled
  <2>6. CountsBacked'
    BY <2>1, <2>2, <2>4, VerdictGrows DEF CountsBacked
  <2>7. Verdict(job')
    BY <1>9, <2>2 DEF CommitRun, CountsBacked
  <2>8. Verdict(job)'
    BY <2>4, <2>7, VerdictGrows
  <2> QED
    BY <2>3, <2>5, <2>6, <2>8
<1>10. CASE CancelReadJob \/ CancelReadRuns \/ CancelLockJob \/ AbortCancel
  <2>1. UNCHANGED <<tables, agent, msgs, session, canceled>>
    BY <1>10 DEF CancelReadJob, CancelReadRuns, CancelLockJob, AbortCancel
  <2> QED
    BY <2>1 DEF RunsBacked, FlushesBacked, Locked, MessagesBacked, CountsBacked, Verdict,
                Backed, Settled
<1>11. CASE CancelCommit
  <2>1. job' = "canceled" /\ UNCHANGED <<agent, msgs, session>>
        /\ canceled' = canceled \cup victims
        /\ \A r \in Runs : run'[r] = IF r \in victims THEN "canceled" ELSE run[r]
    BY <1>11 DEF CancelCommit
  <2>2. Grows /\ NoNewRuns
    BY <2>1 DEF Grows, NoNewRuns, RunsExist
  <2>3. RunsBacked' /\ FlushesBacked'
    BY <2>1 DEF RunsBacked, FlushesBacked, Locked, Backed, Settled, Terminal
  <2>4. CountsBacked'
    BY <2>1, <2>2, VerdictGrows DEF CountsBacked
  <2> QED
    BY <2>1, <2>3, <2>4 DEF MessagesBacked, Verdict
<1>12. CASE UNCHANGED vars
  BY <1>12 DEF vars, RunsBacked, FlushesBacked, Locked, MessagesBacked, CountsBacked,
               Verdict, Backed, Settled
<1> QED
  BY <1>1, <1>2, <1>3, <1>4, <1>5, <1>6, <1>7, <1>8, <1>9, <1>10, <1>11, <1>12
     DEF Next, Transaction, CancelRequest

\* For any number of hosts, overlapping roll-ups and cancels: Job.status says
\* COMPLETED or FAILED only when every host has finished or was canceled, and
\* FAILED only when some host reported a failure; and it follows its runs but
\* for outdated roll-ups.
THEOREM VerdictsAreEarned == Spec => []VerdictIsEarned
<1>1. Init => RunsExist /\ VerdictInv
  BY DEF Init, RunsExist, VerdictInv, RunsBacked, Backed, Terminal, FlushesBacked, Locked,
         MessagesBacked, CountsBacked, Verdict
<1>2. TypeOK /\ HasMessage /\ JobExists /\ RunsExist /\ VerdictInv /\ [Next]_vars
      => (RunsExist /\ VerdictInv)'
  BY RunsExistStep, VerdictStep
<1>3. VerdictInv /\ FollowsUnlessOutdated => VerdictIsEarned
  BY DEF VerdictInv, Verdict, Settled, VerdictIsEarned
<1> QED
  BY <1>1, <1>2, <1>3, JobRollupTypes, JobExistsAlways, RollupFollows, PTL DEF Spec
=============================================================================
