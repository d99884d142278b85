----------------------------- MODULE AlertStream -----------------------------
(***************************************************************************)
(* The live alert stream (services/alert_broker.py, stream_alerts of       *)
(* api/alerts.py): every manager instance polls the alerts table past its  *)
(* own mark, races for a short Redis lock per alert, and the winner        *)
(* publishes the alert on a channel every instance listens to and copies   *)
(* into the bounded queues of its connected clients.  Without Redis the    *)
(* one instance fills its own queues.  Each polled alert is also announced *)
(* on the webhook event bus.                                               *)
(*                                                                         *)
(* A row's created_at is stamped when it is flushed and is visible only    *)
(* from its commit on.                                                     *)
(***************************************************************************)
EXTENDS Naturals, Sequences, SequencesExt, FiniteSets, FiniteSetsExt

CONSTANTS
    Alert, Instance, Client,
    Home,           \* Home[c]: the instance client c connects to
    Visible,        \* Visible[c]: the alerts whose host c's user may see
    Modes,          \* deployments: with VIGIL_REDIS_URL set (TRUE), without
    QUEUE_MAX, LOCK_TTL, BATCH,     \* _QUEUE_MAX, REDIS_LOCK_TTL_MS, the limit
    LOOKBACK,       \* how far before its start an instance looks
    MaxTime,        \* bound: the clock
    MaxFault        \* bound: Redis errors and crashes

VARIABLES
    redis,      \* the deployment has Redis; it never changes
    now,
    created,    \* created[a]: when the row was flushed, or Never
    committed,  \* rows other sessions see
    inst,       \* inst[i]: mark, the rows of the poll under way, its stage
    lock,       \* lock[a]: when the lock expires, or 0
    channel,    \* channel[i]: published and not yet received by i
    queue,      \* queue[c]: the client's queue, or Gone
    got,        \* got[c]: what was sent to the client
    opened,     \* opened[a]: announcements on the event bus
    owed,       \* history: owed[c], rows committed while c was connected
    excused,    \* history: rows a fault, an overflow or a tie took a copy from
    faults

vars == <<redis, now, created, committed, inst, lock, channel, queue, got, opened, owed, excused, faults>>
table == <<redis, created, committed>>
clients == <<queue, got, owed>>

Never == MaxTime + 1
Gone == <<"gone">>
Down == [st |-> "down", mark |-> 0, rows |-> <<>>]

Init ==
    /\ redis \in Modes /\ now = 0 /\ created = [a \in Alert |-> Never] /\ committed = {}
    /\ inst = [i \in Instance |-> Down] /\ lock = [a \in Alert |-> 0]
    /\ channel = [i \in Instance |-> <<>>] /\ queue = [c \in Client |-> Gone]
    /\ got = [c \in Client |-> <<>>] /\ opened = [a \in Alert |-> 0]
    /\ owed = [c \in Client |-> {}] /\ excused = {} /\ faults = 0

Up(i) == inst[i].st # "down"
Connected(c) == queue[c] # Gone
Fault == faults < MaxFault /\ faults' = faults + 1

Tick ==
    /\ now < MaxTime /\ now' = now + 1
    /\ UNCHANGED <<table, inst, lock, channel, clients, opened, excused, faults>>

-----------------------------------------------------------------------------
(* The alerts table, written by other processes.                           *)

Flush(a) ==
    /\ created[a] = Never /\ created' = [created EXCEPT ![a] = now]
    /\ UNCHANGED <<redis, now, committed, inst, lock, channel, clients, opened, excused, faults>>

\* A row whose time an instance's mark has reached already is never selected.
Passed(a) == \E i \in Instance : Up(i) /\
    \/ inst[i].mark >= created[a]
    \/ inst[i].rows # <<>> /\ created[Last(inst[i].rows)] >= created[a]

Commit(a) ==
    /\ created[a] # Never /\ a \notin committed
    /\ committed' = committed \cup {a}
    /\ excused' = IF Passed(a) THEN excused \cup {a} ELSE excused
    /\ owed' = [c \in Client |-> IF Connected(c) THEN owed[c] \cup {a} ELSE owed[c]]
    /\ UNCHANGED <<redis, now, created, inst, lock, channel, queue, got, opened, faults>>

-----------------------------------------------------------------------------
(* AlertBroker.                                                            *)

\* start; without Redis there is one instance.
Start(i) ==
    /\ ~Up(i) /\ (redis \/ \A j \in Instance : ~Up(j))
    /\ inst' = [inst EXCEPT ![i] = [st |-> "idle", rows |-> <<>>,
                                    mark |-> IF now > LOOKBACK THEN now - LOOKBACK ELSE 0]]
    /\ channel' = [channel EXCEPT ![i] = <<>>]
    /\ UNCHANGED <<now, table, lock, clients, opened, excused, faults>>

\* stop, or a crash: the connections go with the process.  A lock taken for a row
\* that was not published yet stays until it expires.
Stop(i) ==
    /\ Up(i) /\ Fault
    /\ inst' = [inst EXCEPT ![i] = Down]
    /\ channel' = [channel EXCEPT ![i] = <<>>]
    /\ queue' = [c \in Client |-> IF Home[c] = i THEN Gone ELSE queue[c]]
    /\ excused' = excused \cup ToSet(inst[i].rows)
    /\ UNCHANGED <<now, table, lock, got, owed, opened>>

Subs(i) == {c \in Client : Home[c] = i /\ Connected(c)}
Newer(m) == {a \in committed : created[a] > m}

\* _poll_once: at most BATCH rows past the mark, in order of created_at.  Without
\* Redis and without clients only the mark moves.
Rows(m) ==
    {s \in SetToSeqs(Newer(m)) :
        \A j, k \in DOMAIN s : j < k => created[s[j]] <= created[s[k]]}

Poll(i) ==
    /\ inst[i].st = "idle"
    /\ IF ~redis /\ Subs(i) = {}
       THEN inst' = [inst EXCEPT ![i].mark = now] /\ UNCHANGED excused
       ELSE /\ Newer(inst[i].mark) # {}
            /\ \E s \in Rows(inst[i].mark) :
                LET page == SubSeq(s, 1, IF Len(s) < BATCH THEN Len(s) ELSE BATCH)
                IN  /\ inst' = [inst EXCEPT ![i].st = "row", ![i].rows = page]
                    /\ excused' = excused \cup {a \in Newer(inst[i].mark) \ ToSet(page) :
                                                    created[a] = created[Last(page)]}
    /\ UNCHANGED <<now, table, lock, channel, clients, opened, faults>>

\* _broadcast_local: a full queue loses its oldest entry.
Enqueue(q, a) == Append(IF Len(q) >= QUEUE_MAX THEN Tail(q) ELSE q, a)
BroadcastLocal(i, a) == [c \in Client |-> IF c \in Subs(i) THEN Enqueue(queue[c], a) ELSE queue[c]]
Overflow(i) == {queue[c][1] : c \in {c \in Subs(i) : Len(queue[c]) >= QUEUE_MAX}}

\* The end of a row's turn: alert.opened is published, and after the last row the
\* mark moves to that row's time.
Opened(i) ==
    LET rest == Tail(inst[i].rows)
        a == inst[i].rows[1]
    IN  /\ opened' = [opened EXCEPT ![a] = @ + 1]
        /\ inst' = [inst EXCEPT ![i] = [st |-> IF rest = <<>> THEN "idle" ELSE "row", rows |-> rest,
                                        mark |-> IF rest = <<>> THEN created[a] ELSE @.mark]]

\* _fanout without Redis, or with a Redis that fails at SET or at PUBLISH: the
\* instance's own clients only.
FanoutLocal(i) ==
    /\ \/ ~redis /\ inst[i].st = "row" /\ UNCHANGED faults /\ excused' = excused \cup Overflow(i)
       \/ redis /\ inst[i].st \in {"row", "won"} /\ Fault
          /\ excused' = excused \cup Overflow(i) \cup {inst[i].rows[1]}
    /\ queue' = BroadcastLocal(i, inst[i].rows[1])
    /\ Opened(i)
    /\ UNCHANGED <<now, table, lock, channel, got, owed>>

\* SET NX PX: the winner goes on to publish, a loser is done with the row.
Won(a) == lock[a] <= now

FanoutLock(i) ==
    /\ redis /\ inst[i].st = "row"
    /\ LET a == inst[i].rows[1]
       IN  IF Won(a)
           THEN /\ lock' = [lock EXCEPT ![a] = now + LOCK_TTL]
                /\ inst' = [inst EXCEPT ![i].st = "won"] /\ UNCHANGED opened
           ELSE Opened(i) /\ UNCHANGED lock
    /\ UNCHANGED <<now, table, channel, clients, excused, faults>>

\* PUBLISH reaches every instance that is subscribed at that moment.
PublishToSelf(i) == [channel EXCEPT ![i] = Append(@, inst[i].rows[1])]
Publish(i) == [j \in Instance |-> IF Up(j) THEN Append(channel[j], inst[i].rows[1]) ELSE channel[j]]

FanoutPublish(i) ==
    /\ inst[i].st = "won" /\ channel' = Publish(i) /\ Opened(i)
    /\ UNCHANGED <<now, table, lock, clients, excused, faults>>

\* _run_subscriber
RunSubscriber(i) ==
    /\ Up(i) /\ channel[i] # <<>>
    /\ queue' = BroadcastLocal(i, channel[i][1])
    /\ channel' = [channel EXCEPT ![i] = Tail(@)]
    /\ excused' = excused \cup Overflow(i)
    /\ UNCHANGED <<now, table, inst, lock, got, owed, opened, faults>>

-----------------------------------------------------------------------------
(* stream_alerts.                                                          *)

Subscribe(c) ==
    /\ Up(Home[c]) /\ ~Connected(c) /\ owed[c] = {}
    /\ queue' = [queue EXCEPT ![c] = <<>>]
    /\ UNCHANGED <<now, table, inst, lock, channel, got, owed, opened, excused, faults>>

Disconnect(c) ==
    /\ Connected(c) /\ Fault
    /\ queue' = [queue EXCEPT ![c] = Gone]
    /\ UNCHANGED <<now, table, inst, lock, channel, got, owed, opened, excused>>

\* The next event is sent if its host is visible to the user.
Send(c) ==
    /\ Connected(c) /\ queue[c] # <<>>
    /\ got' = [got EXCEPT ![c] = IF queue[c][1] \in Visible[c] THEN Append(@, queue[c][1]) ELSE @]
    /\ queue' = [queue EXCEPT ![c] = Tail(@)]
    /\ UNCHANGED <<now, table, inst, lock, channel, owed, opened, excused, faults>>

Next ==
    \/ Tick
    \/ \E a \in Alert : Flush(a) \/ Commit(a)
    \/ \E i \in Instance :
        \/ Start(i) \/ Stop(i) \/ Poll(i) \/ RunSubscriber(i)
        \/ FanoutLocal(i) \/ FanoutLock(i) \/ FanoutPublish(i)
    \/ \E c \in Client : Subscribe(c) \/ Disconnect(c) \/ Send(c)

Spec == Init /\ [][Next]_vars

-----------------------------------------------------------------------------
\* Marks, queues and channels have their types.
TypeOK ==
    /\ committed \subseteq {a \in Alert : created[a] # Never}
    /\ \A i \in Instance :
        /\ inst[i].st \in {"down", "idle", "row", "won"} /\ inst[i].mark \in 0 .. MaxTime
        /\ inst[i].rows \in Seq(Alert) /\ channel[i] \in Seq(Alert)
    /\ \A c \in Client : Connected(c) => queue[c] \in Seq(Alert) /\ Len(queue[c]) <= QUEUE_MAX

Done(i, a) == Up(i) => inst[i].mark >= created[a] /\ a \notin ToSet(inst[i].rows)
Settled(a) == \A i \in Instance : Done(i, a) /\ a \notin ToSet(channel[i])

\* The lock drops copies and never an alert: once every instance's mark has passed
\* an alert and its copies are received, each client that was connected when it was
\* committed has it, whichever instance won, unless the row was late, or a fault or
\* a full queue took it.
StreamComplete ==
    \A c \in Client, a \in committed \ excused :
        /\ Connected(c) /\ a \in owed[c] /\ Settled(a) /\ a \in Visible[c]
        => a \in ToSet(got[c]) \cup ToSet(queue[c])

-----------------------------------------------------------------------------
(* Claims of the comments and documents that the code does not keep.      *)

\* "subscribers get exactly one notification per alert even with multi-instance
\* deployments" (of the webhook event bus).
OpenedOnce == \A a \in Alert : opened[a] <= 1
=============================================================================
