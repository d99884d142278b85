----------------------------- MODULE AgentSpool -----------------------------
(***************************************************************************)
(* The agent's way out: the send channel its producers fill, the reconnect *)
(* loop of ManagerClient (agent-core/src/client.rs), the out channel that  *)
(* feeds the gRPC request stream, and the on-disk spool                    *)
(* (agent-core/src/spool.rs) that holds what arrives while disconnected.   *)
(*                                                                         *)
(* Messages are numbered in the order the producers emit them.             *)
(***************************************************************************)
EXTENDS Naturals, Sequences, FiniteSets

CONSTANTS
    N,          \* bound: messages emitted
    Big,        \* messages of size 2; the others have size 1
    ChanCap,    \* SEND_CHANNEL_CAP, of the send channel and of the out channel
    MaxBytes,   \* the spool's budget
    MaxBreaks   \* bound: failed dials and broken streams, and agent restarts

Msgs == 1 .. N

ASSUME AgentSpoolAssumption ==
    /\ N \in Nat /\ Big \subseteq Msgs
    /\ ChanCap \in Nat \ {0} /\ MaxBytes \in Nat /\ MaxBreaks \in Nat

\* A spool file: the number in its name and the message in it.
File == [seq : Nat \ {0}, msg : Msgs]

VARIABLES
    next,       \* the next message to be emitted
    sendq,      \* the send channel
    client,     \* where run() stands: backoff, dial, replay, open, live
    spool,      \* files in the spool directory
    nextSeq,    \* SpoolQueue.next_seq
    replay,     \* to_replay: read from the spool, not yet in the out channel
    hand,       \* the message forward has received and not yet passed on
    outq,       \* the out channel and what is on the wire behind it
    got,        \* what the manager has received
    breaks      \* failures so far

vars == <<next, sendq, client, spool, nextSeq, replay, hand, outq, got, breaks>>

Init ==
    /\ next = 1 /\ sendq = <<>>
    /\ client = "dial"
    /\ spool = {} /\ nextSeq = 1
    /\ replay = <<>> /\ hand = <<>> /\ outq = <<>> /\ got = <<>>
    /\ breaks = 0
-----------------------------------------------------------------------------
\* Mutant of Emit: the channel is unbounded.
EmitUnbounded ==
    /\ next <= N
    /\ sendq' = Append(sendq, next)
    /\ next' = next + 1
    /\ UNCHANGED <<client, spool, nextSeq, replay, hand, outq, got, breaks>>

\* A producer sends; it waits while the channel is full.
Emit ==
    /\ next <= N /\ Len(sendq) < ChanCap
    /\ sendq' = Append(sendq, next)
    /\ next' = next + 1
    /\ UNCHANGED <<client, spool, nextSeq, replay, hand, outq, got, breaks>>

\* bytes_used: the sum of the sizes.
BytesUsed(fs) ==
    Cardinality(fs) + Cardinality({f \in fs : f.msg \in Big})

\* Mutants of Evict: off by one; newest first.
EvictLate(fs) ==
    {f \in fs : BytesUsed({g \in fs : g.seq >= f.seq}) <= MaxBytes + 1}

EvictNewest(fs) ==
    {f \in fs : BytesUsed({g \in fs : g.seq <= f.seq}) <= MaxBytes}

\* evict_if_over_budget: remove files from the lowest number up, as long as
\* the rest is over budget.
Evict(fs) ==
    {f \in fs : BytesUsed({g \in fs : g.seq >= f.seq}) <= MaxBytes}

\* While disconnected the backoff loop pushes what arrives into the spool ...
SpoolPush ==
    /\ client = "backoff" /\ sendq # <<>>
    /\ spool' = Evict(spool \cup {[seq |-> nextSeq, msg |-> Head(sendq)]})
    /\ nextSeq' = nextSeq + 1
    /\ sendq' = Tail(sendq)
    /\ UNCHANGED <<next, client, replay, hand, outq, got, breaks>>

\* ... dropping it if the file cannot be written ...
PushFails ==
    /\ client = "backoff" /\ sendq # <<>> /\ breaks < MaxBreaks
    /\ breaks' = breaks + 1
    /\ nextSeq' = nextSeq + 1
    /\ sendq' = Tail(sendq)
    /\ UNCHANGED <<next, client, spool, replay, hand, outq, got>>

\* ... until the window closes.
BackoffEnds ==
    /\ client = "backoff"
    /\ client' = "dial"
    /\ UNCHANGED <<next, sendq, spool, nextSeq, replay, hand, outq, got, breaks>>

DialFails ==
    /\ client = "dial" /\ breaks < MaxBreaks
    /\ client' = "backoff" /\ breaks' = breaks + 1
    /\ UNCHANGED <<next, sendq, spool, nextSeq, replay, hand, outq, got>>

\* Mutant of InSeqOrder: the order of readdir, whatever it is.
InAnyOrder(ms, fs) == {ms[i] : i \in DOMAIN ms} = {f.msg : f \in fs}

\* ms lists the messages of the files fs by file number.
InSeqOrder(ms, fs) ==
    \E fl \in [1 .. Cardinality(fs) -> fs] :
        /\ \A i, j \in 1 .. Cardinality(fs) : i < j => fl[i].seq < fl[j].seq
        /\ ms = [i \in 1 .. Cardinality(fs) |-> fl[i].msg]

\* The channel is up: SpoolQueue.drain reads every file and removes it.
DialUp ==
    /\ client = "dial"
    /\ client' = "replay"
    /\ \E ms \in [1 .. Cardinality(spool) -> {f.msg : f \in spool}] :
          /\ InSeqOrder(ms, spool)
          /\ replay' = ms
    /\ spool' = {}
    /\ UNCHANGED <<next, sendq, nextSeq, hand, outq, got, breaks>>

\* Mutant of Replay: one place of the channel is never used.
ReplayShort ==
    /\ client = "replay" /\ replay # <<>> /\ Len(outq) + 1 < ChanCap
    /\ outq' = Append(outq, Head(replay))
    /\ replay' = Tail(replay)
    /\ UNCHANGED <<next, sendq, client, spool, nextSeq, hand, got, breaks>>

\* out_tx.send of the next entry, which waits for room.  The receiver is the
\* request stream host_stream has not been given yet.
Replay ==
    /\ client = "replay" /\ replay # <<>> /\ Len(outq) < ChanCap
    /\ outq' = Append(outq, Head(replay))
    /\ replay' = Tail(replay)
    /\ UNCHANGED <<next, sendq, client, spool, nextSeq, hand, got, breaks>>

\* host_stream is called: from here on the out channel is consumed.
OpenStream ==
    /\ client = "replay" /\ replay = <<>>
    /\ client' = "open"
    /\ UNCHANGED <<next, sendq, spool, nextSeq, replay, hand, outq, got, breaks>>

StreamUp ==
    /\ client = "open"
    /\ client' = "live"
    /\ UNCHANGED <<next, sendq, spool, nextSeq, replay, hand, outq, got, breaks>>

Deliver ==
    /\ client \in {"open", "live"} /\ outq # <<>>
    /\ got' = Append(got, Head(outq))
    /\ outq' = Tail(outq)
    /\ UNCHANGED <<next, sendq, client, spool, nextSeq, replay, hand, breaks>>

\* The forward future: receive from the send channel ...
Receive ==
    /\ client = "live" /\ hand = <<>> /\ sendq # <<>>
    /\ hand' = <<Head(sendq)>>
    /\ sendq' = Tail(sendq)
    /\ UNCHANGED <<next, client, spool, nextSeq, replay, outq, got, breaks>>

\* ... and send into the out channel.
Forward ==
    /\ hand # <<>> /\ Len(outq) < ChanCap
    /\ outq' = outq \o hand
    /\ hand' = <<>>
    /\ UNCHANGED <<next, sendq, client, spool, nextSeq, replay, got, breaks>>

\* host_stream returns an error, or the inbound half ends: run_once returns
\* and its channels and futures are dropped with what they hold.
StreamBreaks ==
    /\ client \in {"open", "live"} /\ breaks < MaxBreaks
    /\ client' = "backoff" /\ breaks' = breaks + 1
    /\ outq' = <<>> /\ hand' = <<>>
    /\ UNCHANGED <<next, sendq, spool, nextSeq, replay, got>>

\* Mutant of FirstFree: numbering starts over.
FirstOne(fs) == 1

\* SpoolQueue::open: numbering continues after the highest file.
FirstFree(fs) == CHOOSE n \in 1 .. nextSeq :
    (\A f \in fs : f.seq < n) /\ (n = 1 \/ \E f \in fs : f.seq = n - 1)

\* The agent process is restarted: only the spool directory survives.
Restart ==
    /\ breaks < MaxBreaks
    /\ breaks' = breaks + 1
    /\ client' = "dial"
    /\ nextSeq' = FirstFree(spool)
    /\ sendq' = <<>> /\ replay' = <<>> /\ hand' = <<>> /\ outq' = <<>>
    /\ UNCHANGED <<next, spool, got>>

\* The client task's own steps, which nothing outside it can hold up.
Client ==
    \/ SpoolPush \/ BackoffEnds \/ DialUp \/ Replay \/ OpenStream \/ StreamUp
    \/ Receive \/ Forward

Next ==
    \/ Emit \/ Client \/ PushFails \/ DialFails \/ Deliver \/ StreamBreaks \/ Restart

\* The client task is scheduled, timers fire, a dial that does not fail comes
\* up and a stream that does not break carries its messages.
Fairness == WF_vars(Client) /\ WF_vars(BackoffEnds) /\ WF_vars(Deliver)

Spec == Init /\ [][Next]_vars

FairSpec == Spec /\ Fairness
-----------------------------------------------------------------------------
\* The channels stay within their capacity, the client in its states and the
\* spool a set of numbered files.
TypeOK ==
    /\ next \in 1 .. N + 1
    /\ sendq \in Seq(Msgs) /\ Len(sendq) <= ChanCap
    /\ client \in {"backoff", "dial", "replay", "open", "live"}
    /\ spool \subseteq File
    /\ nextSeq \in Nat \ {0}
    /\ replay \in Seq(Msgs)
    /\ hand \in Seq(Msgs) /\ Len(hand) <= 1
    /\ outq \in Seq(Msgs) /\ Len(outq) <= ChanCap
    /\ got \in Seq(Msgs)
    /\ breaks \in 0 .. MaxBreaks

\* The spool is replayed before live delivery resumes "so manager-side
\* ordering matches what the agent emitted": across spooling, eviction, broken
\* streams and restarts the manager receives messages in the order of their
\* emission and none of them twice.
ManagerOrder == \A i, j \in 1 .. Len(got) : i < j => got[i] < got[j]

\* Two files never carry the same number, so push never overwrites an entry,
\* and their order is the order of emission even after a restart.
SpoolOrder ==
    /\ \A f, g \in spool : f.seq = g.seq => f = g
    /\ \A f, g \in spool : f.seq < g.seq => f.msg < g.msg
    /\ \A f \in spool : f.seq < nextSeq

\* The directory stays within its budget, entries of any size included.
SpoolBudget == BytesUsed(spool) <= MaxBytes

\* The spool directory and the channels around it are as Spool::append and
\* Spool::drain rely on: within their bounds, numbered in order, within the budget.
SpoolSound == TypeOK /\ SpoolOrder /\ SpoolBudget

\* Drop-oldest eviction: whatever a step removes from the spool, the entry it
\* has just written included, it keeps nothing older.
DropsOldest ==
    [][/\ \A f, g \in spool : f.seq < g.seq /\ f \in spool' => g \in spool'
       /\ spool' # {} /\ sendq # <<>> /\ sendq' = Tail(sendq) /\ breaks' = breaks
          => \E f \in spool' : f.msg = Head(sendq)]_vars

\* The entries still to be replayed have room in the out channel, which nobody
\* reads before host_stream is called.
ReplayFits == Len(outq) + Len(replay) <= ChanCap

\* A replay of no more entries than the out channel holds comes to an end and
\* the client goes on to open its stream; a longer one never does: send waits
\* for a reader that is started after it, and only a restart of the agent, which
\* loses the entries already taken from the disk, gets the client out of it.
ReplayEnds ==
    /\ (client = "replay" /\ ReplayFits) ~> client # "replay"
    /\ [][client = "replay" /\ ~ReplayFits =>
             \/ client' = "replay" /\ ~ReplayFits'
             \/ Restart]_vars
-----------------------------------------------------------------------------
(* A claim of the comments that the code does not keep.                   *)

\* "On reconnect the spool drains in order before live events resume"
\* (spool.rs): every replay comes to an end.
EveryReplayEnds == client = "replay" ~> client # "replay"
=============================================================================
