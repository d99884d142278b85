--------------------------- MODULE DetectionProofs --------------------------
EXTENDS EventPipeline, FiniteSetTheorems, WellFoundedInduction, TLAPS

\* Of threat intelligence.  What a feed lists and the rows of indicators are named Raw
\* and rows there, as two other things are in the event pipeline.
CONSTANTS Feed, Listed, Norm, Job, Hash, Provider, MaxTx, MaxEdit

VARIABLES feeds, rules, entries, fired, providers, jobs, txs, ntx, edits, pulled, raced, optedOut, dropped

Intel == INSTANCE ThreatIntel WITH Raw <- Listed, rows <- entries

\* Of the identity monitor.
CONSTANTS
    Source, Kind, SignIns, Lookback, PageLimit, WindowS, FailThreshold, MfaThreshold, SprayThreshold,
    MaxKmph, MinKm, MaxTick

VARIABLES visible, sources, tick, alerts, evaluated, ticks

Identity == INSTANCE IdentityMonitor

(***************************************************************************)
(* Proofs about the telemetry path (EventPipeline).                        *)
(*                                                                         *)
(* NoEventLost speaks of the stored offset only.  What carries it is the   *)
(* same statement about the position in memory, with the event in hand     *)
(* excepted: an event behind it has had its effect, sits in the indexer's  *)
(* buffer, or is the one being sent.  A commit is reached only when the    *)
(* exception is empty, and a restart falls back to the stored offset,      *)
(* for which there is none.  The forwarder's obligations for an event are  *)
(* those of the last pass over it, so one that a crash cut off lies ahead  *)
(* of the position until the next pass replaces it.                        *)
(***************************************************************************)
\* What the proofs assume of the constants.
EventConstants == Raw \in Seq(RawEvent)

Doc == {ToEcs(n) : n \in Nat}
NormPhase == {"idle", "send", "commit"}
GroupPhase == {"idle", "flush", "handle", "dispatch", "commit"}

Consumers ==
    /\ group \in {"indexer", "chain", "siem"}
    /\ position \in [Worker -> Nat] /\ committed \in [Worker -> Nat]
    /\ \A w \in Worker : committed[w] <= position[w]
    /\ phase \in [Worker -> NormPhase \cup GroupPhase]
    /\ phase["normalizer"] \in NormPhase /\ phase[group] \in GroupPhase

Stored ==
    /\ topic \in Seq(Doc) /\ buffered \in Seq(Nat) /\ position[group] <= Len(topic)
    /\ docs \subseteq 1 .. Len(topic) /\ Range(buffered) \subseteq 1 .. Len(topic)

Destinations ==
    /\ enabled \subseteq Dest /\ cached \subseteq Dest /\ todo \subseteq Dest /\ errors \subseteq Dest
    /\ failing \in BOOLEAN
    /\ owed \subseteq Nat \X (Dest \ Rotated) /\ (group # "siem" => owed = {})

\* The normalizer's side: an event behind its position has its copy, was undecodable or
\* given up, or is being sent.
Normalized(n) ==
    Decodable(n) /\ <<"normalizer", n>> \notin givenup => \E i \in DOMAIN topic : topic[i].raw = n

NormInv ==
    /\ \A n \in 1 .. position["normalizer"] :
           Normalized(n) \/ (phase["normalizer"] = "send" /\ n = position["normalizer"])
    /\ \A n \in 1 .. committed["normalizer"] : Normalized(n)

\* The indexer's: a document, given up, or in the buffer, which is empty or given up
\* when the offset is committed.
Indexed(n) == n \in docs \/ <<group, n>> \in givenup

IndexInv ==
    group = "indexer" =>
        /\ \A n \in 1 .. position[group] :
               Indexed(n) \/ (n \in Range(buffered) /\ phase[group] # "commit")
        /\ \A n \in 1 .. committed[group] : Indexed(n)

\* The forwarder's: delivered, given up, or still to do in the pass under way.
Forwarded(p) == p \in sent \/ <<group, p[1]>> \in givenup

SiemInv ==
    \A p \in owed :
        /\ p[1] <= committed[group] => Forwarded(p)
        /\ p[1] <= position[group] =>
               \/ Forwarded(p)
               \/ phase[group] = "dispatch" /\ p[1] = position[group] /\ (failing = TRUE \/ p[2] \in todo)

EventInv == Consumers /\ Stored /\ Destinations /\ NormInv /\ IndexInv /\ SiemInv

-----------------------------------------------------------------------------
(* What a step that does not touch a part leaves of it.                    *)

Moved(w, n, s) ==
    /\ position' = [position EXCEPT ![w] = n] /\ phase' = [phase EXCEPT ![w] = s]
    /\ committed' = committed /\ group' = group

Fixed(w) == position'[w] = position[w] /\ committed'[w] = committed[w] /\ phase'[w] = phase[w]

\* The two workers are different, and the group never changes.
LEMMA TwoWorkers ==
    ASSUME Consumers
    PROVE  Worker = {"normalizer", group} /\ group # "normalizer"
BY DEF Consumers, Worker

\* A step of the downstream group leaves the normalizer's part.
LEMMA NormKept ==
    ASSUME NormInv, Fixed("normalizer"), topic' = topic, givenup \subseteq givenup'
    PROVE  NormInv'
BY DEF NormInv, Normalized, Fixed

\* A step that writes no buffer and moves no consumer leaves the indexer's part.
LEMMA IndexKept ==
    ASSUME IndexInv, group' = group, Fixed(group), buffered' = buffered, docs \subseteq docs',
           givenup \subseteq givenup'
    PROVE  IndexInv'
BY DEF IndexInv, Indexed, Fixed

\* A step that changes no pass leaves the forwarder's part.
LEMMA SiemKept ==
    ASSUME SiemInv, group' = group, Fixed(group), owed' = owed, todo' = todo, failing' = failing,
           sent \subseteq sent', givenup \subseteq givenup'
    PROVE  SiemInv'
BY DEF SiemInv, Forwarded, Fixed

\* For a group other than the forwarder nothing is owed.
LEMMA NothingOwed ==
    ASSUME Destinations, group # "siem", owed' = owed PROVE SiemInv'
BY DEF Destinations, SiemInv

\* The range of the part of a sequence that FlushFails keeps.
LEMMA KeptHalf ==
    ASSUME NEW S, NEW s \in Seq(S)
    PROVE  LET t == SubSeq(s, Len(s) \div 2 + 1, Len(s))
           IN  t \in Seq(S) /\ Range(t) \subseteq Range(s)
<1> DEFINE m == Len(s) \div 2 + 1
           t == SubSeq(s, m, Len(s))
<1>1. m \in Nat /\ m >= 1
  OBVIOUS
<1>2. t \in Seq(S) /\ \A i \in DOMAIN t : i + m - 1 \in DOMAIN s /\ t[i] = s[i + m - 1]
  <2> HIDE DEF m
  <2> QED
    BY <1>1
<1>3. Range(t) \subseteq Range(s)
  BY <1>2 DEF Range
<1> QED
  BY <1>2, <1>3

-----------------------------------------------------------------------------
(* The steps of both workers.                                              *)

\* A consumer commits the offset of what it has in hand, and no exception is left.
LEMMA CommitKeeps ==
    ASSUME EventInv, NEW w \in Worker, Commit(w) PROVE EventInv'
<1> USE DEF EventInv
<1>1. /\ phase[w] = "commit" /\ phase' = [phase EXCEPT ![w] = "idle"]
      /\ committed' = [committed EXCEPT ![w] = position[w]] /\ position' = position
      /\ group' = group /\ topic' = topic /\ docs' = docs /\ buffered' = buffered /\ givenup' = givenup
      /\ UNCHANGED <<enabled, cached, todo, failing, errors, sent, owed>>
  BY DEF Commit, Goto, norm, siem
<1>2. group # "normalizer" /\ Worker' = Worker /\ w \in {"normalizer", group}
  BY <1>1, TwoWorkers DEF Worker
<1>3. Consumers'
  BY <1>1, <1>2 DEF Consumers, Worker, NormPhase, GroupPhase
<1>4. Stored' /\ Destinations'
  BY <1>1 DEF Stored, Destinations
<1>5. CASE w = "normalizer"
  <2>1. NormInv'
    BY <1>1, <1>5 DEF NormInv, Normalized, Consumers, Worker
  <2>2. Fixed(group)
    BY <1>1, <1>2, <1>5 DEF Fixed, Consumers, Worker
  <2> QED
    BY <1>1, <1>3, <1>4, <2>1, <2>2, IndexKept, SiemKept
<1>6. CASE w = group
  <2>1. Fixed("normalizer")
    BY <1>1, <1>2, <1>6 DEF Fixed, Consumers, Worker
  <2>2. NormInv'
    BY <1>1, <2>1, NormKept
  <2>3. committed'[group] = position[group] /\ phase'[group] = "idle"
    BY <1>1, <1>6 DEF Consumers, Worker
  <2>4. IndexInv'
    BY <1>1, <1>6, <2>3 DEF IndexInv, Indexed
  <2>5. SiemInv'
    BY <1>1, <1>6, <2>3 DEF SiemInv, Forwarded
  <2> QED
    BY <1>3, <1>4, <2>2, <2>4, <2>5
<1> QED
  BY <1>2, <1>5, <1>6

\* A restarted worker stands at its stored offset with nothing in hand, or, of a group
\* without one, at the end of the topic with everything it has not handled given up.
LEMMA RestartKeeps ==
    ASSUME EventInv, NEW w \in Worker, Restart(w) PROVE EventInv'
<1> USE DEF EventInv
<1> DEFINE left == {<<w, n>> : n \in {m \in 1 .. Len(topic) : AtEnd(w) /\ m >= position[w]}}
           start == IF AtEnd(w) THEN Len(topic) ELSE committed[w]
<1>1. /\ phase' = [phase EXCEPT ![w] = "idle"] /\ position' = [position EXCEPT ![w] = start]
      /\ buffered' = IF w = "indexer" THEN <<>> ELSE buffered
      /\ cached' = IF w = "siem" THEN enabled ELSE cached
      /\ todo' = IF w = "siem" THEN {} ELSE todo
      /\ failing' = IF w = "siem" THEN FALSE ELSE failing
      /\ committed' = committed /\ group' = group /\ topic' = topic /\ docs' = docs
      /\ givenup' = givenup \cup left
      /\ UNCHANGED <<enabled, errors, sent, owed>>
  BY DEF Restart, Goto
<1>2. group # "normalizer" /\ Worker' = Worker /\ w \in {"normalizer", group}
  BY <1>1, TwoWorkers DEF Worker
<1>8. /\ start \in Nat /\ committed[w] <= start /\ givenup \subseteq givenup'
      /\ (w = group => start <= Len(topic)) /\ Len(topic) \in Nat
  <2>1. committed[w] \in Nat /\ position[w] \in Nat /\ committed[w] <= position[w] /\ Len(topic) \in Nat
    BY DEF Consumers, Stored
  <2>2. w = group => position[w] <= Len(topic)
    BY DEF Stored
  <2> QED
    BY <1>1, <2>1, <2>2 DEF AtEnd
<1>3. Consumers'
  <2> HIDE DEF start
  <2> QED
    BY <1>1, <1>2, <1>8 DEF Consumers, Worker, NormPhase, GroupPhase
<1>4. Stored'
  <2>1. buffered' \in Seq(Nat) /\ Range(buffered') \subseteq Range(buffered)
    BY <1>1 DEF Stored, Range
  <2>2. position'[group] <= Len(topic)
    <3> HIDE DEF start
    <3> QED
      BY <1>1, <1>2, <1>8 DEF Consumers, Stored, Worker
  <2> QED
    BY <1>1, <2>1, <2>2 DEF Stored
<1>5. Destinations'
  <2>1. failing' \in BOOLEAN
    BY <1>1, Zenon DEF Destinations
  <2> QED
    BY <1>1, <2>1 DEF Destinations
<1>6. CASE w = "normalizer"
  <2>0. start = committed[w] /\ left = {}
    BY <1>6 DEF AtEnd
  <2>1. NormInv'
    BY <1>1, <1>6, <2>0 DEF NormInv, Normalized, Consumers, Worker
  <2>2. Fixed(group) /\ buffered' = buffered /\ todo' = todo /\ failing' = failing
    BY <1>1, <1>2, <1>6 DEF Fixed, Consumers, Worker
  <2> QED
    BY <1>1, <1>3, <1>4, <1>5, <1>8, <2>1, <2>2, IndexKept, SiemKept
<1>7. CASE w = group
  <2>1. Fixed("normalizer")
    BY <1>1, <1>2, <1>7 DEF Fixed, Consumers, Worker
  <2>2. NormInv'
    BY <1>1, <1>8, <2>1, NormKept
  <2>3. position'[group] = start /\ committed'[group] = committed[group]
    BY <1>1, <1>7 DEF Consumers, Worker
  <2>4. IndexInv'
    <3>1. CASE group = "indexer"
      <4>1. start = committed[group]
        BY <1>7, <3>1 DEF AtEnd
      <4> QED
        BY <1>1, <1>7, <1>8, <2>3, <4>1 DEF IndexInv, Indexed
    <3> QED
      BY <1>1, <3>1 DEF IndexInv
  <2>5. SiemInv'
    <3>1. SUFFICES ASSUME NEW p \in owed, p[1] <= start
                   PROVE  p \in sent' \/ <<group, p[1]>> \in givenup'
      BY <1>1, <1>7, <1>8, <2>3 DEF SiemInv, Forwarded
    <3>2. p[1] \in Nat
      BY DEF Destinations
    <3>3. CASE ~AtEnd(w) \/ p[1] = 0
      <4>1. p[1] <= committed[group]
        BY <1>7, <3>1, <3>2, <3>3, <1>2 DEF Consumers, Worker
      <4> QED
        BY <1>1, <1>8, <4>1 DEF SiemInv, Forwarded
    <3>4. CASE AtEnd(w) /\ p[1] # 0 /\ p[1] >= position[w]
      <4>1. <<w, p[1]>> \in left
        BY <3>1, <3>2, <3>4, <1>8
      <4> QED
        BY <1>1, <1>7, <4>1
    <3>5. CASE AtEnd(w) /\ p[1] # 0 /\ ~(p[1] >= position[w])
      <4>1. p[1] <= position[group] /\ p[1] # position[group]
        BY <1>7, <3>2, <3>5, <1>2 DEF Consumers, Worker
      <4> QED
        BY <1>1, <1>8, <4>1 DEF SiemInv, Forwarded
    <3> QED
      BY <3>3, <3>4, <3>5
  <2> QED
    BY <1>3, <1>4, <1>5, <2>2, <2>4, <2>5
<1> QED
  BY <1>2, <1>6, <1>7

-----------------------------------------------------------------------------
(* The normalizer.                                                         *)

\* A step of the normalizer moves nothing of the group.
LEMMA NormalizerMoves ==
    ASSUME EventInv, NEW n \in Nat, NEW s \in NormPhase, Moved("normalizer", n, s),
           n >= position["normalizer"],
           topic' = topic \/ \E d \in Doc : topic' = Append(topic, d),
           docs' = docs, buffered' = buffered, UNCHANGED siem, givenup \subseteq givenup',
           NormInv'
    PROVE  EventInv'
<1> USE DEF EventInv
<1>1. group # "normalizer" /\ Worker' = Worker /\ Worker = {"normalizer", group}
  BY TwoWorkers DEF Worker, Moved
<1>2. Consumers'
  BY <1>1 DEF Consumers, NormPhase, GroupPhase, Moved
<1>3. Fixed(group) /\ group' = group
  BY <1>1 DEF Fixed, Consumers, Moved
<1>4. topic' \in Seq(Doc) /\ Len(topic') \in Nat /\ Len(topic) \in Nat /\ Len(topic) <= Len(topic')
  <2>1. topic \in Seq(Doc)
    BY DEF Stored
  <2>2. CASE topic' = topic
    BY <2>1, <2>2
  <2>3. CASE \E d \in Doc : topic' = Append(topic, d)
    <3>1. PICK d \in Doc : topic' = Append(topic, d)
      BY <2>3
    <3> QED
      BY <2>1, <3>1
  <2> QED
    BY <2>2, <2>3
<1>5. Stored'
  <2>1. 1 .. Len(topic) \subseteq 1 .. Len(topic')
    BY <1>4
  <2>2. position'[group'] <= Len(topic')
    BY <1>2, <1>3, <1>4 DEF Stored, Fixed, Consumers, Worker
  <2> QED
    BY <1>4, <2>1, <2>2 DEF Stored
<1>6. Destinations'
  BY <1>3 DEF Destinations, siem
<1>7. UNCHANGED <<owed, todo, failing, sent>>
  BY DEF siem
<1> QED
  BY <1>2, <1>3, <1>5, <1>6, <1>7, IndexKept, SiemKept

\* A fetched event is in hand until it is sent or its failure passed over.
LEMMA NormalizerKeeps ==
    ASSUME EventConstants, EventInv, NormalizerFetch \/ NormalizerSend \/ NormalizerSendFails
    PROVE  EventInv'
<1> USE DEF EventInv
<1> DEFINE p == position["normalizer"]
<1>1. /\ p \in Nat /\ "normalizer" \in Worker /\ phase \in [Worker -> NormPhase \cup GroupPhase]
      /\ position \in [Worker -> Nat] /\ committed["normalizer"] \in Nat /\ committed["normalizer"] <= p
  BY TwoWorkers DEF Consumers
<1>2. topic \in Seq(Doc)
  BY DEF Stored
<1>3. CASE NormalizerFetch
  <2>1. /\ phase["normalizer"] = "idle" /\ p < Len(Raw)
        /\ position' = [position EXCEPT !["normalizer"] = p + 1]
        /\ group' = group /\ committed' = committed /\ topic' = topic /\ docs' = docs
        /\ buffered' = buffered /\ UNCHANGED siem /\ givenup' = givenup
    BY <1>3, <1>1 DEF NormalizerFetch, GetOne, norm
  <2>2. PICK s \in {"commit", "send"} :
           /\ phase' = [phase EXCEPT !["normalizer"] = s]
           /\ s = "commit" => ~Decodable(p + 1)
    BY <1>3 DEF NormalizerFetch, Goto, Decodable
  <2>3. position'["normalizer"] = p + 1 /\ phase'["normalizer"] = s
    BY <1>1, <2>1, <2>2
  <2>4. NormInv'
    <3>1. \A n : Normalized(n) => Normalized(n)'
      BY <2>1 DEF Normalized, Decodable
    <3>2. ASSUME NEW n \in 1 .. p + 1
          PROVE  Normalized(n)' \/ (s = "send" /\ n = p + 1)
      <4>1. CASE n = p + 1
        <5>1. s = "commit" => Normalized(n)
          BY <2>2, <4>1 DEF Normalized
        <5> QED
          BY <2>2, <3>1, <4>1, <5>1
      <4>2. CASE n # p + 1
        <5>1. n \in 1 .. p
          BY <1>1, <4>2
        <5>2. Normalized(n)
          BY <2>1, <5>1 DEF NormInv
        <5> QED
          BY <3>1, <5>2
      <4> QED
        BY <4>1, <4>2
    <3>3. \A n \in 1 .. committed'["normalizer"] : Normalized(n)'
      BY <2>1, <3>1 DEF NormInv
    <3> QED
      BY <2>3, <3>2, <3>3 DEF NormInv
  <2> QED
    <3>1. Moved("normalizer", p + 1, s)
      BY <2>1, <2>2 DEF Moved
    <3> QED
      BY <1>1, <2>1, <2>2, <2>4, <3>1, NormalizerMoves DEF NormPhase
<1>4. CASE NormalizerSend
  <2>1. /\ phase["normalizer"] = "send" /\ phase' = [phase EXCEPT !["normalizer"] = "commit"]
        /\ topic' = Append(topic, ToEcs(p)) /\ position' = position
        /\ group' = group /\ committed' = committed /\ docs' = docs
        /\ buffered' = buffered /\ UNCHANGED siem /\ givenup' = givenup
    BY <1>4 DEF NormalizerSend, Goto
  <2>2. ToEcs(p) \in Doc /\ ToEcs(p).raw = p
    BY <1>1 DEF Doc, ToEcs
  <2>3. /\ \A i \in DOMAIN topic : i \in DOMAIN topic' /\ topic'[i] = topic[i]
        /\ \E i \in DOMAIN topic' : topic'[i].raw = p
    <3>1. /\ Len(topic) \in Nat /\ DOMAIN topic = 1 .. Len(topic) /\ DOMAIN topic' = 1 .. Len(topic) + 1
          /\ topic'[Len(topic) + 1] = ToEcs(p) /\ \A i \in 1 .. Len(topic) : topic'[i] = topic[i]
      BY <1>2, <2>1, <2>2
    <3> QED
      BY <2>2, <3>1
  <2>4. \A n : Normalized(n) => Normalized(n)'
    BY <2>1, <2>3 DEF Normalized, Decodable
  <2>5. Normalized(p)'
    BY <2>1, <2>3 DEF Normalized
  <2>6. NormInv'
    BY <1>1, <2>1, <2>4, <2>5 DEF NormInv
  <2>7. position' = [position EXCEPT !["normalizer"] = p]
    BY <1>1, <2>1
  <2> QED
    <3>1. Moved("normalizer", p, "commit")
      BY <2>1, <2>7 DEF Moved
    <3> QED
      BY <1>1, <2>1, <2>2, <2>6, <3>1, NormalizerMoves DEF NormPhase
<1>5. CASE NormalizerSendFails
  <2>1. /\ phase["normalizer"] = "send" /\ phase' = [phase EXCEPT !["normalizer"] = "idle"]
        /\ topic' = topic /\ position' = position /\ givenup' = givenup \cup {<<"normalizer", p>>}
        /\ group' = group /\ committed' = committed /\ docs' = docs
        /\ buffered' = buffered /\ UNCHANGED siem
    BY <1>5 DEF NormalizerSendFails, Goto, norm, GiveUp
  <2>2. NormInv'
    BY <1>1, <2>1 DEF NormInv, Normalized
  <2>3. position' = [position EXCEPT !["normalizer"] = p]
    BY <1>1, <2>1
  <2> QED
    <3>1. Moved("normalizer", p, "idle")
      BY <2>1, <2>3 DEF Moved
    <3> QED
      BY <1>1, <2>1, <2>2, <3>1, NormalizerMoves DEF NormPhase
<1> QED
  BY <1>3, <1>4, <1>5

-----------------------------------------------------------------------------
(* The downstream group.                                                   *)

\* A step of the group moves nothing of the normalizer.
LEMMA GroupMoves ==
    ASSUME EventInv, NEW n \in Nat, NEW s \in GroupPhase, Moved(group, n, s), n >= position[group],
           topic' = topic, givenup \subseteq givenup'
    PROVE  Consumers' /\ NormInv' /\ position'[group] = n /\ phase'[group] = s
<1> USE DEF EventInv
<1>1. group # "normalizer" /\ Worker' = Worker /\ Worker = {"normalizer", group}
  BY TwoWorkers DEF Worker, Moved
<1>2. Consumers' /\ position'[group] = n /\ phase'[group] = s
  BY <1>1 DEF Consumers, NormPhase, GroupPhase, Moved
<1>3. Fixed("normalizer")
  BY <1>1 DEF Fixed, Consumers, Moved
<1> QED
  BY <1>2, <1>3, NormKept

\* A step that fetches nothing.
LEMMA PositionStays ==
    ASSUME Consumers, position' = position, committed' = committed, group' = group,
           NEW s \in GroupPhase, phase' = [phase EXCEPT ![group] = s]
    PROVE  Moved(group, position[group], s) /\ position[group] \in Nat /\ position[group] >= position[group]
BY DEF Consumers, Worker, Moved

\* A message goes into the buffer.
LEMMA IndexerFetchKeeps ==
    ASSUME EventInv, IndexerFetch PROVE EventInv'
<1> USE DEF EventInv
<1> DEFINE p == position[group]
<1>1. /\ group = "indexer" /\ group' = group /\ phase[group] = "idle" /\ p < Len(topic)
      /\ position' = [position EXCEPT ![group] = p + 1] /\ buffered' = Append(buffered, p + 1)
      /\ topic' = topic /\ docs' = docs /\ committed' = committed /\ UNCHANGED siem /\ givenup' = givenup
  BY DEF IndexerFetch, GetOne
<1>2. PICK s \in {"flush", "idle"} : phase' = [phase EXCEPT ![group] = s]
  BY DEF IndexerFetch, Goto
<1>3. p \in Nat /\ committed[group] \in Nat /\ topic \in Seq(Doc) /\ buffered \in Seq(Nat)
  BY DEF Consumers, Worker, Stored
<1>4. Consumers' /\ NormInv' /\ position'[group] = p + 1 /\ phase'[group] = s
  <2>1. Moved(group, p + 1, s) /\ s \in GroupPhase /\ p + 1 >= p /\ p + 1 \in Nat
    BY <1>1, <1>2, <1>3 DEF Moved, GroupPhase
  <2> QED
    BY <1>1, <2>1, GroupMoves
<1>5. buffered' \in Seq(Nat) /\ Range(buffered') = Range(buffered) \cup {p + 1}
  <2>1. /\ buffered' \in Seq(Nat) /\ Len(buffered) \in Nat /\ DOMAIN buffered = 1 .. Len(buffered)
        /\ DOMAIN buffered' = 1 .. Len(buffered) + 1 /\ buffered'[Len(buffered) + 1] = p + 1
        /\ \A i \in DOMAIN buffered : buffered'[i] = buffered[i]
    BY <1>1, <1>3
  <2> QED
    BY <2>1 DEF Range
<1>6. Stored'
  BY <1>1, <1>3, <1>4, <1>5 DEF Stored
<1>7. Destinations'
  BY <1>1 DEF Destinations, siem
<1>8. IndexInv'
  <2>1. \A n : Indexed(n) => Indexed(n)'
    BY <1>1 DEF Indexed
  <2>2. \A n \in 1 .. p + 1 : Indexed(n)' \/ (n \in Range(buffered') /\ s # "commit")
    <3>1. \A n \in 1 .. p : Indexed(n) \/ n \in Range(buffered)
      BY <1>1 DEF IndexInv
    <3>2. \A n \in 1 .. p + 1 : n \in 1 .. p \/ n = p + 1
      BY <1>3
    <3> QED
      BY <1>2, <1>5, <2>1, <3>1, <3>2
  <2> QED
    BY <1>1, <1>4, <2>1, <2>2 DEF IndexInv
<1>9. SiemInv'
  BY <1>1, NothingOwed DEF siem
<1> QED
  BY <1>4, <1>6, <1>7, <1>8, <1>9

\* The bulk write, and its failure below and at the cap of the buffer.
LEMMA IndexerFlushKeeps ==
    ASSUME EventInv, IndexerTimeout \/ Flush \/ FlushFails PROVE EventInv'
<1> USE DEF EventInv
<1> DEFINE p == position[group]
<1>1. /\ group = "indexer" /\ group' = group /\ position' = position /\ topic' = topic
      /\ committed' = committed /\ UNCHANGED siem
  BY DEF IndexerTimeout, Flush, FlushFails, norm
<1>2. PICK s \in {"flush", "commit", "idle"} : phase' = [phase EXCEPT ![group] = s]
  BY DEF IndexerTimeout, Flush, FlushFails, Goto
<1>3. p \in Nat /\ committed[group] \in Nat /\ topic \in Seq(Doc) /\ buffered \in Seq(Nat)
  BY DEF Consumers, Worker, Stored
<1>4. phase'[group] = s
  BY <1>2 DEF Consumers, Worker
<1>5. /\ givenup \subseteq givenup' /\ docs \subseteq docs' /\ docs' \subseteq docs \cup Range(buffered)
      /\ buffered' \in Seq(Nat) /\ Range(buffered') \subseteq Range(buffered)
      /\ \A n \in Range(buffered) : Indexed(n)' \/ (n \in Range(buffered') /\ s # "commit")
      /\ phase[group] # "commit"
  <2>1. CASE IndexerTimeout
    <3>1. phase'[group] = "flush" /\ phase[group] = "idle" /\ UNCHANGED <<givenup, docs, buffered>>
      BY <1>3, <2>1 DEF IndexerTimeout, Goto, norm, Consumers, Worker
    <3> QED
      BY <1>3, <1>4, <3>1
  <2>2. CASE Flush
    <3>1. /\ phase[group] = "flush" /\ docs' = docs \cup Range(buffered) /\ buffered' = <<>>
          /\ givenup' = givenup
      BY <2>2 DEF Flush
    <3>2. Range(<<>>) = {}
      BY DEF Range
    <3> QED
      BY <3>1, <3>2 DEF Indexed
  <2>3. CASE FlushFails
    <3>1. PICK part \in SUBSET Range(buffered) : docs' = docs \cup part
      BY <2>3 DEF FlushFails
    <3>2. phase[group] = "flush"
      BY <2>3 DEF FlushFails
    <3>3. CASE Len(buffered) >= RetryCap
      <4>1. /\ buffered' = SubSeq(buffered, Len(buffered) \div 2 + 1, Len(buffered))
            /\ givenup' = givenup \cup {<<group, n>> : n \in Range(buffered)}
        BY <2>3, <3>3 DEF FlushFails
      <4>2. buffered' \in Seq(Nat) /\ Range(buffered') \subseteq Range(buffered)
        BY <1>3, <4>1, KeptHalf
      <4>3. \A n \in Range(buffered) : Indexed(n)'
        BY <1>1, <4>1 DEF Indexed
      <4> QED
        BY <3>1, <3>2, <4>1, <4>2, <4>3
    <3>4. CASE ~(Len(buffered) >= RetryCap)
      <4>1. UNCHANGED <<buffered, givenup>> /\ phase'[group] = "idle"
        BY <2>3, <3>4 DEF FlushFails, Goto, Consumers, Worker
      <4> QED
        BY <1>3, <1>4, <3>1, <3>2, <4>1
    <3> QED
      BY <3>3, <3>4
  <2> QED
    BY <2>1, <2>2, <2>3
<1>6. Consumers' /\ NormInv' /\ position'[group] = p
  <2>1. s \in GroupPhase
    BY <1>2 DEF GroupPhase
  <2>2. Moved(group, p, s) /\ p \in Nat /\ p >= p
    BY <1>1, <1>2, <2>1, PositionStays
  <2> QED
    BY <1>1, <1>5, <2>1, <2>2, GroupMoves
<1>7. Stored'
  BY <1>1, <1>3, <1>5, <1>6 DEF Stored
<1>8. Destinations'
  BY <1>1 DEF Destinations, siem
<1>9. IndexInv'
  <2>1. \A n : Indexed(n) => Indexed(n)'
    BY <1>1, <1>5 DEF Indexed
  <2>2. \A n \in 1 .. p : Indexed(n)' \/ (n \in Range(buffered') /\ s # "commit")
    BY <1>1, <1>5, <2>1 DEF IndexInv
  <2> QED
    BY <1>1, <1>4, <1>6, <2>1, <2>2 DEF IndexInv
<1>10. SiemInv'
  BY <1>1, NothingOwed DEF siem
<1> QED
  BY <1>6, <1>7, <1>8, <1>9, <1>10

\* The process-chain indexer has no part in what is acknowledged here.
LEMMA ChainKeeps ==
    ASSUME EventInv, ChainFetch \/ ChainHandle \/ ChainHandleFails \/ SweepRetention
    PROVE  EventInv'
<1> USE DEF EventInv
<1> DEFINE p == position[group]
<1>1. /\ group = "chain" /\ group' = group /\ topic' = topic /\ docs' = docs /\ buffered' = buffered
      /\ committed' = committed /\ UNCHANGED siem /\ givenup \subseteq givenup'
  BY DEF ChainFetch, ChainHandle, ChainHandleFails, SweepRetention, norm, GiveUp
<1>2. PICK n \in {p, p + 1}, s \in {"handle", "commit", phase[group]} :
         Moved(group, n, s) /\ n <= Len(topic)
  <2>1. /\ p \in Nat /\ p <= Len(topic) /\ position = [position EXCEPT ![group] = p]
        /\ phase = [phase EXCEPT ![group] = phase[group]]
    BY DEF Consumers, Worker, Stored
  <2>2. CASE ChainFetch
    <3>1. Moved(group, p + 1, "handle") /\ p < Len(topic)
      BY <2>2 DEF ChainFetch, GetOne, Goto, Moved
    <3> QED
      BY <2>1, <3>1 DEF Stored
  <2>3. CASE ChainHandle
    BY <2>1, <2>3 DEF ChainHandle, Goto, Moved
  <2>4. CASE ChainHandleFails
    BY <2>1, <2>4 DEF ChainHandleFails, Goto, Moved
  <2>5. CASE SweepRetention
    BY <2>1, <2>5 DEF SweepRetention, Moved
  <2> QED
    BY <2>2, <2>3, <2>4, <2>5
<1>3. p \in Nat /\ phase[group] \in GroupPhase
  BY DEF Consumers, Worker
<1>4. Consumers' /\ NormInv' /\ position'[group] = n
  <2>1. n \in Nat /\ n >= p /\ s \in GroupPhase
    BY <1>2, <1>3 DEF GroupPhase
  <2> QED
    BY <1>1, <1>2, <2>1, GroupMoves
<1>5. Stored'
  BY <1>1, <1>2, <1>4 DEF Stored
<1>6. Destinations' /\ IndexInv'
  BY <1>1 DEF Destinations, siem, IndexInv
<1>7. SiemInv'
  BY <1>1, NothingOwed DEF siem
<1> QED
  BY <1>4, <1>5, <1>6, <1>7

-----------------------------------------------------------------------------
(* The SIEM forwarder.                                                     *)

\* What the forwarder's steps leave alone.
LEMMA SiemFrame ==
    ASSUME EventInv, group = "siem", group' = group, UNCHANGED norm,
           position'[group] <= Len(topic)
    PROVE  Stored' /\ IndexInv'
BY DEF EventInv, Stored, norm, IndexInv

\* A new pass: what it owes for the event is all still to do.
LEMMA SiemFetchKeeps ==
    ASSUME EventInv, SiemFetch PROVE EventInv'
<1> USE DEF EventInv
<1> DEFINE p == position[group]
<1>1. /\ group = "siem" /\ group' = group /\ phase[group] = "idle" /\ p < Len(topic)
      /\ todo' = cached /\ failing' = FALSE
      /\ owed' = {q \in owed : q[1] # p + 1} \cup {<<p + 1, d>> : d \in cached \ Rotated}
      /\ UNCHANGED norm /\ UNCHANGED <<committed, enabled, cached, errors, sent, givenup>>
  BY DEF SiemFetch
<1>2. Moved(group, p + 1, "dispatch")
  BY <1>1 DEF SiemFetch, Moved, GetOne, Goto
<1>3. p \in Nat /\ topic \in Seq(Doc) /\ committed[group] \in Nat /\ committed[group] <= p
  BY DEF Consumers, Worker, Stored
<1>4. Consumers' /\ NormInv' /\ position'[group] = p + 1 /\ phase'[group] = "dispatch"
  <2>1. p + 1 \in Nat /\ p + 1 >= p /\ "dispatch" \in GroupPhase
    BY <1>3 DEF GroupPhase
  <2> QED
    BY <1>1, <1>2, <2>1, GroupMoves DEF norm
<1>5. Stored' /\ IndexInv'
  BY <1>1, <1>3, <1>4, SiemFrame
<1>6. Destinations'
  <2>1. failing' \in BOOLEAN
    BY <1>1, Zenon
  <2>2. \A q \in owed' : q \in Nat \X (Dest \ Rotated)
    BY <1>1, <1>3 DEF Destinations
  <2>3. enabled' \subseteq Dest /\ cached' \subseteq Dest /\ todo' \subseteq Dest /\ errors' \subseteq Dest
    BY <1>1 DEF Destinations
  <2> QED
    BY <1>1, <2>1, <2>2, <2>3 DEF Destinations
<1>7. SiemInv'
  <2>1. SUFFICES ASSUME NEW q \in owed'
                 PROVE  /\ q[1] <= committed'[group] => Forwarded(q)'
                        /\ q[1] <= p + 1 => Forwarded(q)' \/ (q[1] = p + 1 /\ q[2] \in todo')
    BY <1>1, <1>4 DEF SiemInv
  <2>2. Forwarded(q)' <=> Forwarded(q)
    BY <1>1 DEF Forwarded
  <2>3. CASE q \in owed /\ q[1] # p + 1
    <3>1. q[1] \in Nat
      BY <2>3 DEF Destinations
    <3>2. q[1] <= p => Forwarded(q)
      BY <1>1, <2>3 DEF SiemInv
    <3> QED
      BY <1>1, <1>3, <2>2, <2>3, <3>1, <3>2
  <2>4. CASE q \in {<<p + 1, d>> : d \in cached \ Rotated}
    <3>1. q[1] = p + 1 /\ q[2] \in cached
      BY <2>4
    <3> QED
      BY <1>1, <1>3, <3>1
  <2> QED
    BY <1>1, <2>3, <2>4
<1> QED
  BY <1>4, <1>5, <1>6, <1>7

\* One destination of the pass: delivered, failed, or one nothing is owed to.
LEMMA SiemSendKeeps ==
    ASSUME EventInv, NEW d \in Dest, SiemSend(d) \/ SiemSendFails(d) \/ SiemUndecryptable(d)
    PROVE  EventInv'
<1> USE DEF EventInv
<1> DEFINE p == position[group]
<1>1. /\ group = "siem" /\ group' = group /\ phase[group] = "dispatch" /\ todo' = todo \ {d}
      /\ position' = position /\ phase' = phase /\ committed' = committed /\ UNCHANGED norm
      /\ UNCHANGED <<enabled, cached, owed, givenup>> /\ sent \subseteq sent' /\ errors' \subseteq errors \cup {d}
  BY DEF SiemSend, SiemSendFails, SiemUndecryptable
<1>2. p \in Nat /\ phase[group] \in GroupPhase /\ topic \in Seq(Doc) /\ p <= Len(topic)
  BY DEF Consumers, Worker, Stored
<1>3. Consumers' /\ NormInv'
  <2>1. Worker' = Worker /\ Fixed("normalizer")
    BY <1>1 DEF Worker, Fixed
  <2> QED
    BY <1>1, <2>1, NormKept DEF Consumers, norm
<1>4. Stored' /\ IndexInv'
  BY <1>1, <1>2, SiemFrame
<1>5. \/ failing' = failing /\ (<<p, d>> \in sent' \/ d \in Rotated)
      \/ failing' = TRUE
  <2>1. CASE SiemSend(d)
    BY <2>1 DEF SiemSend
  <2>2. CASE SiemSendFails(d)
    BY <2>2 DEF SiemSendFails
  <2>3. CASE SiemUndecryptable(d)
    BY <2>3 DEF SiemUndecryptable
  <2> QED
    BY <2>1, <2>2, <2>3
<1>6. Destinations'
  <2>1. failing' \in BOOLEAN
    BY <1>5, Zenon DEF Destinations
  <2> QED
    BY <1>1, <2>1 DEF Destinations
<1>7. SiemInv'
  <2>1. SUFFICES ASSUME NEW q \in owed
                 PROVE  /\ q[1] <= committed[group] => Forwarded(q)'
                        /\ q[1] <= p => Forwarded(q)' \/ (q[1] = p /\ (failing' = TRUE \/ q[2] \in todo'))
    BY <1>1 DEF SiemInv
  <2>2. Forwarded(q) => Forwarded(q)'
    BY <1>1 DEF Forwarded
  <2>3. q = <<q[1], q[2]>> /\ q[2] \notin Rotated
    BY DEF Destinations
  <2>4. q[1] = p /\ q[2] = d => Forwarded(q)' \/ failing' = TRUE
    BY <1>5, <2>3 DEF Forwarded
  <2>5. failing = TRUE => failing' = TRUE
    BY <1>5
  <2> QED
    BY <1>1, <2>2, <2>4, <2>5 DEF SiemInv
<1> QED
  BY <1>3, <1>4, <1>6, <1>7

\* The end of the pass: nothing is left to do, and a pass with a failure is given up.
LEMMA SiemDispatchedKeeps ==
    ASSUME EventInv, SiemDispatched PROVE EventInv'
<1> USE DEF EventInv
<1> DEFINE p == position[group]
<1>1. /\ group = "siem" /\ group' = group /\ phase[group] = "dispatch" /\ todo = {} /\ todo' = todo
      /\ position' = position /\ committed' = committed /\ UNCHANGED norm
      /\ UNCHANGED <<enabled, owed, failing, sent, errors>>
  BY DEF SiemDispatched
<1>2. \/ failing # TRUE /\ cached' = cached /\ givenup' = givenup /\ phase' = [phase EXCEPT ![group] = "commit"]
      \/ cached' = enabled /\ givenup' = givenup \cup {<<group, p>>} /\ phase' = [phase EXCEPT ![group] = "idle"]
  <2>1. failing \in BOOLEAN
    BY DEF Destinations
  <2> QED
    BY <2>1 DEF SiemDispatched, GiveUp, Goto
<1>3. p \in Nat /\ topic \in Seq(Doc) /\ p <= Len(topic) /\ givenup \subseteq givenup'
  BY <1>2 DEF Consumers, Worker, Stored
<1>4. PICK s \in {"commit", "idle"} : phase' = [phase EXCEPT ![group] = s]
  BY <1>2
<1>5. Consumers' /\ NormInv' /\ position'[group] = p /\ phase'[group] = s
  <2>1. s \in GroupPhase
    BY <1>4 DEF GroupPhase
  <2>2. Moved(group, p, s) /\ p \in Nat /\ p >= p
    BY <1>1, <1>4, <2>1, PositionStays
  <2> QED
    BY <1>1, <1>3, <2>1, <2>2, GroupMoves DEF norm
<1>6. Stored' /\ IndexInv'
  BY <1>1, <1>3, SiemFrame
<1>7. Destinations'
  BY <1>1, <1>2 DEF Destinations
<1>8. SiemInv'
  <2>1. SUFFICES ASSUME NEW q \in owed
                 PROVE  /\ q[1] <= committed[group] => Forwarded(q)'
                        /\ q[1] <= p => Forwarded(q)'
    BY <1>1 DEF SiemInv
  <2>2. Forwarded(q) => Forwarded(q)'
    BY <1>1, <1>3 DEF Forwarded
  <2>3. q[1] = p /\ failing = TRUE => Forwarded(q)'
    BY <1>1, <1>2 DEF Forwarded
  <2> QED
    BY <1>1, <2>2, <2>3 DEF SiemInv
<1> QED
  BY <1>5, <1>6, <1>7, <1>8

\* Edits of destinations, the refresh of the cache and the clock.
LEMMA QuietKeeps ==
    ASSUME EventInv, SiemRefresh \/ (\E d \in Dest : EditDestination(d)) \/ Tick \/ UNCHANGED vars
    PROVE  EventInv'
<1> USE DEF EventInv
<1>1. /\ group' = group /\ position' = position /\ phase' = phase /\ committed' = committed
      /\ UNCHANGED norm /\ UNCHANGED <<todo, owed, givenup, failing, sent, errors>>
      /\ enabled' \subseteq enabled \cup Dest /\ cached' \subseteq cached \cup enabled
  BY DEF SiemRefresh, EditDestination, Tick, vars, siem, norm
<1>2. Worker' = Worker /\ Fixed("normalizer") /\ Fixed(group)
  BY <1>1 DEF Worker, Fixed
<1>3. Consumers' /\ Stored' /\ Destinations'
  BY <1>1, <1>2 DEF Consumers, Stored, Destinations, norm
<1> QED
  BY <1>1, <1>2, <1>3, NormKept, IndexKept, SiemKept DEF norm

-----------------------------------------------------------------------------
\* The invariant holds at the start ...
LEMMA EventInitially == ASSUME Init PROVE EventInv
<1>1. Consumers
  BY DEF Init, Consumers, Worker, NormPhase, GroupPhase
<1>2. Stored
  BY DEF Init, Stored, Range, Worker
<1>3. Destinations
  BY DEF Init, Destinations
<1>4. NormInv /\ IndexInv /\ SiemInv
  BY DEF Init, NormInv, IndexInv, SiemInv, Worker
<1> QED
  BY <1>1, <1>2, <1>3, <1>4 DEF EventInv

\* ... and every step keeps it.
LEMMA EventStep == ASSUME EventConstants, EventInv, [Next]_vars PROVE EventInv'
BY CommitKeeps, RestartKeeps, NormalizerKeeps, IndexerFetchKeeps, IndexerFlushKeeps, ChainKeeps,
   SiemFetchKeeps, SiemSendKeeps, SiemDispatchedKeeps, QuietKeeps DEF Next

\* So it always holds.
LEMMA EventInvariant == ASSUME EventConstants PROVE Spec => []EventInv
<1>1. Init => EventInv
  BY EventInitially
<1>2. EventInv /\ [Next]_vars => EventInv'
  BY EventStep
<1> QED
  BY <1>1, <1>2, PTL DEF Spec

\* The consumers, the buffers and the destinations keep their types.
THEOREM EventPipelineTypes == ASSUME EventConstants PROVE Spec => []TypeOK
<1>1. EventInv => TypeOK
  <2>1. Range(Raw) \subseteq RawEvent
    BY DEF EventConstants, Range
  <2> QED
    BY <2>1 DEF EventInv, Consumers, Stored, Destinations, TypeOK, NormPhase, GroupPhase
<1> QED
  BY <1>1, EventInvariant, PTL

\* An event a worker has acknowledged has had its effect, however often the workers
\* crash, replay and fail, for every raw stream, batch size and set of destinations.
THEOREM AcknowledgedHadEffect == ASSUME EventConstants PROVE Spec => []NoEventLost
<1>1. EventInv => NoEventLost
  BY DEF EventInv, NormInv, IndexInv, SiemInv, Normalized, Indexed, Forwarded, NoEventLost
<1> QED
  BY <1>1, EventInvariant, PTL

-----------------------------------------------------------------------------
(***************************************************************************)
(* Proofs about threat-intel feeds and sandbox verdicts (ThreatIntel).     *)
(*                                                                         *)
(* A transaction writes a difference it computed before, so what matters   *)
(* is that the difference is still the one that leads to what was pulled:  *)
(* while nobody else has changed the feed since it was loaded it is, and   *)
(* somebody who has makes the commit a recorded race.  A malicious verdict *)
(* travels with its indicator: in the feed, in the transaction that will   *)
(* add it, or on the list of what an operator has removed.                 *)
(***************************************************************************)
\* What the proofs assume of the constants: the marks for "no feed" and for the sandbox's
\* feed are not feeds of an operator, and a feed lists finitely many indicators.
IntelConstants == "" \notin Feed /\ Intel!Det \notin Feed /\ IsFiniteSet(Listed)

Puller == {"tick", "forced"}

\* A transaction that pulls feeds, and what it has diffed so far.
IsPull(t) ==
    /\ t = [st |-> "run", n |-> t.n, todo |-> t.todo, loaded |-> t.loaded, stale |-> t.stale,
            rule |-> t.rule, done |-> t.done]
    /\ t.n \in Nat \ {0} /\ t.todo \subseteq t.loaded /\ t.loaded \subseteq Intel!Feeds
    /\ DOMAIN t.done \subseteq t.loaded \ {Intel!Det}
    /\ \A f \in DOMAIN t.done :
         /\ IsFiniteSet(t.done[f].want)
         /\ \A x \in t.done[f].diff.del : x.src = f

\* A transaction of the poller: what it has polled so far and what it will add.
IsPoll(t) ==
    /\ t = [st |-> "run", n |-> t.n, todo |-> t.todo, loaded |-> t.loaded, stale |-> t.stale,
            rule |-> t.rule, had |-> t.had, add |-> t.add, done |-> t.done]
    /\ t.n \in Nat \ {0} /\ t.todo \subseteq Job /\ DOMAIN t.done \subseteq Job

Transactions ==
    /\ ntx \in Nat
    /\ txs = [w \in Intel!Worker |-> txs[w]]
    /\ \A w \in Puller : txs[w] = Intel!Idle \/ IsPull(txs[w])
    /\ txs["poller"] = Intel!Idle \/ IsPoll(txs["poller"])

\* Rows of the tables.
IsEntry(x) ==
    /\ x = [n |-> x.n, rule |-> x.rule, src |-> x.src, origin |-> x.origin, val |-> x.val]
    /\ x.src \in Intel!Feeds \cup {""}
FeedRows == feeds = [f \in Intel!Feeds |-> [st |-> feeds[f].st, rule |-> feeds[f].rule]]
Tables ==
    /\ FeedRows /\ Intel!NoRule \notin rules /\ \A x \in entries : IsEntry(x)
    /\ jobs = [j \in Job |-> [st |-> jobs[j].st, prov |-> jobs[j].prov, label |-> jobs[j].label]]
    /\ pulled = [f \in Intel!Feeds |-> pulled[f]]

\* A difference that is not stale is the one between what is there and what was pulled.
InStep(t, f) ==
    f \in t.loaded \ t.stale =>
        /\ t.rule[f] = feeds[f].rule
        /\ f \in DOMAIN t.done => t.done[f].diff = Intel!Diff(f, t.done[f].want)

Current == \A w \in Puller, f \in Feed \ raced : txs[w] # Intel!Idle => InStep(txs[w], f)

\* The rows of a feed, as its last pull has left them.
Exact(f) ==
    /\ \A x, y \in Intel!RowsOf(f) : x.val = y.val => x = y
    /\ \A x \in Intel!RowsOf(f) : x.rule = feeds[f].rule
    /\ pulled[f] # Intel!Unknown => Intel!Vals(Intel!RowsOf(f)) = pulled[f] /\ IsFiniteSet(pulled[f])

Replaced == \A f \in Feed \ raced : Exact(f)

\* An indicator of the sandbox is in its feed, or an operator removed it.
Known(h) == h \in Intel!Vals(Intel!RowsOf(Intel!Det)) \/ h \in dropped

Verdicts ==
    /\ \A j \in Job : jobs[j].st = "verdict" /\ jobs[j].label = "malicious" => Known(Hash[j])
    /\ txs["poller"] # Intel!Idle =>
         \A j \in DOMAIN txs["poller"].done :
            txs["poller"].done[j] = "high" => Known(Hash[j]) \/ Hash[j] \in txs["poller"].add

IntelInv == Transactions /\ Tables /\ Intel!TypeOK /\ Current /\ Replaced /\ Verdicts

-----------------------------------------------------------------------------
(* Transactions.                                                           *)

\* What a commit of somebody else leaves of a transaction.
Same(x, y) == y.n = x.n /\ y.todo = x.todo /\ y.loaded = x.loaded /\ y.rule = x.rule /\ y.done = x.done

\* A transaction under way is not idle.
LEMMA UnderWay == \A t : IsPull(t) \/ IsPoll(t) => t # Intel!Idle
<1>1. ASSUME NEW t, IsPull(t) \/ IsPoll(t) PROVE t # Intel!Idle
  <2>1. t.st = "run"
    BY <1>1 DEF IsPull, IsPoll
  <2> QED
    BY <2>1 DEF Intel!Idle
<1> QED
  BY <1>1

\* A pull with fewer feeds to do.
LEMMA WithTodo ==
    ASSUME NEW x, IsPull(x), NEW T
    PROVE  [x EXCEPT !.todo = T] = [st |-> "run", n |-> x.n, todo |-> T, loaded |-> x.loaded, stale |-> x.stale,
                                    rule |-> x.rule, done |-> x.done]
<1>1. x = [st |-> "run", n |-> x.n, todo |-> x.todo, loaded |-> x.loaded, stale |-> x.stale,
           rule |-> x.rule, done |-> x.done]
  BY DEF IsPull
<1> QED
  BY <1>1

\* A pull with another difference.
LEMMA WithDone ==
    ASSUME NEW x, IsPull(x), NEW T, NEW D
    PROVE  [x EXCEPT !.todo = T, !.done = D] =
             [st |-> "run", n |-> x.n, todo |-> T, loaded |-> x.loaded, stale |-> x.stale,
              rule |-> x.rule, done |-> D]
<1>1. x = [st |-> "run", n |-> x.n, todo |-> x.todo, loaded |-> x.loaded, stale |-> x.stale,
           rule |-> x.rule, done |-> x.done]
  BY DEF IsPull
<1>2. PICK z : z = [x EXCEPT !.todo = T]
  OBVIOUS
<1>3. z = [st |-> "run", n |-> x.n, todo |-> T, loaded |-> x.loaded, stale |-> x.stale,
           rule |-> x.rule, done |-> x.done]
  BY <1>2, WithTodo
<1>4. [x EXCEPT !.todo = T, !.done = D] = [z EXCEPT !.done = D]
  BY <1>2
<1>5. [z EXCEPT !.done = D] = [st |-> "run", n |-> x.n, todo |-> T, loaded |-> x.loaded, stale |-> x.stale,
                               rule |-> x.rule, done |-> D]
  BY <1>3
<1> QED
  BY <1>4, <1>5

\* A pull that a commit has made stale.
LEMMA PullOutdated ==
    ASSUME NEW x, IsPull(x), NEW S
    PROVE  \E y : y = [x EXCEPT !.stale = S] /\ IsPull(y) /\ Same(x, y) /\ y.stale = S
<1>1. PICK y : y = [x EXCEPT !.stale = S]
  OBVIOUS
<1>2. y = [st |-> "run", n |-> x.n, todo |-> x.todo, loaded |-> x.loaded, stale |-> S,
           rule |-> x.rule, done |-> x.done]
  BY <1>1 DEF IsPull
<1>3. y.st = "run" /\ Same(x, y) /\ y.stale = S
  BY <1>2 DEF Same
<1>4. IsPull(y)
  BY <1>2, <1>3 DEF IsPull, Same
<1> QED
  BY <1>1, <1>3, <1>4

\* A poll that a commit has made stale.
LEMMA PollOutdated ==
    ASSUME NEW x, IsPoll(x), NEW S
    PROVE  \E y : y = [x EXCEPT !.stale = S] /\ IsPoll(y) /\ y.done = x.done /\ y.add = x.add
<1>1. PICK y : y = [x EXCEPT !.stale = S]
  OBVIOUS
<1>2. y = [st |-> "run", n |-> x.n, todo |-> x.todo, loaded |-> x.loaded, stale |-> S,
           rule |-> x.rule, had |-> x.had, add |-> x.add, done |-> x.done]
  BY <1>1 DEF IsPoll
<1>3. y.st = "run" /\ y.n = x.n /\ y.todo = x.todo /\ y.loaded = x.loaded /\ y.stale = S /\ y.rule = x.rule
      /\ y.had = x.had /\ y.add = x.add /\ y.done = x.done
  BY <1>2
<1>4. IsPoll(y)
  BY <1>2, <1>3 DEF IsPoll
<1> QED
  BY <1>1, <1>3, <1>4

\* The rows of the feed and the rule it points at are as they were.
Untouched(f) == feeds'[f].rule = feeds[f].rule /\ Intel!RowsOf(f)' = Intel!RowsOf(f)

\* A difference stays in step when the feed is untouched ...
LEMMA InStepStays ==
    ASSUME NEW t, NEW f, InStep(t, f), Untouched(f)
    PROVE  InStep(t, f)'
<1>1. \A d : Intel!Diff(f, d)' = Intel!Diff(f, d)
  BY DEF Intel!Diff, Untouched
<1> QED
  BY <1>1 DEF InStep, Untouched

\* ... and one that is made stale need not be.
LEMMA OutdatedInStep ==
    ASSUME NEW x, NEW y, NEW f, NEW F, Same(x, y), y.stale = x.stale \cup (F \cap x.loaded), InStep(x, f),
           f \in F \/ Untouched(f)
    PROVE  InStep(y, f)'
<1>1. CASE f \in F
  BY <1>1 DEF InStep, Same
<1>2. CASE Untouched(f)
  <2>1. InStep(x, f)'
    BY <1>2, InStepStays
  <2> QED
    BY <2>1 DEF InStep, Same
<1> QED
  BY <1>1, <1>2

\* What a commit that touches the feeds F leaves of the transactions T.
LEMMA OutdateKeeps ==
    ASSUME Transactions, Current, NEW T, NEW F, \A w \in Intel!Worker : T[w] = Intel!Idle \/ T[w] = txs[w],
           txs' = Intel!Outdate(T, F), ntx' = ntx, raced \subseteq raced',
           \A f \in Feed \ raced' : f \in F \/ Untouched(f)
    PROVE  /\ Transactions' /\ Current'
           /\ T["poller"] = Intel!Idle => txs'["poller"] = Intel!Idle
           /\ T["poller"] # Intel!Idle => /\ IsPoll(txs'["poller"])
                                          /\ txs'["poller"].done = txs["poller"].done
                                          /\ txs'["poller"].add = txs["poller"].add
<1>1. txs' = [w \in Intel!Worker |-> txs'[w]]
  BY DEF Intel!Outdate
<1>2. \A w \in Intel!Worker : /\ T[w] = Intel!Idle => txs'[w] = Intel!Idle
                              /\ T[w] # Intel!Idle => txs'[w] = [txs[w] EXCEPT !.stale = txs[w].stale \cup (F \cap txs[w].loaded)]
  BY DEF Intel!Outdate
<1>3. Puller \subseteq Intel!Worker /\ "poller" \in Intel!Worker
  BY DEF Puller, Intel!Worker
<1>4. ASSUME NEW w \in Puller, T[w] # Intel!Idle
      PROVE  /\ IsPull(txs[w]) /\ IsPull(txs'[w]) /\ Same(txs[w], txs'[w])
             /\ txs'[w].stale = txs[w].stale \cup (F \cap txs[w].loaded)
  <2>1. IsPull(txs[w])
    BY <1>3, <1>4 DEF Transactions
  <2>2. PICK x, S : x = txs[w] /\ S = txs[w].stale \cup (F \cap txs[w].loaded)
    OBVIOUS
  <2>3. PICK y : y = [x EXCEPT !.stale = S] /\ IsPull(y) /\ Same(x, y) /\ y.stale = S
    <3>1. IsPull(x)
      BY <2>1, <2>2
    <3> QED
      BY <3>1, PullOutdated
  <2>4. txs'[w] = y
    BY <1>2, <1>3, <1>4, <2>2, <2>3
  <2> QED
    BY <2>1, <2>2, <2>3, <2>4
<1>5. ASSUME T["poller"] # Intel!Idle
      PROVE  /\ IsPoll(txs'["poller"]) /\ txs'["poller"].done = txs["poller"].done
             /\ txs'["poller"].add = txs["poller"].add
  <2>1. IsPoll(txs["poller"])
    BY <1>3, <1>5 DEF Transactions
  <2>2. PICK x, S : x = txs["poller"] /\ S = txs["poller"].stale \cup (F \cap txs["poller"].loaded)
    OBVIOUS
  <2>3. PICK y : y = [x EXCEPT !.stale = S] /\ IsPoll(y) /\ y.done = x.done /\ y.add = x.add
    <3>1. IsPoll(x)
      BY <2>1, <2>2
    <3> QED
      BY <3>1, PollOutdated
  <2>4. txs'["poller"] = y
    BY <1>2, <1>3, <1>5, <2>2, <2>3
  <2> QED
    BY <2>1, <2>2, <2>3, <2>4
<1>6. Transactions'
  <2>1. \A w \in Puller : txs'[w] = Intel!Idle \/ IsPull(txs'[w])
    BY <1>2, <1>3, <1>4
  <2>2. txs'["poller"] = Intel!Idle \/ IsPoll(txs'["poller"])
    BY <1>2, <1>3, <1>5
  <2> QED
    BY <1>1, <2>1, <2>2 DEF Transactions, IsPull, IsPoll
<1>7. Current'
  <2>1. ASSUME NEW w \in Puller, NEW f \in Feed \ raced', txs'[w] # Intel!Idle
        PROVE  \E y : y = txs'[w] /\ InStep(y, f)'
    <3>1. T[w] # Intel!Idle /\ txs[w] # Intel!Idle
      BY <1>2, <1>3, <2>1
    <3>2. PICK x, y : x = txs[w] /\ y = txs'[w]
      OBVIOUS
    <3>3. Same(x, y) /\ y.stale = x.stale \cup (F \cap x.loaded)
      BY <1>4, <3>1, <3>2
    <3>4. InStep(x, f)
      BY <3>1, <3>2 DEF Current
    <3>5. f \in F \/ Untouched(f)
      OBVIOUS
    <3>6. InStep(y, f)'
      BY <3>3, <3>4, <3>5, OutdatedInStep
    <3> QED
      BY <3>2, <3>6
  <2> QED
    BY <2>1 DEF Current, InStep
<1> QED
  BY <1>2, <1>3, <1>5, <1>6, <1>7

\* The tables as they are, and what is said of them.
Quiet == UNCHANGED <<feeds, rules, entries, pulled, raced, dropped>>

\* Tables that stay keep what is said of them.
LEMMA QuietTables ==
    ASSUME Quiet, UNCHANGED jobs, Tables, Intel!TypeOK, Replaced
    PROVE  /\ Tables' /\ Intel!TypeOK' /\ Replaced' /\ \A f : Untouched(f) /\ \A h : Known(h)' <=> Known(h)
<1>1. feeds' = feeds /\ rules' = rules /\ entries' = entries /\ pulled' = pulled /\ raced' = raced /\ dropped' = dropped
  BY DEF Quiet
<1>2. Tables' /\ Intel!TypeOK'
  BY <1>1 DEF Tables, FeedRows, Intel!TypeOK, Intel!Exists
<1>3. \A f : Intel!RowsOf(f)' = Intel!RowsOf(f)
  BY <1>1 DEF Intel!RowsOf
<1>4. Replaced'
  BY <1>1, <1>3 DEF Replaced, Exact
<1> QED
  BY <1>1, <1>2, <1>3, <1>4 DEF Untouched, Known

\* A transaction that moves on while the tables stay.
Moves(w, y) == w \in Intel!Worker /\ txs' = [txs EXCEPT ![w] = y]

\* Such a move keeps the invariant.
LEMMA MoveKeeps ==
    ASSUME IntelInv, NEW w \in Puller, NEW y, Moves(w, y), ntx' \in Nat, Quiet, UNCHANGED jobs,
           y = Intel!Idle \/ (IsPull(y) /\ \A f \in Feed \ raced : InStep(y, f))
    PROVE  IntelInv'
<1>1. Tables' /\ Intel!TypeOK' /\ Replaced' /\ \A f : Untouched(f) /\ \A h : Known(h)' <=> Known(h)
  BY QuietTables DEF IntelInv
<1>2. w # "poller" /\ "poller" \in Intel!Worker /\ w \in Intel!Worker
  BY DEF Puller, Intel!Worker
<1>3. txs' = [v \in Intel!Worker |-> txs'[v]] /\ txs'[w] = y /\ \A v \in Intel!Worker : v # w => txs'[v] = txs[v]
  BY <1>2 DEF Moves, IntelInv, Transactions
<1>4. Transactions'
  <2>1. \A v \in Puller : txs'[v] = Intel!Idle \/ IsPull(txs'[v])
    BY <1>3 DEF IntelInv, Transactions, Puller, Intel!Worker
  <2>2. txs'["poller"] = Intel!Idle \/ IsPoll(txs'["poller"])
    BY <1>2, <1>3 DEF IntelInv, Transactions
  <2> QED
    BY <1>3, <2>1, <2>2 DEF Transactions, IsPull, IsPoll
<1>5. Current'
  <2>1. ASSUME NEW v \in Puller, NEW f \in Feed \ raced', txs'[v] # Intel!Idle
        PROVE  \E x : x = txs'[v] /\ InStep(x, f)'
    <3>1. PICK x : x = txs'[v]
      OBVIOUS
    <3>2. InStep(x, f)
      <4>1. f \in Feed \ raced
        BY DEF Quiet
      <4>2. CASE v = w
        BY <1>3, <2>1, <3>1, <4>1, <4>2
      <4>3. CASE v # w
        BY <1>3, <2>1, <3>1, <4>1, <4>3 DEF IntelInv, Current, Puller, Intel!Worker
      <4> QED
        BY <4>2, <4>3
    <3>3. InStep(x, f)'
      BY <1>1, <3>2, InStepStays
    <3> QED
      BY <3>1, <3>3
  <2> QED
    BY <2>1 DEF Current, InStep
<1>6. Verdicts'
  BY <1>1, <1>2, <1>3 DEF IntelInv, Verdicts
<1> QED
  BY <1>1, <1>4, <1>5, <1>6 DEF IntelInv

\* A pull begins with feeds and rules as they are.
LEMMA BeginKeeps ==
    ASSUME IntelInv, NEW w \in Puller, NEW F, F \subseteq Intel!Feeds, Intel!Begin(w, F) PROVE IntelInv'
<1>1. PICK y : y = [st |-> "run", n |-> ntx + 1, todo |-> F, loaded |-> F, stale |-> {},
                    rule |-> [f \in F |-> feeds[f].rule], done |-> << >>]
  OBVIOUS
<1>2. y.st = "run" /\ y.n = ntx + 1 /\ y.todo = F /\ y.loaded = F /\ y.stale = {}
      /\ y.rule = [f \in F |-> feeds[f].rule] /\ y.done = << >>
  BY <1>1
<1>3. ntx \in Nat /\ ntx' = ntx + 1 /\ txs' = [txs EXCEPT ![w] = y] /\ Quiet /\ UNCHANGED jobs
  BY <1>1 DEF Intel!Begin, IntelInv, Transactions, Quiet, Intel!intel, Intel!history
<1>4. DOMAIN y.done = {}
  BY <1>2
<1>5. IsPull(y)
  BY <1>1, <1>2, <1>3, <1>4 DEF IsPull
<1>6. \A f : InStep(y, f)
  BY <1>2, <1>4 DEF InStep
<1>7. Moves(w, y) /\ ntx' \in Nat
  BY <1>3 DEF Moves, Puller, Intel!Worker
<1> QED
  BY <1>3, <1>5, <1>6, <1>7, MoveKeeps

\* The difference between what is there and what a feed lists: the rows it deletes are
\* of the feed.
LEMMA DiffOfFeed == \A f, d : \A x \in Intel!Diff(f, d).del : x \in Intel!RowsOf(f) /\ x.src = f
<1> SUFFICES ASSUME NEW f, NEW d, NEW x \in Intel!Diff(f, d).del PROVE x \in Intel!RowsOf(f) /\ x.src = f
  OBVIOUS
<1>1. PICK v \in Intel!Vals(Intel!RowsOf(f)) \ d : x = CHOOSE r \in Intel!RowsOf(f) : r.val = v
  BY DEF Intel!Diff
<1>2. \E r \in Intel!RowsOf(f) : r.val = v
  BY DEF Intel!Vals
<1> QED
  BY <1>1, <1>2 DEF Intel!RowsOf

\* What a feed lists is finite.
LEMMA DesiredFinite == ASSUME IntelConstants, NEW L, L \subseteq Listed PROVE IsFiniteSet(Intel!Desired(L))
<1>1. IsFiniteSet(Intel!Supported(L))
  BY FS_Subset DEF IntelConstants, Intel!Supported
<1>2. PICK g : g = [v \in Intel!Supported(L) |-> Norm[v]]
  OBVIOUS
<1>3. g \in Surjection(Intel!Supported(L), Intel!Desired(L))
  BY <1>2 DEF Surjection, Intel!Desired
<1> QED
  BY <1>1, <1>3, FS_Surjection

\* A feed has answered: the difference is computed from the rows as they are.
LEMMA PullFeedKeeps ==
    ASSUME IntelConstants, IntelInv, NEW w \in Puller, txs[w] # Intel!Idle, NEW f \in Intel!Feeds, Intel!PullFeed(w, f) PROVE IntelInv'
<1>1. PICK L \in SUBSET Listed :
        txs' = [txs EXCEPT ![w].todo = @ \ {f},
                           ![w].done = [x \in DOMAIN @ \cup {f} |->
                              IF x # f THEN @[x] ELSE [diff |-> Intel!Diff(f, Intel!Desired(L)), want |-> Intel!Desired(L)]]]
  BY DEF Intel!PullFeed
<1>2. f \in txs[w].todo /\ f # Intel!Det /\ ntx' = ntx /\ ntx \in Nat /\ Quiet /\ UNCHANGED jobs
  BY DEF Intel!PullFeed, Quiet, Intel!intel, Intel!history, Intel!counters, IntelInv, Transactions
<1>3. PICK x, e : x = txs[w] /\ e = [diff |-> Intel!Diff(f, Intel!Desired(L)), want |-> Intel!Desired(L)]
  OBVIOUS
<1>4. e.diff = Intel!Diff(f, Intel!Desired(L)) /\ e.want = Intel!Desired(L)
  BY <1>3
<1>5. PICK D : D = [g \in DOMAIN x.done \cup {f} |-> IF g # f THEN x.done[g] ELSE e]
  OBVIOUS
<1>6. PICK y : y = [x EXCEPT !.todo = x.todo \ {f}, !.done = D]
  OBVIOUS
<1>7. IsPull(x)
  BY <1>3 DEF IntelInv, Transactions
<1>8. y = [st |-> "run", n |-> x.n, todo |-> x.todo \ {f}, loaded |-> x.loaded, stale |-> x.stale,
           rule |-> x.rule, done |-> D]
  BY <1>6, <1>7, WithDone
<1>9. y.st = "run" /\ y.n = x.n /\ y.todo = x.todo \ {f} /\ y.loaded = x.loaded /\ y.stale = x.stale
      /\ y.rule = x.rule /\ y.done = D
  BY <1>8
<1>10. txs' = [txs EXCEPT ![w] = y]
  <2>1. w \in Intel!Worker /\ txs = [v \in Intel!Worker |-> txs[v]]
    BY DEF Puller, Intel!Worker, IntelInv, Transactions
  <2>2. x = [st |-> "run", n |-> x.n, todo |-> x.todo, loaded |-> x.loaded, stale |-> x.stale,
             rule |-> x.rule, done |-> x.done]
    BY <1>7 DEF IsPull
  <2> QED
    BY <1>1, <1>3, <1>5, <1>6, <2>1, <2>2
<1>11. DOMAIN D = DOMAIN x.done \cup {f} /\ D[f] = e /\ \A g \in DOMAIN x.done : g # f => D[g] = x.done[g]
  BY <1>5
<1>12. IsPull(y)
  <2>1. y.n \in Nat \ {0} /\ y.todo \subseteq y.loaded /\ y.loaded \subseteq Intel!Feeds
    BY <1>7, <1>9 DEF IsPull
  <2>2. DOMAIN y.done \subseteq y.loaded \ {Intel!Det}
    BY <1>2, <1>3, <1>7, <1>9, <1>11 DEF IsPull
  <2>3. ASSUME NEW g \in DOMAIN y.done PROVE IsFiniteSet(y.done[g].want) /\ \A z \in y.done[g].diff.del : z.src = g
    <3>1. CASE g = f
      BY <1>4, <1>9, <1>11, <3>1, DesiredFinite, DiffOfFeed
    <3>2. CASE g # f
      BY <1>7, <1>9, <1>11, <3>2 DEF IsPull
    <3> QED
      BY <3>1, <3>2
  <2> QED
    BY <1>8, <1>9, <2>1, <2>2, <2>3 DEF IsPull
<1>13. ASSUME NEW g \in Feed \ raced PROVE InStep(y, g)
  <2>1. InStep(x, g)
    BY <1>3 DEF IntelInv, Current
  <2>2. CASE g = f
    BY <1>4, <1>9, <1>11, <2>1, <2>2 DEF InStep
  <2>3. CASE g # f
    BY <1>9, <1>11, <2>1, <2>3 DEF InStep
  <2> QED
    BY <2>2, <2>3
<1>14. Moves(w, y) /\ ntx' \in Nat
  BY <1>2, <1>10 DEF Moves, Puller, Intel!Worker
<1> QED
  BY <1>2, <1>12, <1>13, <1>14, MoveKeeps

\* A feed cannot be fetched, or has no address: it is done with.
LEMMA PullFailsKeeps ==
    ASSUME IntelInv, NEW w \in Puller, txs[w] # Intel!Idle, NEW f \in Intel!Feeds, Intel!PullFails(w, f) PROVE IntelInv'
<1>1. /\ txs' = [txs EXCEPT ![w].todo = @ \ {f}] /\ ntx' = ntx /\ ntx \in Nat /\ Quiet /\ UNCHANGED jobs
  BY DEF Intel!PullFails, Quiet, Intel!intel, Intel!history, IntelInv, Transactions
<1>2. PICK x, y : x = txs[w] /\ y = [x EXCEPT !.todo = x.todo \ {f}]
  OBVIOUS
<1>3. IsPull(x)
  BY <1>2 DEF IntelInv, Transactions
<1>4. y = [st |-> "run", n |-> x.n, todo |-> x.todo \ {f}, loaded |-> x.loaded, stale |-> x.stale,
           rule |-> x.rule, done |-> x.done]
  BY <1>2, <1>3, WithTodo
<1>5. y.st = "run" /\ y.n = x.n /\ y.todo = x.todo \ {f} /\ y.loaded = x.loaded /\ y.stale = x.stale
      /\ y.rule = x.rule /\ y.done = x.done
  BY <1>4
<1>6. txs' = [txs EXCEPT ![w] = y]
  BY <1>1, <1>2
<1>7. IsPull(y)
  BY <1>3, <1>4, <1>5 DEF IsPull
<1>8. \A g \in Feed \ raced : InStep(y, g)
  <2>1. \A g \in Feed \ raced : InStep(x, g)
    BY <1>2 DEF IntelInv, Current
  <2> QED
    BY <1>5, <2>1 DEF InStep
<1>9. Moves(w, y) /\ ntx' \in Nat
  BY <1>1, <1>6 DEF Moves, Puller, Intel!Worker
<1> QED
  BY <1>1, <1>7, <1>8, <1>9, MoveKeeps

-----------------------------------------------------------------------------
(* The commit of a pull.                                                   *)

\* A commit applies the differences of the feeds it has pulled.
Applies(t) ==
    /\ Intel!Writable(t)
    /\ rules' = rules \cup {Intel!RuleFor(t, f) : f \in {g \in DOMAIN t.done : t.rule[g] = Intel!NoRule}}
    /\ feeds' = [f \in Intel!Feeds |-> IF f \in DOMAIN t.done /\ t.rule[f] = Intel!NoRule
                                 THEN [feeds[f] EXCEPT !.rule = Intel!RuleFor(t, f)] ELSE feeds[f]]
    /\ entries' = (entries \ UNION {t.done[f].diff.del : f \in DOMAIN t.done})
               \cup UNION {Intel!NewRows(t, f, t.done[f].diff.add) : f \in DOMAIN t.done}
    /\ raced' = raced \cup (t.stale \cap DOMAIN t.done)
    /\ pulled' = [f \in Intel!Feeds |-> IF f \in DOMAIN t.done THEN t.done[f].want ELSE pulled[f]]

\* The rows of one feed then.
LEMMA PullRows ==
    ASSUME NEW t, IsPull(t), Applies(t), NEW g
    PROVE  Intel!RowsOf(g)' = IF g \in DOMAIN t.done
                        THEN (Intel!RowsOf(g) \ t.done[g].diff.del) \cup Intel!NewRows(t, g, t.done[g].diff.add)
                        ELSE Intel!RowsOf(g)
<1>1. \A f \in DOMAIN t.done : \A x \in t.done[f].diff.del : x.src = f
  BY DEF IsPull
<1>2. \A f, V : \A x \in Intel!NewRows(t, f, V) : x.src = f
  BY DEF Intel!NewRows
<1>3. \A x : x \in entries' <=> \/ x \in entries /\ \A f \in DOMAIN t.done : x \notin t.done[f].diff.del
                                \/ \E f \in DOMAIN t.done : x \in Intel!NewRows(t, f, t.done[f].diff.add)
  BY DEF Applies
<1>4. CASE g \in DOMAIN t.done
  BY <1>1, <1>2, <1>3, <1>4 DEF Intel!RowsOf
<1>5. CASE g \notin DOMAIN t.done
  BY <1>1, <1>2, <1>3, <1>5 DEF Intel!RowsOf
<1> QED
  BY <1>4, <1>5

\* The feeds then.
LEMMA PullFeeds ==
    ASSUME Tables, NEW t, Applies(t)
    PROVE  /\ FeedRows' /\ \A f \in Intel!Feeds : feeds'[f].st = feeds[f].st /\ (Intel!Exists(f)' <=> Intel!Exists(f))
           /\ \A f \in Intel!Feeds : feeds'[f].rule = IF f \in DOMAIN t.done /\ t.rule[f] = Intel!NoRule
                                                THEN Intel!RuleFor(t, f) ELSE feeds[f].rule
<1>1. ASSUME NEW f \in Intel!Feeds
      PROVE  /\ feeds'[f] = [st |-> feeds'[f].st, rule |-> feeds'[f].rule] /\ feeds'[f].st = feeds[f].st
             /\ feeds'[f].rule = IF f \in DOMAIN t.done /\ t.rule[f] = Intel!NoRule
                                 THEN Intel!RuleFor(t, f) ELSE feeds[f].rule
  <2>1. feeds[f] = [st |-> feeds[f].st, rule |-> feeds[f].rule]
    BY DEF Tables, FeedRows
  <2>2. CASE f \in DOMAIN t.done /\ t.rule[f] = Intel!NoRule
    <3>1. feeds'[f] = [st |-> feeds[f].st, rule |-> Intel!RuleFor(t, f)]
      BY <2>1, <2>2 DEF Applies
    <3> QED
      BY <2>2, <3>1
  <2>3. CASE ~(f \in DOMAIN t.done /\ t.rule[f] = Intel!NoRule)
    <3>1. feeds'[f] = feeds[f]
      BY <2>3 DEF Applies
    <3> QED
      BY <2>1, <2>3, <3>1
  <2> QED
    BY <2>2, <2>3
<1>2. feeds' = [f \in Intel!Feeds |-> feeds'[f]]
  BY DEF Applies
<1> QED
  BY <1>1, <1>2 DEF FeedRows, Intel!Exists

\* Rows and feeds still refer to rules that exist.
LEMMA PullRefers ==
    ASSUME IntelConstants, Tables, Intel!TypeOK, NEW t, IsPull(t), Applies(t), UNCHANGED jobs
    PROVE  Tables' /\ Intel!TypeOK'
<1>1. /\ FeedRows' /\ \A f \in Intel!Feeds : Intel!Exists(f)' <=> Intel!Exists(f)
      /\ \A f \in Intel!Feeds : feeds'[f].rule = IF f \in DOMAIN t.done /\ t.rule[f] = Intel!NoRule
                                           THEN Intel!RuleFor(t, f) ELSE feeds[f].rule
  BY PullFeeds
<1>2. DOMAIN t.done \subseteq t.loaded \ {Intel!Det} /\ t.loaded \subseteq Intel!Feeds /\ t.n # 0
  BY DEF IsPull
<1>3. \A f \in DOMAIN t.done : t.rule[f] = Intel!NoRule => Intel!RuleFor(t, f) \in rules' /\ Intel!RuleFor(t, f) # Intel!NoRule
  <2>1. \A f : <<t.n, f>> # <<0, "">>
    BY <1>2
  <2> QED
    BY <2>1 DEF Intel!RuleFor, Intel!NoRule, Applies
<1>4. rules \subseteq rules' /\ Intel!NoRule \notin rules'
  <2>1. rules' = rules \cup {Intel!RuleFor(t, f) : f \in {g \in DOMAIN t.done : t.rule[g] = Intel!NoRule}}
    BY DEF Applies
  <2> QED
    BY <1>3, <2>1 DEF Tables
<1>5. ASSUME NEW f \in DOMAIN t.done, NEW x \in Intel!NewRows(t, f, t.done[f].diff.add)
      PROVE  IsEntry(x) /\ x.rule \in rules' /\ x.src = f /\ Intel!Exists(f)'
  <2>1. PICK v \in t.done[f].diff.add :
          x = [n |-> t.n, rule |-> Intel!RuleFor(t, f), src |-> f, origin |-> f, val |-> v]
    BY DEF Intel!NewRows
  <2>2. x.n = t.n /\ x.rule = Intel!RuleFor(t, f) /\ x.src = f /\ x.origin = f /\ x.val = v
    BY <2>1
  <2>3. Intel!RuleFor(t, f) \in rules'
    <3>1. CASE t.rule[f] = Intel!NoRule
      BY <1>3, <3>1
    <3>2. CASE t.rule[f] # Intel!NoRule
      <4>1. Intel!Changes(t.done[f])
        BY DEF Intel!Changes
      <4>2. t.rule[f] \in rules
        BY <3>2, <4>1 DEF Applies, Intel!Writable
      <4> QED
        BY <1>4, <3>2, <4>2 DEF Intel!RuleFor
    <3> QED
      BY <3>1, <3>2
  <2>4. Intel!Exists(f)'
    BY <1>1, <1>2 DEF Applies, Intel!Writable
  <2> QED
    BY <1>2, <2>1, <2>2, <2>3, <2>4 DEF IsEntry
<1>6. ASSUME NEW x \in entries' PROVE IsEntry(x) /\ x.rule \in rules' /\ (x.src # "" => Intel!Exists(x.src)')
  <2>1. CASE x \in entries
    <3>1. IsEntry(x) /\ x.rule \in rules /\ (x.src # "" => Intel!Exists(x.src))
      BY <2>1 DEF Tables, Intel!TypeOK
    <3>2. x.src \in Intel!Feeds \/ x.src = ""
      BY <3>1 DEF IsEntry
    <3> QED
      BY <1>1, <1>4, <3>1, <3>2
  <2>2. CASE \E f \in DOMAIN t.done : x \in Intel!NewRows(t, f, t.done[f].diff.add)
    BY <1>5, <2>2
  <2> QED
    BY <2>1, <2>2 DEF Applies
<1>7. \A f \in Intel!Feeds : feeds'[f].rule \in rules' \cup {Intel!NoRule}
  BY <1>1, <1>3, <1>4 DEF Intel!TypeOK
<1>8. pulled' = [f \in Intel!Feeds |-> pulled'[f]]
  BY DEF Applies
<1>9. Tables'
  BY <1>1, <1>4, <1>6, <1>8 DEF Tables, IsEntry
<1> QED
  BY <1>6, <1>7, <1>9 DEF Intel!TypeOK

\* Rows of a rule, one for each value.
OnePerValue(R, r) == \A x \in R : x.rule = r /\ \A y \in R : x.val = y.val => x = y

\* The rows a commit adds.
LEMMA NewRowsAre ==
    ASSUME NEW t, NEW f, NEW V
    PROVE  /\ OnePerValue(Intel!NewRows(t, f, V), Intel!RuleFor(t, f))
           /\ \A x \in Intel!NewRows(t, f, V) : x.val \in V
           /\ \A v \in V : \E x \in Intel!NewRows(t, f, V) : x.val = v
<1>1. \A x \in Intel!NewRows(t, f, V) :
        \E v \in V : /\ x = [n |-> t.n, rule |-> Intel!RuleFor(t, f), src |-> f, origin |-> f, val |-> v]
                    /\ x.rule = Intel!RuleFor(t, f) /\ x.val = v
  BY DEF Intel!NewRows
<1>2. ASSUME NEW v \in V PROVE \E x \in Intel!NewRows(t, f, V) : x.val = v
  <2>1. PICK x : x = [n |-> t.n, rule |-> Intel!RuleFor(t, f), src |-> f, origin |-> f, val |-> v]
    OBVIOUS
  <2>2. x \in Intel!NewRows(t, f, V) /\ x.val = v
    BY <2>1 DEF Intel!NewRows
  <2> QED
    BY <2>2
<1> QED
  BY <1>1, <1>2 DEF OnePerValue

\* A difference that is in step leaves exactly what was pulled.
Diffs(R, want, del, add, N, r) ==
    /\ OnePerValue(R, r) /\ OnePerValue(N, r)
    /\ add = want \ Intel!Vals(R) /\ del = {CHOOSE x \in R : x.val = v : v \in Intel!Vals(R) \ want}
    /\ \A x \in N : x.val \in add
    /\ \A v \in add : \E x \in N : x.val = v

\* Applied, it gives one row per value that was wanted, and no other.
LEMMA DiffApplied ==
    ASSUME NEW R, NEW want, NEW del, NEW add, NEW N, NEW r, Diffs(R, want, del, add, N, r)
    PROVE  OnePerValue((R \ del) \cup N, r) /\ Intel!Vals((R \ del) \cup N) = want
<1> USE DEF Diffs, OnePerValue
<1>1. \A v \in Intel!Vals(R) : \E x \in R : x.val = v
  BY DEF Intel!Vals
<1>2. \A x \in R : x.val \in Intel!Vals(R)
  BY DEF Intel!Vals
<1>3. \A x \in R : x.val \notin want => x \in del
  BY <1>2
<1>4. \A x \in del : x \in R /\ x.val \notin want
  BY <1>1
<1>5. \A x \in (R \ del) \cup N : x.val \in want
  BY <1>3
<1>6. \A v \in want : \E x \in (R \ del) \cup N : x.val = v
  BY <1>1, <1>4
<1>7. Intel!Vals((R \ del) \cup N) = want
  BY <1>5, <1>6 DEF Intel!Vals
<1>8. \A x \in R, y \in N : x.val # y.val
  BY <1>2
<1> QED
  BY <1>7, <1>8

\* The rows of every feed that nobody raced for.
LEMMA PullReplaces ==
    ASSUME IntelConstants, Tables, Intel!TypeOK, Replaced, NEW t, IsPull(t), Applies(t),
           \A f \in Feed \ raced : InStep(t, f)
    PROVE  Replaced'
<1> SUFFICES ASSUME NEW f \in Feed \ raced' PROVE Exact(f)'
  BY DEF Replaced
<1>1. f \in Intel!Feeds /\ f \in Feed \ raced /\ Exact(f) /\ InStep(t, f)
  BY DEF Applies, Replaced, Intel!Feeds
<1>2. /\ Intel!Exists(f)' <=> Intel!Exists(f)
      /\ feeds'[f].rule = IF f \in DOMAIN t.done /\ t.rule[f] = Intel!NoRule THEN Intel!RuleFor(t, f) ELSE feeds[f].rule
  BY <1>1, PullFeeds
<1>3. CASE f \notin DOMAIN t.done
  <2>1. Intel!RowsOf(f)' = Intel!RowsOf(f)
    BY <1>3, PullRows
  <2>2. pulled'[f] = pulled[f]
    BY <1>1, <1>3 DEF Applies
  <2> QED
    BY <1>1, <1>2, <1>3, <2>1, <2>2 DEF Exact
<1>4. CASE f \in DOMAIN t.done
  <2>1. f \in t.loaded \ t.stale
    BY <1>4 DEF IsPull, Applies
  <2>2. t.rule[f] = feeds[f].rule /\ t.done[f].diff = Intel!Diff(f, t.done[f].want)
    BY <1>1, <1>4, <2>1 DEF InStep
  <2>3. PICK R, want, add, del, N, r :
          /\ R = Intel!RowsOf(f) /\ want = t.done[f].want /\ add = t.done[f].diff.add /\ del = t.done[f].diff.del
          /\ N = Intel!NewRows(t, f, add) /\ r = Intel!RuleFor(t, f)
    OBVIOUS
  <2>4. add = want \ Intel!Vals(R) /\ del = {CHOOSE x \in R : x.val = v : v \in Intel!Vals(R) \ want}
    BY <2>2, <2>3 DEF Intel!Diff
  <2>5. feeds'[f].rule = r
    BY <1>2, <1>4, <2>2, <2>3 DEF Intel!RuleFor
  <2>6. \A x \in R : x.rule = r
    <3>1. \A x \in R : x.rule = feeds[f].rule /\ x.rule \in rules
      BY <1>1, <2>3 DEF Exact, Intel!RowsOf, Intel!TypeOK
    <3> QED
      BY <2>2, <2>3, <3>1 DEF Intel!RuleFor, Tables
  <2>7. /\ OnePerValue(N, r) /\ \A x \in N : x.val \in add
        /\ \A v \in add : \E x \in N : x.val = v
    BY <2>3, NewRowsAre
  <2>8. OnePerValue(R, r)
    BY <1>1, <2>3, <2>6 DEF Exact, OnePerValue
  <2>9. Intel!RowsOf(f)' = (R \ del) \cup N
    BY <1>4, <2>3, PullRows
  <2>10. OnePerValue((R \ del) \cup N, r) /\ Intel!Vals((R \ del) \cup N) = want
    <3>1. Diffs(R, want, del, add, N, r)
      BY <2>4, <2>7, <2>8 DEF Diffs
    <3> QED
      BY <3>1, DiffApplied
  <2>11. pulled'[f] = want /\ IsFiniteSet(want)
    BY <1>1, <1>4, <2>3 DEF Applies, IsPull
  <2> QED
    BY <2>5, <2>9, <2>10, <2>11 DEF Exact, OnePerValue
<1> QED
  BY <1>3, <1>4

\* A pull is committed, or fails for all its feeds.
LEMMA CommitPullKeeps ==
    ASSUME IntelConstants, IntelInv, NEW w \in Intel!Worker, Intel!CommitPull(w) PROVE IntelInv'
<1>1. w \in Puller /\ txs[w] # Intel!Idle /\ ntx' = ntx /\ ntx \in Nat /\ jobs' = jobs /\ dropped' = dropped
  BY DEF Intel!CommitPull, Intel!Worker, Puller, Intel!counters, IntelInv, Transactions
<1>2. PICK t : t = txs[w]
  OBVIOUS
<1>3. IsPull(t)
  BY <1>1, <1>2 DEF IntelInv, Transactions
<1>4. CASE ~Intel!Writable(t)
  <2>1. Moves(w, Intel!Idle) /\ Quiet
    BY <1>1, <1>2, <1>4 DEF Intel!CommitPull, Moves, Quiet, Intel!intel
  <2> QED
    BY <1>1, <2>1, MoveKeeps
<1>5. CASE Intel!Writable(t)
  <2>1. Applies(t)
    <3>1. rules' = rules \cup {Intel!RuleFor(t, f) : f \in {g \in DOMAIN t.done : t.rule[g] = Intel!NoRule}}
      BY <1>2, <1>5 DEF Intel!CommitPull
    <3>2. feeds' = [f \in Intel!Feeds |-> IF f \in {g \in DOMAIN t.done : t.rule[g] = Intel!NoRule}
                                    THEN [feeds[f] EXCEPT !.rule = Intel!RuleFor(t, f)] ELSE feeds[f]]
      BY <1>2, <1>5 DEF Intel!CommitPull
    <3>3. /\ entries' = (entries \ UNION {t.done[f].diff.del : f \in DOMAIN t.done})
                     \cup UNION {Intel!NewRows(t, f, t.done[f].diff.add) : f \in DOMAIN t.done}
          /\ raced' = raced \cup (t.stale \cap DOMAIN t.done)
          /\ pulled' = [f \in Intel!Feeds |-> IF f \in DOMAIN t.done THEN t.done[f].want ELSE pulled[f]]
      BY <1>2, <1>5 DEF Intel!CommitPull
    <3> QED
      BY <1>5, <3>1, <3>2, <3>3 DEF Applies
  <2>2. PICK T, F : /\ T = [txs EXCEPT ![w] = Intel!Idle] /\ txs' = Intel!Outdate(T, F)
                    /\ F = {f \in DOMAIN t.done : t.rule[f] = Intel!NoRule \/ Intel!Changes(t.done[f])}
    <3>1. txs' = Intel!Outdate([txs EXCEPT ![w] = Intel!Idle],
                         {f \in DOMAIN t.done : f \in {g \in DOMAIN t.done : t.rule[g] = Intel!NoRule} \/ Intel!Changes(t.done[f])})
      BY <1>2, <1>5 DEF Intel!CommitPull
    <3>2. {f \in DOMAIN t.done : f \in {g \in DOMAIN t.done : t.rule[g] = Intel!NoRule} \/ Intel!Changes(t.done[f])}
            = {f \in DOMAIN t.done : t.rule[f] = Intel!NoRule \/ Intel!Changes(t.done[f])}
      OBVIOUS
    <3> QED
      BY <3>1, <3>2
  <2>3. T["poller"] = txs["poller"] /\ \A v \in Intel!Worker : T[v] = Intel!Idle \/ T[v] = txs[v]
    BY <1>1, <2>2 DEF Puller, Intel!Worker, IntelInv, Transactions
  <2>4. \A f \in Feed : f \in F \/ Untouched(f)
    <3> SUFFICES ASSUME NEW f \in Feed, f \notin F PROVE Untouched(f)
      OBVIOUS
    <3>1. f \in Intel!Feeds /\ (f \in DOMAIN t.done => t.rule[f] # Intel!NoRule /\ ~Intel!Changes(t.done[f]))
      BY <2>2 DEF Intel!Feeds
    <3>2. feeds'[f].rule = feeds[f].rule
      BY <2>1, <3>1, PullFeeds DEF IntelInv
    <3>3. CASE f \in DOMAIN t.done
      <4>1. t.done[f].diff.add = {} /\ t.done[f].diff.del = {}
        BY <3>1, <3>3 DEF Intel!Changes
      <4>2. Intel!NewRows(t, f, {}) = {}
        BY DEF Intel!NewRows
      <4>3. Intel!RowsOf(f)' = (Intel!RowsOf(f) \ {}) \cup {}
        BY <1>3, <2>1, <3>3, <4>1, <4>2, PullRows
      <4> QED
        BY <3>2, <4>3 DEF Untouched
    <3>4. CASE f \notin DOMAIN t.done
      BY <1>3, <2>1, <3>2, <3>4, PullRows DEF Untouched
    <3> QED
      BY <3>3, <3>4
  <2>5. raced \subseteq raced'
    BY <2>1 DEF Applies
  <2>6. /\ Transactions' /\ Current'
        /\ txs["poller"] = Intel!Idle => txs'["poller"] = Intel!Idle
        /\ txs["poller"] # Intel!Idle => /\ txs'["poller"].done = txs["poller"].done
                                         /\ txs'["poller"].add = txs["poller"].add
    BY <1>1, <2>2, <2>3, <2>4, <2>5, OutdateKeeps DEF IntelInv
  <2>7. Tables' /\ Intel!TypeOK'
    BY <1>1, <1>3, <2>1, PullRefers DEF IntelInv
  <2>8. Replaced'
    <3>1. \A f \in Feed \ raced : InStep(t, f)
      BY <1>1, <1>2 DEF IntelInv, Current
    <3> QED
      BY <1>3, <2>1, <3>1, PullReplaces DEF IntelInv
  <2>9. Verdicts'
    <3>1. Intel!Det \notin DOMAIN t.done
      BY <1>3 DEF IsPull
    <3>2. Intel!RowsOf(Intel!Det)' = Intel!RowsOf(Intel!Det)
      BY <1>3, <2>1, <3>1, PullRows
    <3>3. \A h : Known(h)' <=> Known(h)
      BY <1>1, <3>2 DEF Known
    <3> QED
      BY <1>1, <2>6, <3>3 DEF IntelInv, Verdicts
  <2> QED
    BY <2>6, <2>7, <2>8, <2>9 DEF IntelInv
<1> QED
  BY <1>4, <1>5

-----------------------------------------------------------------------------
(* Steps that leave the tables of feeds, rules and rows as they are.       *)

\* No verdict is new.
NoNewVerdict ==
    /\ jobs' = [j \in Job |-> [st |-> jobs'[j].st, prov |-> jobs'[j].prov, label |-> jobs'[j].label]]
    /\ \A j \in Job : jobs'[j].st = "verdict" => jobs'[j] = jobs[j]

\* What is said of the tables of feeds, rules and rows does not depend on the jobs.
LEMMA JobsAside ==
    ASSUME Quiet, Tables, Intel!TypeOK, Replaced, NoNewVerdict
    PROVE  /\ Tables' /\ Intel!TypeOK' /\ Replaced' /\ \A f : Untouched(f) /\ \A h : Known(h)' <=> Known(h)
<1>1. feeds' = feeds /\ rules' = rules /\ entries' = entries /\ pulled' = pulled /\ raced' = raced /\ dropped' = dropped
  BY DEF Quiet
<1>2. Tables' /\ Intel!TypeOK'
  BY <1>1 DEF Tables, FeedRows, Intel!TypeOK, Intel!Exists, NoNewVerdict
<1>3. \A f : Intel!RowsOf(f)' = Intel!RowsOf(f)
  BY <1>1 DEF Intel!RowsOf
<1>4. Replaced'
  BY <1>1, <1>3 DEF Replaced, Exact
<1> QED
  BY <1>1, <1>2, <1>3, <1>4 DEF Untouched, Known

\* A step beside the transactions that makes no verdict.
LEMMA AsideKeeps ==
    ASSUME IntelInv, Quiet, NoNewVerdict, UNCHANGED <<txs, ntx>> PROVE IntelInv'
<1>1. Tables' /\ Intel!TypeOK' /\ Replaced' /\ \A f : Untouched(f) /\ \A h : Known(h)' <=> Known(h)
  BY JobsAside DEF IntelInv
<1>2. Transactions'
  BY DEF IntelInv, Transactions, IsPull, IsPoll
<1>3. Current'
  <2>1. ASSUME NEW v \in Puller, NEW f \in Feed \ raced', txs'[v] # Intel!Idle
        PROVE  \E x : x = txs'[v] /\ InStep(x, f)'
    <3>1. PICK x : x = txs[v]
      OBVIOUS
    <3>2. InStep(x, f)
      BY <2>1, <3>1 DEF IntelInv, Current, Quiet
    <3>3. InStep(x, f)'
      BY <1>1, <3>2, InStepStays
    <3> QED
      BY <3>1, <3>3
  <2> QED
    BY <2>1 DEF Current, InStep
<1>4. Verdicts'
  BY <1>1 DEF IntelInv, Verdicts, NoNewVerdict
<1> QED
  BY <1>1, <1>2, <1>3, <1>4 DEF IntelInv

\* The poller moves on.
LEMMA PollMoveKeeps ==
    ASSUME IntelInv, NEW y, Moves("poller", y), ntx' \in Nat, Quiet, UNCHANGED jobs,
           y = Intel!Idle \/ (IsPoll(y) /\ \A j \in DOMAIN y.done : y.done[j] = "high" => Known(Hash[j]) \/ Hash[j] \in y.add)
    PROVE  IntelInv'
<1>1. Tables' /\ Intel!TypeOK' /\ Replaced' /\ \A f : Untouched(f) /\ \A h : Known(h)' <=> Known(h)
  BY QuietTables DEF IntelInv
<1>2. "poller" \in Intel!Worker /\ \A v \in Puller : v \in Intel!Worker /\ v # "poller"
  BY DEF Puller, Intel!Worker
<1>3. txs' = [v \in Intel!Worker |-> txs'[v]] /\ txs'["poller"] = y /\ \A v \in Puller : txs'[v] = txs[v]
  BY <1>2 DEF Moves, IntelInv, Transactions
<1>4. Transactions'
  <2>1. \A v \in Puller : txs'[v] = Intel!Idle \/ IsPull(txs'[v])
    BY <1>3 DEF IntelInv, Transactions
  <2> QED
    BY <1>3, <2>1 DEF Transactions, IsPull, IsPoll
<1>5. Current'
  <2>1. ASSUME NEW v \in Puller, NEW f \in Feed \ raced', txs'[v] # Intel!Idle
        PROVE  \E x : x = txs'[v] /\ InStep(x, f)'
    <3>1. PICK x : x = txs[v]
      OBVIOUS
    <3>2. InStep(x, f)
      BY <1>3, <2>1, <3>1 DEF IntelInv, Current, Quiet
    <3>3. InStep(x, f)'
      BY <1>1, <3>2, InStepStays
    <3> QED
      BY <1>3, <3>1, <3>3
  <2> QED
    BY <2>1 DEF Current, InStep
<1>6. Verdicts'
  BY <1>1, <1>3 DEF IntelInv, Verdicts
<1> QED
  BY <1>1, <1>4, <1>5, <1>6 DEF IntelInv

\* A transaction is lost.
LEMMA TxDiesKeeps == ASSUME IntelInv, NEW w \in Intel!Worker, Intel!TxDies(w) PROVE IntelInv'
<1>1. Moves(w, Intel!Idle) /\ ntx' \in Nat /\ Quiet /\ UNCHANGED jobs
  BY DEF Intel!TxDies, Moves, Quiet, Intel!intel, Intel!history, IntelInv, Transactions
<1>2. w \in Puller \/ w = "poller"
  BY DEF Intel!Worker, Puller
<1>3. CASE w \in Puller
  BY <1>1, <1>3, MoveKeeps
<1>4. CASE w = "poller"
  <2>1. Moves("poller", Intel!Idle)
    BY <1>1, <1>4
  <2> QED
    BY <1>1, <2>1, PollMoveKeeps
<1> QED
  BY <1>2, <1>3, <1>4

\* Alerts, providers and submissions.
LEMMA SandboxKeeps ==
    ASSUME IntelInv,
           \/ \E x \in entries : Intel!AlertFires(x)
           \/ \E p \in Provider : Intel!CreateProvider(p) \/ Intel!UpdateProvider(p) \/ Intel!DeleteProvider(p)
           \/ \E j \in Job : Intel!Submit(j)
           \/ UNCHANGED Intel!vars
    PROVE  IntelInv'
<1>1. Quiet /\ UNCHANGED <<txs, ntx>>
  BY DEF Intel!AlertFires, Intel!CreateProvider, Intel!UpdateProvider, Intel!DeleteProvider, Intel!Submit, Intel!vars, Quiet, Intel!intel, Intel!history
<1>2. jobs = [j \in Job |-> [st |-> jobs[j].st, prov |-> jobs[j].prov, label |-> jobs[j].label]]
  BY DEF IntelInv, Tables
<1>3. CASE jobs' = jobs
  BY <1>1, <1>2, <1>3, AsideKeeps DEF NoNewVerdict
<1>4. ASSUME NEW p \in Provider, Intel!DeleteProvider(p) PROVE NoNewVerdict
  <2>1. jobs' = [j \in Job |-> IF jobs[j].prov = p THEN [jobs[j] EXCEPT !.st = "deleted"] ELSE jobs[j]]
    BY <1>4 DEF Intel!DeleteProvider
  <2>2. ASSUME NEW j \in Job
        PROVE  /\ jobs'[j] = [st |-> jobs'[j].st, prov |-> jobs'[j].prov, label |-> jobs'[j].label]
               /\ jobs'[j].st = "verdict" => jobs'[j] = jobs[j]
    <3>1. CASE jobs[j].prov = p
      <4>1. jobs'[j] = [st |-> "deleted", prov |-> jobs[j].prov, label |-> jobs[j].label]
        BY <1>2, <2>1, <3>1
      <4> QED
        BY <4>1
    <3>2. CASE jobs[j].prov # p
      BY <1>2, <2>1, <3>2
    <3> QED
      BY <3>1, <3>2
  <2> QED
    BY <2>1, <2>2 DEF NoNewVerdict
<1>5. ASSUME NEW i \in Job, Intel!Submit(i) PROVE NoNewVerdict
  <2>1. PICK p : \E st \in {"running", "failed"} : jobs' = [jobs EXCEPT ![i].st = st, ![i].prov = p]
    BY <1>5 DEF Intel!Submit
  <2>2. PICK st \in {"running", "failed"} : jobs' = [jobs EXCEPT ![i].st = st, ![i].prov = p]
    BY <2>1
  <2>3. jobs'[i] = [st |-> st, prov |-> p, label |-> jobs[i].label]
    <3>1. PICK z : z = [jobs EXCEPT ![i].st = st]
      OBVIOUS
    <3>2. DOMAIN jobs = Job /\ DOMAIN z = Job
      BY <1>2, <3>1
    <3>3. jobs[i] = [st |-> jobs[i].st, prov |-> jobs[i].prov, label |-> jobs[i].label]
      BY <1>2
    <3>4. z[i] = [jobs[i] EXCEPT !.st = st]
      BY <3>1, <3>2
    <3>5. z[i] = [st |-> st, prov |-> jobs[i].prov, label |-> jobs[i].label]
      BY <3>3, <3>4
    <3>6. jobs'[i] = [z[i] EXCEPT !.prov = p]
      BY <2>2, <3>1, <3>2
    <3> QED
      BY <3>5, <3>6
  <2>4. jobs' = [j \in Job |-> jobs'[j]] /\ \A j \in Job : j # i => jobs'[j] = jobs[j]
    BY <1>2, <2>2
  <2>5. ASSUME NEW j \in Job
        PROVE  /\ jobs'[j] = [st |-> jobs'[j].st, prov |-> jobs'[j].prov, label |-> jobs'[j].label]
               /\ jobs'[j].st = "verdict" => jobs'[j] = jobs[j]
    <3>1. CASE j = i
      <4>1. jobs'[j].st = st /\ st # "verdict"
        BY <2>3, <3>1
      <4> QED
        BY <2>3, <3>1, <4>1
    <3>2. CASE j # i
      BY <1>2, <2>4, <3>2
    <3> QED
      BY <3>1, <3>2
  <2> QED
    BY <2>4, <2>5 DEF NoNewVerdict
<1>6. CASE NoNewVerdict
  BY <1>1, <1>6, AsideKeeps
<1> QED
  BY <1>3, <1>4, <1>5, <1>6 DEF Intel!AlertFires, Intel!CreateProvider, Intel!UpdateProvider, Intel!vars

-----------------------------------------------------------------------------
(* Operators.                                                              *)

\* A feed is created, enabled or disabled.
LEMMA SetFeedKeeps ==
    ASSUME IntelConstants, IntelInv, NEW f \in Intel!Feeds, Intel!CreateFeed(f) \/ Intel!UpdateFeed(f) PROVE IntelInv'
<1>1. PICK to \in {"on", "off"} : \E from : Intel!SetFeed(f, from, to)
  BY DEF Intel!CreateFeed, Intel!UpdateFeed
<1>2. /\ feeds' = [feeds EXCEPT ![f].st = to] /\ rules' = rules /\ entries' = entries /\ jobs' = jobs /\ txs' = txs /\ ntx' = ntx
      /\ pulled' = pulled /\ raced' = raced /\ dropped' = dropped
  BY <1>1 DEF Intel!SetFeed, Intel!history
<1>3. feeds = [g \in Intel!Feeds |-> [st |-> feeds[g].st, rule |-> feeds[g].rule]]
  BY DEF IntelInv, Tables, FeedRows
<1>4. feeds' = [g \in Intel!Feeds |-> feeds'[g]] /\ \A g \in Intel!Feeds : g # f => feeds'[g] = feeds[g]
  BY <1>2, <1>3
<1>5. feeds'[f] = [st |-> to, rule |-> feeds[f].rule]
  <2>1. feeds'[f] = [feeds[f] EXCEPT !.st = to]
    BY <1>2, <1>3
  <2>2. feeds[f] = [st |-> feeds[f].st, rule |-> feeds[f].rule]
    BY <1>3
  <2> QED
    BY <2>1, <2>2
<1>6. \A g \in Intel!Feeds : /\ feeds'[g] = [st |-> feeds'[g].st, rule |-> feeds'[g].rule]
                             /\ feeds'[g].rule = feeds[g].rule /\ (Intel!Exists(g) => Intel!Exists(g)')
  BY <1>3, <1>4, <1>5 DEF Intel!Exists
<1>7. \A g : Intel!RowsOf(g)' = Intel!RowsOf(g)
  BY <1>2 DEF Intel!RowsOf
<1>8. \A g \in Intel!Feeds : Untouched(g)
  BY <1>6, <1>7 DEF Untouched
<1>9. Tables' /\ Intel!TypeOK'
  <2>1. FeedRows'
    BY <1>4, <1>6 DEF FeedRows
  <2>2. Tables'
    BY <1>2, <2>1 DEF IntelInv, Tables, IsEntry
  <2>3. ASSUME NEW x \in entries PROVE x.rule \in rules /\ (x.src # "" => Intel!Exists(x.src)')
    BY <1>6 DEF IntelInv, Intel!TypeOK, Tables, IsEntry
  <2> QED
    BY <1>2, <1>6, <2>2, <2>3 DEF IntelInv, Intel!TypeOK
<1>10. Transactions'
  BY <1>2 DEF IntelInv, Transactions, IsPull, IsPoll
<1>11. Current'
  <2>1. ASSUME NEW v \in Puller, NEW g \in Feed \ raced', txs'[v] # Intel!Idle
        PROVE  \E x : x = txs'[v] /\ InStep(x, g)'
    <3>1. PICK x : x = txs[v]
      OBVIOUS
    <3>2. InStep(x, g) /\ Untouched(g)
      BY <1>2, <1>8, <2>1, <3>1 DEF IntelInv, Current, Intel!Feeds
    <3>3. InStep(x, g)'
      BY <3>2, InStepStays
    <3> QED
      BY <1>2, <3>1, <3>3
  <2> QED
    BY <2>1 DEF Current, InStep
<1>12. Replaced'
  BY <1>2, <1>6, <1>7 DEF IntelInv, Replaced, Exact, Intel!Feeds
<1>13. Verdicts'
  BY <1>2, <1>7 DEF IntelInv, Verdicts, Known
<1> QED
  BY <1>9, <1>10, <1>11, <1>12, <1>13 DEF IntelInv

\* An operator takes the rows R from their feeds, with a commit that touches the feeds F.
Removes(R, F) ==
    /\ R \subseteq entries
    /\ \A f \in Intel!Feeds : Intel!RowsOf(f)' = Intel!RowsOf(f) \ R
    /\ pulled' = [f \in Intel!Feeds |-> IF \E x \in R : x.src = f THEN Intel!Unknown ELSE pulled[f]]
    /\ dropped' = dropped \cup Intel!Vals({x \in R : x.src = Intel!Det})
    /\ raced' = raced /\ ntx' = ntx /\ jobs' = jobs /\ txs' = Intel!Outdate(txs, F)
    /\ \A f \in Feed \ raced : /\ f \in F \/ (feeds'[f].rule = feeds[f].rule /\ \A x \in R : x.src # f)
                               /\ \A x \in Intel!RowsOf(f)' : x.rule = feeds'[f].rule

\* Such a removal keeps the invariant.
LEMMA RemovalKeeps ==
    ASSUME IntelInv, NEW R, NEW F, Removes(R, F), Tables', Intel!TypeOK' PROVE IntelInv'
<1>1. \A f \in Feed : f \in Intel!Feeds
  BY DEF Intel!Feeds
<1>2. \A f \in Feed \ raced : f \in F \/ Untouched(f)
  <2> SUFFICES ASSUME NEW f \in Feed \ raced, f \notin F PROVE Untouched(f)
    OBVIOUS
  <2>1. feeds'[f].rule = feeds[f].rule /\ \A x \in R : x.src # f
    BY DEF Removes
  <2>2. Intel!RowsOf(f)' = Intel!RowsOf(f) \ R
    BY <1>1 DEF Removes
  <2>3. Intel!RowsOf(f) \ R = Intel!RowsOf(f)
    BY <2>1 DEF Intel!RowsOf
  <2> QED
    BY <2>1, <2>2, <2>3 DEF Untouched
<1>3. PICK T : T = txs
  OBVIOUS
<1>4. \A w \in Intel!Worker : T[w] = Intel!Idle \/ T[w] = txs[w]
  BY <1>3
<1>5. /\ Transactions' /\ Current'
      /\ txs["poller"] = Intel!Idle => txs'["poller"] = Intel!Idle
      /\ txs["poller"] # Intel!Idle => /\ txs'["poller"].done = txs["poller"].done
                                       /\ txs'["poller"].add = txs["poller"].add
  <2>1. txs' = Intel!Outdate(T, F) /\ ntx' = ntx /\ raced' = raced
    BY <1>3 DEF Removes
  <2> QED
    BY <1>2, <1>3, <1>4, <2>1, OutdateKeeps DEF IntelInv
<1>6. Replaced'
  <2> SUFFICES ASSUME NEW f \in Feed \ raced PROVE Exact(f)'
    BY DEF Replaced, Removes
  <2>1. Exact(f) /\ f \in Intel!Feeds
    BY <1>1 DEF IntelInv, Replaced
  <2>2. Intel!RowsOf(f)' = Intel!RowsOf(f) \ R /\ \A x \in Intel!RowsOf(f)' : x.rule = feeds'[f].rule
    BY <2>1 DEF Removes
  <2>3. ASSUME pulled'[f] # Intel!Unknown PROVE Intel!Vals(Intel!RowsOf(f)') = pulled'[f] /\ IsFiniteSet(pulled'[f])
    <3>1. pulled'[f] = pulled[f] /\ \A x \in R : x.src # f
      BY <2>1, <2>3 DEF Removes
    <3>2. Intel!RowsOf(f)' = Intel!RowsOf(f)
      BY <2>2, <3>1 DEF Intel!RowsOf
    <3> QED
      BY <2>1, <2>3, <3>1, <3>2 DEF Exact
  <2> QED
    BY <2>1, <2>2, <2>3 DEF Exact
<1>7. ASSUME NEW h, Known(h) PROVE Known(h)'
  <2>1. CASE h \in dropped
    BY <2>1 DEF Known, Removes
  <2>2. CASE h \in Intel!Vals(Intel!RowsOf(Intel!Det))
    <3>1. PICK x \in entries : x.src = Intel!Det /\ x.val = h
      BY <2>2 DEF Intel!Vals, Intel!RowsOf
    <3>2. CASE x \in R
      <4>1. h \in Intel!Vals({y \in R : y.src = Intel!Det})
        BY <3>1, <3>2 DEF Intel!Vals
      <4> QED
        BY <4>1 DEF Known, Removes
    <3>3. CASE x \notin R
      <4>1. x \in Intel!RowsOf(Intel!Det)'
        BY <3>1, <3>3 DEF Removes, Intel!RowsOf, Intel!Feeds
      <4>2. h \in Intel!Vals(Intel!RowsOf(Intel!Det)')
        BY <3>1, <4>1 DEF Intel!Vals
      <4> QED
        BY <4>2 DEF Known, Intel!Vals
    <3> QED
      BY <3>2, <3>3
  <2> QED
    BY <1>7, <2>1, <2>2 DEF Known
<1>8. Verdicts'
  <2>1. ASSUME NEW j \in Job, jobs'[j].st = "verdict", jobs'[j].label = "malicious" PROVE Known(Hash[j])'
    <3>1. PICK h : h = Hash[j]
      OBVIOUS
    <3>2. Known(h)
      BY <2>1, <3>1 DEF Removes, IntelInv, Verdicts
    <3>3. Known(h)'
      BY <1>7, <3>2
    <3> QED
      BY <3>1, <3>3
  <2>2. ASSUME txs'["poller"] # Intel!Idle, NEW j \in DOMAIN txs'["poller"].done, txs'["poller"].done[j] = "high"
        PROVE  Known(Hash[j])' \/ Hash[j] \in txs'["poller"].add
    <3>1. PICK h : h = Hash[j]
      OBVIOUS
    <3>2. Known(h) \/ h \in txs["poller"].add
      BY <1>5, <2>2, <3>1 DEF IntelInv, Verdicts
    <3>3. Known(h)' \/ h \in txs["poller"].add
      BY <1>7, <3>2
    <3> QED
      BY <1>5, <2>2, <3>1, <3>3
  <2> QED
    BY <2>1, <2>2 DEF Verdicts
<1> QED
  BY <1>5, <1>6, <1>8 DEF IntelInv

\* Feeds that pointed at a rule point nowhere.
LEMMA WithoutRuleIs ==
    ASSUME FeedRows, NEW r
    PROVE  LET fs == Intel!WithoutRule(r, feeds)
           IN  /\ fs = [f \in Intel!Feeds |-> [st |-> fs[f].st, rule |-> fs[f].rule]]
               /\ \A f \in Intel!Feeds : /\ fs[f].st = feeds[f].st
                                         /\ fs[f].rule = IF feeds[f].rule = r THEN Intel!NoRule ELSE feeds[f].rule
<1> DEFINE fs == Intel!WithoutRule(r, feeds)
<1>1. fs = [f \in Intel!Feeds |-> fs[f]]
  BY DEF Intel!WithoutRule
<1>2. ASSUME NEW f \in Intel!Feeds
      PROVE  /\ fs[f] = [st |-> fs[f].st, rule |-> fs[f].rule] /\ fs[f].st = feeds[f].st
             /\ fs[f].rule = IF feeds[f].rule = r THEN Intel!NoRule ELSE feeds[f].rule
  <2>1. feeds[f] = [st |-> feeds[f].st, rule |-> feeds[f].rule]
    BY DEF FeedRows
  <2>2. CASE feeds[f].rule = r
    <3>1. fs[f] = [feeds[f] EXCEPT !.rule = Intel!NoRule]
      BY <2>2 DEF Intel!WithoutRule
    <3>2. fs[f] = [st |-> feeds[f].st, rule |-> Intel!NoRule]
      BY <2>1, <3>1
    <3> HIDE DEF fs
    <3> QED
      BY <2>2, <3>2
  <2>3. CASE feeds[f].rule # r
    <3>1. fs[f] = feeds[f]
      BY <2>3 DEF Intel!WithoutRule
    <3> HIDE DEF fs
    <3> QED
      BY <2>1, <2>3, <3>1
  <2> QED
    BY <2>2, <2>3
<1> HIDE DEF fs
<1>3. fs = [f \in Intel!Feeds |-> [st |-> fs[f].st, rule |-> fs[f].rule]]
  BY <1>1, <1>2
<1> QED
  BY <1>2, <1>3 DEF fs

\* Rows of a rule that exists belong to the feeds that point at it, where nobody raced.
LEMMA RowsOfRule ==
    ASSUME IntelInv, NEW f \in Feed \ raced, NEW x \in Intel!RowsOf(f)
    PROVE  x.rule = feeds[f].rule /\ x.rule \in rules /\ x.rule # Intel!NoRule
<1>1. x \in entries /\ x.rule \in rules
  BY DEF Intel!RowsOf, IntelInv, Intel!TypeOK
<1>2. Exact(f) /\ Intel!NoRule \notin rules
  BY DEF IntelInv, Replaced, Tables
<1> QED
  BY <1>1, <1>2 DEF Exact

\* delete_rule takes the rows of the rule with it.
LEMMA DeleteRuleKeeps == ASSUME IntelConstants, IntelInv, NEW r \in rules, Intel!DeleteRule(r) PROVE IntelInv'
<1>1. PICK R, F : R = {x \in entries : x.rule = r} /\ F = Intel!PointsAt(r)
  OBVIOUS
<1>2. /\ rules' = rules \ {r} /\ feeds' = Intel!WithoutRule(r, feeds) /\ entries' = entries \ R
      /\ pulled' = [f \in Intel!Feeds |-> IF \E x \in R : x.src = f THEN Intel!Unknown ELSE pulled[f]]
      /\ dropped' = dropped \cup Intel!Vals({x \in R : x.src = Intel!Det})
      /\ raced' = raced /\ ntx' = ntx /\ jobs' = jobs /\ txs' = Intel!Outdate(txs, F)
  BY <1>1 DEF Intel!DeleteRule, Intel!Forget
<1>3. r # Intel!NoRule /\ FeedRows
  BY DEF IntelInv, Tables
<1>4. /\ feeds' = [f \in Intel!Feeds |-> [st |-> feeds'[f].st, rule |-> feeds'[f].rule]]
      /\ \A f \in Intel!Feeds : /\ feeds'[f].st = feeds[f].st
                                /\ feeds'[f].rule = IF feeds[f].rule = r THEN Intel!NoRule ELSE feeds[f].rule
  BY <1>2, <1>3, WithoutRuleIs
<1>5. \A f \in Intel!Feeds : Intel!Exists(f)' <=> Intel!Exists(f)
  BY <1>4 DEF Intel!Exists
<1>6. Tables'
  BY <1>2, <1>4 DEF IntelInv, Tables, FeedRows, IsEntry
<1>7. Intel!TypeOK'
  <2>1. ASSUME NEW x \in entries' PROVE x.rule \in rules' /\ (x.src # "" => Intel!Exists(x.src)')
    <3>1. x \in entries /\ x.rule # r
      BY <1>1, <1>2
    <3>2. x.src \in Intel!Feeds \cup {""} /\ x.rule \in rules /\ (x.src # "" => Intel!Exists(x.src))
      BY <3>1 DEF IntelInv, Intel!TypeOK, Tables, IsEntry
    <3> QED
      BY <1>2, <1>5, <3>1, <3>2
  <2> QED
    BY <1>2, <1>4, <2>1 DEF IntelInv, Intel!TypeOK
<1>8. Removes(R, F)
  <2>1. \A f : Intel!RowsOf(f)' = Intel!RowsOf(f) \ R
    BY <1>2 DEF Intel!RowsOf
  <2>2. ASSUME NEW f \in Feed \ raced
        PROVE  /\ f \in F \/ (feeds'[f].rule = feeds[f].rule /\ \A x \in R : x.src # f)
               /\ \A x \in Intel!RowsOf(f)' : x.rule = feeds'[f].rule
    <3>1. \A x \in Intel!RowsOf(f) : x.rule = feeds[f].rule
      BY RowsOfRule
    <3>2. f \in Intel!Feeds /\ (f \in F <=> feeds[f].rule = r)
      BY <1>1 DEF Intel!PointsAt, Intel!Feeds
    <3>3. f \notin F => \A x \in R : x.src # f
      BY <1>1, <3>1, <3>2 DEF Intel!RowsOf
    <3>4. \A x \in Intel!RowsOf(f)' : x \in Intel!RowsOf(f) /\ x.rule # r
      BY <1>1, <2>1 DEF Intel!RowsOf
    <3> QED
      BY <1>4, <3>1, <3>2, <3>3, <3>4
  <2> QED
    BY <1>1, <1>2, <2>1, <2>2 DEF Removes
<1> QED
  BY <1>6, <1>7, <1>8, RemovalKeeps

\* update_rule replaces the rows of the rule by rows of no feed.
LEMMA PatchIocsKeeps == ASSUME IntelConstants, IntelInv, NEW r \in rules, Intel!PatchIocs(r) PROVE IntelInv'
<1>1. PICK R, F : R = {x \in entries : x.rule = r} /\ F = Intel!PointsAt(r)
  OBVIOUS
<1>2. PICK V : entries' = {x \in entries : x.rule # r}
                       \cup {[n |-> 0, rule |-> r, src |-> "", origin |-> "", val |-> v] : v \in V}
  BY DEF Intel!PatchIocs
<1>3. /\ rules' = rules /\ feeds' = feeds
      /\ pulled' = [f \in Intel!Feeds |-> IF \E x \in R : x.src = f THEN Intel!Unknown ELSE pulled[f]]
      /\ dropped' = dropped \cup Intel!Vals({x \in R : x.src = Intel!Det})
      /\ raced' = raced /\ ntx' = ntx /\ jobs' = jobs /\ txs' = Intel!Outdate(txs, F)
  BY <1>1 DEF Intel!PatchIocs, Intel!Forget
<1>4. ASSUME NEW v, NEW x, x = [n |-> 0, rule |-> r, src |-> "", origin |-> "", val |-> v]
      PROVE  IsEntry(x) /\ x.src = "" /\ x.rule = r
  BY <1>4 DEF IsEntry
<1>5. ASSUME NEW x \in entries' PROVE (x \in entries /\ x.rule # r) \/ (IsEntry(x) /\ x.src = "" /\ x.rule = r)
  BY <1>2, <1>4
<1>6. "" \notin Intel!Feeds
  BY DEF IntelConstants, Intel!Feeds, Intel!Det
<1>7. Tables' /\ Intel!TypeOK'
  <2>1. ASSUME NEW x \in entries' PROVE IsEntry(x) /\ x.rule \in rules /\ (x.src # "" => Intel!Exists(x.src))
    BY <1>5 DEF IntelInv, Intel!TypeOK, Tables
  <2>2. Tables'
    BY <1>3, <2>1 DEF IntelInv, Tables, FeedRows, IsEntry
  <2> QED
    BY <1>3, <2>1, <2>2 DEF IntelInv, Intel!TypeOK, Intel!Exists
<1>8. Removes(R, F)
  <2>1. \A f \in Intel!Feeds : Intel!RowsOf(f)' = Intel!RowsOf(f) \ R
    <3> SUFFICES ASSUME NEW f \in Intel!Feeds PROVE Intel!RowsOf(f)' = Intel!RowsOf(f) \ R
      OBVIOUS
    <3>1. \A x : x \in Intel!RowsOf(f)' => x \in Intel!RowsOf(f) \ R
      BY <1>1, <1>5, <1>6 DEF Intel!RowsOf
    <3>2. \A x : x \in Intel!RowsOf(f) \ R => x \in Intel!RowsOf(f)'
      BY <1>1, <1>2 DEF Intel!RowsOf
    <3> QED
      BY <3>1, <3>2
  <2>2. ASSUME NEW f \in Feed \ raced
        PROVE  /\ f \in F \/ (feeds'[f].rule = feeds[f].rule /\ \A x \in R : x.src # f)
               /\ \A x \in Intel!RowsOf(f)' : x.rule = feeds'[f].rule
    <3>1. \A x \in Intel!RowsOf(f) : x.rule = feeds[f].rule
      BY RowsOfRule
    <3>2. f \in Intel!Feeds /\ (f \in F <=> feeds[f].rule = r)
      BY <1>1 DEF Intel!PointsAt, Intel!Feeds
    <3>3. f \notin F => \A x \in R : x.src # f
      BY <1>1, <3>1, <3>2 DEF Intel!RowsOf
    <3> QED
      BY <1>3, <2>1, <3>1, <3>2, <3>3
  <2> QED
    BY <1>1, <1>3, <2>1, <2>2 DEF Removes
<1> QED
  BY <1>7, <1>8, RemovalKeeps

\* delete_feed takes the rule the feed points at, with its rows, and detaches the others.
LEMMA DeleteFeedKeeps == ASSUME IntelConstants, IntelInv, NEW d \in Intel!Feeds, Intel!DeleteFeed(d) PROVE IntelInv'
<1>1. PICK r, gone, R, F :
        /\ r = feeds[d].rule /\ gone = {x \in entries : x.rule = r} /\ R = Intel!RowsOf(d) \cup gone
        /\ F = Intel!PointsAt(r) \cup {d}
  OBVIOUS
<1>2. /\ rules' = rules \ {r}
      /\ feeds' = [Intel!WithoutRule(r, feeds) EXCEPT ![d] = [st |-> "deleted", rule |-> Intel!NoRule]]
      /\ entries' = {IF x.src = d THEN [x EXCEPT !.src = ""] ELSE x : x \in entries \ gone}
      /\ pulled' = [f \in Intel!Feeds |-> IF \E x \in R : x.src = f THEN Intel!Unknown ELSE pulled[f]]
      /\ dropped' = dropped \cup Intel!Vals({x \in R : x.src = Intel!Det})
      /\ raced' = raced /\ ntx' = ntx /\ jobs' = jobs /\ txs' = Intel!Outdate(txs, F)
  BY <1>1 DEF Intel!DeleteFeed, Intel!Forget
<1>3. "" \notin Intel!Feeds /\ FeedRows /\ Intel!NoRule \notin rules
  BY DEF IntelConstants, Intel!Feeds, Intel!Det, IntelInv, Tables
<1>4. /\ feeds' = [f \in Intel!Feeds |-> [st |-> feeds'[f].st, rule |-> feeds'[f].rule]]
      /\ feeds'[d].rule = Intel!NoRule
      /\ \A f \in Intel!Feeds \ {d} :
           /\ feeds'[f].st = feeds[f].st
           /\ feeds'[f].rule = IF feeds[f].rule = r THEN Intel!NoRule ELSE feeds[f].rule
  <2>1. PICK fs : fs = Intel!WithoutRule(r, feeds)
    OBVIOUS
  <2>2. /\ fs = [f \in Intel!Feeds |-> [st |-> fs[f].st, rule |-> fs[f].rule]]
        /\ \A f \in Intel!Feeds : /\ fs[f].st = feeds[f].st
                                  /\ fs[f].rule = IF feeds[f].rule = r THEN Intel!NoRule ELSE feeds[f].rule
    <3>1. FeedRows
      BY <1>3
    <3>2. LET gs == Intel!WithoutRule(r, feeds)
          IN  /\ gs = [f \in Intel!Feeds |-> [st |-> gs[f].st, rule |-> gs[f].rule]]
              /\ \A f \in Intel!Feeds : /\ gs[f].st = feeds[f].st
                                        /\ gs[f].rule = IF feeds[f].rule = r THEN Intel!NoRule ELSE feeds[f].rule
      BY <3>1, WithoutRuleIs
    <3> QED
      BY <2>1, <3>2
  <2>3. feeds' = [fs EXCEPT ![d] = [st |-> "deleted", rule |-> Intel!NoRule]]
    BY <1>2, <2>1
  <2>4. feeds'[d] = [st |-> "deleted", rule |-> Intel!NoRule] /\ \A f \in Intel!Feeds \ {d} : feeds'[f] = fs[f]
    BY <2>2, <2>3
  <2>5. feeds' = [f \in Intel!Feeds |-> feeds'[f]]
    BY <2>2, <2>3
  <2>6. \A f \in Intel!Feeds : feeds'[f] = [st |-> feeds'[f].st, rule |-> feeds'[f].rule]
    BY <2>2, <2>4
  <2> QED
    BY <2>2, <2>4, <2>5, <2>6
<1>5. \A f \in Intel!Feeds \ {d} : Intel!Exists(f)' <=> Intel!Exists(f)
  BY <1>4 DEF Intel!Exists
<1>6. ASSUME NEW x \in entries'
      PROVE  \/ x \in entries /\ x.rule # r /\ x.src # d
             \/ IsEntry(x) /\ x.src = "" /\ x.rule \in rules \ {r}
  <2>1. PICK y \in entries \ gone : x = IF y.src = d THEN [y EXCEPT !.src = ""] ELSE y
    BY <1>2
  <2>2. y \in entries /\ y.rule # r /\ y.rule \in rules /\ IsEntry(y)
    BY <1>1, <2>1 DEF IntelInv, Intel!TypeOK, Tables
  <2>3. CASE y.src = d
    <3>1. x = [n |-> y.n, rule |-> y.rule, src |-> "", origin |-> y.origin, val |-> y.val]
      BY <2>1, <2>2, <2>3 DEF IsEntry
    <3>2. x.n = y.n /\ x.rule = y.rule /\ x.src = "" /\ x.origin = y.origin /\ x.val = y.val
      BY <3>1
    <3> QED
      BY <2>2, <3>1, <3>2 DEF IsEntry
  <2>4. CASE y.src # d
    BY <2>1, <2>2, <2>4
  <2> QED
    BY <2>3, <2>4
<1>7. Tables' /\ Intel!TypeOK'
  <2>1. ASSUME NEW x \in entries' PROVE IsEntry(x) /\ x.rule \in rules' /\ (x.src # "" => Intel!Exists(x.src)')
    <3>1. CASE x \in entries /\ x.rule # r /\ x.src # d
      <4>1. IsEntry(x) /\ x.rule \in rules /\ (x.src # "" => Intel!Exists(x.src))
        BY <3>1 DEF IntelInv, Intel!TypeOK, Tables
      <4>2. x.src \in Intel!Feeds \cup {""}
        BY <4>1 DEF IsEntry
      <4> QED
        BY <1>2, <1>5, <3>1, <4>1, <4>2
    <3>2. CASE IsEntry(x) /\ x.src = "" /\ x.rule \in rules \ {r}
      BY <1>2, <3>2
    <3> QED
      BY <1>6, <3>1, <3>2
  <2>2. Tables'
    BY <1>2, <1>3, <1>4, <2>1 DEF IntelInv, Tables, FeedRows, IsEntry
  <2>3. \A f \in Intel!Feeds : feeds'[f].rule \in rules' \cup {Intel!NoRule}
    BY <1>2, <1>4 DEF IntelInv, Intel!TypeOK
  <2> QED
    BY <2>1, <2>2, <2>3 DEF Intel!TypeOK
<1>8. Removes(R, F)
  <2>1. \A f \in Intel!Feeds : Intel!RowsOf(f)' = Intel!RowsOf(f) \ R
    <3> SUFFICES ASSUME NEW f \in Intel!Feeds PROVE Intel!RowsOf(f)' = Intel!RowsOf(f) \ R
      OBVIOUS
    <3>1. \A x : x \in Intel!RowsOf(f)' => x \in Intel!RowsOf(f) \ R
      BY <1>1, <1>3, <1>6 DEF Intel!RowsOf
    <3>2. \A x : x \in Intel!RowsOf(f) \ R => x \in entries \ gone /\ x.src # d /\ x.src = f
      BY <1>1 DEF Intel!RowsOf
    <3>3. \A x \in entries \ gone : x.src # d => x \in entries'
      BY <1>2
    <3> QED
      BY <3>1, <3>2, <3>3 DEF Intel!RowsOf
  <2>2. ASSUME NEW f \in Feed \ raced
        PROVE  /\ f \in F \/ (feeds'[f].rule = feeds[f].rule /\ \A x \in R : x.src # f)
               /\ \A x \in Intel!RowsOf(f)' : x.rule = feeds'[f].rule
    <3>1. \A x \in Intel!RowsOf(f) : x.rule = feeds[f].rule
      BY RowsOfRule
    <3>2. f \in Intel!Feeds /\ (f \in F <=> feeds[f].rule = r \/ f = d)
      BY <1>1 DEF Intel!PointsAt, Intel!Feeds
    <3>3. f \notin F => \A x \in R : x.src # f
      BY <1>1, <3>1, <3>2 DEF Intel!RowsOf
    <3>4. \A x \in Intel!RowsOf(f)' : x \in Intel!RowsOf(f) /\ x.rule # r /\ f # d
      BY <1>1, <2>1, <3>2 DEF Intel!RowsOf
    <3> QED
      BY <1>4, <3>1, <3>2, <3>3, <3>4
  <2>3. R \subseteq entries
    BY <1>1 DEF Intel!RowsOf
  <2> QED
    BY <1>2, <2>1, <2>2, <2>3 DEF Removes
<1> QED
  BY <1>7, <1>8, RemovalKeeps

-----------------------------------------------------------------------------
(* The poller.                                                             *)

\* The poller loads the running jobs.
LEMMA PollerRunKeeps == ASSUME IntelInv, Intel!PollerRun PROVE IntelInv'
<1>1. PICK y, J : /\ J = {j \in Job : jobs[j].st = "running"}
                  /\ y = [st |-> "run", n |-> ntx + 1, todo |-> J, loaded |-> {}, stale |-> {},
                          rule |-> [f \in {Intel!Det} |-> Intel!NoRule], had |-> FALSE, add |-> {}, done |-> << >>]
  OBVIOUS
<1>2. y.st = "run" /\ y.n = ntx + 1 /\ y.todo = J /\ y.loaded = {} /\ y.stale = {}
      /\ y.rule = [f \in {Intel!Det} |-> Intel!NoRule] /\ y.had = FALSE /\ y.add = {} /\ y.done = << >>
  BY <1>1
<1>3. ntx \in Nat /\ ntx' = ntx + 1 /\ txs' = [txs EXCEPT !["poller"] = y] /\ Quiet /\ UNCHANGED jobs
  BY <1>1 DEF Intel!PollerRun, IntelInv, Transactions, Quiet, Intel!intel, Intel!history
<1>4. DOMAIN y.done = {}
  BY <1>2
<1>5. IsPoll(y)
  BY <1>1, <1>2, <1>3, <1>4 DEF IsPoll
<1>6. Moves("poller", y) /\ ntx' \in Nat
  BY <1>3 DEF Moves, Intel!Worker
<1> QED
  BY <1>3, <1>4, <1>5, <1>6, PollMoveKeeps

\* What a poll keeps while it looks at its feed.
SamePoll(t, u) == IsPoll(u) /\ u.todo = t.todo /\ u.done = t.done

\* Reading the synthetic feed.
LEMMA EnsureFeedIs ==
    ASSUME NEW t, IsPoll(t) PROVE \E u : u = Intel!EnsureFeed(t) /\ SamePoll(t, u) /\ u.add = t.add
<1>1. CASE Intel!Det \in t.loaded
  BY <1>1 DEF Intel!EnsureFeed, SamePoll
<1>2. CASE Intel!Det \notin t.loaded
  <2>1. PICK a : a = [t EXCEPT !.loaded = {Intel!Det}]
    OBVIOUS
  <2>2. a = [st |-> "run", n |-> t.n, todo |-> t.todo, loaded |-> {Intel!Det}, stale |-> t.stale,
             rule |-> t.rule, had |-> t.had, add |-> t.add, done |-> t.done]
    BY <2>1 DEF IsPoll
  <2>3. PICK b, q : b = [a EXCEPT !.rule[Intel!Det] = feeds[Intel!Det].rule] /\ q = b.rule
    OBVIOUS
  <2>4. b = [st |-> "run", n |-> t.n, todo |-> t.todo, loaded |-> {Intel!Det}, stale |-> t.stale,
             rule |-> q, had |-> t.had, add |-> t.add, done |-> t.done]
    BY <2>2, <2>3
  <2>5. PICK u : u = [b EXCEPT !.had = Intel!Exists(Intel!Det)]
    OBVIOUS
  <2>6. u = [st |-> "run", n |-> t.n, todo |-> t.todo, loaded |-> {Intel!Det}, stale |-> t.stale,
             rule |-> q, had |-> Intel!Exists(Intel!Det), add |-> t.add, done |-> t.done]
    BY <2>4, <2>5
  <2>7. u.st = "run" /\ u.n = t.n /\ u.todo = t.todo /\ u.loaded = {Intel!Det} /\ u.stale = t.stale
        /\ u.rule = q /\ u.had = Intel!Exists(Intel!Det) /\ u.add = t.add /\ u.done = t.done
    BY <2>6
  <2>8. u = Intel!EnsureFeed(t)
    BY <1>2, <2>1, <2>3, <2>5 DEF Intel!EnsureFeed
  <2>9. IsPoll(u)
    BY <2>6, <2>7 DEF IsPoll
  <2> QED
    BY <2>7, <2>8, <2>9 DEF SamePoll
<1> QED
  BY <1>1, <1>2

\* A poll with another set of hashes to add.
LEMMA WithAdd ==
    ASSUME NEW t, IsPoll(t), NEW A PROVE \E u : u = [t EXCEPT !.add = A] /\ SamePoll(t, u) /\ u.add = A
<1>1. PICK u : u = [t EXCEPT !.add = A]
  OBVIOUS
<1>2. u = [st |-> "run", n |-> t.n, todo |-> t.todo, loaded |-> t.loaded, stale |-> t.stale,
           rule |-> t.rule, had |-> t.had, add |-> A, done |-> t.done]
  BY <1>1 DEF IsPoll
<1>3. u.st = "run" /\ u.n = t.n /\ u.todo = t.todo /\ u.loaded = t.loaded /\ u.stale = t.stale
      /\ u.rule = t.rule /\ u.had = t.had /\ u.add = A /\ u.done = t.done
  BY <1>2
<1>4. IsPoll(u)
  BY <1>2, <1>3 DEF IsPoll
<1> QED
  BY <1>1, <1>3, <1>4 DEF SamePoll

\* A malicious sample is in the feed, or will be added.
LEMMA AfterPollIs ==
    ASSUME NEW t, IsPoll(t), NEW j, NEW r
    PROVE  \E u : /\ u = Intel!AfterPoll(t, j, r) /\ SamePoll(t, u) /\ t.add \subseteq u.add
                  /\ r = "high" => Known(Hash[j]) \/ Hash[j] \in u.add
<1>1. CASE r # "high"
  <2>1. Intel!LabelForScore(r) # "malicious"
    BY <1>1 DEF Intel!LabelForScore
  <2> QED
    BY <1>1, <2>1 DEF Intel!AfterPoll, SamePoll
<1>2. CASE r = "high"
  <2>1. Intel!LabelForScore(r) = "malicious"
    BY <1>2 DEF Intel!LabelForScore
  <2>2. PICK e, h : e = Intel!EnsureFeed(t) /\ SamePoll(t, e) /\ e.add = t.add /\ h = Hash[j]
    BY EnsureFeedIs
  <2>3. CASE h \in Intel!Vals(Intel!RowsOf(Intel!Det))
    <3>1. e = Intel!AfterPoll(t, j, r)
      BY <2>1, <2>2, <2>3 DEF Intel!AfterPoll, Intel!MaterialiseIoc
    <3> QED
      BY <2>2, <2>3, <3>1 DEF Known
  <2>4. CASE h \notin Intel!Vals(Intel!RowsOf(Intel!Det))
    <3>1. PICK A : A = e.add \cup {h}
      OBVIOUS
    <3>2. IsPoll(e)
      BY <2>2 DEF SamePoll
    <3>3. PICK u : u = [e EXCEPT !.add = A] /\ SamePoll(e, u) /\ u.add = A
      BY <3>2, WithAdd
    <3>4. [e EXCEPT !.add = A] = Intel!AfterPoll(t, j, r)
      BY <2>1, <2>2, <2>4, <3>1 DEF Intel!AfterPoll, Intel!MaterialiseIoc
    <3> QED
      BY <2>2, <3>1, <3>3, <3>4 DEF SamePoll
  <2> QED
    BY <2>3, <2>4
<1> QED
  BY <1>1, <1>2

\* A sandbox answers for a job.
LEMMA PollJobKeeps == ASSUME IntelInv, NEW j \in Job, Intel!PollJob(j) PROVE IntelInv'
<1>1. PICK r : LET t == Intel!AfterPoll(txs["poller"], j, r)
                   done == [x \in DOMAIN t.done \cup {j} |-> IF x = j THEN r ELSE t.done[x]]
               IN  txs' = [txs EXCEPT !["poller"] = [t EXCEPT !.todo = t.todo \ {j}, !.done = done]]
  BY DEF Intel!PollJob
<1>2. ntx' = ntx /\ ntx \in Nat /\ Quiet /\ UNCHANGED jobs /\ txs["poller"] # Intel!Idle
  BY DEF Intel!PollJob, Quiet, Intel!intel, Intel!history, IntelInv, Transactions
<1>3. PICK t : t = txs["poller"]
  OBVIOUS
<1>4. IsPoll(t)
  BY <1>2, <1>3 DEF IntelInv, Transactions
<1>5. PICK u : /\ u = Intel!AfterPoll(t, j, r) /\ SamePoll(t, u) /\ t.add \subseteq u.add
               /\ r = "high" => Known(Hash[j]) \/ Hash[j] \in u.add
  BY <1>4, AfterPollIs
<1>6. PICK D, y : /\ D = [x \in DOMAIN u.done \cup {j} |-> IF x = j THEN r ELSE u.done[x]]
                  /\ y = [u EXCEPT !.todo = u.todo \ {j}, !.done = D]
  OBVIOUS
<1>7. txs' = [txs EXCEPT !["poller"] = y]
  <2>1. u = Intel!AfterPoll(txs["poller"], j, r)
    BY <1>3, <1>5
  <2> QED
    BY <1>1, <1>6, <2>1
<1>8. y = [st |-> "run", n |-> u.n, todo |-> u.todo \ {j}, loaded |-> u.loaded, stale |-> u.stale,
           rule |-> u.rule, had |-> u.had, add |-> u.add, done |-> D]
  <2>1. PICK z : z = [u EXCEPT !.todo = u.todo \ {j}]
    OBVIOUS
  <2>2. z = [st |-> "run", n |-> u.n, todo |-> u.todo \ {j}, loaded |-> u.loaded, stale |-> u.stale,
             rule |-> u.rule, had |-> u.had, add |-> u.add, done |-> u.done]
    BY <1>5, <2>1 DEF SamePoll, IsPoll
  <2>3. y = [z EXCEPT !.done = D]
    BY <1>6, <2>1
  <2> QED
    BY <2>2, <2>3
<1>9. y.st = "run" /\ y.n = u.n /\ y.todo = u.todo \ {j} /\ y.loaded = u.loaded /\ y.stale = u.stale
      /\ y.rule = u.rule /\ y.had = u.had /\ y.add = u.add /\ y.done = D
  BY <1>8
<1>10. DOMAIN D = DOMAIN t.done \cup {j} /\ \A x \in DOMAIN D : D[x] = IF x = j THEN r ELSE t.done[x]
  BY <1>5, <1>6 DEF SamePoll
<1>11. IsPoll(y)
  BY <1>4, <1>5, <1>8, <1>9, <1>10 DEF IsPoll, SamePoll
<1>12. \A x \in DOMAIN y.done : y.done[x] = "high" => Known(Hash[x]) \/ Hash[x] \in y.add
  <2>1. \A x \in DOMAIN t.done : t.done[x] = "high" => Known(Hash[x]) \/ Hash[x] \in t.add
    BY <1>2, <1>3 DEF IntelInv, Verdicts
  <2> QED
    BY <1>5, <1>9, <1>10, <2>1
<1>13. Moves("poller", y) /\ ntx' \in Nat
  BY <1>2, <1>7 DEF Moves, Intel!Worker
<1> QED
  BY <1>2, <1>11, <1>12, <1>13, PollMoveKeeps

\* What a job becomes when the poll is committed: malicious only by a high score.
LEMMA SettledIs ==
    ASSUME Tables, NEW j \in Job, NEW r
    PROVE  \E k : /\ k = Intel!Settled(j, r) /\ k = [st |-> k.st, prov |-> k.prov, label |-> k.label]
                  /\ k.st = "verdict" /\ k.label = "malicious" => r = "high" \/ k = jobs[j]
<1>1. jobs[j] = [st |-> jobs[j].st, prov |-> jobs[j].prov, label |-> jobs[j].label]
  BY DEF Tables
<1>2. PICK k : k = Intel!Settled(j, r)
  OBVIOUS
<1>3. CASE r = "running"
  BY <1>1, <1>2, <1>3 DEF Intel!Settled
<1>4. CASE r = "failed"
  <2>1. k = [st |-> "failed", prov |-> jobs[j].prov, label |-> jobs[j].label]
    BY <1>1, <1>2, <1>4 DEF Intel!Settled
  <2>2. k.st = "failed" /\ k.prov = jobs[j].prov /\ k.label = jobs[j].label
    BY <2>1
  <2> QED
    BY <1>2, <2>1, <2>2
<1>5. CASE r # "running" /\ r # "failed"
  <2>1. PICK l : l = Intel!LabelForScore(r)
    OBVIOUS
  <2>2. k = [jobs[j] EXCEPT !.st = "verdict", !.label = l]
    BY <1>2, <1>5, <2>1 DEF Intel!Settled
  <2>3. k = [st |-> "verdict", prov |-> jobs[j].prov, label |-> l]
    <3>1. PICK z : z = [jobs[j] EXCEPT !.st = "verdict"]
      OBVIOUS
    <3>2. z = [st |-> "verdict", prov |-> jobs[j].prov, label |-> jobs[j].label]
      BY <1>1, <3>1
    <3>3. k = [z EXCEPT !.label = l]
      BY <2>2, <3>1
    <3> QED
      BY <3>2, <3>3
  <2>4. k.st = "verdict" /\ k.prov = jobs[j].prov /\ k.label = l
    BY <2>3
  <2>5. l = "malicious" => r = "high"
    BY <2>1 DEF Intel!LabelForScore
  <2> QED
    BY <1>2, <2>3, <2>4, <2>5
<1> QED
  BY <1>3, <1>4, <1>5

\* A commit adds what was found malicious to the feed of the sandbox.
Adds(t) ==
    IF t.add = {} THEN UNCHANGED <<feeds, rules, entries>>
    ELSE /\ rules' = rules \cup {Intel!RuleFor(t, Intel!Det)}
         /\ entries' = entries \cup Intel!NewRows(t, Intel!Det, t.add)
         /\ feeds' = [feeds EXCEPT ![Intel!Det] = [st |-> IF t.had THEN feeds[Intel!Det].st ELSE "off", rule |-> Intel!RuleFor(t, Intel!Det)]]

\* Rows and feeds still refer to rules that exist, and only the sandbox's feed changes.
LEMMA PollRefers ==
    ASSUME IntelConstants, Tables, Intel!TypeOK, NEW t, IsPoll(t), Intel!PollWritable(t), Adds(t), UNCHANGED pulled,
           jobs' = [j \in Job |-> [st |-> jobs'[j].st, prov |-> jobs'[j].prov, label |-> jobs'[j].label]]
    PROVE  /\ Tables' /\ Intel!TypeOK' /\ \A f \in Feed : Untouched(f)
           /\ \A h : h \in Intel!Vals(Intel!RowsOf(Intel!Det)) \/ h \in t.add => h \in Intel!Vals(Intel!RowsOf(Intel!Det)')
<1>1. CASE t.add = {}
  <2>1. feeds' = feeds /\ rules' = rules /\ entries' = entries
    BY <1>1 DEF Adds
  <2>2. Tables' /\ Intel!TypeOK'
    BY <2>1 DEF Tables, Intel!TypeOK, FeedRows, IsEntry, Intel!Exists
  <2>3. \A f : Intel!RowsOf(f)' = Intel!RowsOf(f)
    BY <2>1 DEF Intel!RowsOf
  <2> QED
    BY <1>1, <2>1, <2>2, <2>3 DEF Untouched
<1>2. CASE t.add # {}
  <2>1. PICK r : r = Intel!RuleFor(t, Intel!Det)
    OBVIOUS
  <2>2. /\ rules' = rules \cup {r} /\ entries' = entries \cup Intel!NewRows(t, Intel!Det, t.add)
        /\ feeds' = [feeds EXCEPT ![Intel!Det] = [st |-> IF t.had THEN feeds[Intel!Det].st ELSE "off", rule |-> r]]
    BY <1>2, <2>1 DEF Adds
  <2>3. r # Intel!NoRule
    <3>1. t.n # 0
      BY DEF IsPoll
    <3>2. <<t.n, Intel!Det>> # <<0, "">>
      BY <3>1
    <3> QED
      BY <2>1, <3>2 DEF Intel!RuleFor, Intel!NoRule
  <2>4. Intel!Det \in Intel!Feeds /\ Intel!Det # "" /\ feeds = [f \in Intel!Feeds |-> [st |-> feeds[f].st, rule |-> feeds[f].rule]]
    BY DEF Intel!Feeds, Intel!Det, Tables, FeedRows
  <2>5. PICK st : st = IF t.had THEN feeds[Intel!Det].st ELSE "off"
    OBVIOUS
  <2>6. feeds'[Intel!Det] = [st |-> st, rule |-> r] /\ \A f \in Intel!Feeds : f # Intel!Det => feeds'[f] = feeds[f]
    BY <2>2, <2>4, <2>5
  <2>7. feeds' = [f \in Intel!Feeds |-> feeds'[f]]
    BY <2>2, <2>4
  <2>8. st \in {"on", "off"}
    <3>1. t.had => feeds[Intel!Det].st \in {"on", "off"}
      BY <1>2 DEF Intel!PollWritable, Intel!Exists
    <3>2. CASE t.had
      BY <2>5, <3>1, <3>2
    <3>3. CASE ~t.had
      BY <2>5, <3>3
    <3> QED
      BY <3>2, <3>3
  <2>9. \A f \in Intel!Feeds : feeds'[f] = [st |-> feeds'[f].st, rule |-> feeds'[f].rule] /\ (Intel!Exists(f) => Intel!Exists(f)')
    <3>1. feeds'[Intel!Det].st = st /\ feeds'[Intel!Det].rule = r
      BY <2>6
    <3> SUFFICES ASSUME NEW f \in Intel!Feeds
                 PROVE  feeds'[f] = [st |-> feeds'[f].st, rule |-> feeds'[f].rule] /\ (Intel!Exists(f) => Intel!Exists(f)')
      OBVIOUS
    <3>2. CASE f = Intel!Det
      BY <2>6, <2>8, <3>1, <3>2 DEF Intel!Exists
    <3>3. CASE f # Intel!Det
      BY <2>4, <2>6, <3>3 DEF Intel!Exists
    <3> QED
      BY <3>2, <3>3
  <2>10. Intel!Exists(Intel!Det)'
    BY <2>6, <2>8 DEF Intel!Exists
  <2>11. ASSUME NEW x \in Intel!NewRows(t, Intel!Det, t.add) PROVE IsEntry(x) /\ x.rule = r /\ x.src = Intel!Det
    <3>1. PICK v \in t.add : x = [n |-> t.n, rule |-> r, src |-> Intel!Det, origin |-> Intel!Det, val |-> v]
      BY <2>1 DEF Intel!NewRows
    <3>2. x.n = t.n /\ x.rule = r /\ x.src = Intel!Det /\ x.origin = Intel!Det /\ x.val = v
      BY <3>1
    <3> QED
      BY <2>4, <3>1, <3>2 DEF IsEntry
  <2>12. ASSUME NEW x \in entries' PROVE IsEntry(x) /\ x.rule \in rules' /\ (x.src # "" => Intel!Exists(x.src)')
    <3>1. CASE x \in entries
      <4>1. IsEntry(x) /\ x.rule \in rules /\ (x.src # "" => Intel!Exists(x.src))
        BY <3>1 DEF Tables, Intel!TypeOK
      <4>2. x.src \in Intel!Feeds \cup {""}
        BY <4>1 DEF IsEntry
      <4> QED
        BY <2>2, <2>9, <4>1, <4>2
    <3>2. CASE x \in Intel!NewRows(t, Intel!Det, t.add)
      BY <2>2, <2>10, <2>11, <3>2
    <3> QED
      BY <2>2, <3>1, <3>2
  <2>13. Tables'
    <3>1. FeedRows'
      BY <2>7, <2>9 DEF FeedRows
    <3> QED
      BY <2>2, <2>3, <2>12, <3>1 DEF Tables, IsEntry
  <2>14. Intel!TypeOK'
    <3>1. feeds'[Intel!Det].rule = r
      BY <2>6
    <3>2. ASSUME NEW f \in Intel!Feeds PROVE feeds'[f].rule \in rules' \cup {Intel!NoRule}
      <4>1. CASE f = Intel!Det
        BY <2>2, <3>1, <4>1
      <4>2. CASE f # Intel!Det
        <5>1. feeds'[f].rule = feeds[f].rule
          BY <2>6, <4>2
        <5>2. feeds[f].rule \in rules \cup {Intel!NoRule} /\ rules \subseteq rules'
          BY <2>2 DEF Intel!TypeOK
        <5> QED
          BY <5>1, <5>2
      <4> QED
        BY <4>1, <4>2
    <3> QED
      BY <2>12, <3>2 DEF Intel!TypeOK
  <2>15. ASSUME NEW f \in Feed PROVE Untouched(f)
    <3>1. f # Intel!Det /\ f \in Intel!Feeds
      BY DEF IntelConstants, Intel!Feeds
    <3>2. Intel!RowsOf(f)' = Intel!RowsOf(f)
      BY <2>2, <2>11, <3>1 DEF Intel!RowsOf
    <3> QED
      BY <2>6, <3>1, <3>2 DEF Untouched
  <2>16. ASSUME NEW h, h \in Intel!Vals(Intel!RowsOf(Intel!Det)) \/ h \in t.add PROVE h \in Intel!Vals(Intel!RowsOf(Intel!Det)')
    <3>1. CASE h \in Intel!Vals(Intel!RowsOf(Intel!Det))
      BY <2>2, <3>1 DEF Intel!Vals, Intel!RowsOf
    <3>2. CASE h \in t.add
      <4>1. PICK x \in Intel!NewRows(t, Intel!Det, t.add) : x.val = h
        BY <3>2, NewRowsAre
      <4>2. x \in Intel!RowsOf(Intel!Det)'
        BY <2>2, <2>11 DEF Intel!RowsOf
      <4> QED
        BY <4>1, <4>2 DEF Intel!Vals
    <3> QED
      BY <2>16, <3>1, <3>2
  <2> QED
    BY <2>13, <2>14, <2>15, <2>16
<1> QED
  BY <1>1, <1>2

\* A poll is committed, verdicts and indicators together, or fails.
LEMMA CommitPollKeeps == ASSUME IntelConstants, IntelInv, Intel!CommitPoll PROVE IntelInv'
<1>1. txs["poller"] # Intel!Idle /\ ntx' = ntx /\ ntx \in Nat /\ pulled' = pulled /\ raced' = raced
  BY DEF Intel!CommitPoll, Intel!counters, IntelInv, Transactions
<1>2. PICK t : t = txs["poller"]
  OBVIOUS
<1>3. IsPoll(t)
  BY <1>1, <1>2 DEF IntelInv, Transactions
<1>4. CASE ~Intel!PollWritable(t)
  <2>1. Moves("poller", Intel!Idle) /\ Quiet /\ UNCHANGED jobs
    BY <1>1, <1>2, <1>4 DEF Intel!CommitPoll, Moves, Quiet, Intel!intel, Intel!Worker
  <2> QED
    BY <1>1, <2>1, PollMoveKeeps
<1>5. CASE Intel!PollWritable(t)
  <2>1. jobs' = [j \in Job |-> IF j \in DOMAIN t.done THEN Intel!Settled(j, t.done[j]) ELSE jobs[j]]
        /\ dropped' = dropped \ t.add
    BY <1>2, <1>5 DEF Intel!CommitPoll
  <2>2. Adds(t)
    BY <1>2, <1>5 DEF Intel!CommitPoll, Adds, Intel!intel
  <2>3. PICK T, F : T = [txs EXCEPT !["poller"] = Intel!Idle] /\ txs' = Intel!Outdate(T, F)
    BY <1>2, <1>5 DEF Intel!CommitPoll
  <2>4. T["poller"] = Intel!Idle /\ \A v \in Intel!Worker : T[v] = Intel!Idle \/ T[v] = txs[v]
    BY <2>3 DEF Intel!Worker, IntelInv, Transactions
  <2>5. ASSUME NEW j \in Job
        PROVE  /\ jobs'[j] = [st |-> jobs'[j].st, prov |-> jobs'[j].prov, label |-> jobs'[j].label]
               /\ jobs'[j].st = "verdict" /\ jobs'[j].label = "malicious" =>
                    (j \in DOMAIN t.done /\ t.done[j] = "high") \/ jobs'[j] = jobs[j]
    <3>1. CASE j \in DOMAIN t.done
      <4>1. PICK r : r = t.done[j]
        OBVIOUS
      <4>2. PICK k : /\ k = Intel!Settled(j, r) /\ k = [st |-> k.st, prov |-> k.prov, label |-> k.label]
                     /\ k.st = "verdict" /\ k.label = "malicious" => r = "high" \/ k = jobs[j]
        BY SettledIs DEF IntelInv
      <4>3. jobs'[j] = k
        BY <2>1, <3>1, <4>1, <4>2
      <4> QED
        BY <3>1, <4>1, <4>2, <4>3
    <3>2. CASE j \notin DOMAIN t.done
      <4>1. jobs'[j] = jobs[j]
        BY <2>1, <3>2
      <4> QED
        BY <4>1 DEF IntelInv, Tables
    <3> QED
      BY <3>1, <3>2
  <2>6. jobs' = [j \in Job |-> [st |-> jobs'[j].st, prov |-> jobs'[j].prov, label |-> jobs'[j].label]]
    <3>1. jobs' = [j \in Job |-> jobs'[j]]
      BY <2>1
    <3> QED
      BY <2>5, <3>1
  <2>7. /\ Tables' /\ Intel!TypeOK' /\ \A f \in Feed : Untouched(f)
        /\ \A h : h \in Intel!Vals(Intel!RowsOf(Intel!Det)) \/ h \in t.add => h \in Intel!Vals(Intel!RowsOf(Intel!Det)')
    BY <1>1, <1>3, <1>5, <2>2, <2>6, PollRefers DEF IntelInv
  <2>8. Transactions' /\ Current' /\ txs'["poller"] = Intel!Idle
    BY <1>1, <2>3, <2>4, <2>7, OutdateKeeps DEF IntelInv
  <2>9. Replaced'
    BY <1>1, <2>7 DEF IntelInv, Replaced, Exact, Untouched
  <2>10. ASSUME NEW h, Known(h) \/ h \in t.add PROVE Known(h)'
    <3>1. h \in Intel!Vals(Intel!RowsOf(Intel!Det)') \/ h \in dropped'
      BY <2>1, <2>7, <2>10 DEF Known
    <3> QED
      BY <3>1 DEF Known, Intel!Vals
  <2>11. ASSUME NEW j \in Job, jobs'[j].st = "verdict", jobs'[j].label = "malicious" PROVE Known(Hash[j])'
    <3>1. PICK h : h = Hash[j]
      OBVIOUS
    <3>2. CASE j \in DOMAIN t.done /\ t.done[j] = "high"
      <4>1. Known(h) \/ h \in t.add
        BY <1>1, <1>2, <3>1, <3>2 DEF IntelInv, Verdicts
      <4>2. Known(h)'
        BY <2>10, <4>1
      <4> QED
        BY <3>1, <4>2
    <3>3. CASE jobs'[j] = jobs[j]
      <4>1. Known(h)
        BY <2>11, <3>1, <3>3 DEF IntelInv, Verdicts
      <4>2. Known(h)'
        BY <2>10, <4>1
      <4> QED
        BY <3>1, <4>2
    <3> QED
      BY <2>5, <2>11, <3>2, <3>3
  <2>12. Verdicts'
    BY <2>8, <2>11 DEF Verdicts
  <2> QED
    BY <2>7, <2>8, <2>9, <2>12 DEF IntelInv
<1> QED
  BY <1>4, <1>5

-----------------------------------------------------------------------------
(* The invariant, and what it gives.                                       *)

\* Nothing has been pulled or polled at first.
LEMMA IntelInit == Intel!Init => IntelInv
<1> SUFFICES ASSUME Intel!Init PROVE IntelInv
  OBVIOUS
<1>1. \A w \in Intel!Worker : txs[w] = Intel!Idle
  BY DEF Intel!Init
<1>2. Puller \subseteq Intel!Worker /\ "poller" \in Intel!Worker
  BY DEF Puller, Intel!Worker
<1>3. Transactions
  BY <1>1, <1>2 DEF Intel!Init, Transactions
<1>4. Tables
  <2>1. \A f \in Intel!Feeds : feeds[f].st = "none" /\ feeds[f].rule = Intel!NoRule
    BY DEF Intel!Init
  <2>2. FeedRows
    BY <2>1 DEF Intel!Init, FeedRows
  <2>3. \A j \in Job : jobs[j].st = "none" /\ jobs[j].prov = "" /\ jobs[j].label = ""
    BY DEF Intel!Init
  <2>4. jobs = [j \in Job |-> [st |-> jobs[j].st, prov |-> jobs[j].prov, label |-> jobs[j].label]]
    BY <2>3 DEF Intel!Init
  <2> QED
    BY <2>2, <2>4 DEF Intel!Init, Tables
<1>5. Intel!TypeOK
  BY DEF Intel!Init, Intel!TypeOK
<1>6. Current
  BY <1>1, <1>2 DEF Current
<1>7. Replaced
  <2>1. \A f : Intel!RowsOf(f) = {}
    BY DEF Intel!Init, Intel!RowsOf
  <2>2. \A f \in Feed : pulled[f] = Intel!Unknown
    BY DEF Intel!Init, Intel!Feeds
  <2> QED
    BY <2>1, <2>2 DEF Replaced, Exact
<1>8. Verdicts
  <2>1. \A j \in Job : jobs[j].st = "none"
    BY DEF Intel!Init
  <2> QED
    BY <1>1, <1>2, <2>1 DEF Verdicts
<1> QED
  BY <1>3, <1>4, <1>5, <1>6, <1>7, <1>8 DEF IntelInv

\* Every step keeps the invariant.
LEMMA IntelStep == ASSUME IntelConstants, IntelInv, [Intel!Next]_(Intel!vars) PROVE IntelInv'
<1>1. CASE Intel!RunOnce
  <2>1. PICK F \in SUBSET {f \in Feed : feeds[f].st = "on"} : Intel!Begin("tick", F)
    BY <1>1 DEF Intel!RunOnce
  <2>2. F \subseteq Intel!Feeds /\ "tick" \in Puller
    BY DEF Intel!Feeds, Puller
  <2> QED
    BY <2>1, <2>2, BeginKeeps
<1>2. ASSUME NEW f \in Intel!Feeds, Intel!TriggerPull(f) PROVE IntelInv'
  <2>1. Intel!Begin("forced", {f}) /\ {f} \subseteq Intel!Feeds /\ "forced" \in Puller
    BY <1>2 DEF Intel!TriggerPull, Puller
  <2> QED
    BY <2>1, BeginKeeps
<1>3. ASSUME NEW w \in Intel!Running, NEW f \in Intel!Feeds, Intel!PullFeed(w, f) \/ Intel!PullFails(w, f) PROVE IntelInv'
  <2>1. w \in Puller /\ txs[w] # Intel!Idle
    BY DEF Intel!Running, Puller, Intel!Worker
  <2> QED
    BY <1>3, <2>1, PullFeedKeeps, PullFailsKeeps
<1>4. ASSUME NEW w \in Intel!Worker, Intel!CommitPull(w) \/ Intel!TxDies(w) PROVE IntelInv'
  BY <1>4, CommitPullKeeps, TxDiesKeeps
<1>5. ASSUME NEW f \in Intel!Feeds, Intel!CreateFeed(f) \/ Intel!UpdateFeed(f) \/ Intel!DeleteFeed(f) PROVE IntelInv'
  BY <1>5, SetFeedKeeps, DeleteFeedKeeps
<1>6. ASSUME NEW r \in rules, Intel!DeleteRule(r) \/ Intel!PatchIocs(r) PROVE IntelInv'
  BY <1>6, DeleteRuleKeeps, PatchIocsKeeps
<1>7. CASE Intel!PollerRun \/ Intel!CommitPoll
  BY <1>7, PollerRunKeeps, CommitPollKeeps
<1>8. ASSUME NEW j \in Job, Intel!PollJob(j) PROVE IntelInv'
  BY <1>8, PollJobKeeps
<1>9. CASE \/ \E x \in entries : Intel!AlertFires(x)
           \/ \E p \in Provider : Intel!CreateProvider(p) \/ Intel!UpdateProvider(p) \/ Intel!DeleteProvider(p)
           \/ \E j \in Job : Intel!Submit(j)
           \/ UNCHANGED Intel!vars
  BY <1>9, SandboxKeeps
<1>10. \A f \in Feed : f \in Intel!Feeds
  BY DEF Intel!Feeds
<1> QED
  BY <1>1, <1>2, <1>3, <1>4, <1>5, <1>6, <1>7, <1>8, <1>9, <1>10 DEF Intel!Next

\* The invariant holds in every behaviour.
LEMMA IntelInvariant == ASSUME IntelConstants PROVE Intel!Spec => []IntelInv
<1>1. IntelInv /\ [Intel!Next]_(Intel!vars) => IntelInv'
  BY IntelStep
<1> QED
  BY <1>1, IntelInit, PTL DEF Intel!Spec

\* Whatever feeds, rules and rows are created, pulled, detached and deleted in whatever
\* order, a row is under a rule that exists and of a feed that exists, and a feed points
\* at a rule that exists or at none.
THEOREM ThreatIntelTypes == ASSUME IntelConstants PROVE Intel!Spec => []Intel!TypeOK
<1>1. IntelInv => Intel!TypeOK
  BY DEF IntelInv
<1> QED
  BY <1>1, IntelInvariant, PTL

\* The instance's cardinality is the library's.
LEMMA IntelCardinality == ASSUME NEW S PROVE Intel!Cardinality(S) = Cardinality(S)
BY DEF Intel!Cardinality, Cardinality

\* The invariant leaves the rows of a feed as pulled.
LEMMA ExactReplaces == IntelInv => Intel!FullReplace
<1> SUFFICES ASSUME IntelInv, NEW f \in Feed \ raced, pulled[f] # Intel!Unknown
             PROVE  /\ Intel!Vals(Intel!RowsOf(f)) = pulled[f]
                    /\ Cardinality(Intel!RowsOf(f)) = Cardinality(pulled[f])
                    /\ \A x \in Intel!RowsOf(f) : x.rule = feeds[f].rule
  BY IntelCardinality DEF Intel!FullReplace
<1>1. Exact(f)
  BY DEF IntelInv, Replaced
<1>2. /\ Intel!Vals(Intel!RowsOf(f)) = pulled[f] /\ IsFiniteSet(pulled[f])
      /\ \A x, y \in Intel!RowsOf(f) : x.val = y.val => x = y
      /\ \A x \in Intel!RowsOf(f) : x.rule = feeds[f].rule
  BY <1>1 DEF Exact
<1>3. PICK g : g = [x \in Intel!RowsOf(f) |-> x.val]
  OBVIOUS
<1>4. \A x \in Intel!RowsOf(f) : g[x] \in pulled[f]
  BY <1>2, <1>3 DEF Intel!Vals
<1>5. g \in Injection(Intel!RowsOf(f), pulled[f])
  BY <1>2, <1>3, <1>4 DEF Injection, IsInjective
<1>6. \A v \in pulled[f] : \E x \in Intel!RowsOf(f) : g[x] = v
  BY <1>2, <1>3 DEF Intel!Vals
<1>7. g \in Surjection(Intel!RowsOf(f), pulled[f])
  BY <1>3, <1>4, <1>6 DEF Surjection
<1>8. IsFiniteSet(Intel!RowsOf(f)) /\ Cardinality(Intel!RowsOf(f)) <= Cardinality(pulled[f])
  BY <1>2, <1>5, FS_Injection
<1>9. Cardinality(pulled[f]) <= Cardinality(Intel!RowsOf(f))
  BY <1>7, <1>8, FS_Surjection
<1>10. Cardinality(pulled[f]) \in Nat /\ Cardinality(Intel!RowsOf(f)) \in Nat
  BY <1>2, <1>8, FS_CardinalityType
<1> QED
  BY <1>2, <1>8, <1>9, <1>10

\* "Refresh policy is full replace per pull", for every interleaving of pulls, of failures
\* and of what operators do: the rows of a feed are the indicators of its last pull, each
\* once and under its rule, until an operator changes the rule or two transactions work on
\* the feed at once.
THEOREM FullReplaceHolds == ASSUME IntelConstants PROVE Intel!Spec => []Intel!FullReplace
  BY ExactReplaces, IntelInvariant, PTL

\* A malicious verdict is in the feed of the sandbox unless an operator has removed it
\* since: _poll_job settles the job and adds the indicator in one transaction, which a
\* deleted feed or rule makes fail as a whole.
THEOREM VerdictsKnown == ASSUME IntelConstants PROVE Intel!Spec => []Intel!VerdictKnown
<1>1. IntelInv => Intel!VerdictKnown
  BY DEF IntelInv, Verdicts, Intel!VerdictKnown, Known
<1> QED
  BY <1>1, IntelInvariant, PTL

-----------------------------------------------------------------------------
(***************************************************************************)
(* The identity monitor judges no sign-in twice and alerts on none it did  *)
(* not judge, for any sources, sign-ins, pages and failures.               *)
(*                                                                         *)
(* Between the poll of a source and the commit of its tick nobody else     *)
(* writes the cursor (PollsOk: what was read is what the row says), so     *)
(* what a tick has seen lies after the cursor and not after where it will  *)
(* put it.  What was judged before lies at or before the cursor (Behind).  *)
(***************************************************************************)
\* Times are natural numbers, and sign-ins have identifiers of their own.
IdentityConstants ==
    /\ MaxTime \in Nat /\ Lookback \in Nat
    /\ \A e \in SignIns : e.ts \in Nat
    /\ \A e, f \in SignIns : e.id = f.id => e = f

Published == now \in Nat /\ now <= MaxTime /\ visible \subseteq SignIns /\ \A e \in visible : e.ts <= now

Cursor(c) == c \in Nat /\ (c <= now \/ c = Identity!NoCursor)

SourceRow(x) == x = [st |-> x.st, cursor |-> x.cursor] /\ Cursor(x.cursor)
SourceRows == sources = [s \in Source |-> sources[s]] /\ \A s \in Source : SourceRow(sources[s])

\* What was judged lies behind the cursor of its source.
Behind ==
    /\ evaluated = [e \in SignIns |-> evaluated[e]]
    /\ \A e \in SignIns : /\ evaluated[e] \in {0, 1}
                          /\ evaluated[e] = 1 => e.src \in Source /\ e.ts <= sources[e.src].cursor /\ sources[e.src].cursor <= now

\* A sign-in the tick has seen, and a cursor it is going to set.
Ahead(e, t) ==
    /\ e \in SignIns /\ e.src \in DOMAIN t.moved /\ e.ts <= t.moved[e.src]
    /\ sources[e.src].cursor = Identity!NoCursor \/ sources[e.src].cursor < e.ts
CursorMoves(s, t) == t.moved[s] \in Nat /\ t.moved[s] <= now /\ (sources[s].cursor = Identity!NoCursor \/ sources[s].cursor <= t.moved[s])

TickOk(t) ==
    /\ t = [st |-> "run", todo |-> t.todo, read |-> t.read, moved |-> t.moved, hits |-> t.hits, seen |-> t.seen]
    /\ DOMAIN t.read \subseteq Source /\ t.todo \subseteq DOMAIN t.read /\ DOMAIN t.moved \subseteq DOMAIN t.read
    /\ \A s \in DOMAIN t.read : t.read[s] = sources[s].cursor
    /\ \A s \in t.todo : s \notin DOMAIN t.moved
    /\ \A s \in DOMAIN t.moved : CursorMoves(s, t)
    /\ \A e \in t.seen : Ahead(e, t)
    /\ \A a \in t.hits : a.events \subseteq {e.id : e \in t.seen}
PollsOk == tick = Identity!Idle \/ TickOk(tick)

AlertsBacked == \A a \in alerts : \A i \in a.events : \E e \in SignIns : e.id = i /\ evaluated[e] = 1

IdentityInv == Published /\ SourceRows /\ Behind /\ PollsOk /\ AlertsBacked

-----------------------------------------------------------------------------
(* The detectors.                                                          *)

\* The newest of a set of sign-ins is one of them.
LEMMA NewestIs ==
    ASSUME NEW n \in Nat, NEW E, E # {}, \A e \in E : e.ts \in Nat /\ e.ts <= n
    PROVE  /\ \A e \in E : e.ts <= Identity!Newest(E)
           /\ \E e \in E : Identity!Newest(E) = e.ts
<1> DEFINE D == {n - e.ts : e \in E}
<1>1. D \subseteq Nat /\ D # {}
  <2>1. \A e \in E : n - e.ts \in Nat
    OBVIOUS
  <2> QED
    BY <2>1
<1> HIDE DEF D
<1>2. PICK m \in D : \A k \in D : <<k, m>> \notin OpToRel(<, Nat)
  BY <1>1, WFMin, NatLessThanWellFounded, Zenon
<1>3. \A k \in Nat : <<k, m>> \notin OpToRel(<, Nat) /\ m \in Nat => ~(k < m)
  BY Zenon DEF OpToRel
<1>4. m \in Nat /\ \A k \in D : k \in Nat /\ ~(k < m)
  BY <1>1, <1>2, <1>3
<1>5. PICK f \in E : m = n - f.ts
  BY DEF D
<1>6. \A e \in E : n - e.ts \in D
  BY DEF D
<1>7. \A e \in E : e.ts <= f.ts
  BY <1>4, <1>5, <1>6
<1>8. PICK T : T = {e.ts : e \in E}
  OBVIOUS
<1>9. \E t \in T : \A e \in E : e.ts <= t
  BY <1>7, <1>8
<1>10. Identity!Newest(E) = CHOOSE t \in T : \A e \in E : e.ts <= t
  BY <1>8 DEF Identity!Newest
<1>11. Identity!Newest(E) \in T /\ \A e \in E : e.ts <= Identity!Newest(E)
  BY <1>9, <1>10
<1> QED
  BY <1>8, <1>11

\* A hit of a detector names sign-ins it was given.
Names(a, P) == a.events \subseteq {e.id : e \in P}

\* So does one of any detector that is given some of them.
LEMMA HitNames ==
    ASSUME NEW rule, NEW key, NEW E, NEW P, E \subseteq P PROVE Names(Identity!Hit(rule, key, E), P)
  BY DEF Names, Identity!Hit

\* So do all of them.
LEMMA DetectorsName == ASSUME NEW P, NEW a \in Identity!RunDetectors(P) PROVE Names(a, P)
<1>1. ASSUME NEW k, NEW E, E \subseteq P PROVE \A b \in Identity!BruteForce(k, E) \cup Identity!MfaBomb(k, E) \cup Identity!PasswordSpray(k, E) : Names(b, P)
  <2>1. PICK f, c : f = {e \in Identity!Recent(E) : ~e.success} /\ c = {e \in Identity!Recent(E) : e.mfa}
    OBVIOUS
  <2>2. f \subseteq P /\ c \subseteq P
    BY <1>1, <2>1 DEF Identity!Recent
  <2>3. /\ Identity!BruteForce(k, E) \subseteq {Identity!Hit("brute_force", k, f)} /\ Identity!MfaBomb(k, E) \subseteq {Identity!Hit("mfa_bomb", k, c)}
        /\ Identity!PasswordSpray(k, E) \subseteq {Identity!Hit("password_spray", k, f)}
    <3>1. Identity!BruteForce(k, E) \subseteq {Identity!Hit("brute_force", k, f)}
      BY <2>1 DEF Identity!BruteForce
    <3>2. Identity!MfaBomb(k, E) \subseteq {Identity!Hit("mfa_bomb", k, c)}
      BY <2>1 DEF Identity!MfaBomb
    <3>3. Identity!PasswordSpray(k, E) \subseteq {Identity!Hit("password_spray", k, f)}
      BY <2>1 DEF Identity!PasswordSpray
    <3> QED
      BY <3>1, <3>2, <3>3
  <2>4. Names(Identity!Hit("brute_force", k, f), P) /\ Names(Identity!Hit("mfa_bomb", k, c), P) /\ Names(Identity!Hit("password_spray", k, f), P)
    BY <2>2, HitNames
  <2> QED
    BY <2>3, <2>4
<1>2. ASSUME NEW k, NEW E, E \subseteq P, NEW b \in Identity!ImpossibleTravel(k, E) PROVE Names(b, P)
  <2>1. PICK ok : ok = {e \in E : e.success}
    OBVIOUS
  <2>2. PICK p \in ok \X ok : b = Identity!Hit("impossible_travel", k, {p[1], p[2]})
    BY <1>2, <2>1 DEF Identity!ImpossibleTravel
  <2>3. {p[1], p[2]} \subseteq P
    BY <1>2, <2>1, <2>2
  <2> QED
    BY <2>2, <2>3, HitNames
<1>3. PICK g, h : g = Identity!GroupByActor(P) /\ h = Identity!GroupByIp(P)
  OBVIOUS
<1>4. (\A k \in DOMAIN g : g[k] \subseteq P) /\ \A k \in DOMAIN h : h[k] \subseteq P
  BY <1>3 DEF Identity!GroupByActor, Identity!GroupByIp
<1>5. \/ \E k \in DOMAIN g : a \in Identity!ImpossibleTravel(k, g[k]) \cup Identity!BruteForce(k, g[k]) \cup Identity!MfaBomb(k, g[k])
      \/ \E k \in DOMAIN h : a \in Identity!PasswordSpray(k, h[k])
  <2>1. a \in (UNION {Identity!ImpossibleTravel(k, g[k]) \cup Identity!BruteForce(k, g[k]) \cup Identity!MfaBomb(k, g[k]) : k \in DOMAIN g})
             \cup (UNION {Identity!PasswordSpray(k, h[k]) : k \in DOMAIN h})
    BY <1>3, Zenon DEF Identity!RunDetectors
  <2> QED
    BY <2>1
<1>6. ASSUME NEW k \in DOMAIN g, a \in Identity!ImpossibleTravel(k, g[k]) \cup Identity!BruteForce(k, g[k]) \cup Identity!MfaBomb(k, g[k]) PROVE Names(a, P)
  <2>1. PICK E : E = g[k]
    OBVIOUS
  <2>2. E \subseteq P
    BY <1>4, <2>1
  <2>3. CASE a \in Identity!ImpossibleTravel(k, E)
    BY <1>2, <2>2, <2>3
  <2>4. CASE a \in Identity!BruteForce(k, E) \cup Identity!MfaBomb(k, E) \cup Identity!PasswordSpray(k, E)
    BY <1>1, <2>2, <2>4
  <2> QED
    BY <1>6, <2>1, <2>3, <2>4
<1>7. ASSUME NEW k \in DOMAIN h, a \in Identity!PasswordSpray(k, h[k]) PROVE Names(a, P)
  <2>1. PICK E : E = h[k]
    OBVIOUS
  <2>2. E \subseteq P /\ a \in Identity!BruteForce(k, E) \cup Identity!MfaBomb(k, E) \cup Identity!PasswordSpray(k, E)
    BY <1>4, <1>7, <2>1
  <2> QED
    BY <1>1, <2>2
<1> QED
  BY <1>5, <1>6, <1>7

-----------------------------------------------------------------------------
(* The steps.                                                              *)

\* Time, sign-ins that appear and edits of a source's status leave the cursors alone.
SameCursors ==
    /\ sources' = [s \in Source |-> sources'[s]]
    /\ \A s \in Source : SourceRow(sources'[s]) /\ sources'[s].cursor = sources[s].cursor

\* What the tick relies on does not depend on more than the cursors.
LEMMA TickStays ==
    ASSUME IdentityInv, now' \in Nat, now <= now', SameCursors, NEW t, TickOk(t) PROVE TickOk(t)'
<1>1. \A s \in DOMAIN t.read : sources'[s].cursor = sources[s].cursor
  BY DEF TickOk, SameCursors
<1>2. \A s \in DOMAIN t.moved : s \in DOMAIN t.read /\ CursorMoves(s, t)
  BY DEF TickOk
<1>3. \A s \in DOMAIN t.moved : CursorMoves(s, t)'
  BY <1>1, <1>2 DEF CursorMoves, Identity!NoCursor, IdentityInv, Published
<1>4. \A e \in t.seen : Ahead(e, t)'
  <2>1. \A e \in t.seen : Ahead(e, t) /\ e.src \in DOMAIN t.moved
    BY DEF TickOk, Ahead
  <2> QED
    BY <1>1, <1>2, <2>1 DEF Ahead, Identity!NoCursor
<1>5. \A s \in DOMAIN t.read : t.read[s] = sources'[s].cursor
  BY <1>1 DEF TickOk
<1> QED
  BY <1>3, <1>4, <1>5 DEF TickOk

\* The world moves, the worker does not.
LEMMA WorldKeeps ==
    ASSUME IdentityConstants, IdentityInv, Published', now <= now', SameCursors, tick' = tick, alerts' = alerts, evaluated' = evaluated
    PROVE  IdentityInv'
<1>1. now \in Nat /\ now' \in Nat
  BY DEF IdentityInv, Published
<1>2. SourceRows'
  <2>1. ASSUME NEW s \in Source, NEW x, x = sources'[s] PROVE SourceRow(x)'
    <3>1. SourceRow(x)
      BY <2>1 DEF SameCursors
    <3> QED
      BY <1>1, <3>1 DEF SourceRow, Cursor, Identity!NoCursor
  <2> QED
    BY <2>1 DEF SameCursors, SourceRows, SourceRow, Cursor, Identity!NoCursor
<1>3. Behind'
  <2>1. \A s \in Source : sources[s].cursor \in Nat
    BY DEF IdentityInv, SourceRows, SourceRow, Cursor
  <2>2. \A e \in SignIns : evaluated[e] = 1 => e.src \in Source /\ e.ts <= sources'[e.src].cursor /\ sources'[e.src].cursor <= now'
    BY <1>1, <2>1 DEF IdentityInv, Behind, SameCursors
  <2> QED
    BY <2>2 DEF IdentityInv, Behind
<1>4. PollsOk'
  <2>1. CASE tick = Identity!Idle
    BY <2>1 DEF PollsOk, Identity!Idle
  <2>2. CASE TickOk(tick)
    <3>1. PICK t : t = tick
      OBVIOUS
    <3>2. TickOk(t)'
      BY <1>1, <2>2, <3>1, TickStays
    <3> QED
      BY <3>1, <3>2 DEF PollsOk, TickOk, Ahead, CursorMoves
  <2> QED
    BY <2>1, <2>2 DEF IdentityInv, PollsOk
<1>5. AlertsBacked'
  BY DEF IdentityInv, AlertsBacked
<1> QED
  BY <1>2, <1>3, <1>4, <1>5 DEF IdentityInv

\* Only the tick changes.
LEMMA TickKeeps ==
    ASSUME IdentityInv, now' = now, visible' = visible, sources' = sources, alerts' = alerts, evaluated' = evaluated, PollsOk'
    PROVE  IdentityInv'
  BY DEF IdentityInv, Published, SourceRows, SourceRow, Cursor, Identity!NoCursor, Behind, AlertsBacked

\* Rows whose status is edited.
LEMMA StatusKeeps ==
    ASSUME IdentityConstants, IdentityInv, NEW s \in Source, NEW from, NEW to, Identity!SetStatus(s, from, to) PROVE IdentityInv'
<1>1. sources' = [sources EXCEPT ![s].st = to] /\ now' = now /\ visible' = visible /\ tick' = tick /\ alerts' = alerts /\ evaluated' = evaluated
  BY DEF Identity!SetStatus
<1>2. PICK x : x = sources[s]
  OBVIOUS
<1>3. x = [st |-> x.st, cursor |-> x.cursor] /\ Cursor(x.cursor)
  BY <1>2 DEF IdentityInv, SourceRows, SourceRow
<1>4. PICK y : y = [x EXCEPT !.st = to]
  OBVIOUS
<1>5. y = [st |-> to, cursor |-> x.cursor]
  BY <1>3, <1>4
<1>6. SourceRow(y) /\ y.cursor = x.cursor
  BY <1>3, <1>5 DEF SourceRow
<1>7. sources' = [sources EXCEPT ![s] = y] /\ sources = [z \in Source |-> sources[z]]
  BY <1>1, <1>2, <1>4 DEF IdentityInv, SourceRows
<1>8. SameCursors
  BY <1>2, <1>6, <1>7 DEF SameCursors, IdentityInv, SourceRows
<1>9. Published' /\ now <= now'
  BY <1>1 DEF IdentityInv, Published
<1> QED
  BY <1>1, <1>8, <1>9, WorldKeeps

\* Time and the provider.
LEMMA ProviderKeeps ==
    ASSUME IdentityConstants, IdentityInv, Identity!Tick \/ \E e \in SignIns : Identity!Appear(e) PROVE IdentityInv'
<1>1. sources' = sources /\ tick' = tick /\ alerts' = alerts /\ evaluated' = evaluated
  BY DEF Identity!Tick, Identity!Appear
<1>2. SameCursors
  BY <1>1 DEF SameCursors, IdentityInv, SourceRows
<1>3. Published' /\ now <= now'
  <2>1. CASE Identity!Tick
    BY <2>1 DEF Identity!Tick, IdentityInv, Published, IdentityConstants
  <2>2. CASE \E e \in SignIns : Identity!Appear(e)
    BY <2>2 DEF Identity!Appear, IdentityInv, Published, IdentityConstants
  <2> QED
    BY <2>1, <2>2
<1> QED
  BY <1>1, <1>2, <1>3, WorldKeeps

\* A tick begins, or ends with nothing done.
LEMMA StartKeeps == ASSUME IdentityInv, Identity!RunOnce \/ Identity!TickDies PROVE IdentityInv'
<1>1. now' = now /\ visible' = visible /\ sources' = sources /\ alerts' = alerts /\ evaluated' = evaluated
  BY DEF Identity!RunOnce, Identity!TickDies
<1>2. CASE Identity!TickDies
  BY <1>1, <1>2, TickKeeps DEF Identity!TickDies, PollsOk
<1>3. CASE Identity!RunOnce
  <2>1. PICK on : on = {s \in Source : sources[s].st = "enabled"}
    OBVIOUS
  <2>2. PICK f, none : f = [s \in on |-> sources[s].cursor] /\ none = [s \in {} |-> 0]
    OBVIOUS
  <2>3. tick' = [st |-> "run", todo |-> on, read |-> f, moved |-> none, hits |-> {}, seen |-> {}]
    BY <1>3, <2>1, <2>2, Zenon DEF Identity!RunOnce
  <2>4. DOMAIN f = on /\ on \subseteq Source /\ DOMAIN none = {} /\ \A s \in on : f[s] = sources[s].cursor
    BY <2>1, <2>2
  <2>5. PICK t : t = tick'
    OBVIOUS
  <2>6. TickOk(t)
    BY <2>3, <2>4, <2>5 DEF TickOk
  <2>7. TickOk(t)'
    BY <1>1, <2>6 DEF TickOk, Ahead, CursorMoves, Identity!NoCursor
  <2> QED
    BY <1>1, <2>5, <2>7, TickKeeps DEF PollsOk, TickOk, Ahead, CursorMoves
<1> QED
  BY <1>2, <1>3

\* A tick of the worker that goes on.
LEMMA WorkingKeeps ==
    ASSUME IdentityInv, NEW t, TickOk(t), tick' = t,
           now' = now, visible' = visible, sources' = sources, alerts' = alerts, evaluated' = evaluated
    PROVE  IdentityInv'
<1>1. TickOk(t)'
  BY DEF TickOk, Ahead, CursorMoves, Identity!NoCursor
<1>2. PollsOk'
  BY <1>1 DEF PollsOk, TickOk, Ahead, CursorMoves
<1> QED
  BY <1>2, TickKeeps

\* What a poll finds lies after the cursor, and its newest is where the cursor will go.
LEMMA PageIs ==
    ASSUME IdentityConstants, IdentityInv, TickOk(tick), NEW s \in tick.todo, NEW P \in Identity!Pages(s, Identity!Floor(s)),
           NEW c, c = IF P = {} THEN now ELSE Identity!Newest(P)
    PROVE  /\ c \in Nat /\ c <= now /\ (sources[s].cursor = Identity!NoCursor \/ sources[s].cursor <= c)
           /\ \A e \in P : /\ e \in SignIns /\ e.src = s /\ e.ts <= c
                           /\ sources[s].cursor = Identity!NoCursor \/ sources[s].cursor < e.ts
<1>1. s \in Source /\ tick.read[s] = sources[s].cursor /\ now \in Nat /\ now <= MaxTime /\ MaxTime \in Nat
  BY DEF TickOk, IdentityInv, Published, IdentityConstants
<1>2. PICK f : f = Identity!Floor(s)
  OBVIOUS
<1>3. \A e \in P : e \in visible /\ e.src = s /\ Identity!After(e, f)
  BY <1>2 DEF Identity!Pages, Identity!Fetchable
<1>4. sources[s].cursor \in Nat /\ (sources[s].cursor <= now \/ sources[s].cursor = Identity!NoCursor)
  BY <1>1 DEF IdentityInv, SourceRows, SourceRow, Cursor
<1>5. sources[s].cursor # Identity!NoCursor => f = sources[s].cursor
  BY <1>1, <1>2 DEF Identity!Floor
<1>6. \A e \in P : e \in SignIns /\ e.ts \in Nat /\ e.ts <= now
  BY <1>3 DEF IdentityInv, Published, IdentityConstants
<1>7. \A e \in P : sources[s].cursor = Identity!NoCursor \/ sources[s].cursor < e.ts
  BY <1>3, <1>4, <1>5, <1>6 DEF Identity!After
<1>8. CASE P = {}
  BY <1>1, <1>4, <1>8
<1>9. CASE P # {}
  <2>1. c = Identity!Newest(P) /\ (\A e \in P : e.ts <= c) /\ \E e \in P : c = e.ts
    BY <1>1, <1>6, <1>9, NewestIs
  <2>2. PICK f0 \in P : c = f0.ts
    BY <2>1
  <2>3. c \in Nat /\ c <= now
    BY <1>6, <2>2
  <2>4. sources[s].cursor = Identity!NoCursor \/ sources[s].cursor <= c
    BY <1>4, <1>6, <1>7, <2>2
  <2> QED
    BY <1>3, <1>6, <1>7, <2>1, <2>3, <2>4
<1> QED
  BY <1>8, <1>9

\* A source is polled, or cannot be.
LEMMA PollKeeps ==
    ASSUME IdentityConstants, IdentityInv, NEW s \in Identity!Polling, Identity!PollSource(s) \/ Identity!FetchFails(s) PROVE IdentityInv'
<1>1. now' = now /\ visible' = visible /\ sources' = sources /\ alerts' = alerts /\ evaluated' = evaluated
  BY DEF Identity!PollSource, Identity!FetchFails
<1>2. PICK t : t = tick
  OBVIOUS
<1>3. s \in t.todo /\ TickOk(t)
  BY <1>2 DEF Identity!Polling, IdentityInv, PollsOk
<1>4. PICK left, read, moved, hits, seen :
        left = t.todo /\ read = t.read /\ moved = t.moved /\ hits = t.hits /\ seen = t.seen
  OBVIOUS
<1>5. t = [st |-> "run", todo |-> left, read |-> read, moved |-> moved, hits |-> hits, seen |-> seen]
  BY <1>3, <1>4 DEF TickOk
<1>6. CASE Identity!FetchFails(s)
  <2>1. tick' = [t EXCEPT !.todo = @ \ {s}]
    BY <1>2, <1>6 DEF Identity!FetchFails
  <2>2. PICK u : u = [st |-> "run", todo |-> left \ {s}, read |-> read, moved |-> moved, hits |-> hits, seen |-> seen]
    OBVIOUS
  <2>3. tick' = u
    BY <1>5, <2>1, <2>2
  <2>4. u.st = "run" /\ u.todo = left \ {s} /\ u.read = read /\ u.moved = moved /\ u.hits = hits /\ u.seen = seen
    BY <2>2
  <2>5. TickOk(u)
    BY <1>3, <1>4, <2>2, <2>4 DEF TickOk, Ahead, CursorMoves
  <2> QED
    BY <1>1, <2>3, <2>5, WorkingKeeps
<1>7. CASE Identity!PollSource(s)
  <2>1. PICK P \in Identity!Pages(s, Identity!Floor(s)) :
          tick' = [tick EXCEPT !.todo = @ \ {s}, !.hits = @ \cup Identity!RunDetectors(P), !.seen = @ \cup P,
                               !.moved = [x \in DOMAIN @ \cup {s} |->
                                            IF x # s THEN @[x] ELSE IF P = {} THEN now ELSE Identity!Newest(P)]]
    BY <1>7, Zenon DEF Identity!PollSource
  <2>2. PICK c : c = IF P = {} THEN now ELSE Identity!Newest(P)
    OBVIOUS
  <2>3. PICK m, d : m = [x \in DOMAIN moved \cup {s} |-> IF x # s THEN moved[x] ELSE c] /\ d = Identity!RunDetectors(P)
    OBVIOUS
  <2>4. tick' = [t EXCEPT !.todo = @ \ {s}, !.hits = @ \cup d, !.seen = @ \cup P, !.moved = m]
    <3>1. m = [x \in DOMAIN t.moved \cup {s} |-> IF x # s THEN t.moved[x] ELSE IF P = {} THEN now ELSE Identity!Newest(P)]
      BY <1>4, <2>2, <2>3
    <3> QED
      BY <1>2, <2>1, <2>3, <3>1
  <2>5. PICK u : u = [st |-> "run", todo |-> left \ {s}, read |-> read, moved |-> m, hits |-> hits \cup d, seen |-> seen \cup P]
    OBVIOUS
  <2>6. tick' = u
    <3>1. PICK a, b, v : a = left \ {s} /\ b = hits \cup d /\ v = seen \cup P
      OBVIOUS
    <3>2. PICK w : w = [t EXCEPT !.todo = a]
      OBVIOUS
    <3>3. PICK x : x = [w EXCEPT !.hits = b]
      OBVIOUS
    <3>4. PICK y : y = [x EXCEPT !.seen = v]
      OBVIOUS
    <3>5. tick' = [y EXCEPT !.moved = m]
      BY <1>4, <2>4, <3>1, <3>2, <3>3, <3>4
    <3>6. w = [st |-> "run", todo |-> a, read |-> read, moved |-> moved, hits |-> hits, seen |-> seen]
      BY <1>5, <3>2
    <3>7. x = [st |-> "run", todo |-> a, read |-> read, moved |-> moved, hits |-> b, seen |-> seen]
      BY <3>3, <3>6
    <3>8. y = [st |-> "run", todo |-> a, read |-> read, moved |-> moved, hits |-> b, seen |-> v]
      BY <3>4, <3>7
    <3>9. tick' = [st |-> "run", todo |-> a, read |-> read, moved |-> m, hits |-> b, seen |-> v]
      BY <3>5, <3>8
    <3> QED
      BY <2>5, <3>1, <3>9
  <2>7. u.st = "run" /\ u.todo = left \ {s} /\ u.read = read /\ u.moved = m /\ u.hits = hits \cup d /\ u.seen = seen \cup P
    BY <2>5
  <2>8. /\ c \in Nat /\ c <= now /\ (sources[s].cursor = Identity!NoCursor \/ sources[s].cursor <= c)
        /\ \A e \in P : /\ e \in SignIns /\ e.src = s /\ e.ts <= c
                        /\ sources[s].cursor = Identity!NoCursor \/ sources[s].cursor < e.ts
    BY <1>2, <1>3, <2>2, PageIs
  <2>9. DOMAIN m = DOMAIN moved \cup {s} /\ m[s] = c /\ s \notin DOMAIN moved /\ \A x \in DOMAIN moved : m[x] = moved[x]
    BY <1>3, <1>4, <2>3 DEF TickOk
  <2>10. \A x \in DOMAIN u.moved : CursorMoves(x, u)
    BY <1>3, <1>4, <2>7, <2>8, <2>9 DEF TickOk, CursorMoves
  <2>11. \A e \in u.seen : Ahead(e, u)
    <3>1. \A e \in seen : Ahead(e, u)
      BY <1>3, <1>4, <2>7, <2>9 DEF TickOk, Ahead
    <3>2. \A e \in P : Ahead(e, u)
      BY <2>7, <2>8, <2>9 DEF Ahead
    <3> QED
      BY <2>7, <3>1, <3>2
  <2>12. \A a \in u.hits : a.events \subseteq {e.id : e \in u.seen}
    <3>1. \A a \in hits : a.events \subseteq {e.id : e \in seen}
      BY <1>3, <1>4 DEF TickOk
    <3>2. \A a \in d : a.events \subseteq {e.id : e \in P}
      BY <2>3, DetectorsName DEF Names
    <3> QED
      BY <2>7, <3>1, <3>2
  <2>13. TickOk(u)
    <3>1. DOMAIN read \subseteq Source /\ left \subseteq DOMAIN read /\ DOMAIN moved \subseteq DOMAIN read
      BY <1>3, <1>4 DEF TickOk
    <3>2. \A x \in left : x \notin DOMAIN moved
      BY <1>3, <1>4 DEF TickOk
    <3>3. \A x \in DOMAIN read : read[x] = sources[x].cursor
      BY <1>3, <1>4 DEF TickOk
    <3>4. u = [st |-> "run", todo |-> u.todo, read |-> u.read, moved |-> u.moved, hits |-> u.hits, seen |-> u.seen]
      BY <2>5, <2>7
    <3>5. DOMAIN u.moved \subseteq DOMAIN u.read /\ u.todo \subseteq DOMAIN u.read /\ \A x \in u.todo : x \notin DOMAIN u.moved
      BY <1>3, <1>4, <2>7, <2>9, <3>1, <3>2
    <3> QED
      BY <2>7, <2>10, <2>11, <2>12, <3>1, <3>3, <3>4, <3>5 DEF TickOk
  <2> QED
    BY <1>1, <2>6, <2>13, WorkingKeeps
<1> QED
  BY <1>6, <1>7

\* The commit: what was seen was not judged before, and lies behind the new cursors.
LEMMA CommitTickKeeps == ASSUME IdentityConstants, IdentityInv, Identity!CommitTick PROVE IdentityInv'
<1>1. now' = now /\ visible' = visible /\ tick' = Identity!Idle /\ tick.st = "run"
  BY DEF Identity!CommitTick
<1>2. PICK t : t = tick
  OBVIOUS
<1>3. TickOk(t)
  BY <1>1, <1>2 DEF IdentityInv, PollsOk, Identity!Idle
<1>4. CASE ~(\A s \in DOMAIN t.moved : Identity!Exists(s))
  <2>1. sources' = sources /\ alerts' = alerts /\ evaluated' = evaluated
    BY <1>2, <1>4 DEF Identity!CommitTick
  <2> QED
    BY <1>1, <2>1, TickKeeps DEF PollsOk
<1>5. CASE \A s \in DOMAIN t.moved : Identity!Exists(s)
  <2>1. /\ sources' = [s \in Source |-> IF s \in DOMAIN t.moved THEN [sources[s] EXCEPT !.cursor = t.moved[s]] ELSE sources[s]]
        /\ alerts' = alerts \cup t.hits
        /\ evaluated' = [e \in SignIns |-> IF e \in t.seen THEN evaluated[e] + 1 ELSE evaluated[e]]
    BY <1>2, <1>5 DEF Identity!CommitTick
  <2>2. /\ sources' = [s \in Source |-> sources'[s]] /\ evaluated' = [e \in SignIns |-> evaluated'[e]]
        /\ \A e \in SignIns : evaluated'[e] = IF e \in t.seen THEN evaluated[e] + 1 ELSE evaluated[e]
    BY <2>1
  <2>3. ASSUME NEW s \in Source
        PROVE  /\ sources'[s] = [st |-> sources[s].st, cursor |-> sources'[s].cursor]
               /\ sources'[s].cursor = IF s \in DOMAIN t.moved THEN t.moved[s] ELSE sources[s].cursor
    <3>1. PICK x, c : x = sources[s] /\ c = t.moved[s]
      OBVIOUS
    <3>2. x = [st |-> x.st, cursor |-> x.cursor]
      BY <3>1 DEF IdentityInv, SourceRows, SourceRow
    <3>3. sources'[s] = IF s \in DOMAIN t.moved THEN [x EXCEPT !.cursor = c] ELSE x
      BY <2>1, <3>1
    <3>4. CASE s \in DOMAIN t.moved
      <4>1. sources'[s] = [st |-> x.st, cursor |-> c]
        BY <3>2, <3>3, <3>4
      <4> QED
        BY <3>1, <3>4, <4>1
    <3>5. CASE s \notin DOMAIN t.moved
      BY <3>1, <3>2, <3>3, <3>5
    <3> QED
      BY <3>4, <3>5
  <2>4. /\ \A s \in Source : sources[s].cursor \in Nat /\ (sources[s].cursor <= now \/ sources[s].cursor = Identity!NoCursor)
        /\ now \in Nat /\ now <= MaxTime /\ MaxTime \in Nat /\ Identity!NoCursor = MaxTime + 1
    BY DEF IdentityInv, Published, SourceRows, SourceRow, Cursor, IdentityConstants, Identity!NoCursor
  <2>5. \A s \in DOMAIN t.moved : s \in Source /\ CursorMoves(s, t)
    BY <1>3 DEF TickOk
  <2>6. SourceRows'
    <3>1. ASSUME NEW s \in Source, NEW x, x = sources'[s] PROVE x = [st |-> x.st, cursor |-> x.cursor] /\ Cursor(x.cursor)'
      <4>1. PICK v, c : v = sources[s].st /\ c = sources'[s].cursor
        OBVIOUS
      <4>2. x = [st |-> v, cursor |-> c]
        BY <2>3, <3>1, <4>1
      <4>3. c \in Nat /\ (c <= now \/ c = Identity!NoCursor)
        BY <2>3, <2>4, <2>5, <4>1 DEF CursorMoves
      <4> QED
        BY <1>1, <4>2, <4>3 DEF Cursor, Identity!NoCursor
    <3> QED
      BY <2>2, <3>1 DEF SourceRows, SourceRow, Cursor, Identity!NoCursor
  <2>7. \A e \in t.seen : e \in SignIns /\ e.src \in DOMAIN t.moved /\ e.ts <= t.moved[e.src]
                          /\ (sources[e.src].cursor = Identity!NoCursor \/ sources[e.src].cursor < e.ts)
    BY <1>3 DEF TickOk, Ahead
  <2>8. Behind'
    <3>1. ASSUME NEW e \in SignIns
          PROVE  /\ evaluated'[e] \in {0, 1}
                 /\ evaluated'[e] = 1 => e.src \in Source /\ e.ts <= sources'[e.src].cursor /\ sources'[e.src].cursor <= now
      <4>1. /\ evaluated[e] \in {0, 1} /\ e.ts \in Nat
            /\ evaluated[e] = 1 => e.src \in Source /\ e.ts <= sources[e.src].cursor /\ sources[e.src].cursor <= now
        BY DEF IdentityInv, Behind, IdentityConstants
      <4>2. CASE e \in t.seen
        <5>1. e.src \in Source /\ e.src \in DOMAIN t.moved /\ CursorMoves(e.src, t) /\ e.ts <= t.moved[e.src]
          BY <2>5, <2>7, <4>2
        <5>2. evaluated[e] = 0
          <6>1. ASSUME evaluated[e] = 1 PROVE FALSE
            <7>1. e.ts <= sources[e.src].cursor /\ sources[e.src].cursor <= now
              BY <4>1, <6>1
            <7> QED
              BY <2>4, <2>7, <4>1, <4>2, <5>1, <7>1
          <6> QED
            BY <4>1, <6>1
        <5>3. sources'[e.src].cursor = t.moved[e.src]
          BY <2>3, <5>1
        <5> QED
          BY <2>2, <4>2, <5>1, <5>2, <5>3 DEF CursorMoves
      <4>3. CASE e \notin t.seen
        <5>1. evaluated'[e] = evaluated[e]
          BY <2>2, <4>3
        <5>2. ASSUME evaluated[e] = 1 PROVE e.src \in Source /\ e.ts <= sources'[e.src].cursor /\ sources'[e.src].cursor <= now
          <6>1. PICK s, c : s = e.src /\ c = sources[s].cursor
            OBVIOUS
          <6>2. s \in Source /\ e.ts <= c /\ c <= now /\ c \in Nat
            BY <2>4, <4>1, <5>2, <6>1
          <6>3. CASE s \in DOMAIN t.moved
            <7>1. t.moved[s] \in Nat /\ t.moved[s] <= now /\ c <= t.moved[s]
              BY <2>4, <2>5, <6>1, <6>2, <6>3 DEF CursorMoves
            <7>2. sources'[s].cursor = t.moved[s]
              BY <2>3, <6>2, <6>3
            <7> QED
              BY <4>1, <6>1, <6>2, <7>1, <7>2
          <6>4. CASE s \notin DOMAIN t.moved
            BY <2>3, <6>1, <6>2, <6>4
          <6> QED
            BY <6>3, <6>4
        <5> QED
          BY <4>1, <5>1, <5>2
      <4> QED
        BY <4>2, <4>3
    <3> QED
      BY <1>1, <2>2, <3>1 DEF Behind
  <2>9. AlertsBacked'
    <3>1. ASSUME NEW e \in SignIns, evaluated[e] = 1 \/ e \in t.seen PROVE evaluated'[e] = 1
      <4>1. evaluated'[e] \in {0, 1} /\ evaluated[e] \in {0, 1}
        BY <2>8 DEF Behind, IdentityInv
      <4> QED
        BY <2>2, <3>1, <4>1
    <3>2. ASSUME NEW a \in alerts, NEW i \in a.events PROVE \E e \in SignIns : e.id = i /\ evaluated'[e] = 1
      BY <3>1, <3>2 DEF IdentityInv, AlertsBacked
    <3>3. ASSUME NEW a \in t.hits, NEW i \in a.events PROVE \E e \in SignIns : e.id = i /\ evaluated'[e] = 1
      <4>1. PICK e \in t.seen : e.id = i
        BY <1>3, <3>3 DEF TickOk
      <4> QED
        BY <2>7, <3>1, <4>1
    <3> QED
      BY <2>1, <3>2, <3>3 DEF AlertsBacked
  <2>10. Published' /\ PollsOk'
    BY <1>1 DEF IdentityInv, Published, PollsOk
  <2> QED
    BY <2>6, <2>8, <2>9, <2>10 DEF IdentityInv
<1> QED
  BY <1>4, <1>5

-----------------------------------------------------------------------------
(* The invariant, and what it says.                                        *)

\* No source, no sign-in.
LEMMA IdentityInit == ASSUME IdentityConstants, Identity!Init PROVE IdentityInv
<1>1. /\ now = 0 /\ visible = {} /\ tick = Identity!Idle /\ alerts = {} /\ evaluated = [e \in SignIns |-> 0]
      /\ sources = [s \in Source |-> [st |-> "none", cursor |-> Identity!NoCursor]]
  BY DEF Identity!Init
<1>2. Published /\ PollsOk /\ AlertsBacked
  BY <1>1 DEF Published, PollsOk, AlertsBacked, IdentityConstants
<1>3. Identity!NoCursor \in Nat
  BY DEF Identity!NoCursor, IdentityConstants
<1>4. SourceRows
  BY <1>1, <1>3 DEF SourceRows, SourceRow, Cursor
<1>5. Behind
  BY <1>1 DEF Behind
<1> QED
  BY <1>2, <1>4, <1>5 DEF IdentityInv

\* Every step keeps it.
LEMMA IdentityStep == ASSUME IdentityConstants, IdentityInv, [Identity!Next]_(Identity!vars) PROVE IdentityInv'
<1>1. CASE Identity!Tick \/ \E e \in SignIns : Identity!Appear(e)
  BY <1>1, ProviderKeeps
<1>2. CASE Identity!RunOnce \/ Identity!TickDies
  BY <1>2, StartKeeps
<1>3. CASE Identity!CommitTick
  BY <1>3, CommitTickKeeps
<1>4. ASSUME NEW s \in Identity!Polling, Identity!PollSource(s) \/ Identity!FetchFails(s) PROVE IdentityInv'
  BY <1>4, PollKeeps
<1>5. ASSUME NEW s \in Source, Identity!CreateSource(s) \/ Identity!UpdateSource(s) \/ Identity!DeleteSource(s) PROVE IdentityInv'
  <2>1. PICK from, to : Identity!SetStatus(s, from, to)
    BY <1>5 DEF Identity!CreateSource, Identity!UpdateSource, Identity!DeleteSource
  <2> QED
    BY <2>1, StatusKeeps
<1>6. CASE UNCHANGED Identity!vars
  <2>1. now' = now /\ visible' = visible /\ sources' = sources /\ tick' = tick /\ alerts' = alerts /\ evaluated' = evaluated
    BY <1>6 DEF Identity!vars
  <2>2. SameCursors
    BY <2>1 DEF SameCursors, IdentityInv, SourceRows
  <2>3. Published' /\ now <= now'
    BY <2>1 DEF IdentityInv, Published
  <2> QED
    BY <2>1, <2>2, <2>3, WorldKeeps
<1> QED
  BY <1>1, <1>2, <1>3, <1>4, <1>5, <1>6, Zenon DEF Identity!Next

\* So it is invariant.
LEMMA IdentityInvariant == ASSUME IdentityConstants PROVE Identity!Spec => []IdentityInv
<1>1. Identity!Init => IdentityInv
  BY IdentityInit
<1>2. IdentityInv /\ [Identity!Next]_(Identity!vars) => IdentityInv'
  BY IdentityStep
<1> QED
  BY <1>1, <1>2, PTL DEF Identity!Spec

\* The cursors of the identity monitor are times, and its alerts name sign-ins.
THEOREM IdentityMonitorTypes == ASSUME IdentityConstants PROVE Identity!Spec => []Identity!TypeOK
<1>1. IdentityInv => Identity!TypeOK
  <2> SUFFICES ASSUME IdentityInv PROVE Identity!TypeOK
    OBVIOUS
  <2>1. \A s \in Source : sources[s].cursor \in 0 .. MaxTime \cup {Identity!NoCursor}
    BY DEF IdentityInv, Published, SourceRows, SourceRow, Cursor, IdentityConstants
  <2>2. \A a \in alerts : a.events \subseteq {e.id : e \in SignIns}
    BY DEF IdentityInv, AlertsBacked
  <2> QED
    BY <2>1, <2>2 DEF Identity!TypeOK
<1> QED
  BY <1>1, IdentityInvariant, PTL

\* No sign-in is judged by two committed polls and no alert names one that was not, wherever
\* ticks fail or die and whatever the provider hands out on a page (_poll_source, _run_once).
THEOREM SignInsJudgedOnce == ASSUME IdentityConstants PROVE Identity!Spec => []Identity!JudgedOnce
<1>1. IdentityInv => Identity!JudgedOnce
  <2> SUFFICES ASSUME IdentityInv PROVE Identity!JudgedOnce
    OBVIOUS
  <2>1. \A e \in SignIns : evaluated[e] <= 1
    BY DEF IdentityInv, Behind
  <2>2. ASSUME NEW a \in alerts, NEW e \in SignIns, e.id \in a.events PROVE evaluated[e] = 1
    <3>1. PICK f \in SignIns : f.id = e.id /\ evaluated[f] = 1
      BY <2>2 DEF IdentityInv, AlertsBacked
    <3> QED
      BY <3>1 DEF IdentityConstants
  <2> QED
    BY <2>1, <2>2 DEF Identity!JudgedOnce
<1> QED
  BY <1>1, IdentityInvariant, PTL
=============================================================================
