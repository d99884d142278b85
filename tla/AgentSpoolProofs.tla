-------------------------- MODULE AgentSpoolProofs --------------------------
(***************************************************************************)
(* Proofs about AgentSpool, for any number of messages, sizes, capacities  *)
(* and failures: the spool stays numbered, ordered and within its budget,  *)
(* the manager receives messages in the order of their emission, and       *)
(* eviction drops the oldest entries first.                                *)
(*                                                                         *)
(* The argument: a message moves from the send channel to the manager      *)
(* through sections that never overtake each other - what the manager has, *)
(* the out channel, the replay list, the message in forward's hand, the    *)
(* spool, the send channel, what is still to be emitted.  Every message of *)
(* a section was emitted before every message of a later one.              *)
(***************************************************************************)
EXTENDS AgentSpool, FiniteSetTheorems, SequenceTheorems, WellFoundedInduction,
        NaturalsInduction, TLAPS

\* The messages of a channel, and that they are in the order of emission.
Elems(s) == {s[i] : i \in 1 .. Len(s)}

Inc(s) == \A i, j \in 1 .. Len(s) : i < j => s[i] < s[j]

\* Every message of A was emitted before every message of B.
Before(A, B) == \A a \in A, b \in B : a < b

SpoolMsgs == {f.msg : f \in spool}

\* What each state of the reconnect loop leaves behind in the sections it does
\* not use.
PhaseInv ==
    /\ client \in {"backoff", "dial"} => outq = <<>> /\ hand = <<>> /\ replay = <<>>
    /\ client = "replay" => hand = <<>> /\ spool = {}
    /\ client = "open" => hand = <<>> /\ replay = <<>> /\ spool = {}
    /\ client = "live" => replay = <<>> /\ spool = {}

\* Each channel is in the order of emission.
ChannelsInOrder == Inc(got) /\ Inc(outq) /\ Inc(replay) /\ Inc(sendq)

\* No section overtakes another.
SectionsInOrder ==
    /\ Before(Elems(got), Elems(outq)) /\ Before(Elems(got), Elems(replay))
    /\ Before(Elems(got), Elems(hand)) /\ Before(Elems(got), SpoolMsgs)
    /\ Before(Elems(got), Elems(sendq)) /\ Before(Elems(got), {next})
    /\ Before(Elems(outq), Elems(replay)) /\ Before(Elems(outq), Elems(hand))
    /\ Before(Elems(outq), Elems(sendq)) /\ Before(Elems(outq), {next})
    /\ Before(Elems(replay), Elems(sendq)) /\ Before(Elems(replay), {next})
    /\ Before(Elems(hand), Elems(sendq)) /\ Before(Elems(hand), {next})
    /\ Before(SpoolMsgs, Elems(sendq)) /\ Before(SpoolMsgs, {next})
    /\ Before(Elems(sendq), {next})

\* The inductive invariant.
SpoolInv ==
    /\ TypeOK /\ IsFiniteSet(spool) /\ SpoolOrder /\ SpoolBudget
    /\ PhaseInv /\ ChannelsInOrder /\ SectionsInOrder
-----------------------------------------------------------------------------
(* Channels.                                                               *)

\* Sending adds the message at the end.
LEMMA ElemsAppend ==
    ASSUME NEW s \in Seq(Msgs), NEW x \in Msgs
    PROVE  /\ Append(s, x) \in Seq(Msgs) /\ Len(Append(s, x)) = Len(s) + 1
           /\ Elems(Append(s, x)) = Elems(s) \cup {x}
<1>1. /\ Append(s, x) \in Seq(Msgs) /\ Len(Append(s, x)) = Len(s) + 1
      /\ \A i \in 1 .. Len(s) : Append(s, x)[i] = s[i]
      /\ Append(s, x)[Len(s) + 1] = x
  BY AppendProperties
<1> QED
  BY <1>1, LenProperties DEF Elems

\* Receiving takes the message at the front.
LEMMA ElemsTail ==
    ASSUME NEW s \in Seq(Msgs), s # <<>>
    PROVE  /\ Head(s) \in Msgs /\ Tail(s) \in Seq(Msgs) /\ Len(Tail(s)) < Len(s)
           /\ Elems(s) = {Head(s)} \cup Elems(Tail(s))
<1>1. /\ Head(s) \in Msgs /\ Tail(s) \in Seq(Msgs) /\ Len(Tail(s)) = Len(s) - 1
      /\ \A i \in 1 .. Len(Tail(s)) : Tail(s)[i] = s[i + 1]
      /\ Head(s) = s[1] /\ Len(s) \in Nat /\ Len(s) > 0
  BY HeadTailProperties, EmptySeq, LenProperties
<1>2. Elems(s) \subseteq {Head(s)} \cup Elems(Tail(s))
  <2> SUFFICES ASSUME NEW i \in 1 .. Len(s), i # 1 PROVE s[i] \in Elems(Tail(s))
    BY <1>1 DEF Elems
  <2>1. i - 1 \in 1 .. Len(Tail(s)) /\ s[i] = Tail(s)[i - 1]
    BY <1>1
  <2> QED
    BY <2>1 DEF Elems
<1>3. {Head(s)} \cup Elems(Tail(s)) \subseteq Elems(s)
  BY <1>1 DEF Elems
<1> QED
  BY <1>1, <1>2, <1>3

\* An empty channel holds no message.
LEMMA ElemsEmpty == Elems(<<>>) = {} /\ Inc(<<>>) /\ <<>> \in Seq(Msgs) /\ Len(<<>>) = 0
  BY EmptySeq DEF Elems, Inc

\* Messages are numbers.
LEMMA ElemsType == ASSUME NEW s \in Seq(Msgs) PROVE Elems(s) \subseteq Msgs
  BY ElementOfSeq DEF Elems

\* A channel that is sent only later messages stays in order.
LEMMA IncAppend ==
    ASSUME NEW s \in Seq(Msgs), NEW x \in Msgs, Inc(s), Before(Elems(s), {x})
    PROVE  Inc(Append(s, x))
<1>1. /\ Append(s, x) \in Seq(Msgs) /\ Len(Append(s, x)) = Len(s) + 1
      /\ \A i \in 1 .. Len(s) : Append(s, x)[i] = s[i]
      /\ Append(s, x)[Len(s) + 1] = x /\ Len(s) \in Nat
  BY AppendProperties, LenProperties
<1>2. \A i \in 1 .. Len(s) : s[i] < x
  BY DEF Before, Elems
<1> SUFFICES ASSUME NEW i \in 1 .. Len(s) + 1, NEW j \in 1 .. Len(s) + 1, i < j
             PROVE  Append(s, x)[i] < Append(s, x)[j]
  BY <1>1 DEF Inc
<1>3. i \in 1 .. Len(s)
  BY <1>1
<1>4. CASE j = Len(s) + 1
  BY <1>1, <1>2, <1>3, <1>4
<1>5. CASE j \in 1 .. Len(s)
  BY <1>1, <1>3, <1>5 DEF Inc
<1> QED
  BY <1>1, <1>4, <1>5

\* A channel in order stays in order when its oldest message is received.
LEMMA IncTail ==
    ASSUME NEW s \in Seq(Msgs), s # <<>>, Inc(s)
    PROVE  Inc(Tail(s)) /\ Before({Head(s)}, Elems(Tail(s)))
<1>1. /\ Tail(s) \in Seq(Msgs) /\ Len(Tail(s)) = Len(s) - 1
      /\ \A i \in 1 .. Len(Tail(s)) : Tail(s)[i] = s[i + 1]
      /\ Head(s) = s[1] /\ Len(s) \in Nat /\ Len(s) > 0
  BY HeadTailProperties, EmptySeq, LenProperties
<1>2. Inc(Tail(s))
  BY <1>1 DEF Inc
<1>3. \A i \in 1 .. Len(Tail(s)) : s[1] < Tail(s)[i]
  BY <1>1 DEF Inc
<1> QED
  BY <1>1, <1>2, <1>3 DEF Before, Elems
-----------------------------------------------------------------------------
(* The spool directory.                                                    *)

\* A nonempty set of file numbers has a least one.
LEMMA LeastNat ==
    ASSUME NEW T \in SUBSET Nat, T # {}
    PROVE  \E x \in T : \A y \in T : x <= y
<1>1. PICK x \in T : \A y \in T : ~ (<<y, x>> \in {p \in Nat \X Nat : p[1] < p[2]})
  BY NatLessThanWellFounded, WFMin, Zenon DEF OpToRel
<1>2. \A y \in T : ~ (y < x)
  BY <1>1, Zenon
<1> QED
  BY <1>2

\* Fewer files use no more bytes.
LEMMA BytesUsedMonotone ==
    ASSUME NEW S, IsFiniteSet(S), NEW T \in SUBSET S
    PROVE  BytesUsed(T) \in Nat /\ BytesUsed(S) \in Nat /\ BytesUsed(T) <= BytesUsed(S)
<1> DEFINE BigOf(fs) == {f \in fs : f.msg \in Big}
<1>1. IsFiniteSet(T) /\ Cardinality(T) <= Cardinality(S)
  BY FS_Subset
<1>2. IsFiniteSet(BigOf(S)) /\ BigOf(T) \in SUBSET BigOf(S)
  BY FS_Subset
<1>3. IsFiniteSet(BigOf(T)) /\ Cardinality(BigOf(T)) <= Cardinality(BigOf(S))
  BY <1>2, FS_Subset
<1>4. /\ Cardinality(S) \in Nat /\ Cardinality(T) \in Nat
      /\ Cardinality(BigOf(S)) \in Nat /\ Cardinality(BigOf(T)) \in Nat
  BY <1>1, <1>2, <1>3, FS_CardinalityType
<1> QED
  BY <1>1, <1>3, <1>4 DEF BytesUsed

\* Eviction leaves a directory within its budget, and with a file it keeps
\* every file numbered from there on.
LEMMA EvictSound ==
    ASSUME NEW fs \in SUBSET File, IsFiniteSet(fs)
    PROVE  /\ Evict(fs) \subseteq fs /\ IsFiniteSet(Evict(fs))
           /\ BytesUsed(Evict(fs)) <= MaxBytes
           /\ \A f \in Evict(fs), g \in fs : f.seq <= g.seq => g \in Evict(fs)
<1> DEFINE From(n) == {g \in fs : g.seq >= n}
<1>1. Evict(fs) \subseteq fs /\ \A f \in fs : f \in Evict(fs) <=> BytesUsed(From(f.seq)) <= MaxBytes
  BY DEF Evict
<1>2. IsFiniteSet(Evict(fs)) /\ \A n \in Nat : IsFiniteSet(From(n))
  BY <1>1, FS_Subset
<1>3. \A f \in fs : f.seq \in Nat
  BY DEF File
<1>4. BytesUsed(Evict(fs)) <= MaxBytes
  <2>1. CASE Evict(fs) = {}
    <3>1. {f \in {} : f.msg \in Big} = {}
      OBVIOUS
    <3>2. BytesUsed({}) = 0
      BY <3>1, FS_EmptySet DEF BytesUsed
    <3> QED
      BY <2>1, <3>2, AgentSpoolAssumption
  <2>2. CASE Evict(fs) # {}
    <3> DEFINE Nums == {f.seq : f \in Evict(fs)}
    <3>1. Nums \in SUBSET Nat /\ Nums # {}
      BY <1>1, <1>3, <2>2
    <3>2. PICK n \in Nums : \A m \in Nums : n <= m
      BY <3>1, LeastNat
    <3>3. PICK f \in Evict(fs) : f.seq = n
      BY <3>2
    <3>4. Evict(fs) \in SUBSET From(n)
      BY <1>1, <1>3, <3>1, <3>2
    <3>5. BytesUsed(From(n)) <= MaxBytes
      BY <1>1, <3>3
    <3>6. BytesUsed(Evict(fs)) <= BytesUsed(From(n)) /\ BytesUsed(Evict(fs)) \in Nat
          /\ BytesUsed(From(n)) \in Nat
      BY <1>2, <3>1, <3>4, BytesUsedMonotone
    <3> QED
      BY <3>5, <3>6, AgentSpoolAssumption
  <2> QED
    BY <2>1, <2>2
<1>5. ASSUME NEW f \in Evict(fs), NEW g \in fs, f.seq <= g.seq PROVE g \in Evict(fs)
  <2>1. f.seq \in Nat /\ g.seq \in Nat
    BY <1>1, <1>3
  <2>2. From(g.seq) \in SUBSET From(f.seq)
    BY <1>3, <1>5, <2>1
  <2>3. /\ BytesUsed(From(g.seq)) <= BytesUsed(From(f.seq))
        /\ BytesUsed(From(g.seq)) \in Nat /\ BytesUsed(From(f.seq)) \in Nat
    BY <1>2, <2>1, <2>2, BytesUsedMonotone
  <2>4. BytesUsed(From(f.seq)) <= MaxBytes
    BY <1>1
  <2> QED
    BY <1>1, <2>3, <2>4, AgentSpoolAssumption
<1> QED
  BY <1>1, <1>2, <1>4, <1>5

\* After a restart numbering continues above every file that survived.
LEMMA FirstFreeIsFree ==
    ASSUME TypeOK, NEW fs \in SUBSET File, \A f \in fs : f.seq < nextSeq
    PROVE  /\ FirstFree(fs) \in Nat \ {0}
           /\ \A f \in fs : f.seq < FirstFree(fs)
<1> DEFINE Free == {n \in 1 .. nextSeq : \A f \in fs : f.seq < n}
<1>1. nextSeq \in Nat \ {0} /\ \A f \in fs : f.seq \in Nat \ {0}
  BY DEF TypeOK, File
<1>2. Free \in SUBSET Nat /\ Free # {}
  BY <1>1
<1>3. PICK n \in Free : \A m \in Free : n <= m
  BY <1>2, LeastNat
<1>4. n = 1 \/ \E f \in fs : f.seq = n - 1
  <2> SUFFICES ASSUME n # 1 PROVE \E f \in fs : f.seq = n - 1
    OBVIOUS
  <2>1. n - 1 \in 1 .. nextSeq /\ ~ (n - 1 \in Free)
    BY <1>1, <1>3
  <2>2. PICK f \in fs : ~ (f.seq < n - 1)
    BY <2>1
  <2> QED
    BY <1>1, <1>3, <2>1, <2>2
<1>5. \E m \in 1 .. nextSeq :
        (\A f \in fs : f.seq < m) /\ (m = 1 \/ \E f \in fs : f.seq = m - 1)
  BY <1>3, <1>4
<1>6. FirstFree(fs) \in 1 .. nextSeq /\ \A f \in fs : f.seq < FirstFree(fs)
  BY <1>5, Zenon DEF FirstFree
<1> QED
  BY <1>1, <1>6

\* drain lists the messages of the files in the order of their emission.
LEMMA DrainInOrder ==
    ASSUME TypeOK, SpoolOrder, IsFiniteSet(spool), NEW ms, InSeqOrder(ms, spool)
    PROVE  ms \in Seq(Msgs) /\ Inc(ms) /\ Elems(ms) \subseteq SpoolMsgs
<1>1. Cardinality(spool) \in Nat
  BY FS_CardinalityType
<1>2. PICK fl \in [1 .. Cardinality(spool) -> spool] :
         /\ \A i, j \in 1 .. Cardinality(spool) : i < j => fl[i].seq < fl[j].seq
         /\ ms = [i \in 1 .. Cardinality(spool) |-> fl[i].msg]
  BY DEF InSeqOrder
<1>3. \A i \in 1 .. Cardinality(spool) : fl[i] \in spool /\ fl[i].msg \in Msgs
  BY <1>2 DEF TypeOK, File
<1>4. ms \in Seq(Msgs) /\ Len(ms) = Cardinality(spool)
  BY <1>1, <1>2, <1>3
<1>5. Inc(ms)
  BY <1>2, <1>3, <1>4 DEF Inc, SpoolOrder
<1>6. Elems(ms) \subseteq SpoolMsgs
  BY <1>2, <1>3, <1>4 DEF Elems, SpoolMsgs
<1> QED
  BY <1>4, <1>5, <1>6
-----------------------------------------------------------------------------
(* The invariant.                                                          *)

\* At the start there is no message anywhere.
LEMMA SpoolInvInit == Init => SpoolInv
<1> SUFFICES ASSUME Init PROVE SpoolInv
  OBVIOUS
<1> USE DEF Init
<1>1. TypeOK
  BY AgentSpoolAssumption, ElemsEmpty DEF TypeOK
<1>2. IsFiniteSet(spool) /\ SpoolOrder
  BY FS_EmptySet DEF SpoolOrder
<1>3. SpoolBudget
  <2>1. {f \in {} : f.msg \in Big} = {}
    OBVIOUS
  <2> QED
    BY <2>1, FS_EmptySet, AgentSpoolAssumption DEF SpoolBudget, BytesUsed
<1>4. PhaseInv /\ ChannelsInOrder
  BY ElemsEmpty DEF PhaseInv, ChannelsInOrder
<1>5. SectionsInOrder
  BY ElemsEmpty DEF SectionsInOrder, Before, SpoolMsgs
<1> QED
  BY <1>1, <1>2, <1>3, <1>4, <1>5 DEF SpoolInv

\* What stays true of the directory when a step does not touch it.
LEMMA SpoolUntouched ==
    ASSUME SpoolInv, UNCHANGED <<spool, nextSeq>>
    PROVE  IsFiniteSet(spool)' /\ SpoolOrder' /\ SpoolBudget'
  BY DEF SpoolInv, SpoolOrder, SpoolBudget, BytesUsed

\* A producer adds the newest message to the last section.
LEMMA EmitKeeps == ASSUME SpoolInv, Emit PROVE SpoolInv'
<1> USE DEF SpoolInv, Emit
<1>1. next \in Msgs /\ next + 1 \in 1 .. N + 1 /\ Len(sendq) \in Nat
  BY AgentSpoolAssumption, LenProperties DEF TypeOK, Msgs
<1>2. /\ sendq' \in Seq(Msgs) /\ Len(sendq') = Len(sendq) + 1
      /\ Elems(sendq') = Elems(sendq) \cup {next}
  BY <1>1, ElemsAppend DEF TypeOK
<1>3. Inc(sendq')
  BY <1>1, IncAppend DEF TypeOK, ChannelsInOrder, SectionsInOrder
<1>4. TypeOK'
  BY <1>1, <1>2, AgentSpoolAssumption DEF TypeOK
<1>5. PhaseInv' /\ ChannelsInOrder'
  BY <1>3 DEF PhaseInv, ChannelsInOrder
<1>6. /\ Elems(sendq) \subseteq Nat /\ Elems(got) \subseteq Nat /\ Elems(outq) \subseteq Nat
      /\ Elems(replay) \subseteq Nat /\ Elems(hand) \subseteq Nat /\ SpoolMsgs \subseteq Nat
  BY ElemsType DEF TypeOK, Msgs, SpoolMsgs, File
<1>7. SectionsInOrder'
  <2>1. SpoolMsgs' = SpoolMsgs
    BY DEF SpoolMsgs
  <2>2. /\ Elems(got)' = Elems(got) /\ Elems(outq)' = Elems(outq)
        /\ Elems(replay)' = Elems(replay) /\ Elems(hand)' = Elems(hand)
        /\ Elems(sendq)' = Elems(sendq) \cup {next} /\ next' = next + 1 /\ next \in Nat
    BY <1>1, <1>2 DEF Msgs
  <2>3. ASSUME NEW A, A \subseteq Nat, NEW B, Before(A, B), Before(A, {next})
        PROVE  Before(A, B \cup {next}) /\ Before(A, {next + 1})
    BY <2>2, <2>3 DEF Before
  <2>4. Before(Elems(sendq)', {next'})
    BY <1>6, <2>2 DEF SectionsInOrder, Before
  <2> HIDE DEF SpoolInv, Emit
  <2>5. SectionsInOrder
    BY DEF SpoolInv
  <2>6. ASSUME NEW A \in {Elems(got), Elems(outq), Elems(replay), Elems(hand), SpoolMsgs}
        PROVE  Before(A, Elems(sendq)') /\ Before(A, {next'})
    <3>1. Before(A, Elems(sendq)) /\ Before(A, {next}) /\ A \subseteq Nat
      BY <1>6, <2>5 DEF SectionsInOrder
    <3>2. Before(A, Elems(sendq) \cup {next}) /\ Before(A, {next + 1})
      BY <2>3, <3>1
    <3> QED
      BY <2>2, <3>2
  <2> QED
    BY <2>1, <2>2, <2>4, <2>5, <2>6 DEF SectionsInOrder
<1> QED
  BY <1>4, <1>5, <1>7, SpoolUntouched

\* The oldest waiting message becomes the newest file, and the eviction that
\* follows removes files only.
LEMMA SpoolPushKeeps == ASSUME SpoolInv, SpoolPush PROVE SpoolInv'
<1> USE DEF SpoolInv, SpoolPush
<1> DEFINE new == [seq |-> nextSeq, msg |-> Head(sendq)]
           fs == spool \cup {new}
<1>1. /\ Head(sendq) \in Msgs /\ sendq' \in Seq(Msgs) /\ Len(sendq') < Len(sendq)
      /\ Elems(sendq) = {Head(sendq)} \cup Elems(sendq')
  BY ElemsTail DEF TypeOK
<1>2. Inc(sendq') /\ Before({Head(sendq)}, Elems(sendq'))
  BY IncTail DEF TypeOK, ChannelsInOrder
<1>3. fs \in SUBSET File /\ IsFiniteSet(fs)
  <2>1. new \in File
    BY <1>1 DEF TypeOK, File
  <2> QED
    BY <2>1, FS_AddElement DEF TypeOK
<1>4. spool' \subseteq fs /\ IsFiniteSet(spool') /\ BytesUsed(spool') <= MaxBytes
  BY <1>3, EvictSound
<1>5. TypeOK'
  <2>1. Len(sendq') <= ChanCap
    BY <1>1, LenProperties, AgentSpoolAssumption DEF TypeOK
  <2>2. spool' \subseteq File
    BY <1>3, <1>4
  <2>3. nextSeq' \in Nat \ {0} /\ UNCHANGED <<next, client, replay, hand, outq, got, breaks>>
    BY DEF TypeOK
  <2>4. TypeOK
    OBVIOUS
  <2> HIDE DEF SpoolInv, SpoolPush
  <2> QED
    BY <1>1, <2>1, <2>2, <2>3, <2>4 DEF TypeOK
<1>6. SpoolOrder'
  <2>1. \A f \in spool : f.seq < nextSeq /\ f.msg < Head(sendq)
    BY <1>1 DEF SpoolOrder, SectionsInOrder, Before, SpoolMsgs
  <2>2. \A f \in spool : f.seq \in Nat /\ f.msg \in Nat
    BY DEF TypeOK, File, Msgs
  <2>3. \A f \in fs : f \in spool \/ f = new
    OBVIOUS
  <2>4. new.seq = nextSeq /\ new.msg = Head(sendq) /\ nextSeq \in Nat /\ nextSeq' = nextSeq + 1
    BY DEF TypeOK
  <2>5. \A f, g \in fs : f.seq = g.seq => f = g
    BY <2>1, <2>2, <2>3, <2>4 DEF SpoolOrder
  <2>6. \A f, g \in fs : f.seq < g.seq => f.msg < g.msg
    BY <2>1, <2>2, <2>3, <2>4 DEF SpoolOrder
  <2>7. \A f \in fs : f.seq < nextSeq'
    BY <2>1, <2>2, <2>3, <2>4
  <2> QED
    BY <1>4, <2>5, <2>6, <2>7 DEF SpoolOrder
<1>7. SpoolBudget'
  BY <1>4 DEF SpoolBudget, BytesUsed
<1>8. PhaseInv' /\ ChannelsInOrder'
  BY <1>2 DEF PhaseInv, ChannelsInOrder
<1>9. SectionsInOrder'
  <2>1. SpoolMsgs' \subseteq SpoolMsgs \cup {Head(sendq)}
    <3> SUFFICES ASSUME NEW f \in spool' PROVE f.msg \in SpoolMsgs \cup {Head(sendq)}
      BY DEF SpoolMsgs
    <3>1. f \in spool \/ f = new
      BY <1>4
    <3> QED
      BY <3>1 DEF SpoolMsgs
  <2> QED
    BY <1>1, <1>2, <2>1 DEF SectionsInOrder, Before
<1> QED
  BY <1>4, <1>5, <1>6, <1>7, <1>8, <1>9

\* A message whose file cannot be written is dropped.
LEMMA PushFailsKeeps == ASSUME SpoolInv, PushFails PROVE SpoolInv'
<1> USE DEF SpoolInv, PushFails
<1>1. /\ sendq' \in Seq(Msgs) /\ Len(sendq') < Len(sendq)
      /\ Elems(sendq) = {Head(sendq)} \cup Elems(sendq')
  BY ElemsTail DEF TypeOK
<1>2. Inc(sendq')
  BY IncTail DEF TypeOK, ChannelsInOrder
<1>3. TypeOK'
  BY <1>1, LenProperties, AgentSpoolAssumption DEF TypeOK
<1>4. \A f \in spool : f.seq \in Nat
  BY DEF TypeOK, File
<1>5. SpoolOrder' /\ SpoolBudget' /\ IsFiniteSet(spool')
  BY <1>4 DEF SpoolOrder, SpoolBudget, BytesUsed, TypeOK
<1>6. PhaseInv' /\ ChannelsInOrder'
  BY <1>2 DEF PhaseInv, ChannelsInOrder
<1>7. SectionsInOrder'
  BY <1>1 DEF SectionsInOrder, Before, SpoolMsgs
<1> QED
  BY <1>3, <1>5, <1>6, <1>7

\* Steps that only move the reconnect loop on.
LEMMA LoopKeeps ==
    ASSUME SpoolInv, BackoffEnds \/ DialFails \/ OpenStream \/ StreamUp
    PROVE  SpoolInv'
<1> USE DEF SpoolInv, BackoffEnds, DialFails, OpenStream, StreamUp
<1>1. TypeOK'
  BY AgentSpoolAssumption DEF TypeOK
<1>2. PhaseInv' /\ ChannelsInOrder'
  BY DEF PhaseInv, ChannelsInOrder
<1>3. SectionsInOrder'
  BY DEF SectionsInOrder, SpoolMsgs
<1> QED
  BY <1>1, <1>2, <1>3, SpoolUntouched

\* The whole spool becomes the replay list.
LEMMA DialUpKeeps == ASSUME SpoolInv, DialUp PROVE SpoolInv'
<1> USE DEF SpoolInv, DialUp
<1>1. InSeqOrder(replay', spool)
  OBVIOUS
<1>2. replay' \in Seq(Msgs) /\ Inc(replay') /\ Elems(replay') \subseteq SpoolMsgs
  BY <1>1, DrainInOrder
<1>3. TypeOK'
  BY <1>2 DEF TypeOK
<1>4. IsFiniteSet(spool') /\ SpoolOrder'
  BY FS_EmptySet DEF SpoolOrder
<1>5. SpoolBudget'
  <2>1. {f \in {} : f.msg \in Big} = {}
    OBVIOUS
  <2> QED
    BY <2>1, FS_EmptySet, AgentSpoolAssumption DEF SpoolBudget, BytesUsed
<1>6. PhaseInv' /\ ChannelsInOrder'
  BY <1>2 DEF PhaseInv, ChannelsInOrder
<1>7. SectionsInOrder'
  <2>1. Elems(outq) = {} /\ SpoolMsgs' = {}
    BY ElemsEmpty DEF PhaseInv, SpoolMsgs
  <2>2. Elems(hand) = {}
    BY ElemsEmpty DEF PhaseInv
  <2> QED
    BY <1>2, <2>1, <2>2 DEF SectionsInOrder, Before
<1> QED
  BY <1>3, <1>4, <1>5, <1>6, <1>7

\* The oldest message to replay becomes the newest of the out channel.
LEMMA ReplayKeeps == ASSUME SpoolInv, Replay PROVE SpoolInv'
<1> USE DEF SpoolInv, Replay
<1>1. /\ Head(replay) \in Msgs /\ replay' \in Seq(Msgs)
      /\ Elems(replay) = {Head(replay)} \cup Elems(replay')
  BY ElemsTail DEF TypeOK
<1>2. Inc(replay') /\ Before({Head(replay)}, Elems(replay'))
  BY IncTail DEF TypeOK, ChannelsInOrder
<1>3. Before(Elems(outq), {Head(replay)})
  BY <1>1 DEF SectionsInOrder, Before
<1>4. /\ outq' \in Seq(Msgs) /\ Len(outq') = Len(outq) + 1
      /\ Elems(outq') = Elems(outq) \cup {Head(replay)}
  BY <1>1, ElemsAppend DEF TypeOK
<1>5. Inc(outq')
  BY <1>1, <1>3, IncAppend DEF TypeOK, ChannelsInOrder
<1>6. TypeOK'
  BY <1>1, <1>4, LenProperties, AgentSpoolAssumption DEF TypeOK
<1>7. PhaseInv' /\ ChannelsInOrder'
  BY <1>2, <1>5 DEF PhaseInv, ChannelsInOrder
<1>8. SectionsInOrder'
  <2>1. Elems(hand) = {} /\ SpoolMsgs' = SpoolMsgs
    BY ElemsEmpty DEF PhaseInv, SpoolMsgs
  <2> QED
    BY <1>1, <1>2, <1>3, <1>4, <2>1 DEF SectionsInOrder, Before
<1> QED
  BY <1>6, <1>7, <1>8, SpoolUntouched

\* The manager receives the oldest message on its way.
LEMMA DeliverKeeps == ASSUME SpoolInv, Deliver PROVE SpoolInv'
<1> USE DEF SpoolInv, Deliver
<1>1. /\ Head(outq) \in Msgs /\ outq' \in Seq(Msgs) /\ Len(outq') < Len(outq)
      /\ Elems(outq) = {Head(outq)} \cup Elems(outq')
  BY ElemsTail DEF TypeOK
<1>2. Inc(outq') /\ Before({Head(outq)}, Elems(outq'))
  BY IncTail DEF TypeOK, ChannelsInOrder
<1>3. Before(Elems(got), {Head(outq)})
  BY <1>1 DEF SectionsInOrder, Before
<1>4. got' \in Seq(Msgs) /\ Elems(got') = Elems(got) \cup {Head(outq)}
  BY <1>1, ElemsAppend DEF TypeOK
<1>5. Inc(got')
  BY <1>1, <1>3, IncAppend DEF TypeOK, ChannelsInOrder
<1>6. TypeOK'
  <2>1. Len(outq') <= ChanCap
    BY <1>1, LenProperties, AgentSpoolAssumption DEF TypeOK
  <2> QED
    BY <1>1, <1>4, <2>1 DEF TypeOK
<1>7. PhaseInv' /\ ChannelsInOrder'
  BY <1>2, <1>5 DEF PhaseInv, ChannelsInOrder
<1>8. SectionsInOrder'
  <2>1. Elems(replay) = {} /\ SpoolMsgs = {} /\ SpoolMsgs' = {}
    BY ElemsEmpty DEF PhaseInv, SpoolMsgs
  <2> QED
    BY <1>1, <1>2, <1>3, <1>4, <2>1 DEF SectionsInOrder, Before
<1> QED
  BY <1>6, <1>7, <1>8, SpoolUntouched

\* A channel of one message.
LEMMA ElemsOne ==
    ASSUME NEW x \in Msgs
    PROVE  <<x>> \in Seq(Msgs) /\ Len(<<x>>) = 1 /\ Elems(<<x>>) = {x}
  BY DEF Elems

\* What forward holds goes to the end of the out channel.
LEMMA ElemsConcatOne ==
    ASSUME NEW s \in Seq(Msgs), NEW h \in Seq(Msgs), h # <<>>, Len(h) <= 1
    PROVE  /\ s \o h = Append(s, Head(h)) /\ Elems(h) = {Head(h)}
           /\ Head(h) \in Msgs
<1>1. Len(h) = 1 /\ Head(h) = h[1] /\ Head(h) \in Msgs /\ Len(s) \in Nat
  <2>1. Len(h) \in Nat \ {0} /\ Len(s) \in Nat
    BY EmptySeq, LenProperties
  <2>2. Head(h) \in Msgs /\ Head(h) = h[1]
    BY HeadTailProperties
  <2>3. \A n \in Nat \ {0} : n <= 1 => n = 1
    OBVIOUS
  <2> QED
    BY <2>1, <2>2, <2>3, Zenon
<1>2. /\ s \o h \in Seq(Msgs) /\ Len(s \o h) = Len(s) + 1
      /\ \A i \in 1 .. Len(s) + 1 :
            (s \o h)[i] = IF i <= Len(s) THEN s[i] ELSE h[i - Len(s)]
  BY <1>1, ConcatProperties
<1>3. /\ Append(s, Head(h)) \in Seq(Msgs) /\ Len(Append(s, Head(h))) = Len(s) + 1
      /\ \A i \in 1 .. Len(s) : Append(s, Head(h))[i] = s[i]
      /\ Append(s, Head(h))[Len(s) + 1] = Head(h)
  BY <1>1, AppendProperties
<1>4. \A i \in 1 .. Len(s) + 1 : (s \o h)[i] = Append(s, Head(h))[i]
  BY <1>1, <1>2, <1>3
<1>5. s \o h = Append(s, Head(h))
  BY <1>2, <1>3, <1>4, SeqEqual
<1>6. Elems(h) = {Head(h)}
  BY <1>1 DEF Elems
<1> QED
  BY <1>1, <1>5, <1>6

\* forward takes the oldest message of the send channel in hand.
LEMMA ReceiveKeeps == ASSUME SpoolInv, Receive PROVE SpoolInv'
<1> USE DEF SpoolInv, Receive
<1>1. /\ Head(sendq) \in Msgs /\ sendq' \in Seq(Msgs) /\ Len(sendq') < Len(sendq)
      /\ Elems(sendq) = {Head(sendq)} \cup Elems(sendq')
  BY ElemsTail DEF TypeOK
<1>2. Inc(sendq') /\ Before({Head(sendq)}, Elems(sendq'))
  BY IncTail DEF TypeOK, ChannelsInOrder
<1>3. hand' \in Seq(Msgs) /\ Len(hand') = 1 /\ Elems(hand') = {Head(sendq)}
  BY <1>1, ElemsOne
<1>4. TypeOK'
  <2>1. Len(sendq') <= ChanCap
    BY <1>1, LenProperties, AgentSpoolAssumption DEF TypeOK
  <2> QED
    BY <1>1, <1>3, <2>1 DEF TypeOK
<1>5. PhaseInv' /\ ChannelsInOrder'
  BY <1>2 DEF PhaseInv, ChannelsInOrder
<1>6. SectionsInOrder'
  <2>1. SpoolMsgs = {} /\ SpoolMsgs' = {}
    BY DEF PhaseInv, SpoolMsgs
  <2> QED
    BY <1>1, <1>2, <1>3, <2>1 DEF SectionsInOrder, Before
<1> QED
  BY <1>4, <1>5, <1>6, SpoolUntouched

\* forward passes on the message in its hand; only a live stream has one.
LEMMA ForwardKeeps == ASSUME SpoolInv, Forward PROVE SpoolInv'
<1> USE DEF SpoolInv, Forward
<1>1. /\ outq' = Append(outq, Head(hand)) /\ Elems(hand) = {Head(hand)}
      /\ Head(hand) \in Msgs
  BY ElemsConcatOne DEF TypeOK
<1>2. Before(Elems(outq), {Head(hand)})
  BY <1>1 DEF SectionsInOrder
<1>3. /\ outq' \in Seq(Msgs) /\ Len(outq') = Len(outq) + 1
      /\ Elems(outq') = Elems(outq) \cup {Head(hand)}
  BY <1>1, ElemsAppend DEF TypeOK
<1>4. Inc(outq')
  BY <1>1, <1>2, IncAppend DEF TypeOK, ChannelsInOrder
<1>5. TypeOK'
  <2>1. Len(outq') <= ChanCap
    BY <1>3, LenProperties, AgentSpoolAssumption DEF TypeOK
  <2> QED
    BY <1>3, <2>1, ElemsEmpty DEF TypeOK
<1>6. client = "live" /\ replay = <<>> /\ spool = {}
  BY DEF PhaseInv, TypeOK
<1>7. PhaseInv' /\ ChannelsInOrder'
  BY <1>4, <1>6 DEF PhaseInv, ChannelsInOrder
<1>8. SectionsInOrder'
  <2>1. Elems(replay) = {} /\ Elems(hand') = {} /\ SpoolMsgs = {} /\ SpoolMsgs' = {}
    BY <1>6, ElemsEmpty DEF SpoolMsgs
  <2> QED
    BY <1>1, <1>2, <1>3, <2>1 DEF SectionsInOrder, Before
<1> QED
  BY <1>5, <1>7, <1>8, SpoolUntouched

\* A broken stream drops what its channels hold.
LEMMA StreamBreaksKeeps == ASSUME SpoolInv, StreamBreaks PROVE SpoolInv'
<1> USE DEF SpoolInv, StreamBreaks
<1>1. TypeOK'
  BY ElemsEmpty, AgentSpoolAssumption DEF TypeOK
<1>2. PhaseInv' /\ ChannelsInOrder'
  BY ElemsEmpty DEF PhaseInv, ChannelsInOrder
<1>3. SectionsInOrder'
  <2>1. Elems(outq') = {} /\ Elems(hand') = {} /\ SpoolMsgs' = SpoolMsgs
    BY ElemsEmpty DEF SpoolMsgs
  <2> QED
    BY <2>1 DEF SectionsInOrder, Before
<1> QED
  BY <1>1, <1>2, <1>3, SpoolUntouched

\* A restart keeps the files and what the manager has, and numbers on.
LEMMA RestartKeeps == ASSUME SpoolInv, Restart PROVE SpoolInv'
<1> USE DEF SpoolInv, Restart
<1>1. nextSeq' \in Nat \ {0} /\ \A f \in spool : f.seq < nextSeq'
  BY FirstFreeIsFree DEF SpoolOrder, TypeOK
<1>2. TypeOK'
  BY <1>1, ElemsEmpty, AgentSpoolAssumption DEF TypeOK
<1>3. IsFiniteSet(spool') /\ SpoolOrder' /\ SpoolBudget'
  BY <1>1 DEF SpoolOrder, SpoolBudget, BytesUsed
<1>4. PhaseInv' /\ ChannelsInOrder'
  BY ElemsEmpty DEF PhaseInv, ChannelsInOrder
<1>5. SectionsInOrder'
  <2>1. /\ Elems(sendq') = {} /\ Elems(replay') = {}
        /\ Elems(outq') = {} /\ Elems(hand') = {} /\ SpoolMsgs' = SpoolMsgs
    BY ElemsEmpty DEF SpoolMsgs
  <2> QED
    BY <2>1 DEF SectionsInOrder, Before
<1> QED
  BY <1>2, <1>3, <1>4, <1>5

\* Every step of the agent keeps the invariant.
LEMMA SpoolInvStep == ASSUME SpoolInv, [Next]_vars PROVE SpoolInv'
<1>1. CASE UNCHANGED vars
  BY <1>1 DEF vars, SpoolInv, TypeOK, SpoolOrder, SpoolBudget, BytesUsed, PhaseInv,
              ChannelsInOrder, SectionsInOrder, SpoolMsgs
<1> QED
  BY <1>1, EmitKeeps, SpoolPushKeeps, PushFailsKeeps, LoopKeeps, DialUpKeeps,
     ReplayKeeps, DeliverKeeps, ReceiveKeeps, ForwardKeeps, StreamBreaksKeeps,
     RestartKeeps DEF Next, Client

\* SpoolInv holds in every reachable state.
LEMMA SpoolInvariant == Spec => []SpoolInv
  BY SpoolInvInit, SpoolInvStep, PTL DEF Spec
-----------------------------------------------------------------------------
(* The theorems.                                                           *)

\* For any number of messages of any sizes, any channel capacity, budget and
\* number of failures: the channels stay within their capacity, no two spool
\* files share a number, file numbers follow the order of emission even after
\* a restart renumbers, and the directory stays within its budget.
THEOREM SpoolStaysSound == Spec => []SpoolSound
<1>1. SpoolInv => SpoolSound
  BY DEF SpoolInv, SpoolSound
<1> QED
  BY <1>1, SpoolInvariant, PTL

\* The manager receives messages in the order the agent emitted them and none
\* of them twice, over every broken stream, failed dial, eviction and restart.
THEOREM ManagerOrderHolds == Spec => []ManagerOrder
<1>1. SpoolInv => ManagerOrder
  BY DEF SpoolInv, ChannelsInOrder, Inc, ManagerOrder
<1> QED
  BY <1>1, SpoolInvariant, PTL

\* What a step does to the directory, apart from drain: nothing, or one push.
\* A file that survives keeps every newer one, and a push that leaves any
\* file leaves the one it wrote.
LEMMA StepDropsOldest ==
    ASSUME SpoolInv, [Next]_vars
    PROVE  \/ /\ \A f, g \in spool : f.seq < g.seq /\ f \in spool' => g \in spool'
              /\ spool' # {} /\ sendq # <<>> /\ sendq' = Tail(sendq) /\ breaks' = breaks
                 => \E f \in spool' : f.msg = Head(sendq)
           \/ UNCHANGED vars
<1> DEFINE new == [seq |-> nextSeq, msg |-> Head(sendq)]
           fs == spool \cup {new}
<1>1. CASE SpoolPush
  <2>1. fs \in SUBSET File /\ IsFiniteSet(fs)
    <3>1. new \in File
      BY <1>1, ElemsTail DEF SpoolPush, SpoolInv, TypeOK, File
    <3> QED
      BY <3>1, FS_AddElement DEF SpoolInv, TypeOK
  <2>2. /\ spool' \subseteq fs
        /\ \A f \in spool', g \in fs : f.seq <= g.seq => g \in spool'
    BY <1>1, <2>1, EvictSound DEF SpoolPush
  <2>3. \A f \in spool : f.seq \in Nat /\ f.seq < nextSeq
    BY DEF SpoolInv, SpoolOrder, TypeOK, File
  <2>4. \A f, g \in spool : f.seq < g.seq /\ f \in spool' => g \in spool'
    BY <2>2, <2>3
  <2>5. ASSUME spool' # {} PROVE \E f \in spool' : f.msg = Head(sendq)
    <3>1. PICK f \in spool' : TRUE
      BY <2>5
    <3>2. nextSeq \in Nat /\ new.seq = nextSeq /\ new.msg = Head(sendq)
      BY DEF SpoolInv, TypeOK
    <3>3. f.seq <= new.seq
      BY <2>2, <2>3, <3>2
    <3>4. new \in spool'
      BY <2>2, <3>3
    <3> QED
      BY <3>2, <3>4
  <2> QED
    BY <2>4, <2>5
<1>2. CASE DialUp
  BY <1>2 DEF DialUp
<1>3. CASE Receive
  BY <1>3 DEF Receive, SpoolInv, PhaseInv
<1>4. ASSUME Emit \/ BackoffEnds \/ Replay \/ OpenStream \/ StreamUp \/ Forward \/ Deliver
      PROVE  UNCHANGED <<spool, breaks>> /\ (sendq # <<>> => sendq' # Tail(sendq))
  <2>1. CASE Emit
    <3>1. next \in Msgs
      BY <2>1, AgentSpoolAssumption DEF Emit, SpoolInv, TypeOK, Msgs
    <3>2. Len(sendq') = Len(sendq) + 1 /\ Len(sendq) \in Nat
      BY <2>1, <3>1, AppendProperties, LenProperties DEF Emit, SpoolInv, TypeOK
    <3>3. sendq # <<>> => Len(Tail(sendq)) = Len(sendq) - 1
      BY HeadTailProperties DEF SpoolInv, TypeOK
    <3> QED
      BY <2>1, <3>2, <3>3 DEF Emit
  <2>2. CASE BackoffEnds \/ Replay \/ OpenStream \/ StreamUp \/ Forward \/ Deliver
    <3>1. UNCHANGED <<sendq, spool, breaks>>
      BY <2>2 DEF BackoffEnds, Replay, OpenStream, StreamUp, Forward, Deliver
    <3>2. sendq # <<>> => Len(Tail(sendq)) = Len(sendq) - 1 /\ Len(sendq) \in Nat
      BY HeadTailProperties, LenProperties DEF SpoolInv, TypeOK
    <3> QED
      BY <3>1, <3>2
  <2> QED
    BY <1>4, <2>1, <2>2
<1>5. ASSUME PushFails \/ DialFails \/ StreamBreaks \/ Restart
      PROVE  spool' = spool /\ breaks' # breaks
  BY <1>5 DEF PushFails, DialFails, StreamBreaks, Restart, SpoolInv, TypeOK
<1> QED
  BY <1>1, <1>2, <1>3, <1>4, <1>5 DEF Next, Client

\* Drop-oldest: whatever a step removes from the spool it keeps nothing older,
\* and a push that leaves anything leaves the entry just written.
THEOREM EvictionDropsOldest == Spec => DropsOldest
  BY SpoolInvariant, StepDropsOldest, PTL DEF Spec, DropsOldest
=============================================================================
