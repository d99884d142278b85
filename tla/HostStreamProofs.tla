-------------------------- MODULE HostStreamProofs --------------------------
(***************************************************************************)
(* Proofs about HostStream: its type invariant, and that a host in its     *)
(* bidi loop shows ONLINE unless its status was written after it was read. *)
(***************************************************************************)
EXTENDS HostStream, TLAPS

\* HostStream keeps every variable, the status column included, in its type
\* through every handler step, PATCH and crash.
THEOREM HostStreamTypes == Spec => []TypeOK
<1>1. Init => TypeOK
  BY DEF Init, TypeOK, HostStatus, StreamState
<1>2. TypeOK /\ [Next]_vars => TypeOK'
  <2> SUFFICES ASSUME TypeOK, [Next]_vars PROVE TypeOK'
    OBVIOUS
  <2> USE DEF TypeOK, HostStatus, StreamState
  <2>1. ASSUME NEW s \in Streams, NEW fp \in Certs \cup {None},
               OpenRejected(s, fp) \/ OpenAdmitted(s, fp)
        PROVE TypeOK'
    BY <2>1 DEF OpenRejected, OpenAdmitted
  <2>2. ASSUME NEW s \in Streams, Handler(s) PROVE TypeOK'
    <3>1. CASE CommitOnline(s) \/ EnterLoop(s) \/ CloseRead(s)
      BY <3>1 DEF CommitOnline, EnterLoop, CloseRead, OrmWrite
    <3>2. CASE CommitOffline(s)
      BY <3>2 DEF CommitOffline, OrmWrite, Running
    <3> QED
      BY <2>2, <3>1, <3>2 DEF Handler
  <2>3. ASSUME NEW s \in Streams, AbandonOpen(s) \/ StreamEnds(s) PROVE TypeOK'
    BY <2>3 DEF AbandonOpen, StreamEnds
  <2>4. ASSUME NEW s \in Streams, Heartbeat(s) PROVE TypeOK'
    BY <2>4 DEF Heartbeat
  <2>5. ASSUME NEW st \in HostStatus, Patch(st) PROVE TypeOK'
    BY <2>5 DEF Patch, Running
  <2>6. CASE ManagerCrash
    BY <2>6 DEF ManagerCrash, Running
  <2>7. CASE SeenAges
    BY <2>7 DEF SeenAges
  <2>8. CASE UNCHANGED vars
    BY <2>8 DEF vars
  <2> QED
    BY <2>1, <2>2, <2>3, <2>4, <2>5, <2>6, <2>7, <2>8 DEF Next
<1> QED
  BY <1>1, <1>2, PTL DEF Spec
-----------------------------------------------------------------------------
\* A handler since whose read nobody else wrote the row: if it is about to skip
\* the column because it loaded ONLINE, the row still says so; once it has
\* committed, the row says ONLINE.
Undisturbed(s) == s \notin patched \cup overrun

SkipIsSafe ==
    \A s \in Streams :
        stream[s] = "admit" /\ loaded[s] = "online" /\ Undisturbed(s) => status = "online"

OnlineCommitted ==
    \A s \in Streams :
        stream[s] \in {"sync", "live"} /\ Undisturbed(s) => status = "online"

OnlineInv == TypeOK /\ SkipIsSafe /\ OnlineCommitted

\* Before the first open there is no handler.
LEMMA OnlineInvInit == Init => OnlineInv
  BY DEF Init, OnlineInv, TypeOK, HostStatus, StreamState, SkipIsSafe, OnlineCommitted

\* Every step of every handler, the operator and the clock keeps it.
LEMMA OnlineInvStep ==
    ASSUME OnlineInv, TypeOK', [Next]_vars
    PROVE  OnlineInv'
<1> USE DEF OnlineInv, TypeOK, SkipIsSafe, OnlineCommitted, Undisturbed
<1>1. ASSUME NEW s \in Streams, NEW fp \in Certs \cup {None}, OpenRejected(s, fp)
      PROVE OnlineInv'
  BY <1>1 DEF OpenRejected
<1>2. ASSUME NEW s \in Streams, NEW fp \in Certs \cup {None}, OpenAdmitted(s, fp)
      PROVE OnlineInv'
  BY <1>2 DEF OpenAdmitted
<1>3. ASSUME NEW s \in Streams, CommitOnline(s) PROVE OnlineInv'
  <2>1. status' \in {status, "online"} /\ (Undisturbed(s) => status' = "online")
    BY <1>3 DEF CommitOnline, OrmWrite
  <2> QED
    BY <1>3, <2>1 DEF CommitOnline
<1>4. ASSUME NEW s \in Streams, EnterLoop(s) PROVE OnlineInv'
  BY <1>4 DEF EnterLoop
<1>5. ASSUME NEW s \in Streams, CloseRead(s) PROVE OnlineInv'
  BY <1>5 DEF CloseRead
<1>6. ASSUME NEW s \in Streams, CommitOffline(s) PROVE OnlineInv'
  <2>1. \A t \in Streams : stream'[t] \in {"admit", "sync", "live"} => t \in overrun'
    BY <1>6 DEF CommitOffline, Running
  <2> QED
    BY <2>1
<1>7. ASSUME NEW s \in Streams, AbandonOpen(s) \/ StreamEnds(s) PROVE OnlineInv'
  BY <1>7 DEF AbandonOpen, StreamEnds, Live
<1>8. ASSUME NEW s \in Streams, Heartbeat(s) PROVE OnlineInv'
  BY <1>8 DEF Heartbeat, Live
<1>9. ASSUME NEW st \in HostStatus, Patch(st) PROVE OnlineInv'
  <2>1. \A t \in Streams : stream'[t] \in {"admit", "sync", "live"} => t \in patched'
    BY <1>9 DEF Patch, Running
  <2> QED
    BY <2>1
<1>10. CASE ManagerCrash
  <2>1. \A t \in Streams : stream'[t] \notin {"admit", "sync", "live"}
    BY <1>10 DEF ManagerCrash, Running
  <2> QED
    BY <2>1
<1>11. CASE SeenAges
  BY <1>11 DEF SeenAges
<1>12. CASE UNCHANGED vars
  BY <1>12 DEF vars
<1> QED
  BY <1>1, <1>2, <1>3, <1>4, <1>5, <1>6, <1>7, <1>8, <1>9, <1>10, <1>11, <1>12
     DEF Next, Handler

\* For any number of HostStream handlers of one host, however they overlap,
\* whatever certificates they present and whenever the manager dies: a host in
\* its bidi loop has status ONLINE, unless the operator or the finally clause
\* of another handler wrote the status after this handler had read it.
THEOREM LiveStaysOnline == Spec => []LiveMeansOnline
<1>1. OnlineInv => LiveMeansOnline
  BY DEF OnlineInv, OnlineCommitted, Undisturbed, LiveMeansOnline, Live
<1>2. OnlineInv /\ TypeOK' /\ [Next]_vars => OnlineInv'
  BY OnlineInvStep
<1> QED
  BY <1>1, <1>2, OnlineInvInit, HostStreamTypes, PTL DEF Spec
=============================================================================
