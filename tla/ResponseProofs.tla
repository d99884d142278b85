--------------------------- MODULE ResponseProofs ---------------------------
(***************************************************************************)
(* What an alert sets off.  One part per component, each with its          *)
(* hypotheses, its inductive invariant and its theorems: the alert console, *)
(* playbooks, the live stream, quarantine and the terminal.  The components *)
(* share no state; names of constants and variables that several of them   *)
(* use stand for each one's own.                                           *)
(***************************************************************************)
EXTENDS Naturals, Sequences, FiniteSets, FiniteSetTheorems, WellFoundedInduction, TLAPS

CONSTANTS
    Alert, Dest, User, Request, MaxTicket, MaxRequest, MaxEdit,
    Alerts, Facts, Playbook, Trigger, Bodies, MaxSteps, Channels, MaxFault,
    Instance, Client, Home, Visible, Modes, QUEUE_MAX, LOCK_TTL, BATCH, LOOKBACK, MaxTime,
    Sha, MaxCommand, MaxRow,
    Host, Ttl, Idle, BatchSize, MaxToken, MaxOpen, MaxStream, MaxChunk

VARIABLES
    alerts, history, dests, links, tickets, row, tx, poll, undone, refused, requests, edits,
    playbooks, pending, topic, position, committed, phase, run, runs, commands, notices,
    serial, passed, raised, faults,
    redis, now, created, inst, lock, channel, queue, got, opened, owed, excused,
    cmds, disk, log, pos, rows, worker, resumes, issued, unlisted, asked,
    tokens, dict, objs, streams, sent

Console == INSTANCE AlertConsole
Executor == INSTANCE Playbooks
Stream == INSTANCE AlertStream
Vault == INSTANCE Quarantine
Shell == INSTANCE Terminal

(***************************************************************************)
(* Proofs about the alert console and its tickets (AlertConsole).          *)
(*                                                                         *)
(* A second issue for an alert can only be opened by a request that has it *)
(* on its list, so the argument is about the list: it is made while the    *)
(* request holds the alert's row, when every issue of the alert is already *)
(* linked, undone, or of a deleted destination, and until the request ends *)
(* no other one opens an issue for that alert.                             *)
(***************************************************************************)
\* What the proofs assume of the constants: the marks of a free row and of a test issue
\* are no request and no alert.
ConsoleConstants == Console!Free \notin Request /\ Console!Nobody \notin Alert

Ticket == [alert : Alert \cup {Console!Nobody}, dest : Dest, status : {"open", "in_progress", "closed", "gone"}]
Pair == Alert \X Dest

\* The alerts, the destinations, the row locks and the trackers.
IsAlert(x) == x = [state |-> x.state, closed |-> x.closed, assignee |-> x.assignee] /\ x.state \in Console!AlertState

AlertRows == alerts = [a \in Alert |-> alerts[a]] /\ \A a \in Alert : IsAlert(alerts[a])

Tables ==
    /\ dests \in [Dest -> {"none", "enabled", "disabled", "deleted"}]
    /\ row \in [Alert -> Request \cup {Console!Free}]
    /\ tickets \in Seq(Ticket)

\* Link rows of some session: each names no issue or its own alert's.
LinkRows(f, T) ==
    /\ f = [p \in DOMAIN f |-> f[p]] /\ DOMAIN f \subseteq Pair
    /\ \A p \in DOMAIN f :
        /\ f[p] = [ext |-> f[p].ext, sync |-> f[p].sync, error |-> f[p].error]
        /\ f[p].ext \in 0 .. Len(T)
        /\ f[p].ext # 0 => T[f[p].ext].alert = p[1] /\ T[f[p].ext].dest = p[2]

\* A request in flight: its own links are of its alert; from its flush on it has the row.
InFlight(x, T) ==
    /\ x = [st |-> x.st, alert |-> x.alert, from |-> x.from, to |-> x.to, todo |-> x.todo, new |-> x.new]
    /\ x.st \in {"flush", "read", "sync"} /\ x.alert \in Alert /\ x.to \in Console!AlertState
    /\ x.todo \subseteq Dest /\ LinkRows(x.new, T)
    /\ \A p \in DOMAIN x.new : p[1] = x.alert
    /\ x.st # "sync" => x.todo = {} /\ DOMAIN x.new = {}

Requests ==
    /\ tx = [r \in Request |-> tx[r]]
    /\ \A r \in Request : tx[r].st = "idle" \/ InFlight(tx[r], tickets)
    /\ \A r \in Request : tx[r].st = "idle" => tx[r] = Console!Idle

Locks == \A r \in Request : tx[r].st \in {"read", "sync"} => row[tx[r].alert] = r

Links == LinkRows(links, tickets) /\ \A p \in DOMAIN links : Console!Exists(p[2])

PollRows ==
    \/ poll = Console!Idle
    \/ /\ poll = [st |-> "run", todo |-> poll.todo, new |-> poll.new]
       /\ poll.todo \subseteq Pair /\ LinkRows(poll.new, tickets)

\* The issues of a pair.
Issues(p, T) == {t \in DOMAIN T : T[t].alert = p[1] /\ T[t].dest = p[2]}

\* A pair whose issue a request would find, or that no request comes to any more.
InHand(p) == \E r \in Request : tx[r].st = "sync" /\ p \in DOMAIN tx[r].new
Known(p) == p \in undone \/ p \in DOMAIN links \/ dests[p[2]] = "deleted" \/ InHand(p)

Single(S) == \A t, u \in S : t = u

IssuesKnown ==
    \A p \in Pair :
        /\ Issues(p, tickets) # {} => Known(p)
        /\ p \in undone \/ Single(Issues(p, tickets))

\* What is on a request's list has no issue yet, unless one was left behind.
Fresh(p) == p \in undone \/ Issues(p, tickets) = {}
ListFresh ==
    \A r \in Request : tx[r].st = "sync" => \A d \in tx[r].todo : Fresh(<<tx[r].alert, d>>)

ConsoleInv == AlertRows /\ Tables /\ Requests /\ Locks /\ Links /\ PollRows /\ IssuesKnown /\ ListFresh

-----------------------------------------------------------------------------
(* Link rows and issues while tickets are opened and moved.                *)

\* No issue goes away or changes its alert.
Grown(T, U) ==
    /\ Len(T) \in Nat /\ Len(U) \in Nat /\ Len(T) <= Len(U)
    /\ \A i \in 1 .. Len(T) : U[i].alert = T[i].alert /\ U[i].dest = T[i].dest

\* Links stay right while issues are opened.
LEMMA LinksGrow ==
    ASSUME NEW f, NEW T, NEW U, Grown(T, U), LinkRows(f, T) PROVE LinkRows(f, U)
<1> SUFFICES ASSUME NEW p \in DOMAIN f
             PROVE  /\ f[p].ext \in 0 .. Len(U)
                    /\ f[p].ext # 0 => U[f[p].ext].alert = p[1] /\ U[f[p].ext].dest = p[2]
  BY DEF LinkRows
<1>1. /\ f[p].ext \in 0 .. Len(T)
      /\ f[p].ext # 0 => T[f[p].ext].alert = p[1] /\ T[f[p].ext].dest = p[2]
  BY DEF LinkRows
<1>2. Len(T) \in Nat /\ Len(U) \in Nat /\ Len(T) <= Len(U)
  BY DEF Grown
<1>3. f[p].ext \in 0 .. Len(U) /\ (f[p].ext # 0 => f[p].ext \in 1 .. Len(T))
  BY <1>1, <1>2
<1> QED
  BY <1>1, <1>3 DEF Grown

\* So do the links a request has in hand.
LEMMA InFlightGrows ==
    ASSUME NEW x, NEW T, NEW U, Grown(T, U), InFlight(x, T) PROVE InFlight(x, U)
<1>1. LinkRows(x.new, U)
  BY LinksGrow DEF InFlight
<1> QED
  BY <1>1 DEF InFlight

\* Rows of a session written over the rows of the table.
LEMMA MergedLinks ==
    ASSUME NEW f, NEW g, NEW T, LinkRows(f, T), LinkRows(g, T)
    PROVE  LinkRows(Console!Merge(f, g), T) /\ DOMAIN Console!Merge(f, g) = DOMAIN f \cup DOMAIN g
<1> DEFINE m == Console!Merge(f, g)
<1>1. /\ m = [p \in DOMAIN m |-> m[p]] /\ DOMAIN m = DOMAIN f \cup DOMAIN g
      /\ \A p \in DOMAIN m : m[p] = IF p \in DOMAIN g THEN g[p] ELSE f[p]
  BY DEF Console!Merge
<1>2. DOMAIN m \subseteq Pair
  BY <1>1 DEF LinkRows
<1>3. \A p \in DOMAIN m :
        /\ m[p] = [ext |-> m[p].ext, sync |-> m[p].sync, error |-> m[p].error]
        /\ m[p].ext \in 0 .. Len(T)
        /\ m[p].ext # 0 => T[m[p].ext].alert = p[1] /\ T[m[p].ext].dest = p[2]
  <2> SUFFICES ASSUME NEW p \in DOMAIN m
               PROVE  /\ m[p] = [ext |-> m[p].ext, sync |-> m[p].sync, error |-> m[p].error]
                      /\ m[p].ext \in 0 .. Len(T)
                      /\ m[p].ext # 0 => T[m[p].ext].alert = p[1] /\ T[m[p].ext].dest = p[2]
    OBVIOUS
  <2> HIDE DEF m
  <2>1. CASE p \in DOMAIN g
    <3>1. m[p] = g[p]
      BY <1>1, <2>1
    <3> QED
      BY <2>1, <3>1 DEF LinkRows
  <2>2. CASE p \notin DOMAIN g
    <3>1. m[p] = f[p] /\ p \in DOMAIN f
      BY <1>1, <2>2
    <3> QED
      BY <3>1 DEF LinkRows
  <2> QED
    BY <2>1, <2>2
<1> HIDE DEF m
<1>4. LinkRows(m, T)
  BY <1>1, <1>2, <1>3 DEF LinkRows
<1> QED
  BY <1>1, <1>4 DEF m

\* One row.
LEMMA OneLink ==
    ASSUME NEW p \in Pair, NEW l, NEW T, l = [ext |-> l.ext, sync |-> l.sync, error |-> l.error],
           l.ext \in 0 .. Len(T), l.ext # 0 => T[l.ext].alert = p[1] /\ T[l.ext].dest = p[2]
    PROVE  LinkRows([x \in {p} |-> l], T) /\ DOMAIN [x \in {p} |-> l] = {p}
BY DEF LinkRows

\* The empty session.
LEMMA EmptyLinks == ASSUME NEW T PROVE LinkRows(Console!NoLinks, T) /\ DOMAIN Console!NoLinks = {}
BY DEF LinkRows, Console!NoLinks

\* An issue that is opened, and the issues of the pairs then.
Opens(T, y, U) == T \in Seq(Ticket) /\ y \in Ticket /\ U = Append(T, y)
Opened(T, y, U) ==
    /\ U \in Seq(Ticket) /\ Grown(T, U) /\ Len(U) = Len(T) + 1 /\ U[Len(T) + 1] = y
    /\ \A p : Issues(p, U) = IF y.alert = p[1] /\ y.dest = p[2]
                              THEN Issues(p, T) \cup {Len(T) + 1} ELSE Issues(p, T)

\* Opening an issue adds its place to those of its pair and to no other pair's.
LEMMA TicketOpened ==
    ASSUME NEW T, NEW y, NEW U, Opens(T, y, U)
    PROVE  Opened(T, y, U)
<1>1. /\ U \in Seq(Ticket) /\ Len(T) \in Nat /\ Len(U) = Len(T) + 1 /\ U[Len(T) + 1] = y
      /\ \A i \in 1 .. Len(T) : U[i] = T[i]
      /\ DOMAIN T = 1 .. Len(T) /\ DOMAIN U = 1 .. Len(T) + 1
  BY DEF Opens
<1>2. Grown(T, U)
  BY <1>1 DEF Grown
<1>3. ASSUME NEW p
      PROVE  Issues(p, U) = IF y.alert = p[1] /\ y.dest = p[2]
                            THEN Issues(p, T) \cup {Len(T) + 1} ELSE Issues(p, T)
  <2>1. \A t : t \in DOMAIN U <=> t \in DOMAIN T \/ t = Len(T) + 1
    BY <1>1
  <2> QED
    BY <1>1, <2>1 DEF Issues
<1> QED
  BY <1>1, <1>2, <1>3 DEF Opened

-----------------------------------------------------------------------------
(* Requests.                                                               *)

Becomes(r, y) == tx' = [tx EXCEPT ![r] = y]

\* One request changes.
LEMMA TxSet ==
    ASSUME Requests, NEW r \in Request, NEW y, Becomes(r, y)
    PROVE  tx' = [q \in Request |-> tx'[q]] /\ tx'[r] = y /\ \A q \in Request : q # r => tx'[q] = tx[q]
BY DEF Requests, Becomes

\* Assignments to a request's fields.
IsTx(x) ==
    x = [st |-> x.st, alert |-> x.alert, from |-> x.from, to |-> x.to, todo |-> x.todo, new |-> x.new]

\* A request moved to another state of its handler.
LEMMA WithState ==
    ASSUME NEW x, IsTx(x), NEW s
    PROVE  [x EXCEPT !.st = s]
           = [st |-> s, alert |-> x.alert, from |-> x.from, to |-> x.to, todo |-> x.todo, new |-> x.new]
BY DEF IsTx

\* A request with another list of destinations to do.
LEMMA WithTodo ==
    ASSUME NEW x, IsTx(x), NEW T
    PROVE  [x EXCEPT !.todo = T]
           = [st |-> x.st, alert |-> x.alert, from |-> x.from, to |-> x.to, todo |-> T, new |-> x.new]
BY DEF IsTx

\* A request with another set of links to insert.
LEMMA WithNew ==
    ASSUME NEW x, IsTx(x), NEW N
    PROVE  [x EXCEPT !.new = N]
           = [st |-> x.st, alert |-> x.alert, from |-> x.from, to |-> x.to, todo |-> x.todo, new |-> N]
BY DEF IsTx

\* A request moved on with its list made.
LEMMA WithStateTodo ==
    ASSUME NEW x, IsTx(x), NEW s, NEW T
    PROVE  [x EXCEPT !.st = s, !.todo = T]
           = [st |-> s, alert |-> x.alert, from |-> x.from, to |-> x.to, todo |-> T, new |-> x.new]
<1>1. PICK z : z = [st |-> s, alert |-> x.alert, from |-> x.from, to |-> x.to, todo |-> x.todo, new |-> x.new]
  OBVIOUS
<1>2. [x EXCEPT !.st = s] = z
  BY <1>1, WithState
<1>3. IsTx(z) /\ z.st = s /\ z.alert = x.alert /\ z.from = x.from /\ z.to = x.to /\ z.new = x.new
  BY <1>1 DEF IsTx
<1>4. [z EXCEPT !.todo = T]
        = [st |-> z.st, alert |-> z.alert, from |-> z.from, to |-> z.to, todo |-> T, new |-> z.new]
  BY <1>3, WithTodo
<1> QED
  BY <1>2, <1>3, <1>4

\* A request that has done a destination and holds its link.
LEMMA WithTodoNew ==
    ASSUME NEW x, IsTx(x), NEW T, NEW N
    PROVE  [x EXCEPT !.todo = T, !.new = N]
           = [st |-> x.st, alert |-> x.alert, from |-> x.from, to |-> x.to, todo |-> T, new |-> N]
<1>1. PICK z : z = [st |-> x.st, alert |-> x.alert, from |-> x.from, to |-> x.to, todo |-> T, new |-> x.new]
  OBVIOUS
<1>2. [x EXCEPT !.todo = T] = z
  BY <1>1, WithTodo
<1>3. IsTx(z) /\ z.st = x.st /\ z.alert = x.alert /\ z.from = x.from /\ z.to = x.to /\ z.todo = T
  BY <1>1 DEF IsTx
<1>4. [z EXCEPT !.new = N]
        = [st |-> z.st, alert |-> z.alert, from |-> z.from, to |-> z.to, todo |-> z.todo, new |-> N]
  BY <1>3, WithNew
<1> QED
  BY <1>2, <1>3, <1>4

\* A request that is not idle, in record form.
LEMMA InFlightIs ==
    ASSUME Requests, NEW r \in Request, tx[r].st # "idle" PROVE InFlight(tx[r], tickets)
BY DEF Requests

Sessions == <<alerts, dests, links, tickets, poll, undone>>

\* A request moves on within its session: what it has in hand stays so, and what is on
\* its list has no issue.
LEMMA SessionMoves ==
    ASSUME ConsoleInv, NEW r \in Request, NEW y, Becomes(r, y), InFlight(y, tickets),
           row' \in [Alert -> Request \cup {Console!Free}], Locks', UNCHANGED Sessions,
           tx[r].st = "sync" => y.st = "sync" /\ DOMAIN tx[r].new \subseteq DOMAIN y.new,
           y.st = "sync" => \A d \in y.todo : Fresh(<<y.alert, d>>)
    PROVE  ConsoleInv'
<1> USE DEF ConsoleInv
<1>1. /\ tx' = [q \in Request |-> tx'[q]] /\ tx'[r] = y
      /\ \A q \in Request : q # r => tx'[q] = tx[q]
  BY TxSet
<1>2. AlertRows' /\ Tables' /\ Links' /\ PollRows'
  BY DEF AlertRows, Tables, Links, PollRows, Console!Exists, Sessions
<1>3. Requests'
  <2>1. tickets' = tickets /\ y.st # "idle"
    BY DEF Sessions, InFlight
  <2> QED
    BY <1>1, <2>1 DEF Requests
<1>4. IssuesKnown'
  <2>1. \A p : InHand(p) => InHand(p)'
    BY <1>1 DEF InHand
  <2>2. \A p : Known(p) => Known(p)'
    BY <2>1 DEF Known, Sessions
  <2>3. tickets' = tickets /\ undone' = undone
    BY DEF Sessions
  <2> QED
    BY <2>2, <2>3 DEF IssuesKnown
<1>5. ListFresh'
  <2>1. \A p : Fresh(p) => Fresh(p)'
    BY DEF Fresh, Sessions
  <2> QED
    BY <1>1, <2>1 DEF ListFresh
<1> QED
  BY <1>2, <1>3, <1>4, <1>5

\* change_state reads the alert.
LEMMA ReadAlertKeeps ==
    ASSUME ConsoleInv, NEW r \in Request, NEW a \in Alert, NEW to \in Console!AlertState, Console!ReadAlert(r, a, to)
    PROVE  ConsoleInv'
<1> USE DEF ConsoleInv
<1> DEFINE y == [st |-> "flush", alert |-> a, from |-> alerts[a].state, to |-> to,
                 todo |-> {}, new |-> Console!NoLinks]
<1>1. /\ Becomes(r, y) /\ tx[r] = Console!Idle /\ UNCHANGED Sessions /\ row' = row
  BY DEF Console!ReadAlert, Becomes, Sessions, Console!alertRows, Console!traces
<1>2. InFlight(y, tickets)
  BY EmptyLinks DEF InFlight
<1>3. y.st = "flush" /\ tx[r].st = "idle"
  BY <1>1 DEF Console!Idle
<1> HIDE DEF y
<1>4. tx'[r] = y /\ \A q \in Request : q # r => tx'[q] = tx[q]
  BY <1>1, TxSet
<1>5. Locks'
  BY <1>1, <1>3, <1>4 DEF Locks
<1>6. row' \in [Alert -> Request \cup {Console!Free}]
  BY <1>1 DEF Tables
<1> QED
  BY <1>1, <1>2, <1>3, <1>5, <1>6, SessionMoves

\* The flush takes the row.
LEMMA FlushChangeKeeps ==
    ASSUME ConsoleConstants, ConsoleInv, NEW r \in Request, Console!FlushChange(r) PROVE ConsoleInv'
<1> USE DEF ConsoleInv
<1>1. /\ tx[r].st = "flush" /\ row[tx[r].alert] \in {Console!Free, r}
      /\ row' = [row EXCEPT ![tx[r].alert] = r] /\ tx' = [tx EXCEPT ![r].st = "read"]
      /\ UNCHANGED Sessions
  BY DEF Console!FlushChange, Console!HasRow, Sessions, Console!traces
<1>2. InFlight(tx[r], tickets)
  BY <1>1, InFlightIs
<1> DEFINE x == tx[r]
           y == [st |-> "read", alert |-> x.alert, from |-> x.from, to |-> x.to, todo |-> x.todo, new |-> x.new]
<1>3. Becomes(r, y)
  <2>1. tx' = [tx EXCEPT ![r] = [x EXCEPT !.st = "read"]]
    BY <1>1
  <2>2. [x EXCEPT !.st = "read"] = y
    BY <1>2 DEF InFlight
  <2> QED
    BY <2>1, <2>2 DEF Becomes
<1>4. InFlight(y, tickets)
  BY <1>1, <1>2 DEF InFlight
<1>5. y.st = "read" /\ y.alert = x.alert /\ x.alert \in Alert
  BY <1>2 DEF InFlight
<1> HIDE DEF y
<1>6. tx'[r] = y /\ \A q \in Request : q # r => tx'[q] = tx[q]
  BY <1>3, TxSet
<1>7. Locks'
  <2>1. \A q \in Request : tx[q].st # "idle" => tx[q].alert \in Alert
    BY DEF Requests, InFlight
  <2>2. row'[x.alert] = r /\ \A a \in Alert : a # x.alert => row'[a] = row[a]
    BY <1>1, <1>5 DEF Tables
  <2>3. SUFFICES ASSUME NEW q \in Request, q # r, tx[q].st \in {"read", "sync"}
                 PROVE  row'[tx[q].alert] = q
    BY <1>5, <1>6, <2>2 DEF Locks
  <2>4. row[tx[q].alert] = q /\ tx[q].alert \in Alert
    BY <2>1, <2>3 DEF Locks
  <2>5. tx[q].alert # x.alert
    BY <1>1, <2>3, <2>4 DEF ConsoleConstants
  <2> QED
    BY <2>2, <2>4, <2>5
<1>8. row' \in [Alert -> Request \cup {Console!Free}]
  BY <1>1 DEF Tables
<1> QED
  BY <1>1, <1>3, <1>4, <1>5, <1>7, <1>8, SessionMoves

\* The list: while the request holds the row, an issue of its alert is linked, undone or
\* of a destination that is gone.
LEMMA SyncAlertKeeps ==
    ASSUME ConsoleInv, NEW r \in Request, Console!SyncAlert(r) PROVE ConsoleInv'
<1> USE DEF ConsoleInv
<1> DEFINE x == tx[r]
           T == {d \in Console!Enabled : <<x.alert, d>> \notin DOMAIN links}
           y == [st |-> "sync", alert |-> x.alert, from |-> x.from, to |-> x.to, todo |-> T, new |-> x.new]
<1>1. /\ x.st = "read" /\ tx' = [tx EXCEPT ![r].st = "sync", ![r].todo = T]
      /\ UNCHANGED Sessions /\ row' = row
  BY DEF Console!SyncAlert, Sessions, Console!traces, Console!alertRows
<1>2. InFlight(x, tickets)
  BY <1>1, InFlightIs
<1> HIDE DEF T
<1>3. Becomes(r, y)
  <2>1. PICK z : z = [x EXCEPT !.st = "sync", !.todo = T]
    OBVIOUS
  <2>2. Becomes(r, z)
    BY <1>1, <2>1 DEF Requests, Becomes
  <2>3. IsTx(x)
    BY <1>2 DEF InFlight, IsTx
  <2>4. z = y
    BY <2>1, <2>3, WithStateTodo
  <2> QED
    BY <2>2, <2>4
<1>4. T \subseteq Dest /\ \A d \in T : dests[d] = "enabled" /\ <<x.alert, d>> \notin DOMAIN links
  BY DEF T, Console!Enabled
<1>5. InFlight(y, tickets)
  BY <1>1, <1>2, <1>4 DEF InFlight
<1>6. y.st = "sync" /\ y.alert = x.alert /\ x.alert \in Alert /\ y.todo = T /\ y.new = x.new
  BY <1>2 DEF InFlight
<1>7. \A d \in T : Fresh(<<x.alert, d>>)
  <2> SUFFICES ASSUME NEW d \in T PROVE Fresh(<<x.alert, d>>)
    OBVIOUS
  <2> DEFINE p == <<x.alert, d>>
  <2>1. p \in Pair /\ p[1] = x.alert /\ p[2] = d
    BY <1>4, <1>6 DEF Pair
  <2>2. ~InHand(p)
    <3> SUFFICES ASSUME NEW q \in Request, tx[q].st = "sync", p \in DOMAIN tx[q].new PROVE FALSE
      BY DEF InHand
    <3>1. tx[q].alert = x.alert
      BY <2>1, InFlightIs DEF InFlight
    <3>2. row[tx[q].alert] = q /\ row[x.alert] = r
      BY <1>1 DEF Locks
    <3> QED
      BY <1>1, <3>1, <3>2
  <2>3. p \in undone \/ ~Known(p)
    BY <1>4, <2>1, <2>2 DEF Known
  <2> QED
    BY <2>1, <2>3 DEF IssuesKnown, Fresh
<1> HIDE DEF y
<1>8. tx'[r] = y /\ \A q \in Request : q # r => tx'[q] = tx[q]
  BY <1>3, TxSet
<1>9. Locks'
  <2>1. row[x.alert] = r
    BY <1>1 DEF Locks
  <2>2. ASSUME NEW q \in Request, tx'[q].st \in {"read", "sync"} PROVE row'[tx'[q].alert] = q
    <3>1. CASE q = r
      BY <1>1, <1>6, <1>8, <2>1, <3>1
    <3>2. CASE q # r
      BY <1>1, <1>8, <2>2, <3>2 DEF Locks
    <3> QED
      BY <3>1, <3>2
  <2> QED
    BY <2>2 DEF Locks
<1>10. row' \in [Alert -> Request \cup {Console!Free}]
  BY <1>1 DEF Tables
<1> QED
  BY <1>1, <1>3, <1>5, <1>6, <1>7, <1>9, <1>10, SessionMoves

\* An error that ends the mirroring before a tracker opened anything.
LEMMA SyncEnds ==
    ASSUME ConsoleInv, NEW r \in Request, Console!SyncRaises(r), UNCHANGED <<tickets, undone>> PROVE ConsoleInv'
<1> USE DEF ConsoleInv
<1> DEFINE x == tx[r]
           y == [st |-> x.st, alert |-> x.alert, from |-> x.from, to |-> x.to, todo |-> {}, new |-> x.new]
<1>1. /\ x.st = "sync" /\ tx' = [tx EXCEPT ![r].todo = {}] /\ UNCHANGED Sessions /\ row' = row
  BY DEF Console!SyncRaises, Sessions, Console!alertRows
<1>2. InFlight(x, tickets)
  BY <1>1, InFlightIs
<1>3. Becomes(r, y)
  <2>1. tx' = [tx EXCEPT ![r] = [x EXCEPT !.todo = {}]]
    BY <1>1
  <2>2. IsTx(x)
    BY <1>2 DEF InFlight, IsTx
  <2>3. [x EXCEPT !.todo = {}] = y
    BY <2>2, WithTodo
  <2> QED
    BY <2>1, <2>3 DEF Becomes
<1>4. InFlight(y, tickets)
  BY <1>1, <1>2 DEF InFlight
<1>5. y.st = "sync" /\ y.alert = x.alert /\ y.todo = {} /\ y.new = x.new
  BY <1>1
<1> HIDE DEF y
<1>6. tx'[r] = y /\ \A q \in Request : q # r => tx'[q] = tx[q]
  BY <1>3, TxSet
<1>7. Locks'
  BY <1>1, <1>5, <1>6 DEF Locks
<1>8. row' \in [Alert -> Request \cup {Console!Free}]
  BY <1>1 DEF Tables
<1> QED
  BY <1>1, <1>3, <1>4, <1>5, <1>7, <1>8, SessionMoves

-----------------------------------------------------------------------------
(* The trackers' answers.                                                  *)

\* What an answer may do to the issues: only those of pair p may have become more, and
\* there is one, unless an earlier request left some.
Answered(p) ==
    /\ tickets' \in Seq(Ticket) /\ Grown(tickets, tickets')
    /\ \A q \in Pair : q # p => Issues(q, tickets') = Issues(q, tickets)
    /\ p \in undone \/ Single(Issues(p, tickets'))

IsLink(l, p, T) ==
    /\ l = [ext |-> l.ext, sync |-> l.sync, error |-> l.error]
    /\ l.ext \in 0 .. Len(T) /\ (l.ext # 0 => T[l.ext].alert = p[1] /\ T[l.ext].dest = p[2])

\* The request's session gets the link; no other request has that alert's row.
LEMMA LinkAdded ==
    ASSUME ConsoleInv, NEW r \in Request, NEW d \in Dest, tx[r].st = "sync", d \in tx[r].todo,
           NEW l, Console!AddLink(r, d, l), IsLink(l, <<tx[r].alert, d>>, tickets'), Answered(<<tx[r].alert, d>>),
           UNCHANGED <<alerts, dests, links, poll, undone, row>>
    PROVE  ConsoleInv'
<1> USE DEF ConsoleInv
<1> DEFINE x == tx[r]
           p == <<x.alert, d>>
           N == Console!Merge(x.new, [z \in {p} |-> l])
           T == x.todo \ {d}
           y == [st |-> x.st, alert |-> x.alert, from |-> x.from, to |-> x.to, todo |-> T, new |-> N]
<1>1. InFlight(x, tickets)
  BY InFlightIs
<1>2. tickets' \in Seq(Ticket) /\ Grown(tickets, tickets')
  BY DEF Answered
<1>3. InFlight(x, tickets')
  BY <1>1, <1>2, InFlightGrows
<1>4. p \in Pair /\ p[1] = x.alert /\ p[2] = d
  BY <1>1 DEF InFlight, Pair
<1>5. LinkRows(N, tickets') /\ DOMAIN N = DOMAIN x.new \cup {p}
  <2>1. PICK g : g = [z \in {p} |-> l]
    OBVIOUS
  <2>2. LinkRows(g, tickets') /\ DOMAIN g = {p}
    BY <1>4, <2>1, OneLink DEF IsLink
  <2>3. LinkRows(x.new, tickets')
    BY <1>3 DEF InFlight
  <2> QED
    BY <2>1, <2>2, <2>3, MergedLinks
<1>6. Becomes(r, y)
  <2>1. PICK z : z = [x EXCEPT !.todo = T, !.new = N]
    OBVIOUS
  <2>2. Becomes(r, z)
    BY <2>1 DEF Console!AddLink, Requests, Becomes
  <2>3. IsTx(x)
    BY <1>1 DEF InFlight, IsTx
  <2>4. z = y
    BY <2>1, <2>3, WithTodoNew
  <2> QED
    BY <2>2, <2>4
<1> HIDE DEF N
<1>7. InFlight(y, tickets')
  BY <1>3, <1>4, <1>5 DEF InFlight
<1>8. y.st = "sync" /\ y.alert = x.alert /\ y.todo = T /\ y.new = N
  OBVIOUS
<1> HIDE DEF y
<1>9. /\ tx' = [q \in Request |-> tx'[q]] /\ tx'[r] = y
      /\ \A q \in Request : q # r => tx'[q] = tx[q]
  BY <1>6, TxSet
<1>10. AlertRows' /\ Tables'
  BY <1>2 DEF AlertRows, Tables
<1>11. Links'
  <2>1. LinkRows(links, tickets')
    BY <1>2, LinksGrow DEF Links
  <2> QED
    BY <2>1 DEF Links, Console!Exists
<1>12. PollRows'
  <2>1. CASE poll = Console!Idle
    BY <2>1 DEF PollRows
  <2>2. CASE poll # Console!Idle
    <3>1. LinkRows(poll.new, tickets')
      BY <1>2, <2>2, LinksGrow DEF PollRows
    <3> QED
      BY <2>2, <3>1 DEF PollRows
  <2> QED
    BY <2>1, <2>2
<1>13. Requests'
  <2>1. \A q \in Request : tx[q].st = "idle" \/ InFlight(tx[q], tickets')
    BY <1>2, InFlightGrows DEF Requests
  <2>2. y.st # "idle"
    BY <1>8
  <2> QED
    BY <1>7, <1>9, <2>1, <2>2 DEF Requests
<1>14. Locks'
  BY <1>8, <1>9 DEF Locks
<1>15. \A q \in Pair : q # p => Issues(q, tickets') = Issues(q, tickets)
  BY DEF Answered
<1>16. IssuesKnown'
  <2>1. \A q : InHand(q) \/ q = p => InHand(q)'
    BY <1>5, <1>8, <1>9 DEF InHand
  <2>2. \A q : Known(q) \/ q = p => Known(q)'
    BY <2>1 DEF Known
  <2>3. p \in undone \/ Single(Issues(p, tickets'))
    BY DEF Answered
  <2> SUFFICES ASSUME NEW q \in Pair
               PROVE  /\ Issues(q, tickets') # {} => Known(q)'
                      /\ q \in undone' \/ Single(Issues(q, tickets'))
    BY DEF IssuesKnown
  <2> HIDE DEF p
  <2>4. CASE q = p
    BY <2>2, <2>3, <2>4
  <2>5. CASE q # p
    BY <1>15, <2>2, <2>5 DEF IssuesKnown
  <2> QED
    BY <2>4, <2>5
<1>17. ListFresh'
  <2> SUFFICES ASSUME NEW q \in Request, tx'[q].st = "sync", NEW e \in tx'[q].todo
               PROVE  <<tx'[q].alert, e>> \in undone' \/ Issues(<<tx'[q].alert, e>>, tickets') = {}
    BY DEF ListFresh, Fresh
  <2>1. tx'[q].alert = tx[q].alert /\ tx[q].st = "sync" /\ e \in tx[q].todo
    BY <1>8, <1>9
  <2>2. <<tx[q].alert, e>> # p
    <3>1. CASE q = r
      BY <1>8, <1>9, <3>1
    <3>2. CASE q # r
      <4>1. row[tx[q].alert] = q /\ row[x.alert] = r
        BY <2>1 DEF Locks
      <4> QED
        BY <3>2, <4>1
    <3> QED
      BY <3>1, <3>2
  <2>3. <<tx[q].alert, e>> \in Pair
    BY <2>1, InFlightIs DEF InFlight, Pair
  <2>4. Fresh(<<tx[q].alert, e>>)
    BY <2>1 DEF ListFresh
  <2> QED
    BY <1>15, <2>1, <2>2, <2>3, <2>4 DEF Fresh
<1> QED
  BY <1>10, <1>11, <1>12, <1>13, <1>14, <1>16, <1>17

\* The new issue is the pair's only one, since the pair was on the list.
LEMMA OpenedAnswers ==
    ASSUME ConsoleInv, NEW r \in Request, NEW d \in Dest, tx[r].st = "sync", d \in tx[r].todo,
           tickets' = Append(tickets, [alert |-> tx[r].alert, dest |-> d, status |-> "open"])
    PROVE  /\ Answered(<<tx[r].alert, d>>) /\ Len(tickets') = Len(tickets) + 1 /\ Len(tickets) \in Nat
           /\ tickets'[Len(tickets) + 1].alert = tx[r].alert /\ tickets'[Len(tickets) + 1].dest = d
<1> USE DEF ConsoleInv
<1>1. tx[r].alert \in Alert
  BY InFlightIs DEF InFlight
<1>2. PICK k : k = [alert |-> tx[r].alert, dest |-> d, status |-> "open"]
  OBVIOUS
<1>3. k \in Ticket /\ k.alert = tx[r].alert /\ k.dest = d
  BY <1>1, <1>2 DEF Ticket
<1>4. Len(tickets) \in Nat /\ Opens(tickets, k, tickets')
  BY <1>2, <1>3 DEF Tables, Opens
<1>5. Opened(tickets, k, tickets')
  BY <1>4, TicketOpened
<1> DEFINE p == <<tx[r].alert, d>>
<1>6. \A q \in Pair : q # p => Issues(q, tickets') = Issues(q, tickets)
  <2>1. \A q \in Pair : q = <<q[1], q[2]>>
    BY DEF Pair
  <2> QED
    BY <1>3, <1>5, <2>1 DEF Opened
<1>7. p \in undone \/ Single(Issues(p, tickets'))
  <2>1. Fresh(p)
    BY DEF ListFresh
  <2>2. Issues(p, tickets') = Issues(p, tickets) \cup {Len(tickets) + 1}
    BY <1>3, <1>5 DEF Opened
  <2> QED
    BY <2>1, <2>2 DEF Fresh, Single
<1> QED
  BY <1>3, <1>4, <1>5, <1>6, <1>7 DEF Answered, Opened

\* A link row as it is made.
LEMMA LinkIs ==
    ASSUME NEW e, NEW s
    PROVE  Console!Link(e, s).ext = e /\ Console!Link(e, s) = [ext |-> Console!Link(e, s).ext, sync |-> Console!Link(e, s).sync, error |-> Console!Link(e, s).error]
BY DEF Console!Link

\* The tracker opens an issue and says so.
LEMMA CreateIssueKeeps ==
    ASSUME ConsoleInv, NEW r \in Request, NEW d \in Dest, Console!CreateIssue(r, d) PROVE ConsoleInv'
<1> USE DEF ConsoleInv
<1>1. /\ tx[r].st = "sync" /\ d \in tx[r].todo
      /\ tickets' = Append(tickets, [alert |-> tx[r].alert, dest |-> d, status |-> "open"])
      /\ Console!AddLink(r, d, Console!Link(Len(tickets) + 1, "open"))
      /\ UNCHANGED <<alerts, dests, links, poll, undone, row>>
  BY DEF Console!CreateIssue, Console!alertRows, Console!traces
<1>2. /\ Answered(<<tx[r].alert, d>>) /\ Len(tickets') = Len(tickets) + 1 /\ Len(tickets) \in Nat
      /\ tickets'[Len(tickets) + 1].alert = tx[r].alert /\ tickets'[Len(tickets) + 1].dest = d
  BY <1>1, OpenedAnswers
<1>3. PICK l : l = Console!Link(Len(tickets) + 1, "open")
  OBVIOUS
<1>4. l.ext = Len(tickets) + 1 /\ l = [ext |-> l.ext, sync |-> l.sync, error |-> l.error]
  BY <1>3, LinkIs
<1>5. IsLink(l, <<tx[r].alert, d>>, tickets')
  BY <1>2, <1>4 DEF IsLink
<1> QED
  BY <1>1, <1>2, <1>3, <1>5, LinkAdded

\* The tracker refuses, or opens an issue of which nobody hears.
LEMMA CreateFailsKeeps ==
    ASSUME ConsoleInv, NEW r \in Request, NEW d \in Dest, Console!CreateFails(r, d) PROVE ConsoleInv'
<1> USE DEF ConsoleInv
<1>1. /\ tx[r].st = "sync" /\ d \in tx[r].todo
      /\ \/ tickets' = tickets
         \/ tickets' = Append(tickets, [alert |-> tx[r].alert, dest |-> d, status |-> "open"])
      /\ Console!AddLink(r, d, Console!Link(0, "failed"))
      /\ UNCHANGED <<alerts, dests, links, poll, undone, row>>
  BY DEF Console!CreateFails, Console!alertRows, Console!traces
<1>2. Answered(<<tx[r].alert, d>>) /\ Len(tickets') \in Nat
  <2>1. CASE tickets' = tickets
    <3>1. tickets \in Seq(Ticket) /\ Len(tickets) \in Nat
      BY DEF Tables
    <3>2. Grown(tickets, tickets)
      BY <3>1 DEF Grown
    <3>3. <<tx[r].alert, d>> \in Pair
      BY <1>1, InFlightIs DEF InFlight, Pair
    <3> QED
      BY <2>1, <3>1, <3>2, <3>3 DEF Answered, IssuesKnown
  <2>2. CASE tickets' # tickets
    BY <1>1, <2>2, OpenedAnswers
  <2> QED
    BY <2>1, <2>2
<1>3. PICK l : l = Console!Link(0, "failed")
  OBVIOUS
<1>4. l.ext = 0 /\ l = [ext |-> l.ext, sync |-> l.sync, error |-> l.error]
  BY <1>3, LinkIs
<1>5. IsLink(l, <<tx[r].alert, d>>, tickets')
  BY <1>2, <1>4 DEF IsLink
<1> QED
  BY <1>1, <1>2, <1>3, <1>5, LinkAdded

\* The answer cannot be read: the issue is open, and its pair is given up.
LEMMA AnswerUnread ==
    ASSUME ConsoleInv, NEW r \in Request, NEW d \in tx[r].todo, Console!SyncRaises(r),
           tickets' = Append(tickets, [alert |-> tx[r].alert, dest |-> d, status |-> "open"]),
           undone' = undone \cup {<<tx[r].alert, d>>}
    PROVE  ConsoleInv'
<1> USE DEF ConsoleInv
<1> DEFINE x == tx[r]
           y == [st |-> x.st, alert |-> x.alert, from |-> x.from, to |-> x.to, todo |-> {}, new |-> x.new]
<1>0. PICK p : p = <<x.alert, d>>
  OBVIOUS
<1>1. /\ x.st = "sync" /\ tx' = [tx EXCEPT ![r].todo = {}] /\ row' = row
      /\ UNCHANGED <<alerts, dests, links, poll>>
  BY DEF Console!SyncRaises, Console!alertRows
<1>2. InFlight(x, tickets) /\ d \in Dest
  BY <1>1, InFlightIs DEF InFlight
<1>3. Answered(p) /\ Grown(tickets, tickets') /\ tickets' \in Seq(Ticket)
  BY <1>0, <1>1, <1>2, OpenedAnswers DEF Answered
<1>4. Becomes(r, y)
  <2>1. tx' = [tx EXCEPT ![r] = [x EXCEPT !.todo = {}]]
    BY <1>1
  <2>2. IsTx(x)
    BY <1>2 DEF InFlight, IsTx
  <2>3. [x EXCEPT !.todo = {}] = y
    BY <2>2, WithTodo
  <2> QED
    BY <2>1, <2>3 DEF Becomes
<1>5. InFlight(y, tickets')
  <2>1. InFlight(x, tickets')
    BY <1>2, <1>3, InFlightGrows
  <2> QED
    BY <1>1, <2>1 DEF InFlight
<1>6. y.st = "sync" /\ y.alert = x.alert /\ y.todo = {} /\ y.new = x.new
  BY <1>1
<1> HIDE DEF y
<1>7. tx' = [q \in Request |-> tx'[q]] /\ tx'[r] = y /\ \A q \in Request : q # r => tx'[q] = tx[q]
  BY <1>4, TxSet
<1>8. AlertRows' /\ Tables'
  BY <1>1, <1>3 DEF AlertRows, Tables
<1>9. Requests'
  <2>1. \A q \in Request : tx[q].st = "idle" \/ InFlight(tx[q], tickets')
    BY <1>3, InFlightGrows DEF Requests
  <2> QED
    BY <1>5, <1>6, <1>7, <2>1 DEF Requests
<1>10. Locks'
  BY <1>1, <1>6, <1>7 DEF Locks
<1>11. Links'
  <2>1. LinkRows(links, tickets')
    BY <1>3, LinksGrow DEF Links
  <2> QED
    BY <1>1, <2>1 DEF Links, Console!Exists
<1>12. PollRows'
  <2>1. CASE poll = Console!Idle
    BY <1>1, <2>1 DEF PollRows
  <2>2. CASE poll # Console!Idle
    <3>1. LinkRows(poll.new, tickets')
      BY <1>3, <2>2, LinksGrow DEF PollRows
    <3> QED
      BY <1>1, <2>2, <3>1 DEF PollRows
  <2> QED
    BY <2>1, <2>2
<1>13. p \in undone' /\ (\A q : q \in undone => q \in undone')
       /\ \A q \in Pair : q # p => Issues(q, tickets') = Issues(q, tickets)
  BY <1>0, <1>3 DEF Answered
<1>14. IssuesKnown'
  <2>1. \A q : InHand(q) => InHand(q)'
    BY <1>6, <1>7 DEF InHand
  <2>2. \A q : Known(q) => Known(q)'
    BY <1>1, <1>13, <2>1 DEF Known
  <2>3. Known(p)'
    BY <1>13 DEF Known
  <2> QED
    BY <1>13, <2>2, <2>3 DEF IssuesKnown
<1>15. ListFresh'
  <2> SUFFICES ASSUME NEW q \in Request, tx'[q].st = "sync", NEW e \in tx'[q].todo
               PROVE  <<tx'[q].alert, e>> \in undone' \/ Issues(<<tx'[q].alert, e>>, tickets') = {}
    BY DEF ListFresh, Fresh
  <2>1. tx'[q] = tx[q]
    BY <1>6, <1>7
  <2>2. <<tx[q].alert, e>> \in Pair
    BY <2>1, InFlightIs DEF InFlight, Pair
  <2>3. Fresh(<<tx[q].alert, e>>)
    BY <2>1 DEF ListFresh
  <2> QED
    BY <1>13, <2>1, <2>2, <2>3 DEF Fresh
<1> QED
  BY <1>8, <1>9, <1>10, <1>11, <1>12, <1>14, <1>15

\* An error that ends the mirroring.
LEMMA SyncRaisesKeeps ==
    ASSUME ConsoleInv, NEW r \in Request, Console!SyncRaises(r) PROVE ConsoleInv'
<1>1. CASE UNCHANGED <<tickets, undone>>
  BY <1>1, SyncEnds
<1>2. CASE ~UNCHANGED <<tickets, undone>>
  <2>1. PICK d \in tx[r].todo :
          /\ tickets' = Append(tickets, [alert |-> tx[r].alert, dest |-> d, status |-> "open"])
          /\ undone' = undone \cup {<<tx[r].alert, d>>}
    BY <1>2 DEF Console!SyncRaises
  <2> QED
    BY <2>1, AnswerUnread
<1> QED
  BY <1>1, <1>2

-----------------------------------------------------------------------------
(* The end of a request.                                                   *)

\* It gives up the row; what it had in hand is linked, or undone.
LEMMA RequestEnds ==
    ASSUME ConsoleConstants, ConsoleInv, NEW r \in Request, tx[r].st = "sync", Becomes(r, Console!Idle),
           row' = Console!Release(r), UNCHANGED <<dests, tickets, poll>>, AlertRows', Links',
           undone \subseteq undone', DOMAIN links \subseteq DOMAIN links',
           DOMAIN tx[r].new \subseteq undone' \cup DOMAIN links'
    PROVE  ConsoleInv'
<1> USE DEF ConsoleInv
<1>1. /\ tx' = [q \in Request |-> tx'[q]] /\ tx'[r] = Console!Idle
      /\ \A q \in Request : q # r => tx'[q] = tx[q]
  BY TxSet
<1>2. Console!Idle.st = "idle"
  BY DEF Console!Idle
<1>3. Tables'
  <2>1. row' \in [Alert -> Request \cup {Console!Free}]
    BY DEF Console!Release, Tables
  <2> QED
    BY <2>1 DEF Tables
<1>4. PollRows'
  BY DEF PollRows
<1>5. Requests'
  BY <1>1, <1>2 DEF Requests
<1>6. Locks'
  <2> SUFFICES ASSUME NEW q \in Request, tx'[q].st \in {"read", "sync"} PROVE row'[tx'[q].alert] = q
    BY DEF Locks
  <2>1. q # r /\ tx'[q] = tx[q]
    BY <1>1, <1>2
  <2>2. row[tx[q].alert] = q /\ tx[q].alert \in Alert
    BY <2>1, InFlightIs DEF Locks, InFlight
  <2> QED
    BY <2>1, <2>2 DEF Console!Release
<1>7. IssuesKnown'
  <2>1. \A p : InHand(p) => InHand(p)' \/ p \in undone' \/ p \in DOMAIN links'
    BY <1>1 DEF InHand
  <2>2. \A p : Known(p) => Known(p)'
    BY <2>1 DEF Known
  <2> QED
    BY <2>2 DEF IssuesKnown
<1>8. ListFresh'
  <2>1. \A p : Fresh(p) => Fresh(p)'
    BY DEF Fresh
  <2> QED
    BY <1>1, <1>2, <2>1 DEF ListFresh
<1> QED
  BY <1>3, <1>4, <1>5, <1>6, <1>7, <1>8

\* The response is made.
LEMMA CommitChangeKeeps ==
    ASSUME ConsoleConstants, ConsoleInv, NEW r \in Request, Console!CommitChange(r) PROVE ConsoleInv'
<1> USE DEF ConsoleInv
<1> DEFINE x == tx[r]
<1>1. /\ x.st = "sync" /\ \A p \in DOMAIN x.new : Console!Exists(p[2])
      /\ alerts' = [alerts EXCEPT ![x.alert].state = x.to, ![x.alert].closed = @ \/ x.to \in Console!Closed]
      /\ links' = Console!Merge(links, x.new) /\ row' = Console!Release(r) /\ tx' = [tx EXCEPT ![r] = Console!Idle]
      /\ UNCHANGED <<dests, tickets, poll, undone>>
  BY DEF Console!CommitChange, Console!traces
<1>2. InFlight(x, tickets)
  BY <1>1, InFlightIs
<1>3. AlertRows'
  <2>1. x.alert \in Alert /\ x.to \in Console!AlertState
    BY <1>2 DEF InFlight
  <2>2. PICK v : v = [alerts[x.alert] EXCEPT !.state = x.to]
    OBVIOUS
  <2>3. v = [state |-> x.to, closed |-> alerts[x.alert].closed, assignee |-> alerts[x.alert].assignee]
    BY <2>1, <2>2 DEF AlertRows, IsAlert
  <2>4. PICK w : w = [v EXCEPT !.closed = @ \/ x.to \in Console!Closed]
    OBVIOUS
  <2>5. IsAlert(w)
    BY <2>1, <2>3, <2>4 DEF IsAlert
  <2>6. alerts' = [alerts EXCEPT ![x.alert] = w]
    BY <1>1, <2>1, <2>2, <2>4 DEF AlertRows
  <2>7. alerts' = [a \in Alert |-> alerts'[a]] /\ \A a \in Alert : alerts'[a] = w \/ alerts'[a] = alerts[a]
    BY <2>6 DEF AlertRows
  <2> QED
    BY <2>5, <2>7 DEF AlertRows
<1>4. LinkRows(links', tickets') /\ DOMAIN links' = DOMAIN links \cup DOMAIN x.new
  BY <1>1, <1>2, MergedLinks DEF InFlight, Links
<1>5. Links'
  BY <1>1, <1>4 DEF Links, Console!Exists
<1>6. Becomes(r, Console!Idle)
  BY <1>1 DEF Becomes
<1> QED
  BY <1>1, <1>3, <1>4, <1>5, <1>6, RequestEnds

\* The request fails after the trackers were called.
LEMMA RollBackChangeKeeps ==
    ASSUME ConsoleConstants, ConsoleInv, NEW r \in Request, Console!RollBackChange(r) PROVE ConsoleInv'
<1> USE DEF ConsoleInv
<1>1. /\ tx[r].st = "sync" /\ undone' = undone \cup DOMAIN tx[r].new
      /\ row' = Console!Release(r) /\ Becomes(r, Console!Idle)
      /\ UNCHANGED <<alerts, dests, links, tickets, poll>>
  BY DEF Console!RollBackChange, Becomes
<1>2. AlertRows' /\ Links'
  BY <1>1 DEF AlertRows, Links, Console!Exists
<1> QED
  BY <1>1, <1>2, RequestEnds

-----------------------------------------------------------------------------
(* Steps beside the requests.                                              *)

\* No request moves and no pair gets an issue.
LEMMA Beside ==
    ASSUME ConsoleInv, UNCHANGED <<tx, undone>>, AlertRows', Tables', row' = row, Links', PollRows',
           Grown(tickets, tickets'),
           \A p \in Pair : Issues(p, tickets') = Issues(p, tickets),
           \A p \in Pair : p \in DOMAIN links \/ dests[p[2]] = "deleted"
                               => p \in DOMAIN links' \/ dests'[p[2]] = "deleted"
    PROVE  ConsoleInv'
<1> USE DEF ConsoleInv
<1>1. Requests'
  <2>1. \A q \in Request : tx[q].st = "idle" \/ InFlight(tx[q], tickets')
    BY InFlightGrows DEF Requests
  <2> QED
    BY <2>1 DEF Requests
<1>2. Locks'
  BY DEF Locks
<1>3. IssuesKnown'
  <2>1. \A p : InHand(p) => InHand(p)'
    BY DEF InHand
  <2>2. \A p \in Pair : Known(p) => Known(p)'
    BY <2>1 DEF Known
  <2> QED
    BY <2>2 DEF IssuesKnown
<1>4. ListFresh'
  <2>1. \A p \in Pair : Fresh(p) => Fresh(p)'
    BY DEF Fresh
  <2>2. \A r \in Request : tx[r].st = "sync" => \A d \in tx[r].todo : <<tx[r].alert, d>> \in Pair
    BY DEF Requests, InFlight, Pair
  <2> QED
    BY <2>1, <2>2 DEF ListFresh
<1> QED
  BY <1>1, <1>2, <1>3, <1>4

\* Issues that stay as they are.
LEMMA Unopened ==
    ASSUME ConsoleInv, tickets' = tickets
    PROVE  Grown(tickets, tickets') /\ \A p \in Pair : Issues(p, tickets') = Issues(p, tickets)
<1>1. tickets \in Seq(Ticket) /\ Len(tickets) \in Nat
  BY DEF ConsoleInv, Tables
<1>2. Grown(tickets, tickets)
  BY <1>1 DEF Grown
<1> QED
  BY <1>2

\* An alert is assigned.
LEMMA AssignKeeps ==
    ASSUME ConsoleInv, NEW a \in Alert, Console!Assign(a) PROVE ConsoleInv'
<1> USE DEF ConsoleInv
<1>1. PICK u : alerts' = [alerts EXCEPT ![a].assignee = u]
  BY DEF Console!Assign
<1>2. UNCHANGED <<row, dests, links, tickets, tx, poll, undone>>
  BY DEF Console!Assign, Console!traces
<1>3. AlertRows'
  <2>1. PICK w : w = [alerts[a] EXCEPT !.assignee = u]
    OBVIOUS
  <2>2. IsAlert(w)
    BY <2>1 DEF AlertRows, IsAlert
  <2>3. alerts' = [b \in Alert |-> alerts'[b]] /\ \A b \in Alert : alerts'[b] = w \/ alerts'[b] = alerts[b]
    BY <1>1, <2>1 DEF AlertRows
  <2> QED
    BY <2>2, <2>3 DEF AlertRows
<1>4. Tables' /\ Links' /\ PollRows'
  BY <1>2 DEF Tables, Links, PollRows, Console!Exists
<1> QED
  BY <1>2, <1>3, <1>4, Unopened, Beside

\* A destination is made, switched or deleted; links and issues of it stay known.
LEMMA DestinationKeeps ==
    ASSUME ConsoleInv, NEW d \in Dest,
           Console!CreateDestination(d) \/ Console!UpdateDestination(d) \/ Console!DeleteDestination(d)
    PROVE  ConsoleInv'
<1> USE DEF ConsoleInv
<1>1. UNCHANGED <<alerts, row, tickets, tx, poll, undone>>
  BY DEF Console!CreateDestination, Console!UpdateDestination, Console!DeleteDestination, Console!traces, Console!alertRows
<1>2. AlertRows' /\ PollRows'
  BY <1>1 DEF AlertRows, PollRows
<1>3. PICK s \in {"enabled", "disabled", "deleted"} :
        /\ dests' = [dests EXCEPT ![d] = s]
        /\ dests[d] # "deleted"
        /\ \/ links' = links /\ (dests[d] = "none" \/ s # "deleted")
           \/ s = "deleted" /\ links' = [p \in {p \in DOMAIN links : p[2] # d} |-> links[p]]
  <2>1. CASE Console!CreateDestination(d)
    BY <2>1 DEF Console!CreateDestination, Console!SetDest
  <2>2. CASE Console!UpdateDestination(d)
    BY <2>2 DEF Console!UpdateDestination, Console!SetDest
  <2>3. CASE Console!DeleteDestination(d)
    BY <2>3 DEF Console!DeleteDestination, Console!SetDest
  <2> QED
    BY <2>1, <2>2, <2>3
<1>4. /\ dests' \in [Dest -> {"none", "enabled", "disabled", "deleted"}]
      /\ dests'[d] = s /\ \A e \in Dest : e # d => dests'[e] = dests[e]
  BY <1>3 DEF Tables
<1>5. Tables'
  BY <1>1, <1>4 DEF Tables
<1>6. LinkRows(links, tickets) /\ \A p \in DOMAIN links : Console!Exists(p[2]) /\ p \in Pair
  BY DEF Links, LinkRows
<1>7. \A p \in Pair : p[2] \in Dest
  BY DEF Pair
<1>8. Links' /\ \A p \in Pair : p \in DOMAIN links => p \in DOMAIN links' \/ dests'[p[2]] = "deleted"
  <2>1. CASE links' = links /\ (dests[d] = "none" \/ s # "deleted")
    <3>1. \A p \in DOMAIN links : dests'[p[2]] \in {"enabled", "disabled"}
      BY <1>3, <1>4, <1>6, <1>7, <2>1 DEF Console!Exists
    <3> QED
      BY <1>1, <1>6, <2>1, <3>1 DEF Links, Console!Exists
  <2>2. CASE s = "deleted" /\ links' = [p \in {p \in DOMAIN links : p[2] # d} |-> links[p]]
    <3>1. /\ links' = [p \in DOMAIN links' |-> links'[p]]
          /\ \A p : p \in DOMAIN links' <=> p \in DOMAIN links /\ p[2] # d
          /\ \A p \in DOMAIN links' : links'[p] = links[p]
      BY <2>2
    <3>2. LinkRows(links', tickets)
      BY <1>6, <3>1 DEF LinkRows
    <3>3. \A p \in DOMAIN links' : dests'[p[2]] \in {"enabled", "disabled"}
      BY <1>4, <1>6, <1>7, <3>1 DEF Console!Exists
    <3> QED
      BY <1>1, <1>4, <2>2, <3>1, <3>2, <3>3 DEF Links, Console!Exists
  <2> QED
    BY <1>3, <2>1, <2>2
<1>9. \A p \in Pair : dests[p[2]] = "deleted" => dests'[p[2]] = "deleted"
  BY <1>3, <1>4, <1>7
<1> QED
  BY <1>1, <1>2, <1>5, <1>8, <1>9, Unopened, Beside

\* A test issue is of no alert.
LEMMA TestDestinationKeeps ==
    ASSUME ConsoleConstants, ConsoleInv, NEW d \in Dest, Console!TestDestination(d) PROVE ConsoleInv'
<1> USE DEF ConsoleInv
<1>1. /\ tickets' = Append(tickets, [alert |-> Console!Nobody, dest |-> d, status |-> "open"])
      /\ UNCHANGED <<alerts, row, dests, links, tx, poll, undone>>
  BY DEF Console!TestDestination, Console!traces, Console!alertRows
<1>2. PICK k : k = [alert |-> Console!Nobody, dest |-> d, status |-> "open"]
  OBVIOUS
<1>3. k \in Ticket /\ k.alert = Console!Nobody
  BY <1>2 DEF Ticket
<1>4. Opens(tickets, k, tickets')
  BY <1>1, <1>2, <1>3 DEF Tables, Opens
<1>5. Opened(tickets, k, tickets')
  BY <1>4, TicketOpened
<1>6. \A p \in Pair : Issues(p, tickets') = Issues(p, tickets)
  <2>1. \A p \in Pair : p[1] # Console!Nobody
    BY DEF Pair, ConsoleConstants
  <2> QED
    BY <1>3, <1>5, <2>1 DEF Opened
<1>7. Grown(tickets, tickets') /\ tickets' \in Seq(Ticket)
  BY <1>5 DEF Opened
<1>8. AlertRows' /\ Tables'
  BY <1>1, <1>7 DEF AlertRows, Tables
<1>9. Links'
  <2>1. LinkRows(links, tickets')
    BY <1>7, LinksGrow DEF Links
  <2> QED
    BY <1>1, <2>1 DEF Links, Console!Exists
<1>10. PollRows'
  <2>1. CASE poll = Console!Idle
    BY <1>1, <2>1 DEF PollRows
  <2>2. CASE poll # Console!Idle
    <3>1. LinkRows(poll.new, tickets')
      BY <1>7, <2>2, LinksGrow DEF PollRows
    <3> QED
      BY <1>1, <2>2, <3>1 DEF PollRows
  <2> QED
    BY <2>1, <2>2
<1> QED
  BY <1>1, <1>6, <1>7, <1>8, <1>9, <1>10, Beside

\* An issue changes its status only.
LEMMA TrackerMovesKeeps ==
    ASSUME ConsoleInv, NEW t \in DOMAIN tickets, Console!TrackerMoves(t) PROVE ConsoleInv'
<1> USE DEF ConsoleInv
<1>1. PICK s \in {"open", "in_progress", "closed", "gone"} : tickets' = [tickets EXCEPT ![t].status = s]
  BY DEF Console!TrackerMoves
<1>2. UNCHANGED <<alerts, row, dests, links, tx, poll, undone>>
  BY DEF Console!TrackerMoves, Console!traces, Console!alertRows
<1>3. PICK w : w = [tickets[t] EXCEPT !.status = s]
  OBVIOUS
<1>4. /\ tickets \in Seq(Ticket) /\ Len(tickets) \in Nat /\ DOMAIN tickets = 1 .. Len(tickets)
      /\ tickets[t] \in Ticket
  BY DEF Tables
<1>5. w \in Ticket /\ w.alert = tickets[t].alert /\ w.dest = tickets[t].dest
  BY <1>1, <1>3, <1>4 DEF Ticket
<1>6. tickets' = [tickets EXCEPT ![t] = w]
  BY <1>1, <1>3
<1>7. /\ tickets' \in Seq(Ticket) /\ Len(tickets') = Len(tickets) /\ DOMAIN tickets' = DOMAIN tickets
      /\ \A i \in DOMAIN tickets : tickets'[i] = IF i = t THEN w ELSE tickets[i]
  BY <1>4, <1>5, <1>6
<1>8. \A i \in DOMAIN tickets : tickets'[i].alert = tickets[i].alert /\ tickets'[i].dest = tickets[i].dest
  BY <1>5, <1>7
<1>9. Grown(tickets, tickets')
  BY <1>4, <1>7, <1>8 DEF Grown
<1>10. \A p \in Pair : Issues(p, tickets') = Issues(p, tickets)
  BY <1>7, <1>8 DEF Issues
<1>11. AlertRows' /\ Tables'
  BY <1>2, <1>7 DEF AlertRows, Tables
<1>12. Links'
  <2>1. LinkRows(links, tickets')
    BY <1>9, LinksGrow DEF Links
  <2> QED
    BY <1>2, <2>1 DEF Links, Console!Exists
<1>13. PollRows'
  <2>1. CASE poll = Console!Idle
    BY <1>2, <2>1 DEF PollRows
  <2>2. CASE poll # Console!Idle
    <3>1. LinkRows(poll.new, tickets')
      BY <1>9, <2>2, LinksGrow DEF PollRows
    <3> QED
      BY <1>2, <2>2, <3>1 DEF PollRows
  <2> QED
    BY <2>1, <2>2
<1> QED
  BY <1>2, <1>9, <1>10, <1>11, <1>12, <1>13, Beside

-----------------------------------------------------------------------------
(* The case_sync worker.                                                   *)

\* Its session changes and nothing else.
LEMMA PollMoves ==
    ASSUME ConsoleInv, UNCHANGED <<alerts, row, dests, links, tickets, tx, undone>>, PollRows'
    PROVE  ConsoleInv'
<1>1. AlertRows' /\ Tables' /\ Links'
  BY DEF ConsoleInv, AlertRows, Tables, Links, Console!Exists
<1> QED
  BY <1>1, Unopened, Beside

\* A session with another list and other rows.
LEMMA PollWith ==
    ASSUME NEW T, NEW N, NEW a, NEW b, poll = [st |-> "run", todo |-> a, new |-> b]
    PROVE  [poll EXCEPT !.todo = T, !.new = N] = [st |-> "run", todo |-> T, new |-> N]
<1>1. PICK z : z = [poll EXCEPT !.todo = T]
  OBVIOUS
<1>2. z = [st |-> "run", todo |-> T, new |-> b]
  BY <1>1
<1>3. [z EXCEPT !.new = N] = [st |-> "run", todo |-> T, new |-> N]
  BY <1>2
<1> QED
  BY <1>1, <1>3

\* A row is updated in the session.
LEMMA PollLinkKeeps ==
    ASSUME ConsoleInv, poll # Console!Idle, NEW p \in Pair, NEW l, IsLink(l, p, tickets), Console!PollLink(p, l),
           tickets' = tickets
    PROVE  PollRows'
<1> DEFINE N == Console!Merge(poll.new, [x \in {p} |-> l])
           T == poll.todo \ {p}
<1>1. /\ poll = [st |-> "run", todo |-> poll.todo, new |-> poll.new]
      /\ poll.todo \subseteq Pair /\ LinkRows(poll.new, tickets)
  BY DEF ConsoleInv, PollRows
<1>2. LinkRows(N, tickets)
  <2>1. PICK g : g = [x \in {p} |-> l]
    OBVIOUS
  <2>2. LinkRows(g, tickets)
    BY <2>1, OneLink DEF IsLink
  <2> QED
    BY <1>1, <2>1, <2>2, MergedLinks
<1> HIDE DEF N
<1>3. poll' = [poll EXCEPT !.todo = T, !.new = N]
  BY DEF Console!PollLink, N
<1>4. PICK a, b : poll = [st |-> "run", todo |-> a, new |-> b]
  BY <1>1
<1>5. poll' = [st |-> "run", todo |-> T, new |-> N]
  BY <1>3, <1>4, PollWith
<1>6. poll'.todo = T /\ poll'.new = N
  BY <1>5
<1> QED
  BY <1>1, <1>2, <1>5, <1>6 DEF PollRows

\* A pass begins with the links it reads.
LEMMA PollBeginKeeps == ASSUME ConsoleInv, Console!PollBegin PROVE ConsoleInv'
<1> DEFINE T == {p \in DOMAIN links : Console!Active(p)}
<1>1. poll' = [st |-> "run", todo |-> T, new |-> Console!NoLinks]
  BY DEF Console!PollBegin
<1>2. UNCHANGED <<alerts, row, dests, links, tickets, tx, undone>>
  BY DEF Console!PollBegin, Console!traces, Console!alertRows
<1>3. T \subseteq Pair
  BY DEF ConsoleInv, Links, LinkRows
<1>4. PollRows'
  <2>1. poll'.todo = T /\ poll'.new = Console!NoLinks
    BY <1>1
  <2> QED
    BY <1>1, <1>3, <2>1, EmptyLinks DEF PollRows
<1> QED
  BY <1>2, <1>4, PollMoves

\* A status arrives: the link keeps its issue.
LEMMA FetchOkKeeps == ASSUME ConsoleInv, NEW p \in Console!Polling, Console!FetchOk(p) PROVE ConsoleInv'
<1>1. poll # Console!Idle /\ p \in DOMAIN links
  BY DEF Console!Polling, Console!FetchOk
<1>2. UNCHANGED <<alerts, row, dests, links, tickets, tx, undone>>
  BY DEF Console!FetchOk, Console!traces, Console!alertRows
<1>3. PICK l : l = Console!Link(links[p].ext, Console!FetchStatus(links[p].ext))
  OBVIOUS
<1>4. l.ext = links[p].ext /\ l = [ext |-> l.ext, sync |-> l.sync, error |-> l.error] /\ Console!PollLink(p, l)
  BY <1>3, LinkIs DEF Console!FetchOk
<1>5. p \in Pair /\ IsLink(l, p, tickets)
  BY <1>1, <1>4 DEF ConsoleInv, Links, LinkRows, IsLink
<1>6. PollRows'
  BY <1>1, <1>2, <1>4, <1>5, PollLinkKeeps
<1> QED
  BY <1>2, <1>6, PollMoves

\* A status does not arrive.
LEMMA FetchFailsKeeps == ASSUME ConsoleInv, NEW p \in Console!Polling, Console!FetchFails(p) PROVE ConsoleInv'
<1>1. poll # Console!Idle
  BY DEF Console!Polling
<1>2. UNCHANGED <<alerts, row, dests, links, tickets, tx, undone>>
  BY DEF Console!FetchFails, Console!traces, Console!alertRows
<1>3. PollRows'
  <2>1. CASE p \in DOMAIN links
    <3>1. PICK l : l = [links[p] EXCEPT !.error = TRUE]
      OBVIOUS
    <3>2. /\ p \in Pair /\ links[p] = [ext |-> links[p].ext, sync |-> links[p].sync, error |-> links[p].error]
          /\ links[p].ext \in 0 .. Len(tickets)
          /\ links[p].ext # 0 => tickets[links[p].ext].alert = p[1] /\ tickets[links[p].ext].dest = p[2]
      BY <2>1 DEF ConsoleInv, Links, LinkRows
    <3>3. l = [ext |-> links[p].ext, sync |-> links[p].sync, error |-> TRUE]
      BY <3>1, <3>2
    <3>4. l.ext = links[p].ext /\ l = [ext |-> l.ext, sync |-> l.sync, error |-> l.error]
      BY <3>3
    <3>5. IsLink(l, p, tickets)
      BY <3>2, <3>4 DEF IsLink
    <3>6. Console!PollLink(p, l)
      BY <2>1, <3>1 DEF Console!FetchFails
    <3> QED
      BY <1>1, <1>2, <3>2, <3>5, <3>6, PollLinkKeeps
  <2>2. CASE p \notin DOMAIN links
    <3> DEFINE T == poll.todo \ {p}
    <3>1. /\ poll = [st |-> "run", todo |-> poll.todo, new |-> poll.new]
          /\ poll.todo \subseteq Pair /\ LinkRows(poll.new, tickets)
      BY <1>1 DEF ConsoleInv, PollRows
    <3>2. poll' = [poll EXCEPT !.todo = T]
      BY <2>2 DEF Console!FetchFails
    <3> HIDE DEF T
    <3>3. poll' = [st |-> "run", todo |-> T, new |-> poll.new]
      BY <3>1, <3>2
    <3>4. poll'.todo = T /\ poll'.new = poll.new /\ T \subseteq Pair
      BY <3>1, <3>3 DEF T
    <3> QED
      BY <1>2, <3>1, <3>3, <3>4 DEF PollRows
  <2> QED
    BY <2>1, <2>2
<1> QED
  BY <1>2, <1>3, PollMoves

\* The pass is committed.
LEMMA PollCommitKeeps == ASSUME ConsoleInv, Console!PollCommit PROVE ConsoleInv'
<1> USE DEF ConsoleInv
<1>1. /\ poll.st = "run" /\ poll' = Console!Idle /\ UNCHANGED <<alerts, row, dests, tickets, tx, undone>>
      /\ links' = IF DOMAIN poll.new \subseteq DOMAIN links THEN Console!Merge(links, poll.new) ELSE links
  BY DEF Console!PollCommit, Console!traces, Console!alertRows
<1>2. AlertRows' /\ Tables' /\ PollRows'
  BY <1>1 DEF AlertRows, Tables, PollRows
<1>3. LinkRows(links', tickets') /\ DOMAIN links' = DOMAIN links
  <2>1. CASE DOMAIN poll.new \subseteq DOMAIN links
    <3>1. poll # Console!Idle
      BY <1>1 DEF Console!Idle
    <3>2. LinkRows(poll.new, tickets) /\ LinkRows(links, tickets)
      BY <3>1 DEF PollRows, Links
    <3>3. LinkRows(Console!Merge(links, poll.new), tickets)
          /\ DOMAIN Console!Merge(links, poll.new) = DOMAIN links \cup DOMAIN poll.new
      BY <3>2, MergedLinks
    <3> QED
      BY <1>1, <2>1, <3>3
  <2>2. CASE ~(DOMAIN poll.new \subseteq DOMAIN links)
    BY <1>1, <2>2 DEF Links
  <2> QED
    BY <2>1, <2>2
<1>4. Links'
  BY <1>1, <1>3 DEF Links, Console!Exists
<1> QED
  BY <1>1, <1>2, <1>3, <1>4, Unopened, Beside

-----------------------------------------------------------------------------
(* The invariant and the theorems.                                         *)

\* The first states.
LEMMA ConsoleInit == ASSUME ConsoleConstants, Console!Init PROVE ConsoleInv
<1>1. AlertRows
  BY DEF Console!Init, AlertRows, IsAlert, Console!AlertState
<1>2. Tables /\ Len(tickets) = 0 /\ DOMAIN tickets = {}
  BY DEF Console!Init, Tables
<1>3. Console!Idle.st = "idle"
  BY DEF Console!Idle
<1>4. \A r \in Request : tx[r] = Console!Idle
  BY DEF Console!Init
<1>5. Requests /\ Locks
  BY <1>3, <1>4 DEF Console!Init, Requests, Locks
<1>6. Links /\ PollRows
  BY EmptyLinks DEF Console!Init, Links, PollRows
<1>7. IssuesKnown /\ ListFresh
  BY <1>2, <1>3, <1>4 DEF IssuesKnown, ListFresh, Issues, Single
<1> QED
  BY <1>1, <1>2, <1>5, <1>6, <1>7 DEF ConsoleInv

\* Every step.
LEMMA ConsoleStep == ASSUME ConsoleConstants, ConsoleInv, [Console!Next]_(Console!vars) PROVE ConsoleInv'
<1>1. CASE \E r \in Request, a \in Alert, to \in Console!AlertState : Console!ReadAlert(r, a, to)
  BY <1>1, ReadAlertKeeps
<1>2. CASE \E r \in Request : Console!FlushChange(r) \/ Console!SyncAlert(r) \/ Console!SyncRaises(r) \/ Console!CommitChange(r) \/ Console!RollBackChange(r)
  BY <1>2, FlushChangeKeeps, SyncAlertKeeps, SyncRaisesKeeps, CommitChangeKeeps, RollBackChangeKeeps
<1>3. CASE \E r \in Request, d \in Dest : Console!CreateIssue(r, d) \/ Console!CreateFails(r, d)
  BY <1>3, CreateIssueKeeps, CreateFailsKeeps
<1>4. CASE \E a \in Alert : Console!Assign(a)
  BY <1>4, AssignKeeps
<1>5. CASE \E d \in Dest :
        Console!CreateDestination(d) \/ Console!UpdateDestination(d) \/ Console!DeleteDestination(d) \/ Console!TestDestination(d)
  BY <1>5, DestinationKeeps, TestDestinationKeeps
<1>6. CASE \E t \in DOMAIN tickets : Console!TrackerMoves(t)
  BY <1>6, TrackerMovesKeeps
<1>7. CASE Console!PollBegin \/ Console!PollCommit \/ \E p \in Console!Polling : Console!FetchOk(p) \/ Console!FetchFails(p)
  BY <1>7, PollBeginKeeps, PollCommitKeeps, FetchOkKeeps, FetchFailsKeeps
<1>8. CASE UNCHANGED Console!vars
  <2>1. UNCHANGED <<alerts, row, dests, links, tickets, tx, undone, poll>>
    BY <1>8 DEF Console!vars
  <2>2. PollRows'
    BY <2>1 DEF ConsoleInv, PollRows
  <2> QED
    BY <2>1, <2>2, PollMoves
<1> QED
  BY <1>1, <1>2, <1>3, <1>4, <1>5, <1>6, <1>7, <1>8 DEF Console!Next

\* The invariant, as it is used below.
LEMMA ConsoleInvariant == ASSUME ConsoleConstants PROVE Console!Spec => []ConsoleInv
<1>1. Console!Init => ConsoleInv
  BY ConsoleInit
<1>2. ConsoleInv /\ [Console!Next]_(Console!vars) => ConsoleInv'
  BY ConsoleStep
<1> QED
  BY <1>1, <1>2, PTL DEF Console!Spec

\* The rows of the console have their types in every reachable state: a link is of a
\* destination that still exists and of an issue the tracker has.
THEOREM AlertConsoleTypes == ASSUME ConsoleConstants PROVE Console!Spec => []Console!TypeOK
<1>1. ConsoleInv => Console!TypeOK
  <2> SUFFICES ASSUME ConsoleInv PROVE Console!TypeOK
    OBVIOUS
  <2>1. \A a \in Alert : alerts[a].state \in Console!AlertState /\ row[a] \in Request \cup {Console!Free}
    BY DEF ConsoleInv, AlertRows, IsAlert, Tables
  <2>2. /\ DOMAIN links \subseteq Alert \X Dest
        /\ \A p \in DOMAIN links : links[p].ext \in 0 .. Len(tickets) /\ Console!Exists(p[2])
    BY DEF ConsoleInv, Links, LinkRows, Pair
  <2> QED
    BY <2>1, <2>2 DEF Console!TypeOK
<1>2. Console!Spec => []ConsoleInv
  BY ConsoleInvariant
<1> QED
  BY <1>1, <1>2, PTL

\* However many requests, destinations and failures there are, change_state opens a
\* second issue of an alert in a tracker only after a request was rolled back behind the
\* tracker's back or could not read its answer; and a link shows its own alert's issue.
THEOREM OneTicketPerAlert == ASSUME ConsoleConstants PROVE Console!Spec => []Console!OneTicket
<1>1. ConsoleInv => Console!OneTicket
  <2> SUFFICES ASSUME ConsoleInv PROVE Console!OneTicket
    OBVIOUS
  <2>1. ASSUME NEW t \in DOMAIN tickets, NEW u \in DOMAIN tickets,
               tickets[t].alert = tickets[u].alert, tickets[t].dest = tickets[u].dest,
               tickets[t].alert # Console!Nobody, t # u
        PROVE  <<tickets[t].alert, tickets[t].dest>> \in undone
    <3> DEFINE p == <<tickets[t].alert, tickets[t].dest>>
    <3>1. tickets[t] \in Ticket
      BY DEF ConsoleInv, Tables
    <3>2. p \in Pair
      BY <2>1, <3>1 DEF Ticket, Pair
    <3>3. t \in Issues(p, tickets) /\ u \in Issues(p, tickets)
      BY <2>1 DEF Issues
    <3>4. p \in undone \/ Single(Issues(p, tickets))
      BY <3>2 DEF ConsoleInv, IssuesKnown
    <3> QED
      BY <2>1, <3>3, <3>4 DEF Single
  <2>2. \A p \in DOMAIN links :
          links[p].ext # 0 => tickets[links[p].ext].alert = p[1] /\ tickets[links[p].ext].dest = p[2]
    BY DEF ConsoleInv, Links, LinkRows
  <2> QED
    BY <2>1, <2>2 DEF Console!OneTicket
<1>2. Console!Spec => []ConsoleInv
  BY ConsoleInvariant
<1> QED
  BY <1>1, <1>2, PTL
(***************************************************************************)
(* Proofs about response playbooks (Playbooks).                            *)
(*                                                                         *)
(* That a committed run and its commands agree is settled while the run is *)
(* in hand: after every step of the loop what is queued is what the steps  *)
(* recorded so far call for, and the flag tells what became of a branch_if *)
(* just behind.  The id of the run in hand is younger than every committed *)
(* one, so that neither its commands nor its row are taken for another's.  *)
(***************************************************************************)
\* What the proofs assume of the constants: there are finitely many playbooks, and what an
\* operator saves is a sequence of steps.
PlaybookConstants == IsFiniteSet(Playbook) /\ \A b \in Bodies : Len(b) \in Nat /\ DOMAIN b = 1 .. Len(b)

\* The topic, an invariant of its own.
RunsTopic == DOMAIN playbooks \subseteq Playbook /\ topic \in Seq(Playbook \X Alerts)

\* The rows of the operators and of the producers, and the consumer.
Rows ==
    /\ playbooks = [p \in DOMAIN playbooks |-> playbooks[p]] /\ DOMAIN playbooks \subseteq Playbook
    /\ \A p \in DOMAIN playbooks : playbooks[p].body \in Bodies
    /\ pending \cap alerts = {}

Consumer ==
    /\ phase \in {"idle", "handle", "steps", "commit"}
    /\ position \in Nat /\ committed \in Nat /\ serial \in Nat /\ committed <= position

Outcome == {"ok", "skipped", "failed"}

\* What is queued is what the steps recorded so far call for.
Queued(b, o, Q) ==
    /\ \A q \in Q : q[1] \in 1 .. Len(o)
    /\ \A i \in 1 .. Len(o) : b[i].kind \in Executor!CommandKinds => (o[i] = "ok" <=> \E q \in Q : q[1] = i)

\* A branch_if on step i is false for alert a.
Diverts(b, i, a) == b[i].kind = "branch_if" /\ Facts[a].severity \notin b[i].arg

\* The step behind a branch_if that is false is skipped ...
Branched(b, o, a) ==
    \A i \in 2 .. Len(o) : Diverts(b, i - 1, a) => o[i] = "skipped" \/ o[i - 1] = "skipped"

\* ... as the flag will have it.
Flagged(x) ==
    /\ x.skip \in BOOLEAN
    /\ \A i \in 1 .. Len(x.outcomes) :
         i = Len(x.outcomes) /\ Diverts(x.body, i, x.alert) => x.skip \/ x.outcomes[i] = "skipped"

Walk(x) ==
    /\ x = [id |-> x.id, playbook |-> x.playbook, alert |-> x.alert, body |-> x.body,
            outcomes |-> x.outcomes, skip |-> x.skip, queued |-> x.queued]
    /\ x.body \in Bodies /\ x.outcomes \in Seq(Outcome) /\ Len(x.outcomes) <= Len(x.body)
    /\ Queued(x.body, x.outcomes, x.queued) /\ Branched(x.body, x.outcomes, x.alert) /\ Flagged(x)

\* There is a run in hand during the steps only.
Hand ==
    /\ phase # "steps" => run = Executor!NoRun
    /\ phase = "steps" => Walk(run) /\ run.id \in 1 .. serial

\* Committed runs and commands are of earlier ids.
Ids ==
    /\ \A r \in runs : r.id \in 1 .. serial /\ r.id # run.id
    /\ \A c \in commands : c[1] \in 1 .. serial /\ c[1] # run.id

\* A committed run went through all its steps, and its commands are there.
Done(r, C) ==
    /\ r.status \in {"succeeded", "failed", "partial"}
    /\ Len(r.body) \in Nat /\ DOMAIN r.body = 1 .. Len(r.body)
    /\ r.outcomes \in Seq(Outcome) /\ Len(r.outcomes) = Len(r.body)
    /\ Branched(r.body, r.outcomes, r.alert)
    /\ \A i \in 1 .. Len(r.body) :
         r.body[i].kind \in Executor!CommandKinds => (r.outcomes[i] = "ok" <=> \E c \in C : c[1] = r.id /\ c[2] = i)

Committed == \A r \in runs : Done(r, commands)

\* Every message the consumer has read was handled, but for the one it is handling.
Handled(n) == n \in passed \/ \E r \in runs : r.offset = n
Read == \A n \in 1 .. position : Handled(n) \/ (n = position /\ phase \in {"handle", "steps"})
Acknowledged == \A n \in 1 .. committed : Handled(n)

PlaybookInv == Rows /\ Consumer /\ Hand /\ Ids /\ Committed /\ Read /\ Acknowledged

-----------------------------------------------------------------------------
(* A step of a playbook.                                                   *)

\* What a step answers: a command kind is "ok" exactly when it queues, a branch_if says
\* whether the next step is skipped.
LEMMA StepAnswers ==
    ASSUME NEW s, NEW a
    PROVE  /\ Executor!RunStep(s, a).outcome \in Outcome /\ Executor!RunStep(s, a).skip \in BOOLEAN
           /\ s.kind \in Executor!CommandKinds => (Executor!RunStep(s, a).outcome = "ok" <=> Executor!RunStep(s, a).queues # {})
           /\ s.kind = "branch_if" => Executor!RunStep(s, a).skip = (Facts[a].severity \notin s.arg)
<1>1. ASSUME NEW K PROVE Executor!Ok(K).outcome = "ok" /\ Executor!Ok(K).skip = FALSE /\ Executor!Ok(K).queues = K
  BY DEF Executor!Ok
<1>2. Executor!Skipped.outcome = "skipped" /\ Executor!Skipped.skip = FALSE /\ Executor!Skipped.queues = {}
  BY DEF Executor!Skipped
<1>3. Executor!Failed.outcome = "failed" /\ Executor!Failed.skip = FALSE /\ Executor!Failed.queues = {}
  BY DEF Executor!Failed, Executor!Skipped
<1>4. ASSUME NEW n, NEW k, NEW f, NEW w, w = Executor!RunResponse(n, k, f)
      PROVE  w.outcome \in Outcome /\ w.skip \in BOOLEAN /\ (w.outcome = "ok" <=> w.queues # {})
  BY <1>1, <1>2, <1>4 DEF Executor!RunResponse, Outcome
<1>5. PICK w : w = Executor!RunStep(s, a)
  OBVIOUS
<1>6. CASE s.kind \in Executor!CommandKinds
  <2>1. \E n, k, f : w = Executor!RunResponse(n, k, f)
    <3>1. CASE s.kind = "isolate"
      BY <1>5, <3>1 DEF Executor!RunStep
    <3>2. CASE s.kind = "kill"
      BY <1>5, <3>2 DEF Executor!RunStep
    <3>3. CASE s.kind = "quarantine"
      BY <1>5, <3>3 DEF Executor!RunStep
    <3>4. CASE s.kind = "triage_collect"
      BY <1>5, <3>4 DEF Executor!RunStep
    <3> QED
      BY <1>6, <3>1, <3>2, <3>3, <3>4 DEF Executor!CommandKinds
  <2>2. s.kind # "branch_if"
    BY <1>6 DEF Executor!CommandKinds
  <2> QED
    BY <1>4, <1>5, <2>1, <2>2
<1>7. CASE s.kind \in {"notify_slack", "notify_pagerduty", "notify_email"}
  <2>1. w = Executor!RunNotify(s) /\ s.kind \notin Executor!CommandKinds /\ s.kind # "branch_if"
    BY <1>5, <1>7 DEF Executor!RunStep, Executor!CommandKinds
  <2>2. PICK n : n = [Executor!Ok({}) EXCEPT !.sends = TRUE]
    OBVIOUS
  <2>3. n.outcome = "ok" /\ n.skip = FALSE
    BY <2>2 DEF Executor!Ok
  <2>4. w \in {Executor!Failed, n, Executor!Skipped}
    BY <2>1, <2>2 DEF Executor!RunNotify
  <2> QED
    BY <1>2, <1>3, <1>5, <2>1, <2>3, <2>4 DEF Outcome
<1>8. CASE s.kind = "branch_if"
  <2>1. w = Executor!EvalBranchIf(s, a) /\ s.kind \notin Executor!CommandKinds
    BY <1>5, <1>8 DEF Executor!RunStep, Executor!CommandKinds
  <2>2. PICK v \in BOOLEAN : v = (Facts[a].severity \notin s.arg)
    BY Zenon
  <2>3. w = [Executor!Ok({}) EXCEPT !.skip = v]
    BY <2>1, <2>2, Zenon DEF Executor!EvalBranchIf
  <2>4. w.outcome = "ok" /\ w.skip = v
    BY <2>3 DEF Executor!Ok
  <2>5. w.outcome \in Outcome
    BY <2>4 DEF Outcome
  <2>6. w.skip \in BOOLEAN /\ w.skip = (Facts[a].severity \notin s.arg)
    BY <2>2, <2>4, Zenon
  <2> QED
    BY <1>5, <2>1, <2>5, <2>6, Zenon
<1>9. CASE s.kind \notin Executor!CommandKinds \cup {"notify_slack", "notify_pagerduty", "notify_email", "branch_if"}
  <2>1. w = Executor!Ok({})
    BY <1>5, <1>9 DEF Executor!RunStep, Executor!CommandKinds
  <2>2. w.outcome = "ok" /\ w.skip = FALSE
    BY <2>1 DEF Executor!Ok
  <2>3. s.kind \notin Executor!CommandKinds /\ s.kind # "branch_if"
    BY <1>9
  <2> QED
    BY <1>5, <2>2, <2>3 DEF Outcome
<1> QED
  BY <1>6, <1>7, <1>8, <1>9

\* The queue after one more step.
LEMMA QueuedGrows ==
    ASSUME NEW b, NEW o \in Seq(Outcome), NEW Q, NEW v \in Outcome, NEW K, Queued(b, o, Q),
           b[Len(o) + 1].kind \in Executor!CommandKinds => (v = "ok" <=> K # {})
    PROVE  Queued(b, Append(o, v), Q \cup {<<Len(o) + 1, k>> : k \in K})
<1> DEFINE n == Len(o) + 1
           p == Append(o, v)
           R == Q \cup {<<n, k>> : k \in K}
<1>1. Len(o) \in Nat /\ Len(p) = n /\ p[n] = v /\ \A i \in 1 .. Len(o) : p[i] = o[i]
  OBVIOUS
<1>2. \A q : q \in R <=> q \in Q \/ \E k \in K : q = <<n, k>>
  OBVIOUS
<1>3. \A k : <<n, k>>[1] = n
  OBVIOUS
<1>4. \A i \in 1 .. n : i = n \/ i \in 1 .. Len(o)
  BY <1>1
<1>5. \A q \in R : q[1] \in 1 .. n
  BY <1>1, <1>2, <1>3 DEF Queued
<1>6. ASSUME NEW i \in 1 .. n, b[i].kind \in Executor!CommandKinds
      PROVE  p[i] = "ok" <=> \E q \in R : q[1] = i
  <2>1. CASE i = n
    <3>1. ~\E q \in Q : q[1] = n
      BY <1>1 DEF Queued
    <3>2. (\E q \in R : q[1] = n) <=> K # {}
      BY <1>2, <1>3, <3>1
    <3> QED
      BY <1>1, <1>6, <2>1, <3>2
  <2>2. CASE i # n
    <3>1. i \in 1 .. Len(o) /\ p[i] = o[i]
      BY <1>1, <1>4, <2>2
    <3>2. (\E q \in R : q[1] = i) <=> (\E q \in Q : q[1] = i)
      BY <1>2, <1>3, <2>2
    <3> QED
      BY <1>6, <3>1, <3>2 DEF Queued
  <2> QED
    BY <2>1, <2>2
<1> HIDE DEF p, R, n
<1>7. Queued(b, p, R)
  BY <1>1, <1>5, <1>6 DEF Queued
<1> QED
  BY <1>7 DEF p, R, n

\* The branches after one more step.
LEMMA BranchedGrows ==
    ASSUME NEW b, NEW o \in Seq(Outcome), NEW a, NEW v, Branched(b, o, a),
           \A i \in 1 .. Len(o) : i = Len(o) /\ Diverts(b, i, a) => v = "skipped" \/ o[i] = "skipped"
    PROVE  Branched(b, Append(o, v), a)
<1> DEFINE n == Len(o) + 1
           p == Append(o, v)
<1>1. Len(o) \in Nat /\ Len(p) = n /\ p[n] = v /\ \A i \in 1 .. Len(o) : p[i] = o[i]
  OBVIOUS
<1> SUFFICES ASSUME NEW i \in 2 .. n, Diverts(b, i - 1, a) PROVE p[i] = "skipped" \/ p[i - 1] = "skipped"
  BY <1>1 DEF Branched
<1>2. i - 1 \in 1 .. Len(o) /\ p[i - 1] = o[i - 1]
  BY <1>1
<1>3. CASE i = n
  BY <1>1, <1>2, <1>3
<1>4. CASE i # n
  <2>1. i \in 2 .. Len(o) /\ p[i] = o[i]
    BY <1>1, <1>4
  <2> QED
    BY <1>2, <2>1 DEF Branched
<1> QED
  BY <1>3, <1>4

\* One more step of a run: its outcome, the flag, and what it queues.
Advanced(x, y, v, s, K) ==
    y = [id |-> x.id, playbook |-> x.playbook, alert |-> x.alert, body |-> x.body,
         outcomes |-> Append(x.outcomes, v), skip |-> s,
         queued |-> x.queued \cup {<<Len(x.outcomes) + 1, k>> : k \in K}]

\* The run stays as it must be.
LEMMA WalkGoesOn ==
    ASSUME PlaybookConstants, NEW x, Walk(x), NEW y, NEW v \in Outcome, NEW s \in BOOLEAN, NEW K,
           Advanced(x, y, v, s, K), Len(x.outcomes) + 1 <= Len(x.body),
           x.body[Len(x.outcomes) + 1].kind \in Executor!CommandKinds => (v = "ok" <=> K # {}),
           x.skip => v = "skipped",
           Diverts(x.body, Len(x.outcomes) + 1, x.alert) => s \/ v = "skipped"
    PROVE  Walk(y) /\ y.id = x.id
<1> DEFINE n == Len(x.outcomes) + 1
           p == Append(x.outcomes, v)
           R == x.queued \cup {<<n, k>> : k \in K}
<1>1. y = [id |-> x.id, playbook |-> x.playbook, alert |-> x.alert, body |-> x.body,
           outcomes |-> p, skip |-> s, queued |-> R]
  BY DEF Advanced
<1>2. x.outcomes \in Seq(Outcome) /\ x.body \in Bodies
  BY DEF Walk
<1>3. Len(x.outcomes) \in Nat /\ p \in Seq(Outcome) /\ Len(p) = n /\ p[n] = v
  BY <1>2
<1>4. Queued(x.body, p, R)
  BY <1>2, QueuedGrows DEF Walk
<1>5. Branched(x.body, p, x.alert)
  <2>1. \A i \in 1 .. Len(x.outcomes) :
          i = Len(x.outcomes) /\ Diverts(x.body, i, x.alert) => v = "skipped" \/ x.outcomes[i] = "skipped"
    BY DEF Walk, Flagged
  <2> QED
    BY <1>2, <2>1, BranchedGrows DEF Walk
<1>6. /\ y.id = x.id /\ y.playbook = x.playbook /\ y.alert = x.alert /\ y.body = x.body
      /\ y.outcomes = p /\ y.skip = s /\ y.queued = R
  BY <1>1
<1>7. Flagged(y)
  BY <1>3, <1>6 DEF Flagged
<1> HIDE DEF p, R
<1>8. y = [id |-> y.id, playbook |-> y.playbook, alert |-> y.alert, body |-> y.body,
           outcomes |-> y.outcomes, skip |-> y.skip, queued |-> y.queued]
  BY <1>1, <1>6
<1> QED
  BY <1>2, <1>3, <1>4, <1>5, <1>6, <1>7, <1>8 DEF Walk

\* Assignments to the fields of a run.
IsRun(x) ==
    x = [id |-> x.id, playbook |-> x.playbook, alert |-> x.alert, body |-> x.body,
         outcomes |-> x.outcomes, skip |-> x.skip, queued |-> x.queued]

\* A run in hand with one more step recorded.
LEMMA WithOutcomes ==
    ASSUME NEW x, IsRun(x), NEW o
    PROVE  [x EXCEPT !.outcomes = o]
           = [id |-> x.id, playbook |-> x.playbook, alert |-> x.alert, body |-> x.body,
              outcomes |-> o, skip |-> x.skip, queued |-> x.queued]
BY DEF IsRun

\* A run in hand with a step recorded, the flag set and what the step queued.
LEMMA WithStep ==
    ASSUME NEW x, IsRun(x), NEW o, NEW s, NEW Q
    PROVE  [x EXCEPT !.outcomes = o, !.skip = s, !.queued = Q]
           = [id |-> x.id, playbook |-> x.playbook, alert |-> x.alert, body |-> x.body,
              outcomes |-> o, skip |-> s, queued |-> Q]
<1>1. PICK y : y = [id |-> x.id, playbook |-> x.playbook, alert |-> x.alert, body |-> x.body,
                    outcomes |-> o, skip |-> x.skip, queued |-> x.queued]
  OBVIOUS
<1>2. [x EXCEPT !.outcomes = o] = y
  BY <1>1, WithOutcomes
<1>3. PICK z : z = [id |-> x.id, playbook |-> x.playbook, alert |-> x.alert, body |-> x.body,
                    outcomes |-> o, skip |-> s, queued |-> x.queued]
  OBVIOUS
<1>4. [y EXCEPT !.skip = s] = z
  BY <1>1, <1>3
<1>5. [z EXCEPT !.queued = Q]
        = [id |-> x.id, playbook |-> x.playbook, alert |-> x.alert, body |-> x.body,
           outcomes |-> o, skip |-> s, queued |-> Q]
  BY <1>3
<1> QED
  BY <1>2, <1>4, <1>5

-----------------------------------------------------------------------------
(* The steps of the executor.                                              *)

\* Operators and producers.
LEMMA RowsMove ==
    ASSUME PlaybookInv, Rows',
           UNCHANGED <<phase, run, runs, commands, serial, passed, position, committed>>
    PROVE  PlaybookInv'
BY DEF PlaybookInv, Consumer, Hand, Ids, Committed, Read, Acknowledged, Handled

\* The rows are left alone.
LEMMA RowsKept ==
    ASSUME PlaybookInv, UNCHANGED <<playbooks, pending, alerts>> PROVE Rows'
BY DEF PlaybookInv, Rows

\* The producers' alerts.
LEMMA ProducerKeeps ==
    ASSUME PlaybookInv, NEW a, Executor!FireMatchingPlaybooks(a) \/ Executor!CommitAlert(a) \/ Executor!RollbackAlert(a)
    PROVE  PlaybookInv'
<1>1. UNCHANGED <<playbooks, phase, run, runs, commands, serial, passed, position, committed>>
  BY DEF Executor!FireMatchingPlaybooks, Executor!CommitAlert, Executor!RollbackAlert, Executor!db
<1>2. pending' \cap alerts' = {}
  <2>1. pending \cap alerts = {}
    BY DEF PlaybookInv, Rows
  <2>2. CASE Executor!FireMatchingPlaybooks(a)
    BY <2>1, <2>2 DEF Executor!FireMatchingPlaybooks
  <2>3. CASE Executor!CommitAlert(a)
    BY <2>1, <2>3 DEF Executor!CommitAlert
  <2>4. CASE Executor!RollbackAlert(a)
    BY <2>1, <2>4 DEF Executor!RollbackAlert
  <2> QED
    BY <2>2, <2>3, <2>4
<1>3. Rows'
  BY <1>1, <1>2 DEF PlaybookInv, Rows
<1> QED
  BY <1>1, <1>3, RowsMove

\* A saved playbook.
LEMMA SavePlaybookKeeps ==
    ASSUME PlaybookInv, NEW p \in Playbook, NEW on \in BOOLEAN, NEW body \in Bodies,
           Executor!SavePlaybook(p, on, body)
    PROVE  PlaybookInv'
<1>1. /\ playbooks' = [q \in DOMAIN playbooks \cup {p} |->
                          IF q = p THEN [enabled |-> on, body |-> body] ELSE playbooks[q]]
      /\ UNCHANGED <<pending, alerts, phase, run, runs, commands, serial, passed, position, committed>>
  BY DEF Executor!SavePlaybook, Executor!db, Executor!producer
<1>2. /\ playbooks' = [q \in DOMAIN playbooks' |-> playbooks'[q]]
      /\ DOMAIN playbooks' = DOMAIN playbooks \cup {p}
  BY <1>1
<1>3. \A q \in DOMAIN playbooks' : playbooks'[q].body \in Bodies
  <2>1. PICK w : w = [enabled |-> on, body |-> body]
    OBVIOUS
  <2>2. w.body \in Bodies
    BY <2>1
  <2>3. \A q \in DOMAIN playbooks' : playbooks'[q] = w \/ (q \in DOMAIN playbooks /\ playbooks'[q] = playbooks[q])
    BY <1>1, <2>1
  <2> QED
    BY <2>2, <2>3 DEF PlaybookInv, Rows
<1>4. Rows'
  BY <1>1, <1>2, <1>3 DEF PlaybookInv, Rows
<1> QED
  BY <1>1, <1>4, RowsMove

\* A deleted playbook takes its runs with it.
LEMMA DeletePlaybookKeeps ==
    ASSUME PlaybookInv, NEW p \in Playbook, Executor!DeletePlaybook(p) PROVE PlaybookInv'
<1> USE DEF PlaybookInv
<1>1. /\ run.id = 0
      /\ playbooks' = [q \in DOMAIN playbooks \ {p} |-> playbooks[q]]
      /\ runs' = {r \in runs : r.playbook # p}
      /\ passed' = passed \cup {r.offset : r \in runs \ runs'}
      /\ UNCHANGED <<pending, alerts, phase, run, commands, serial, position, committed>>
  BY DEF Executor!DeletePlaybook, Executor!producer
<1>2. Rows'
  BY <1>1 DEF Rows
<1>3. Consumer' /\ Hand'
  BY <1>1 DEF Consumer, Hand
<1>4. Ids' /\ Committed'
  BY <1>1 DEF Ids, Committed
<1>5. \A n : Handled(n) => Handled(n)'
  BY <1>1 DEF Handled
<1>6. Read' /\ Acknowledged'
  BY <1>1, <1>5 DEF Read, Acknowledged
<1> QED
  BY <1>2, <1>3, <1>4, <1>6

\* A message is read.
LEMMA FetchKeeps == ASSUME PlaybookInv, Executor!Fetch PROVE PlaybookInv'
<1> USE DEF PlaybookInv
<1>1. /\ phase = "idle" /\ position' = position + 1 /\ phase' = "handle"
      /\ UNCHANGED <<playbooks, pending, alerts, run, runs, commands, serial, passed, committed>>
  BY DEF Executor!Fetch, Executor!db, Executor!producer
<1>2. Rows'
  BY <1>1, RowsKept
<1>3. Consumer' /\ Hand' /\ Ids' /\ Committed'
  BY <1>1 DEF Consumer, Hand, Ids, Committed
<1>4. \A n : Handled(n) => Handled(n)'
  BY <1>1 DEF Handled
<1>5. \A n \in 1 .. position' : n \in 1 .. position \/ n = position'
  BY <1>1 DEF Consumer
<1>6. Read' /\ Acknowledged'
  BY <1>1, <1>4, <1>5 DEF Read, Acknowledged
<1> QED
  BY <1>2, <1>3, <1>6

\* Handling a message ends without a run: its offset is passed.
LEMMA Passes ==
    ASSUME PlaybookInv, phase \in {"handle", "steps"}, phase' \in {"idle", "commit"}, run' = Executor!NoRun,
           passed' = passed \cup {position},
           UNCHANGED <<playbooks, pending, alerts, runs, commands, serial, position, committed>>
    PROVE  PlaybookInv'
<1> USE DEF PlaybookInv
<1>1. Rows' /\ Consumer' /\ Hand' /\ Committed'
  BY RowsKept DEF Consumer, Hand, Committed
<1>2. Ids'
  <2>1. Executor!NoRun.id = 0 /\ serial \in Nat
    BY DEF Executor!NoRun, Consumer
  <2> QED
    BY <2>1 DEF Ids
<1>3. \A n : Handled(n) \/ n = position => Handled(n)'
  BY DEF Handled
<1>4. Read' /\ Acknowledged'
  BY <1>3 DEF Read, Acknowledged
<1> QED
  BY <1>1, <1>2, <1>4

\* A playbook that is gone or disabled, an alert that is not there, an error.
LEMMA DropsAndRaisesKeep ==
    ASSUME PlaybookInv, Executor!HandleDrops \/ Executor!HandleAlertMissing \/ Executor!HandleRaises PROVE PlaybookInv'
<1>1. UNCHANGED <<playbooks, pending, alerts, runs, commands, serial, position, committed>>
  BY DEF Executor!HandleDrops, Executor!HandleAlertMissing, Executor!HandleRaises, Executor!db, Executor!producer
<1>2. phase \in {"handle", "steps"} /\ phase' \in {"idle", "commit"} /\ passed' = passed \cup {position}
  BY DEF Executor!HandleDrops, Executor!HandleAlertMissing, Executor!HandleRaises, Executor!Raise
<1>3. run' = Executor!NoRun
  <2>1. CASE Executor!HandleDrops
    BY <2>1 DEF Executor!HandleDrops, PlaybookInv, Hand
  <2>2. CASE Executor!HandleAlertMissing \/ Executor!HandleRaises
    BY <2>2 DEF Executor!HandleAlertMissing, Executor!HandleRaises, Executor!Raise
  <2> QED
    BY <2>1, <2>2
<1> QED
  BY <1>1, <1>2, <1>3, Passes

\* A run is begun under a new id.
LEMMA HandleStartsKeeps ==
    ASSUME PlaybookConstants, PlaybookInv, Executor!HandleStarts PROVE PlaybookInv'
<1> USE DEF PlaybookInv
<1> DEFINE p == topic[position][1]
           a == topic[position][2]
<1>1. /\ phase = "handle" /\ Executor!Runnable(p) /\ phase' = "steps" /\ serial' = serial + 1
      /\ run' = [id |-> serial + 1, playbook |-> p, alert |-> a, body |-> playbooks[p].body,
                 outcomes |-> <<>>, skip |-> FALSE, queued |-> {}]
      /\ UNCHANGED <<playbooks, pending, alerts, runs, commands, passed, position, committed>>
  BY DEF Executor!HandleStarts, Executor!db, Executor!producer
<1>2. PICK b \in Bodies : b = playbooks[p].body
  BY <1>1 DEF Executor!Runnable, Rows
<1> HIDE DEF p, a
<1>3. run' = [id |-> serial + 1, playbook |-> p, alert |-> a, body |-> b,
              outcomes |-> <<>>, skip |-> FALSE, queued |-> {}]
  BY <1>1, <1>2
<1>4. /\ run'.id = serial + 1 /\ run'.playbook = p /\ run'.alert = a /\ run'.body = b
      /\ run'.outcomes = <<>> /\ run'.skip = FALSE /\ run'.queued = {}
  BY <1>3
<1>5. serial \in Nat /\ serial' \in Nat
  BY <1>1 DEF Consumer
<1>6. Walk(run')
  <2>1. run'.outcomes \in Seq(Outcome) /\ Len(run'.outcomes) = 0 /\ Len(b) \in Nat
    BY <1>4 DEF PlaybookConstants
  <2>2. Queued(run'.body, run'.outcomes, run'.queued)
    BY <1>4, <2>1 DEF Queued
  <2>3. Branched(run'.body, run'.outcomes, run'.alert)
    BY <2>1 DEF Branched
  <2>4. Flagged(run')
    <3>1. run'.skip \in BOOLEAN
      BY <1>4, Zenon
    <3>2. \A i \in 1 .. Len(run'.outcomes) : FALSE
      BY <2>1
    <3> QED
      BY <3>1, <3>2, Zenon DEF Flagged
  <2>5. run' = [id |-> run'.id, playbook |-> run'.playbook, alert |-> run'.alert, body |-> run'.body,
                outcomes |-> run'.outcomes, skip |-> run'.skip, queued |-> run'.queued]
    BY <1>3, <1>4
  <2> QED
    BY <1>4, <2>1, <2>2, <2>3, <2>4, <2>5 DEF Walk
<1>7. Hand'
  BY <1>1, <1>4, <1>5, <1>6 DEF Hand
<1>8. Rows' /\ Consumer' /\ Committed'
  BY <1>1, <1>5, RowsKept DEF Consumer, Committed
<1>9. Ids'
  BY <1>1, <1>4, <1>5 DEF Ids
<1>10. \A n : Handled(n) => Handled(n)'
  BY <1>1 DEF Handled
<1>11. Read' /\ Acknowledged'
  BY <1>1, <1>10 DEF Read, Acknowledged
<1> QED
  BY <1>7, <1>8, <1>9, <1>11

\* One iteration of the loop.
LEMMA StepKeeps == ASSUME PlaybookConstants, PlaybookInv, Executor!Step PROVE PlaybookInv'
<1> USE DEF PlaybookInv
<1> DEFINE i == Len(run.outcomes) + 1
           s == run.body[i]
           res == IF run.skip THEN Executor!Skipped ELSE Executor!RunStep(s, run.alert)
<1>1. /\ phase = "steps" /\ i <= Len(run.body)
      /\ \/ run' = [run EXCEPT !.outcomes = Append(@, res.outcome), !.skip = res.skip,
                               !.queued = @ \cup {<<i, k>> : k \in res.queues}]
         \/ ~run.skip /\ s.kind # "branch_if" /\ run' = [run EXCEPT !.outcomes = Append(@, "failed")]
      /\ UNCHANGED <<playbooks, pending, alerts, phase, runs, commands, serial, passed, position, committed>>
  BY DEF Executor!Step, Executor!db, Executor!producer
<1>2. Walk(run) /\ run.id \in 1 .. serial
  BY <1>1 DEF Hand
<1>3. IsRun(run)
  BY <1>2 DEF Walk, IsRun
<1>4. Walk(run') /\ run'.id = run.id
  <2>1. CASE run' = [run EXCEPT !.outcomes = Append(@, res.outcome), !.skip = res.skip,
                                !.queued = @ \cup {<<i, k>> : k \in res.queues}]
    <3>1. /\ res.outcome \in Outcome /\ res.skip \in BOOLEAN
          /\ s.kind \in Executor!CommandKinds => (res.outcome = "ok" <=> res.queues # {})
          /\ run.skip => res.outcome = "skipped"
          /\ Diverts(run.body, i, run.alert) => res.skip \/ res.outcome = "skipped"
      <4>1. CASE run.skip
        <5>1. res.outcome = "skipped" /\ res.skip = FALSE /\ res.queues = {}
          BY <4>1 DEF Executor!Skipped
        <5> QED
          BY <5>1 DEF Outcome
      <4>2. CASE ~run.skip
        <5>1. res = Executor!RunStep(s, run.alert)
          BY <4>2
        <5> HIDE DEF res, s
        <5>2. /\ res.outcome \in Outcome /\ res.skip \in BOOLEAN
              /\ s.kind \in Executor!CommandKinds => (res.outcome = "ok" <=> res.queues # {})
              /\ s.kind = "branch_if" => res.skip = (Facts[run.alert].severity \notin s.arg)
          BY <5>1, StepAnswers, Zenon
        <5>3. Diverts(run.body, i, run.alert) => res.skip
          BY <5>2, Zenon DEF Diverts, s
        <5> QED
          BY <4>2, <5>2, <5>3, Zenon
      <4> QED
        BY <4>1, <4>2
    <3> HIDE DEF res
    <3>2. PICK v, t, K : v = res.outcome /\ t = res.skip /\ K = res.queues
      OBVIOUS
    <3>3. /\ v \in Outcome /\ t \in BOOLEAN /\ (s.kind \in Executor!CommandKinds => (v = "ok" <=> K # {}))
          /\ (run.skip => v = "skipped") /\ (Diverts(run.body, i, run.alert) => t \/ v = "skipped")
      BY <3>1, <3>2, Zenon
    <3>4. run' = [run EXCEPT !.outcomes = Append(run.outcomes, v), !.skip = t,
                             !.queued = run.queued \cup {<<i, k>> : k \in K}]
      BY <2>1, <3>2, <1>3 DEF IsRun
    <3>5. Advanced(run, run', v, t, K)
      BY <1>3, <3>4, WithStep DEF Advanced
    <3> QED
      BY <1>1, <1>2, <3>3, <3>5, WalkGoesOn
  <2>2. CASE /\ ~run.skip /\ s.kind # "branch_if" /\ run' = [run EXCEPT !.outcomes = Append(@, "failed")]
    <3>1. run' = [id |-> run.id, playbook |-> run.playbook, alert |-> run.alert, body |-> run.body,
                  outcomes |-> Append(run.outcomes, "failed"), skip |-> run.skip, queued |-> run.queued]
      BY <1>3, <2>2, WithOutcomes
    <3>2. PICK K : K = {}
      OBVIOUS
    <3>3. run.queued \cup {<<i, k>> : k \in K} = run.queued
      BY <3>2
    <3>4. Advanced(run, run', "failed", run.skip, K)
      BY <3>1, <3>3 DEF Advanced
    <3>5. "failed" \in Outcome /\ run.skip \in BOOLEAN
      BY <1>2 DEF Outcome, Walk, Flagged
    <3>6. ~Diverts(run.body, i, run.alert)
      BY <2>2 DEF Diverts
    <3> QED
      BY <1>1, <1>2, <2>2, <3>2, <3>4, <3>5, <3>6, WalkGoesOn
  <2> QED
    BY <1>1, <2>1, <2>2
<1>5. Rows' /\ Consumer' /\ Hand' /\ Ids' /\ Committed'
  BY <1>1, <1>2, <1>4, RowsKept DEF Consumer, Hand, Ids, Committed
<1>6. \A n : Handled(n) => Handled(n)'
  BY <1>1 DEF Handled
<1>7. Read' /\ Acknowledged'
  BY <1>1, <1>6 DEF Read, Acknowledged
<1> QED
  BY <1>5, <1>7

\* A final status is one of three.
LEMMA StatusIs == ASSUME NEW o PROVE Executor!FinalStatus(o) \in {"succeeded", "failed", "partial"}
BY DEF Executor!FinalStatus

\* The run and its commands are committed together.
LEMMA FinishKeeps == ASSUME PlaybookConstants, PlaybookInv, Executor!Finish PROVE PlaybookInv'
<1> USE DEF PlaybookInv
<1> DEFINE new == [id |-> run.id, playbook |-> run.playbook, alert |-> run.alert,
                   body |-> run.body, outcomes |-> run.outcomes,
                   status |-> Executor!FinalStatus(run.outcomes), offset |-> position]
           C == {<<run.id, q[1], q[2]>> : q \in run.queued}
<1>1. /\ phase = "steps" /\ Len(run.outcomes) = Len(run.body) /\ phase' = "commit" /\ run' = Executor!NoRun
      /\ runs' = runs \cup {new} /\ commands' = commands \cup C
      /\ UNCHANGED <<playbooks, pending, alerts, serial, passed, position, committed>>
  BY DEF Executor!Finish, Executor!producer
<1>2. Walk(run) /\ run.id \in 1 .. serial /\ serial \in Nat
  BY <1>1 DEF Hand, Consumer
<1>3. /\ new.id = run.id /\ new.alert = run.alert /\ new.body = run.body /\ new.outcomes = run.outcomes
      /\ new.status = Executor!FinalStatus(run.outcomes) /\ new.offset = position
  OBVIOUS
<1> HIDE DEF new
<1>4. \A c \in C : \E q \in run.queued : c[1] = run.id /\ c[2] = q[1]
  OBVIOUS
<1>5. \A q \in run.queued : \E c \in C : c[1] = run.id /\ c[2] = q[1]
  <2> TAKE q \in run.queued
  <2>1. <<run.id, q[1], q[2]>> \in C
    OBVIOUS
  <2> QED
    BY <2>1
<1> HIDE DEF C
<1>6. \A i : (\E c \in commands' : c[1] = run.id /\ c[2] = i) <=> (\E q \in run.queued : q[1] = i)
  BY <1>1, <1>4, <1>5 DEF Ids
<1>7. Done(new, commands')
  <2>1. new.status \in {"succeeded", "failed", "partial"}
    BY <1>3, StatusIs
  <2>2. /\ Len(new.body) \in Nat /\ DOMAIN new.body = 1 .. Len(new.body)
        /\ new.outcomes \in Seq(Outcome) /\ Len(new.outcomes) = Len(new.body)
        /\ Branched(new.body, new.outcomes, new.alert)
    BY <1>1, <1>2, <1>3 DEF Walk, PlaybookConstants
  <2>3. \A i \in 1 .. Len(new.body) :
          new.body[i].kind \in Executor!CommandKinds
              => (new.outcomes[i] = "ok" <=> \E c \in commands' : c[1] = new.id /\ c[2] = i)
    BY <1>1, <1>2, <1>3, <1>6 DEF Walk, Queued
  <2> QED
    BY <2>1, <2>2, <2>3 DEF Done
<1>8. \A r \in runs : Done(r, commands')
  <2> SUFFICES ASSUME NEW r \in runs PROVE Done(r, commands')
    OBVIOUS
  <2>1. Done(r, commands) /\ r.id # run.id
    BY DEF Committed, Ids
  <2>2. \A i : (\E c \in commands' : c[1] = r.id /\ c[2] = i) <=> (\E c \in commands : c[1] = r.id /\ c[2] = i)
    BY <1>1, <1>4, <2>1
  <2> QED
    BY <2>1, <2>2 DEF Done
<1>9. Committed'
  BY <1>1, <1>7, <1>8 DEF Committed
<1>10. Ids'
  <2>1. run'.id = 0
    BY <1>1 DEF Executor!NoRun
  <2> QED
    BY <1>1, <1>2, <1>3, <1>4, <2>1 DEF Ids
<1>11. Rows' /\ Consumer' /\ Hand'
  BY <1>1, RowsKept DEF Consumer, Hand
<1>12. \A n : Handled(n) \/ n = position => Handled(n)'
  BY <1>1, <1>3 DEF Handled
<1>13. Read' /\ Acknowledged'
  BY <1>1, <1>12 DEF Read, Acknowledged
<1> QED
  BY <1>9, <1>10, <1>11, <1>13

\* The offset is committed.
LEMMA RunCommitKeeps == ASSUME PlaybookInv, Executor!Commit PROVE PlaybookInv'
<1> USE DEF PlaybookInv
<1>1. /\ phase = "commit" /\ phase' = "idle" /\ committed' = position
      /\ UNCHANGED <<playbooks, pending, alerts, run, runs, commands, serial, passed, position>>
  BY DEF Executor!Commit, Executor!db, Executor!producer
<1>2. Rows' /\ Consumer' /\ Hand' /\ Ids' /\ Committed'
  BY <1>1, RowsKept DEF Consumer, Hand, Ids, Committed
<1>3. \A n : Handled(n) => Handled(n)'
  BY <1>1 DEF Handled
<1>4. Read' /\ Acknowledged'
  BY <1>1, <1>3 DEF Read, Acknowledged
<1> QED
  BY <1>2, <1>4

\* The executor starts again behind the committed offset, or at the end of the topic with
\* all it has not handled passed over.
LEMMA RestartKeeps == ASSUME RunsTopic, PlaybookInv, Executor!Restart PROVE PlaybookInv'
<1> USE DEF PlaybookInv
<1>1. /\ phase' = "idle" /\ position' = (IF committed = 0 THEN Len(topic) ELSE committed)
      /\ run' = Executor!NoRun /\ passed' = passed \cup {n \in 1 .. Len(topic) : committed = 0 /\ n >= position}
      /\ UNCHANGED <<playbooks, pending, alerts, runs, commands, serial, committed>>
  BY DEF Executor!Restart, Executor!db, Executor!producer
<1>2. Len(topic) \in Nat
  BY DEF RunsTopic
<1>3. Rows' /\ Consumer' /\ Hand' /\ Committed'
  BY <1>1, <1>2, RowsKept DEF Consumer, Hand, Committed
<1>4. Ids'
  <2>1. run'.id = 0 /\ serial \in Nat
    BY <1>1 DEF Executor!NoRun, Consumer
  <2> QED
    BY <1>1, <2>1 DEF Ids
<1>5. \A n : Handled(n) => Handled(n)'
  BY <1>1 DEF Handled
<1>6. Acknowledged'
  BY <1>1, <1>5 DEF Acknowledged
<1>7. Read'
  <2> SUFFICES ASSUME NEW n \in 1 .. position' PROVE Handled(n)'
    BY DEF Read
  <2>1. CASE committed # 0
    BY <1>1, <1>5, <2>1 DEF Acknowledged
  <2>2. CASE committed = 0 /\ n >= position
    BY <1>1, <2>2 DEF Handled
  <2>3. CASE committed = 0 /\ ~(n >= position)
    <3>1. n \in 1 .. position /\ n # position
      BY <1>1, <1>2, <2>3 DEF Consumer
    <3> QED
      BY <1>5, <3>1 DEF Read
  <2> QED
    BY <2>1, <2>2, <2>3
<1> QED
  BY <1>3, <1>4, <1>6, <1>7

-----------------------------------------------------------------------------
(* The invariant and the theorems.                                         *)

\* The first states.
LEMMA PlaybookInit == Executor!Init => PlaybookInv
<1> SUFFICES ASSUME Executor!Init PROVE PlaybookInv
  OBVIOUS
<1>1. Rows
  BY DEF Executor!Init, Rows
<1>2. Consumer /\ Hand
  BY DEF Executor!Init, Consumer, Hand
<1>3. Ids /\ Committed /\ Read /\ Acknowledged
  BY DEF Executor!Init, Ids, Committed, Read, Acknowledged
<1> QED
  BY <1>1, <1>2, <1>3 DEF PlaybookInv

\* The cardinality of the executor's module is that of FiniteSets.
LEMMA PlaybookCardinality == ASSUME NEW S PROVE Executor!Cardinality(S) = Cardinality(S)
BY DEF Executor!Cardinality, Cardinality

\* The producers append to the topic, and nobody else writes it.
LEMMA RunsTopicInvariant == ASSUME PlaybookConstants PROVE Executor!Spec => []RunsTopic
<1>1. Executor!Init => RunsTopic
  BY DEF Executor!Init, RunsTopic
<1>2. RunsTopic /\ [Executor!Next]_(Executor!vars) => RunsTopic'
  <2> SUFFICES ASSUME RunsTopic, [Executor!Next]_(Executor!vars) PROVE RunsTopic'
    OBVIOUS
  <2>1. ASSUME NEW a \in Alerts, Executor!FireMatchingPlaybooks(a) PROVE RunsTopic'
    <3>1. playbooks' = playbooks
      BY <2>1 DEF Executor!FireMatchingPlaybooks
    <3>2. PICK out \in SUBSET Executor!FindMatchingPlaybooks(a) :
            \E order \in [1 .. Executor!Cardinality(out) -> out] :
                topic' = topic \o [i \in 1 .. Executor!Cardinality(out) |-> <<order[i], a>>]
      BY <2>1 DEF Executor!FireMatchingPlaybooks
    <3>3. PICK order \in [1 .. Executor!Cardinality(out) -> out] :
            topic' = topic \o [i \in 1 .. Executor!Cardinality(out) |-> <<order[i], a>>]
      BY <3>2
    <3>4. out \subseteq Playbook
      BY DEF RunsTopic, Executor!FindMatchingPlaybooks
    <3>5. PICK n : n = Executor!Cardinality(out) /\ n \in Nat
      <4>1. Cardinality(out) \in Nat
        BY <3>4, FS_Subset, FS_CardinalityType DEF PlaybookConstants
      <4> QED
        BY <4>1, PlaybookCardinality
    <3>6. [i \in 1 .. n |-> <<order[i], a>>] \in Seq(Playbook \X Alerts)
      <4>1. \A i \in 1 .. n : <<order[i], a>> \in Playbook \X Alerts
        BY <3>4, <3>5
      <4> QED
        BY <3>5, <4>1
    <3>7. PICK t \in Seq(Playbook \X Alerts) : topic' = topic \o t
      BY <3>3, <3>5, <3>6
    <3>8. topic' \in Seq(Playbook \X Alerts)
      BY <3>7 DEF RunsTopic
    <3> QED
      BY <3>1, <3>8 DEF RunsTopic
  <2>2. ASSUME NEW a \in Alerts, Executor!CommitAlert(a) \/ Executor!RollbackAlert(a) PROVE RunsTopic'
    BY <2>2 DEF RunsTopic, Executor!CommitAlert, Executor!RollbackAlert
  <2>3. CASE Executor!Fetch \/ Executor!HandleDrops \/ Executor!HandleStarts \/ Executor!HandleAlertMissing \/ Executor!HandleRaises
    BY <2>3 DEF RunsTopic, Executor!producer, Executor!Fetch, Executor!HandleDrops, Executor!HandleStarts,
       Executor!HandleAlertMissing, Executor!HandleRaises
  <2>4. CASE Executor!Step \/ Executor!Finish \/ Executor!Commit \/ Executor!Restart
    BY <2>4 DEF RunsTopic, Executor!producer, Executor!Step, Executor!Finish, Executor!Commit, Executor!Restart
  <2>5. ASSUME NEW p \in Playbook, NEW on \in BOOLEAN, NEW body \in Bodies, Executor!SavePlaybook(p, on, body)
        PROVE  RunsTopic'
    BY <2>5 DEF RunsTopic, Executor!producer, Executor!SavePlaybook
  <2>6. ASSUME NEW p \in Playbook, Executor!DeletePlaybook(p) PROVE RunsTopic'
    BY <2>6 DEF RunsTopic, Executor!producer, Executor!DeletePlaybook
  <2>7. CASE UNCHANGED Executor!vars
    BY <2>7 DEF RunsTopic, Executor!vars, Executor!producer
  <2> QED
    BY <2>1, <2>2, <2>3, <2>4, <2>5, <2>6, <2>7 DEF Executor!Next
<1> QED
  BY <1>1, <1>2, PTL DEF Executor!Spec

\* Every step.
LEMMA PlaybookStep ==
    ASSUME PlaybookConstants, RunsTopic, PlaybookInv, [Executor!Next]_(Executor!vars) PROVE PlaybookInv'
<1>1. CASE \E a \in Alerts : Executor!FireMatchingPlaybooks(a) \/ Executor!CommitAlert(a) \/ Executor!RollbackAlert(a)
  BY <1>1, ProducerKeeps
<1>2. CASE Executor!Fetch \/ Executor!HandleDrops \/ Executor!HandleStarts \/ Executor!HandleAlertMissing \/ Executor!HandleRaises
  BY <1>2, FetchKeeps, DropsAndRaisesKeep, HandleStartsKeeps
<1>3. CASE Executor!Step \/ Executor!Finish \/ Executor!Commit \/ Executor!Restart
  BY <1>3, StepKeeps, FinishKeeps, RunCommitKeeps, RestartKeeps
<1>4. CASE \E p \in Playbook, on \in BOOLEAN, body \in Bodies : Executor!SavePlaybook(p, on, body)
  BY <1>4, SavePlaybookKeeps
<1>5. CASE \E p \in Playbook : Executor!DeletePlaybook(p)
  BY <1>5, DeletePlaybookKeeps
<1>6. CASE UNCHANGED Executor!vars
  <2>1. UNCHANGED <<playbooks, pending, alerts, phase, run, runs, commands, serial, passed, position, committed>>
    BY <1>6 DEF Executor!vars, Executor!producer, Executor!db
  <2> QED
    BY <2>1, RowsKept, RowsMove
<1> QED
  BY <1>1, <1>2, <1>3, <1>4, <1>5, <1>6 DEF Executor!Next

\* The invariant, as it is used below.
LEMMA PlaybookInvariant == ASSUME PlaybookConstants PROVE Executor!Spec => []PlaybookInv
<1>1. Executor!Init => PlaybookInv
  BY PlaybookInit
<1>2. RunsTopic /\ PlaybookInv /\ [Executor!Next]_(Executor!vars) => PlaybookInv'
  BY PlaybookStep
<1> QED
  BY <1>1, <1>2, RunsTopicInvariant, PTL DEF Executor!Spec

\* The executor's state has its type in every reachable state.
THEOREM PlaybooksTypes == ASSUME PlaybookConstants PROVE Executor!Spec => []Executor!TypeOK
<1>1. PlaybookInv => Executor!TypeOK
  BY DEF PlaybookInv, Executor!TypeOK, Rows, Consumer, Committed, Done
<1> QED
  BY <1>1, PlaybookInvariant, PTL

\* Whatever fails between the steps of a playbook, a committed run and its commands are
\* there together: a response step recorded "ok" has its command and no other has one,
\* and the step behind a branch_if that is false was skipped.
THEOREM RunsMatchCommands == ASSUME PlaybookConstants PROVE Executor!Spec => []Executor!RunMatchesCommands
<1>1. PlaybookInv => Executor!RunMatchesCommands
  <2> SUFFICES ASSUME PlaybookInv, NEW r \in runs, NEW i \in DOMAIN r.body
               PROVE  /\ r.body[i].kind \in Executor!CommandKinds =>
                           (r.outcomes[i] = "ok" <=> \E c \in commands : c[1] = r.id /\ c[2] = i)
                      /\ i > 1 /\ r.body[i - 1].kind = "branch_if"
                         /\ Facts[r.alert].severity \notin r.body[i - 1].arg
                           => r.outcomes[i] = "skipped" \/ r.outcomes[i - 1] = "skipped"
    BY DEF Executor!RunMatchesCommands
  <2>1. Done(r, commands)
    BY DEF PlaybookInv, Committed
  <2>2. i \in 1 .. Len(r.body) /\ Len(r.body) \in Nat /\ Len(r.outcomes) = Len(r.body)
    BY <2>1 DEF Done
  <2>3. i > 1 => i \in 2 .. Len(r.outcomes)
    BY <2>2
  <2>4. Branched(r.body, r.outcomes, r.alert)
    BY <2>1 DEF Done
  <2>5. i > 1 /\ Diverts(r.body, i - 1, r.alert) => r.outcomes[i] = "skipped" \/ r.outcomes[i - 1] = "skipped"
    BY <2>3, <2>4 DEF Branched
  <2> QED
    BY <2>1, <2>2, <2>5 DEF Done, Diverts
<1> QED
  BY <1>1, PlaybookInvariant, PTL

\* A message the executor has acknowledged has led to a run, unless its handling raised,
\* found no playbook to run, its run went with the playbook, or the executor crashed
\* before its group's first commit and started again at the end of the topic.
THEOREM AcknowledgedFireHandled == ASSUME PlaybookConstants PROVE Executor!Spec => []Executor!FireHandled
<1>1. PlaybookInv => Executor!FireHandled
  BY DEF PlaybookInv, Acknowledged, Handled, Executor!FireHandled
<1> QED
  BY <1>1, PlaybookInvariant, PTL
(***************************************************************************)
(* Proofs about the live alert stream (AlertStream).                       *)
(*                                                                         *)
(* A client that was connected when an alert was committed has stayed so,  *)
(* hence its instance has been up since.  Until somebody takes the         *)
(* alert's lock that instance has the alert ahead of its mark; whoever     *)
(* takes the lock publishes to the client's instance, or a fault excuses   *)
(* the row; and what is published waits in the channel, then in the queue. *)
(***************************************************************************)
\* What the proofs assume of the constants.
StreamConstants ==
    /\ IsFiniteSet(Alert) /\ "gone" \notin Alert /\ Home \in [Client -> Instance]
    /\ QUEUE_MAX \in Nat \ {0} /\ BATCH \in Nat \ {0} /\ LOCK_TTL \in Nat /\ LOOKBACK \in Nat
    /\ MaxTime \in Nat

\* The table and the clock.
Table ==
    /\ now \in 0 .. MaxTime /\ created \in [Alert -> 0 .. Stream!Never]
    /\ committed \subseteq Alert /\ \A a \in committed : created[a] \in 0 .. MaxTime
    /\ lock \in [Alert -> Nat] /\ \A a \in Alert : lock[a] # 0 => a \in committed

\* An instance: the rows of its poll are committed.
InstOk(x, K) ==
    /\ x = [st |-> x.st, mark |-> x.mark, rows |-> x.rows]
    /\ x.st \in {"down", "idle", "row", "won"} /\ x.mark \in 0 .. MaxTime
    /\ x.rows \in Seq(K) /\ (x.rows # <<>> <=> x.st \in {"row", "won"})

Instances ==
    /\ inst = [i \in Instance |-> inst[i]] /\ \A i \in Instance : InstOk(inst[i], committed)
    /\ ~redis => \A i, j \in Instance : Stream!Up(i) /\ Stream!Up(j) => i = j

\* Channels, queues and what was sent.
QueueOk(q) == q \in Seq(Alert) /\ Len(q) <= QUEUE_MAX
Streams ==
    /\ channel \in [Instance -> Seq(Alert)] /\ got \in [Client -> Seq(Alert)]
    /\ queue = [c \in Client |-> queue[c]] /\ \A c \in Client : queue[c] = Stream!Gone \/ QueueOk(queue[c])
    /\ owed \in [Client -> SUBSET committed]
    /\ \A c \in Client : Stream!Connected(c) => Stream!Up(Home[c])

\* Where an alert is on its way to a client.
Has(c, a) == a \in Stream!ToSet(got[c]) \/ a \in Stream!ToSet(queue[c]) \/ a \in Stream!ToSet(channel[Home[c]])
Held(a) == \E j \in Instance : inst[j].st = "won" /\ inst[j].rows[1] = a
NotYet(x, a) ==
    x.mark < created[a] /\ (x.rows # <<>> => a \in Stream!ToSet(x.rows) \/ created[Stream!Last(x.rows)] < created[a])

Due(c, a) == Stream!Connected(c) /\ a \in owed[c] /\ a \in Visible[c]
OnTheWay ==
    \A c \in Client, a \in committed \ excused :
        Due(c, a) => Has(c, a) \/ Held(a) \/ (lock[a] = 0 /\ NotYet(inst[Home[c]], a))

StreamInv == Table /\ Instances /\ Streams /\ OnTheWay

-----------------------------------------------------------------------------
(* Sequences.                                                              *)

\* What is appended is in the sequence, with all that was.
LEMMA AppendSet ==
    ASSUME NEW S, NEW q \in Seq(S), NEW a \in S
    PROVE  Append(q, a) \in Seq(S) /\ a \in Stream!ToSet(Append(q, a)) /\ Stream!ToSet(q) \subseteq Stream!ToSet(Append(q, a))
<1> DEFINE p == Append(q, a)
<1>1. /\ p \in Seq(S) /\ Len(q) \in Nat /\ Len(p) = Len(q) + 1 /\ p[Len(q) + 1] = a
      /\ DOMAIN p = 1 .. Len(q) + 1 /\ DOMAIN q = 1 .. Len(q)
      /\ \A i \in 1 .. Len(q) : p[i] = q[i]
  OBVIOUS
<1>2. Len(q) + 1 \in DOMAIN p /\ \A i \in DOMAIN q : i \in DOMAIN p
  BY <1>1
<1> HIDE DEF p
<1>3. p \in Seq(S) /\ a \in Stream!ToSet(p) /\ Stream!ToSet(q) \subseteq Stream!ToSet(p)
  BY <1>1, <1>2 DEF Stream!ToSet
<1> QED
  BY <1>3 DEF p

\* The first entry and the rest.
LEMMA TailSet ==
    ASSUME NEW S, NEW q \in Seq(S), q # <<>>
    PROVE  /\ Tail(q) \in Seq(S) /\ q[1] \in S /\ Len(q) >= 1 /\ Len(Tail(q)) = Len(q) - 1
           /\ Stream!ToSet(q) \subseteq {q[1]} \cup Stream!ToSet(Tail(q)) /\ q[1] \in Stream!ToSet(q)
           /\ Tail(q) = <<>> => Stream!Last(q) = q[1]
           /\ Tail(q) # <<>> => Stream!Last(Tail(q)) = Stream!Last(q)
<1> DEFINE t == Tail(q)
<1>1. /\ Len(q) \in Nat /\ Len(q) >= 1 /\ DOMAIN q = 1 .. Len(q) /\ t \in Seq(S)
      /\ Len(t) = Len(q) - 1 /\ DOMAIN t = 1 .. Len(q) - 1
      /\ \A i \in 1 .. Len(q) - 1 : t[i] = q[i + 1]
  OBVIOUS
<1>2. 1 \in DOMAIN q /\ q[1] \in S
  BY <1>1
<1> HIDE DEF t
<1>3. \A i \in DOMAIN q : i = 1 \/ (i - 1 \in DOMAIN t /\ t[i - 1] = q[i])
  BY <1>1
<1>4. Stream!ToSet(q) \subseteq {q[1]} \cup Stream!ToSet(t) /\ q[1] \in Stream!ToSet(q)
  BY <1>2, <1>3 DEF Stream!ToSet
<1>5. t = <<>> => Stream!Last(q) = q[1]
  <2>1. t = <<>> => Len(t) = 0
    OBVIOUS
  <2>2. Len(q) \in Nat /\ Len(t) = Len(q) - 1
    BY <1>1
  <2>3. t = <<>> => Len(q) = 1
    BY <2>1, <2>2
  <2> QED
    BY <2>3 DEF Stream!Last
<1>6. t # <<>> => Stream!Last(t) = Stream!Last(q)
  <2> SUFFICES ASSUME t # <<>> PROVE Stream!Last(t) = Stream!Last(q)
    OBVIOUS
  <2>1. Len(t) # 0
    BY <1>1
  <2>2. Len(q) - 1 \in 1 .. Len(q) - 1 /\ Len(q) - 1 + 1 = Len(q)
    BY <1>1, <2>1
  <2> QED
    BY <1>1, <2>2 DEF Stream!Last
<1> QED
  BY <1>1, <1>2, <1>4, <1>5, <1>6 DEF t

\* A queue that is not full loses nothing, a full one its oldest entry.
LEMMA Enqueued ==
    ASSUME StreamConstants, NEW q, QueueOk(q), NEW a \in Alert
    PROVE  /\ QueueOk(Stream!Enqueue(q, a)) /\ a \in Stream!ToSet(Stream!Enqueue(q, a))
           /\ \A x \in Stream!ToSet(q) : x \in Stream!ToSet(Stream!Enqueue(q, a)) \/ (Len(q) >= QUEUE_MAX /\ x = q[1])
<1>1. QUEUE_MAX \in Nat /\ QUEUE_MAX >= 1 /\ q \in Seq(Alert) /\ Len(q) \in Nat /\ Len(q) <= QUEUE_MAX
  BY DEF StreamConstants, QueueOk
<1>2. CASE Len(q) >= QUEUE_MAX
  <2>1. q # <<>> /\ Stream!Enqueue(q, a) = Append(Tail(q), a)
    BY <1>1, <1>2 DEF Stream!Enqueue
  <2>2. Tail(q) \in Seq(Alert) /\ Len(Tail(q)) = Len(q) - 1 /\ Stream!ToSet(q) \subseteq {q[1]} \cup Stream!ToSet(Tail(q))
    BY <1>1, <2>1, TailSet
  <2>3. /\ Append(Tail(q), a) \in Seq(Alert) /\ a \in Stream!ToSet(Append(Tail(q), a))
        /\ Stream!ToSet(Tail(q)) \subseteq Stream!ToSet(Append(Tail(q), a))
    BY <2>2, AppendSet
  <2>4. Len(Append(Tail(q), a)) = Len(q)
    BY <1>1, <2>2
  <2> QED
    BY <1>1, <1>2, <2>1, <2>2, <2>3, <2>4 DEF QueueOk
<1>3. CASE ~(Len(q) >= QUEUE_MAX)
  <2>1. Stream!Enqueue(q, a) = Append(q, a)
    BY <1>3 DEF Stream!Enqueue
  <2>2. Append(q, a) \in Seq(Alert) /\ a \in Stream!ToSet(Append(q, a)) /\ Stream!ToSet(q) \subseteq Stream!ToSet(Append(q, a))
    BY <1>1, AppendSet
  <2>3. Len(Append(q, a)) <= QUEUE_MAX
    BY <1>1, <1>3
  <2> QED
    BY <2>1, <2>2, <2>3 DEF QueueOk
<1> QED
  BY <1>2, <1>3

\* A queue is never the mark of a client that is gone.
LEMMA QueueIsThere == ASSUME StreamConstants, NEW q, QueueOk(q) PROVE q # Stream!Gone
<1> SUFFICES ASSUME q = Stream!Gone PROVE FALSE
  OBVIOUS
<1>1. q \in Seq(Alert) /\ Len(q) = 1 /\ q[1] = "gone"
  BY DEF QueueOk, Stream!Gone
<1>2. q[1] \in Alert
  <2>1. \A i \in 1 .. Len(q) : q[i] \in Alert
    BY <1>1
  <2> QED
    BY <1>1, <2>1
<1> QED
  BY <1>1, <1>2 DEF StreamConstants

\* The instance's cardinality is the library's.
LEMMA StreamCardinality == ASSUME NEW S PROVE Stream!Cardinality(S) = Cardinality(S)
BY DEF Stream!Cardinality, Cardinality

\* A sorted page of the table: it is not empty, its rows are of the table, and a row that
\* is not on it comes after its last one, or with it.
Page(s) == SubSeq(s, 1, IF Len(s) < BATCH THEN Len(s) ELSE BATCH)

\* Such is every page a poll reads.
LEMMA PageOfTable ==
    ASSUME StreamConstants, Table, NEW m, Stream!Newer(m) # {}, NEW s \in Stream!Rows(m)
    PROVE  /\ Page(s) \in Seq(committed) /\ Page(s) # <<>>
           /\ \A a \in Stream!Newer(m) : a \in Stream!ToSet(Page(s)) \/ created[Stream!Last(Page(s))] <= created[a]
<1> DEFINE N == Stream!Newer(m)
           k == IF Len(s) < BATCH THEN Len(s) ELSE BATCH
           p == Page(s)
<1>1. N \subseteq committed /\ IsFiniteSet(N)
  <2>1. N \subseteq Alert /\ N \subseteq committed
    BY DEF Stream!Newer, Table
  <2> QED
    BY <2>1, FS_Subset DEF StreamConstants
<1>2. PICK n \in Nat : n = Cardinality(N)
  BY <1>1, FS_CardinalityType
<1>3. /\ s \in [1 .. n -> N] /\ \A i, j \in 1 .. n : i # j => s[i] # s[j]
      /\ \A i, j \in 1 .. n : i < j => created[s[i]] <= created[s[j]]
  BY <1>2, StreamCardinality DEF Stream!Rows, Stream!SetToSeqs
<1>4. \A a \in N : \E i \in 1 .. n : s[i] = a
  <2>1. s \in Injection(1 .. n, N)
    BY <1>3 DEF Injection, IsInjective
  <2>2. IsFiniteSet(1 .. n) /\ Cardinality(1 .. n) = n
    <3>1. 1 \in Int /\ n \in Int
      OBVIOUS
    <3>2. IsFiniteSet(1 .. n) /\ Cardinality(1 .. n) = IF 1 > n THEN 0 ELSE n - 1 + 1
      BY <3>1, FS_Interval
    <3> QED
      BY <3>2
  <2>3. s \in Surjection(1 .. n, N)
    BY <1>1, <1>2, <2>1, <2>2, FS_Injection
  <2> QED
    BY <2>3 DEF Surjection
<1>5. n >= 1
  BY <1>4
<1>6. s \in Seq(N) /\ Len(s) = n
  BY <1>3
<1>7. k \in 1 .. n /\ BATCH \in Nat
  BY <1>5, <1>6 DEF StreamConstants
<1>8. /\ p = SubSeq(s, 1, k) /\ p \in Seq(N) /\ Len(p) = k /\ DOMAIN p = 1 .. k
      /\ \A i \in 1 .. k : p[i] = s[i]
  <2>1. p = SubSeq(s, 1, k)
    BY DEF Page
  <2> HIDE DEF k, p
  <2>2. p = [i \in 1 .. k |-> s[i]]
    BY <1>6, <1>7, <2>1
  <2>3. \A i \in 1 .. k : s[i] \in N
    BY <1>3, <1>7
  <2> QED
    BY <1>7, <2>1, <2>2, <2>3
<1> HIDE DEF k, p
<1>9. p # <<>> /\ p \in Seq(committed)
  <2>1. \A i \in 1 .. k : p[i] \in committed
    BY <1>1, <1>3, <1>7, <1>8
  <2>2. p \in Seq(committed)
    BY <1>1, <1>8
  <2>3. Len(p) # 0
    BY <1>7, <1>8
  <2>4. p # <<>>
    BY <2>3
  <2> QED
    BY <2>2, <2>4
<1>10. ASSUME NEW a \in N PROVE a \in Stream!ToSet(p) \/ created[Stream!Last(p)] <= created[a]
  <2>1. PICK i \in 1 .. n : s[i] = a
    BY <1>4
  <2>2. CASE i <= k
    <3>1. i \in DOMAIN p /\ p[i] = a
      BY <1>7, <1>8, <2>1, <2>2
    <3> QED
      BY <3>1 DEF Stream!ToSet
  <2>3. CASE ~(i <= k)
    <3>1. k \in 1 .. n /\ k < i /\ Stream!Last(p) = s[k]
      BY <1>7, <1>8, <2>3 DEF Stream!Last
    <3> QED
      BY <1>3, <2>1, <3>1
  <2> QED
    BY <2>2, <2>3
<1> QED
  BY <1>9, <1>10 DEF p

-----------------------------------------------------------------------------
(* Parts of the steps.                                                     *)

\* One instance changes.
Turns(i, y) == inst' = [inst EXCEPT ![i] = y]

\* The others stay as they were.
LEMMA InstSet ==
    ASSUME Instances, NEW i \in Instance, NEW y, Turns(i, y), InstOk(y, committed),
           UNCHANGED <<redis, committed>>, y.st = "down" \/ Stream!Up(i) \/ redis \/ \A j \in Instance : ~Stream!Up(j)
    PROVE  Instances' /\ inst'[i] = y /\ \A j \in Instance : j # i => inst'[j] = inst[j]
<1>1. /\ inst' = [j \in Instance |-> inst'[j]] /\ inst'[i] = y
      /\ \A j \in Instance : j # i => inst'[j] = inst[j]
  BY DEF Instances, Turns
<1>2. \A j \in Instance : InstOk(inst'[j], committed')
  BY <1>1 DEF Instances
<1>3. ~redis' => \A j, k \in Instance : Stream!Up(j)' /\ Stream!Up(k)' => j = k
  BY <1>1 DEF Instances, Stream!Up
<1> QED
  BY <1>1, <1>2, <1>3 DEF Instances

\* _broadcast_local: every client of the instance has the alert in its queue, and what
\* leaves a queue is excused.
LEMMA Broadcast ==
    ASSUME StreamConstants, Streams, NEW i \in Instance, NEW a \in Alert, queue' = Stream!BroadcastLocal(i, a)
    PROVE  /\ queue' = [c \in Client |-> queue'[c]] /\ \A c \in Client : queue'[c] = Stream!Gone \/ QueueOk(queue'[c])
           /\ \A c \in Client : Stream!Connected(c)' <=> Stream!Connected(c)
           /\ \A c \in Client : Stream!Connected(c) =>
                /\ Stream!ToSet(queue[c]) \subseteq Stream!ToSet(queue'[c]) \cup Stream!Overflow(i)
                /\ Home[c] = i => a \in Stream!ToSet(queue'[c])
<1>1. /\ queue' = [c \in Client |-> queue'[c]]
      /\ \A c \in Client : queue'[c] = IF c \in Stream!Subs(i) THEN Stream!Enqueue(queue[c], a) ELSE queue[c]
  BY DEF Stream!BroadcastLocal
<1> SUFFICES ASSUME NEW c \in Client
             PROVE  /\ queue'[c] = Stream!Gone \/ QueueOk(queue'[c])
                    /\ Stream!Connected(c)' <=> Stream!Connected(c)
                    /\ Stream!Connected(c) =>
                        /\ Stream!ToSet(queue[c]) \subseteq Stream!ToSet(queue'[c]) \cup Stream!Overflow(i)
                        /\ Home[c] = i => a \in Stream!ToSet(queue'[c])
  BY <1>1
<1>2. CASE c \in Stream!Subs(i)
  <2>1. Stream!Connected(c) /\ QueueOk(queue[c]) /\ queue'[c] = Stream!Enqueue(queue[c], a)
    BY <1>1, <1>2 DEF Stream!Subs, Streams, Stream!Connected
  <2>2. /\ QueueOk(queue'[c]) /\ a \in Stream!ToSet(queue'[c])
        /\ \A x \in Stream!ToSet(queue[c]) : x \in Stream!ToSet(queue'[c]) \/ (Len(queue[c]) >= QUEUE_MAX /\ x = queue[c][1])
    BY <2>1, Enqueued
  <2>3. Len(queue[c]) >= QUEUE_MAX => queue[c][1] \in Stream!Overflow(i)
    BY <1>2 DEF Stream!Overflow
  <2>4. queue'[c] # Stream!Gone
    BY <2>2, QueueIsThere
  <2> QED
    BY <2>1, <2>2, <2>3, <2>4 DEF Stream!Connected
<1>3. CASE c \notin Stream!Subs(i)
  <2>1. queue'[c] = queue[c] /\ (Stream!Connected(c) => Home[c] # i)
    BY <1>1, <1>3 DEF Stream!Subs
  <2> QED
    BY <2>1 DEF Streams, Stream!Connected
<1> QED
  BY <1>2, <1>3

\* An instance is done with the first row of its poll: the mark passes no other row.
LEMMA OpenedMoves ==
    ASSUME StreamConstants, Table, Instances, NEW i \in Instance, inst[i].st \in {"row", "won"}, Stream!Opened(i),
           UNCHANGED <<redis, created, committed>>
    PROVE  /\ Instances' /\ inst'[i].st \in {"idle", "row"}
           /\ \A j \in Instance : j # i => inst'[j] = inst[j]
           /\ \A b : NotYet(inst[i], b) => b = inst[i].rows[1] \/ NotYet(inst[i], b)'
<1> DEFINE x == inst[i]
           rest == Tail(x.rows)
           a == x.rows[1]
           y == [st |-> IF rest = <<>> THEN "idle" ELSE "row", rows |-> rest,
                 mark |-> IF rest = <<>> THEN created[a] ELSE x.mark]
<1>1. InstOk(x, committed) /\ x.rows # <<>> /\ x.rows \in Seq(committed)
  BY DEF Instances, InstOk
<1>2. /\ rest \in Seq(committed) /\ a \in committed /\ Stream!ToSet(x.rows) \subseteq {a} \cup Stream!ToSet(rest)
      /\ rest = <<>> => Stream!Last(x.rows) = a
      /\ rest # <<>> => Stream!Last(rest) = Stream!Last(x.rows)
  BY <1>1, TailSet
<1>3. Turns(i, y)
  BY DEF Stream!Opened, Turns, Instances
<1> HIDE DEF rest, a
<1>4. /\ y.st = IF rest = <<>> THEN "idle" ELSE "row"
      /\ y.rows = rest /\ y.mark = IF rest = <<>> THEN created[a] ELSE x.mark
      /\ y = [st |-> y.st, mark |-> y.mark, rows |-> y.rows]
  OBVIOUS
<1>5. InstOk(y, committed)
  <2>1. created[a] \in 0 .. MaxTime /\ x.mark \in 0 .. MaxTime
    BY <1>1, <1>2 DEF Table, InstOk
  <2> HIDE DEF y
  <2> QED
    BY <1>2, <1>4, <2>1 DEF InstOk
<1>6. Instances' /\ inst'[i] = y /\ \A j \in Instance : j # i => inst'[j] = inst[j]
  <2>1. Stream!Up(i)
    BY DEF Stream!Up
  <2> HIDE DEF y
  <2> QED
    BY <1>3, <1>5, <2>1, InstSet
<1> HIDE DEF y
<1>7. ASSUME NEW b, NotYet(x, b), b # a PROVE NotYet(x, b)'
  <2>1. x.mark < created[b] /\ (b \in Stream!ToSet(x.rows) \/ created[Stream!Last(x.rows)] < created[b])
    BY <1>1, <1>7 DEF NotYet
  <2>2. CASE rest = <<>>
    <3>1. b \notin Stream!ToSet(x.rows)
      <4>1. Stream!ToSet(rest) = {}
        BY <2>2 DEF Stream!ToSet
      <4> QED
        BY <1>2, <1>7, <4>1
    <3>2. created[a] < created[b]
      BY <1>2, <2>1, <2>2, <3>1
    <3> QED
      BY <1>4, <1>6, <2>2, <3>2 DEF NotYet
  <2>3. CASE rest # <<>>
    <3>1. b \in Stream!ToSet(rest) \/ created[Stream!Last(rest)] < created[b]
      BY <1>2, <1>7, <2>1, <2>3
    <3>2. inst'[i].rows = rest /\ inst'[i].mark = x.mark /\ created' = created
      BY <1>4, <1>6, <2>3
    <3> QED
      BY <2>1, <3>1, <3>2 DEF NotYet
  <2> QED
    BY <2>2, <2>3
<1> QED
  BY <1>4, <1>6, <1>7 DEF a

\* A row's turn ends: everybody who waited for it has it, or has lost the race.
LEMMA RowDone ==
    ASSUME StreamConstants, StreamInv, NEW i \in Instance, inst[i].st \in {"row", "won"}, Stream!Opened(i),
           UNCHANGED <<redis, now, created, committed, lock, got, owed>>, excused \subseteq excused',
           Streams', \A c \in Client : Stream!Connected(c)' => Stream!Connected(c),
           \A c \in Client, b \in committed \ excused' : Due(c, b) /\ Has(c, b) => Has(c, b)',
           NEW a, a = inst[i].rows[1],
           \A c \in Client : Due(c, a) /\ a \notin excused'
                                => Has(c, a)' \/ (inst[i].st = "row" /\ lock[a] # 0)
    PROVE  StreamInv'
<1> USE DEF StreamInv
<1>1. /\ Instances' /\ inst'[i].st \in {"idle", "row"}
      /\ \A j \in Instance : j # i => inst'[j] = inst[j]
      /\ \A b : NotYet(inst[i], b) => b = inst[i].rows[1] \/ NotYet(inst[i], b)'
  BY OpenedMoves
<1>2. Table'
  BY DEF Table
<1>3. OnTheWay'
  <2> SUFFICES ASSUME NEW c \in Client, NEW b \in committed \ excused', Due(c, b)'
               PROVE  Has(c, b)' \/ Held(b)' \/ (lock'[b] = 0 /\ NotYet(inst[Home[c]], b)')
    BY DEF OnTheWay
  <2>1. Due(c, b) /\ b \in committed \ excused /\ Home[c] \in Instance
    BY DEF Due, StreamConstants
  <2>2. CASE Has(c, b)
    BY <2>1, <2>2
  <2>3. CASE Held(b)
    <3>1. PICK j \in Instance : inst[j].st = "won" /\ inst[j].rows[1] = b
      BY <2>3 DEF Held
    <3>2. CASE j = i
      BY <2>1, <3>1, <3>2
    <3>3. CASE j # i
      BY <1>1, <3>1, <3>3 DEF Held
    <3> QED
      BY <3>2, <3>3
  <2>4. CASE lock[b] = 0 /\ NotYet(inst[Home[c]], b)
    <3>1. CASE Home[c] # i
      <4>1. inst'[Home[c]] = inst[Home[c]] /\ created' = created
        BY <1>1, <2>1, <3>1
      <4>2. NotYet(inst[Home[c]], b)'
        BY <2>4, <4>1 DEF NotYet
      <4> QED
        BY <2>4, <4>2
    <3>2. CASE Home[c] = i
      <4>1. NotYet(inst[i], b)
        BY <2>4, <3>2
      <4>2. b = inst[i].rows[1] \/ NotYet(inst[i], b)'
        BY <1>1, <4>1
      <4>3. CASE b = inst[i].rows[1]
        BY <2>1, <2>4, <4>3
      <4>4. CASE NotYet(inst[i], b)'
        BY <2>4, <3>2, <4>4 DEF NotYet
      <4> QED
        BY <4>2, <4>3, <4>4
    <3> QED
      BY <3>1, <3>2
  <2> QED
    BY <2>1, <2>2, <2>3, <2>4 DEF OnTheWay
<1> QED
  BY <1>1, <1>2, <1>3

-----------------------------------------------------------------------------
(* The table and the clock.                                                *)

\* Time passes.
LEMMA TickKeeps == ASSUME StreamConstants, StreamInv, Stream!Tick PROVE StreamInv'
<1> USE DEF StreamInv
<1>1. /\ now < MaxTime /\ now' = now + 1
      /\ UNCHANGED <<redis, created, committed, inst, lock, channel, queue, got, owed, excused>>
  BY DEF Stream!Tick, Stream!table, Stream!clients
<1>2. Table'
  BY <1>1 DEF Table, StreamConstants
<1>3. Instances' /\ Streams'
  BY <1>1 DEF Instances, Streams, Stream!Up, Stream!Connected
<1>4. OnTheWay'
  BY <1>1 DEF OnTheWay, Due, Stream!Connected, Has, Held, NotYet
<1> QED
  BY <1>2, <1>3, <1>4

\* The last row of a poll is one of the table.
LEMMA LastRow ==
    ASSUME NEW K, NEW x, InstOk(x, K), x.rows # <<>> PROVE Stream!Last(x.rows) \in K
<1>1. x.rows \in Seq(K) /\ Len(x.rows) \in Nat /\ Len(x.rows) # 0
  BY DEF InstOk
<1>2. Len(x.rows) \in 1 .. Len(x.rows)
  BY <1>1
<1> QED
  BY <1>1, <1>2 DEF Stream!Last

\* A row is stamped; nobody sees it.
LEMMA FlushKeeps == ASSUME StreamConstants, StreamInv, NEW a \in Alert, Stream!Flush(a) PROVE StreamInv'
<1> USE DEF StreamInv
<1>1. /\ created[a] = Stream!Never /\ created' = [created EXCEPT ![a] = now]
      /\ UNCHANGED <<redis, now, committed, inst, lock, channel, queue, got, owed, excused>>
  BY DEF Stream!Flush, Stream!clients
<1>2. a \notin committed
  BY <1>1 DEF Table, Stream!Never, StreamConstants
<1>3. \A b \in committed : created'[b] = created[b]
  BY <1>1, <1>2 DEF Table
<1>4. Table'
  BY <1>1, <1>3 DEF Table, Stream!Never, StreamConstants
<1>5. Instances' /\ Streams'
  BY <1>1 DEF Instances, Streams, Stream!Up, Stream!Connected
<1>6. \A i \in Instance, b \in committed : NotYet(inst[i], b) => NotYet(inst[i], b)'
  BY <1>1, <1>3, LastRow DEF NotYet, Instances
<1>7. OnTheWay'
  <2>1. \A c \in Client : Home[c] \in Instance
    BY DEF StreamConstants
  <2> QED
    BY <1>1, <1>6, <2>1 DEF OnTheWay, Due, Stream!Connected, Has, Held
<1> QED
  BY <1>4, <1>5, <1>7

\* A row becomes visible: it is ahead of the mark of every instance, or late.
LEMMA RowCommitKeeps == ASSUME StreamConstants, StreamInv, NEW a \in Alert, Stream!Commit(a) PROVE StreamInv'
<1> USE DEF StreamInv
<1>1. /\ created[a] # Stream!Never /\ a \notin committed /\ committed' = committed \cup {a}
      /\ excused' = IF Stream!Passed(a) THEN excused \cup {a} ELSE excused
      /\ owed' = [c \in Client |-> IF Stream!Connected(c) THEN owed[c] \cup {a} ELSE owed[c]]
      /\ UNCHANGED <<redis, now, created, inst, lock, channel, queue, got>>
  BY DEF Stream!Commit
<1>2. Table'
  BY <1>1 DEF Table, Stream!Never, StreamConstants
<1>3. Instances'
  <2>1. \A x : InstOk(x, committed) => InstOk(x, committed')
    BY <1>1 DEF InstOk
  <2> QED
    BY <1>1, <2>1 DEF Instances, Stream!Up
<1>4. Streams'
  BY <1>1 DEF Streams, Stream!Connected, Stream!Up
<1>5. OnTheWay'
  <2> SUFFICES ASSUME NEW c \in Client, NEW b \in committed' \ excused', Due(c, b)'
               PROVE  Has(c, b)' \/ Held(b)' \/ (lock'[b] = 0 /\ NotYet(inst[Home[c]], b)')
    BY DEF OnTheWay
  <2>1. Stream!Connected(c) /\ b \in Visible[c] /\ Home[c] \in Instance /\ Stream!Up(Home[c])
    BY <1>1 DEF Due, Stream!Connected, StreamConstants, Streams
  <2>2. CASE b = a
    <3>1. ~Stream!Passed(a)
      BY <1>1, <2>2
    <3>2. NotYet(inst[Home[c]], a)
      <4>1. /\ ~(inst[Home[c]].mark >= created[a])
            /\ inst[Home[c]].rows # <<>> => ~(created[Stream!Last(inst[Home[c]].rows)] >= created[a])
        BY <2>1, <3>1 DEF Stream!Passed
      <4>2. inst[Home[c]].mark \in Nat /\ created[a] \in Nat
        BY <2>1 DEF Instances, InstOk, Table, Stream!Never, StreamConstants
      <4>3. inst[Home[c]].rows # <<>> => created[Stream!Last(inst[Home[c]].rows)] \in Nat
        BY <2>1, LastRow DEF Instances, Table
      <4> QED
        BY <4>1, <4>2, <4>3 DEF NotYet
    <3>3. lock[a] = 0
      BY <1>1 DEF Table
    <3> QED
      BY <1>1, <2>2, <3>2, <3>3 DEF NotYet
  <2>3. CASE b # a
    <3>1. b \in committed \ excused /\ Due(c, b)
      BY <1>1, <2>1, <2>3 DEF Due, Streams
    <3>2. Has(c, b) \/ Held(b) \/ (lock[b] = 0 /\ NotYet(inst[Home[c]], b))
      BY <3>1 DEF OnTheWay
    <3> QED
      BY <1>1, <3>2 DEF Has, Held, NotYet
  <2> QED
    BY <2>2, <2>3
<1> QED
  BY <1>2, <1>3, <1>4, <1>5

-----------------------------------------------------------------------------
(* AlertBroker.                                                            *)

\* The broker starts: it has no clients yet.
LEMMA StartKeeps == ASSUME StreamConstants, StreamInv, NEW i \in Instance, Stream!Start(i) PROVE StreamInv'
<1> USE DEF StreamInv
<1> DEFINE m == IF now > LOOKBACK THEN now - LOOKBACK ELSE 0
           y == [st |-> "idle", rows |-> <<>>, mark |-> m]
<1>1. /\ ~Stream!Up(i) /\ (redis \/ \A j \in Instance : ~Stream!Up(j)) /\ Turns(i, y)
      /\ channel' = [channel EXCEPT ![i] = <<>>]
      /\ UNCHANGED <<redis, now, created, committed, lock, queue, got, owed, excused>>
  BY DEF Stream!Start, Turns, Stream!table, Stream!clients
<1>2. m \in 0 .. MaxTime
  BY DEF Table, StreamConstants
<1> HIDE DEF m
<1>3. InstOk(y, committed) /\ y.st = "idle"
  BY <1>2 DEF InstOk
<1> HIDE DEF y
<1>4. Instances' /\ inst'[i] = y /\ \A j \in Instance : j # i => inst'[j] = inst[j]
  BY <1>1, <1>3, InstSet
<1>5. Table'
  BY <1>1 DEF Table
<1>6. \A c \in Client : Stream!Connected(c) => Stream!Up(Home[c]) /\ Home[c] \in Instance /\ Home[c] # i
  BY <1>1 DEF Streams, StreamConstants
<1>7. Streams'
  <2>1. channel' \in [Instance -> Seq(Alert)]
    BY <1>1 DEF Streams
  <2>2. \A c \in Client : Stream!Connected(c)' => Stream!Up(Home[c])'
    BY <1>1, <1>4, <1>6 DEF Stream!Connected, Stream!Up
  <2> QED
    BY <1>1, <2>1, <2>2 DEF Streams
<1>8. OnTheWay'
  <2>1. \A b : Held(b) => Held(b)'
    BY <1>1, <1>4 DEF Held, Stream!Up
  <2>2. \A c \in Client : \A b : Due(c, b)' => Due(c, b)
    BY <1>1 DEF Due, Stream!Connected
  <2>3. \A c \in Client : \A b : Due(c, b) /\ Has(c, b) => Has(c, b)'
    BY <1>1, <1>6 DEF Due, Has, Streams
  <2>4. \A c \in Client : \A b : Due(c, b) /\ NotYet(inst[Home[c]], b) => NotYet(inst[Home[c]], b)'
    BY <1>1, <1>4, <1>6 DEF Due, NotYet
  <2> QED
    BY <1>1, <2>1, <2>2, <2>3, <2>4 DEF OnTheWay
<1> QED
  BY <1>4, <1>5, <1>7, <1>8

\* The broker stops: its clients are gone, the rows it had in hand are excused.
LEMMA StopKeeps == ASSUME StreamConstants, StreamInv, NEW i \in Instance, Stream!Stop(i) PROVE StreamInv'
<1> USE DEF StreamInv
<1>1. /\ Stream!Up(i) /\ Turns(i, Stream!Down) /\ channel' = [channel EXCEPT ![i] = <<>>]
      /\ queue' = [c \in Client |-> IF Home[c] = i THEN Stream!Gone ELSE queue[c]]
      /\ excused' = excused \cup Stream!ToSet(inst[i].rows)
      /\ UNCHANGED <<redis, now, created, committed, lock, got, owed>>
  BY DEF Stream!Stop, Turns, Stream!table
<1>2. InstOk(Stream!Down, committed) /\ Stream!Down.st = "down"
  BY DEF InstOk, Stream!Down, StreamConstants
<1>3. Instances' /\ inst'[i] = Stream!Down /\ \A j \in Instance : j # i => inst'[j] = inst[j]
  BY <1>1, <1>2, InstSet
<1>4. Table'
  BY <1>1 DEF Table
<1>5. \A c \in Client : Stream!Connected(c)' => Stream!Connected(c) /\ Home[c] # i /\ queue'[c] = queue[c] /\ Home[c] \in Instance
  BY <1>1 DEF Stream!Connected, StreamConstants
<1>6. Streams'
  <2>1. queue' = [c \in Client |-> queue'[c]] /\ \A c \in Client : queue'[c] = Stream!Gone \/ QueueOk(queue'[c])
    BY <1>1 DEF Streams
  <2>2. \A c \in Client : Stream!Connected(c)' => Stream!Up(Home[c])'
    BY <1>3, <1>5 DEF Streams, Stream!Up
  <2> QED
    BY <1>1, <2>1, <2>2 DEF Streams
<1>7. OnTheWay'
  <2>1. \A b : Held(b) => Held(b)' \/ b \in excused'
    <3> SUFFICES ASSUME NEW b, NEW j \in Instance, inst[j].st = "won", inst[j].rows[1] = b
                 PROVE  Held(b)' \/ b \in excused'
      BY DEF Held
    <3>1. CASE j = i
      <4>1. inst[i].rows \in Seq(committed) /\ inst[i].rows # <<>>
        BY <3>1 DEF Instances, InstOk
      <4>2. b \in Stream!ToSet(inst[i].rows)
        BY <3>1, <4>1, TailSet
      <4> QED
        BY <1>1, <4>2
    <3>2. CASE j # i
      BY <1>3, <3>2 DEF Held
    <3> QED
      BY <3>1, <3>2
  <2>2. \A c \in Client : \A b : Due(c, b)' => Due(c, b)
    BY <1>1, <1>5 DEF Due
  <2>3. \A c \in Client : \A b : Due(c, b)' /\ Has(c, b) => Has(c, b)'
    BY <1>1, <1>5 DEF Due, Has, Streams
  <2>4. \A c \in Client : \A b : Due(c, b)' /\ NotYet(inst[Home[c]], b) => NotYet(inst[Home[c]], b)'
    BY <1>1, <1>3, <1>5 DEF Due, NotYet
  <2> QED
    BY <1>1, <2>1, <2>2, <2>3, <2>4 DEF OnTheWay
<1> QED
  BY <1>3, <1>4, <1>6, <1>7

\* Only the mark of an instance or the rows of its poll move.
LEMMA PollTurns ==
    ASSUME StreamConstants, StreamInv, NEW i \in Instance, inst[i].st = "idle", NEW y, Turns(i, y),
           InstOk(y, committed),
           UNCHANGED <<redis, now, created, committed, lock, channel, queue, got, owed>>,
           y.st # "down", excused \subseteq excused',
           \A c \in Client, b \in committed \ excused' :
               Home[c] = i /\ Stream!Connected(c) /\ NotYet(inst[i], b) => NotYet(y, b)
    PROVE  StreamInv'
<1> USE DEF StreamInv
<1>1. Instances' /\ inst'[i] = y /\ \A j \in Instance : j # i => inst'[j] = inst[j]
  BY InstSet DEF Stream!Up
<1>2. Table'
  BY DEF Table
<1>3. Streams'
  <2>1. \A c \in Client : Stream!Connected(c)' => Stream!Up(Home[c])'
    BY <1>1 DEF Streams, Stream!Connected, Stream!Up, StreamConstants
  <2> QED
    BY <2>1 DEF Streams
<1>4. OnTheWay'
  <2> SUFFICES ASSUME NEW c \in Client, NEW b \in committed \ excused', Due(c, b)'
               PROVE  Has(c, b)' \/ Held(b)' \/ (lock'[b] = 0 /\ NotYet(inst[Home[c]], b)')
    BY DEF OnTheWay
  <2>1. Due(c, b) /\ b \in committed \ excused /\ Home[c] \in Instance
    BY DEF Due, Stream!Connected, StreamConstants
  <2>2. Has(c, b) \/ Held(b) \/ (lock[b] = 0 /\ NotYet(inst[Home[c]], b))
    BY <2>1 DEF OnTheWay
  <2>3. Held(b) => Held(b)'
    BY <1>1 DEF Held
  <2>4. NotYet(inst[Home[c]], b) => NotYet(inst[Home[c]], b)'
    <3>1. CASE Home[c] = i
      BY <1>1, <2>1, <3>1 DEF Due, NotYet
    <3>2. CASE Home[c] # i
      BY <1>1, <2>1, <3>2 DEF NotYet
    <3> QED
      BY <3>1, <3>2
  <2> QED
    BY <2>2, <2>3, <2>4 DEF Has
<1> QED
  BY <1>1, <1>2, <1>3, <1>4

\* A poll: the rows it takes, or those behind them, are all that is ahead of the mark.
LEMMA PollKeeps == ASSUME StreamConstants, StreamInv, NEW i \in Instance, Stream!Poll(i) PROVE StreamInv'
<1> USE DEF StreamInv
<1> DEFINE x == inst[i]
<1>1. /\ x.st = "idle" /\ UNCHANGED <<redis, now, created, committed, lock, channel, queue, got, owed>>
  BY DEF Stream!Poll, Stream!table, Stream!clients
<1>2. InstOk(x, committed) /\ x.rows = <<>>
  BY <1>1 DEF Instances, InstOk
<1>3. CASE ~redis /\ Stream!Subs(i) = {}
  <2> DEFINE y == [st |-> x.st, mark |-> now, rows |-> x.rows]
  <2>1. Turns(i, y) /\ excused' = excused
    <3>1. inst' = [inst EXCEPT ![i] = [x EXCEPT !.mark = now]] /\ excused' = excused
      BY <1>3 DEF Stream!Poll
    <3>2. [x EXCEPT !.mark = now] = y
      BY <1>2 DEF InstOk
    <3> QED
      BY <3>1, <3>2 DEF Turns
  <2>2. InstOk(y, committed) /\ y.st = "idle"
    BY <1>1, <1>2 DEF InstOk, Table
  <2>3. \A c \in Client : ~(Home[c] = i /\ Stream!Connected(c))
    BY <1>3 DEF Stream!Subs
  <2> HIDE DEF y
  <2> QED
    BY <1>1, <2>1, <2>2, <2>3, PollTurns
<1>4. CASE ~(~redis /\ Stream!Subs(i) = {})
  <2>1. Stream!Newer(x.mark) # {} /\ \E s \in Stream!Rows(x.mark) :
          /\ inst' = [inst EXCEPT ![i].st = "row", ![i].rows = Page(s)]
          /\ excused' = excused \cup {a \in Stream!Newer(x.mark) \ Stream!ToSet(Page(s)) : created[a] = created[Stream!Last(Page(s))]}
    BY <1>4 DEF Stream!Poll, Page
  <2>2. PICK s \in Stream!Rows(x.mark) :
          /\ inst' = [inst EXCEPT ![i].st = "row", ![i].rows = Page(s)]
          /\ excused' = excused \cup {a \in Stream!Newer(x.mark) \ Stream!ToSet(Page(s)) : created[a] = created[Stream!Last(Page(s))]}
    BY <2>1
  <2>3. PICK p : p = Page(s)
    OBVIOUS
  <2>4. /\ p \in Seq(committed) /\ p # <<>>
        /\ \A a \in Stream!Newer(x.mark) : a \in Stream!ToSet(p) \/ created[Stream!Last(p)] <= created[a]
    BY <2>1, <2>3, PageOfTable
  <2> DEFINE y == [st |-> "row", mark |-> x.mark, rows |-> p]
  <2>5. Turns(i, y)
    <3>1. PICK z : z = [x EXCEPT !.st = "row"]
      OBVIOUS
    <3>2. z = [st |-> "row", mark |-> x.mark, rows |-> x.rows]
      BY <1>2, <3>1 DEF InstOk
    <3>3. [z EXCEPT !.rows = p] = y
      BY <3>2
    <3>4. inst' = [inst EXCEPT ![i] = [z EXCEPT !.rows = p]]
      BY <2>2, <2>3, <3>1 DEF Instances
    <3> QED
      BY <3>3, <3>4 DEF Turns
  <2>6. InstOk(y, committed) /\ y.st = "row" /\ y.mark = x.mark /\ y.rows = p
    BY <1>2, <2>4 DEF InstOk
  <2>7. ASSUME NEW b \in committed \ excused', NotYet(x, b) PROVE NotYet(y, b)
    <3>1. x.mark < created[b] /\ b \in committed /\ x.mark \in Nat /\ created[b] \in Nat
      BY <1>2, <2>7 DEF NotYet, InstOk, Table
    <3>2. b \in Stream!Newer(x.mark)
      BY <3>1 DEF Stream!Newer
    <3>3. b \in Stream!ToSet(p) \/ (created[Stream!Last(p)] <= created[b] /\ created[b] # created[Stream!Last(p)])
      BY <2>2, <2>3, <2>4, <2>7, <3>2
    <3>4. created[Stream!Last(p)] \in Nat
      <4>1. Stream!Last(y.rows) \in committed
        BY <2>4, <2>6, LastRow
      <4> QED
        BY <2>6, <4>1 DEF Table
    <3> QED
      BY <2>6, <3>1, <3>3, <3>4 DEF NotYet
  <2> HIDE DEF y
  <2>8. excused \subseteq excused'
    BY <2>2
  <2> QED
    BY <1>1, <2>5, <2>6, <2>7, <2>8, PollTurns
<1> QED
  BY <1>3, <1>4

\* The row in hand is one of the table.
LEMMA RowInHand ==
    ASSUME StreamInv, NEW i \in Instance, inst[i].st \in {"row", "won"}
    PROVE  inst[i].rows[1] \in committed /\ inst[i].rows[1] \in Alert
<1>1. inst[i].rows \in Seq(committed) /\ inst[i].rows # <<>>
  BY DEF StreamInv, Instances, InstOk
<1> QED
  BY <1>1, TailSet DEF StreamInv, Table

\* Fan-out to the instance's own clients.
LEMMA FanoutLocalKeeps ==
    ASSUME StreamConstants, StreamInv, NEW i \in Instance, Stream!FanoutLocal(i) PROVE StreamInv'
<1> USE DEF StreamInv
<1>1. /\ inst[i].st \in {"row", "won"} /\ Stream!Opened(i) /\ queue' = Stream!BroadcastLocal(i, inst[i].rows[1])
      /\ UNCHANGED <<redis, now, created, committed, lock, channel, got, owed>>
  BY DEF Stream!FanoutLocal, Stream!table
<1>2. PICK a : a = inst[i].rows[1]
  OBVIOUS
<1>3. a \in committed /\ a \in Alert
  BY <1>1, <1>2, RowInHand
<1>4. excused \cup Stream!Overflow(i) \subseteq excused' /\ (redis => a \in excused')
  BY <1>2 DEF Stream!FanoutLocal
<1>5. /\ queue' = [c \in Client |-> queue'[c]] /\ \A c \in Client : queue'[c] = Stream!Gone \/ QueueOk(queue'[c])
      /\ \A c \in Client : Stream!Connected(c)' <=> Stream!Connected(c)
      /\ \A c \in Client : Stream!Connected(c) =>
           /\ Stream!ToSet(queue[c]) \subseteq Stream!ToSet(queue'[c]) \cup Stream!Overflow(i)
           /\ Home[c] = i => a \in Stream!ToSet(queue'[c])
  BY <1>1, <1>2, <1>3, Broadcast
<1>6. /\ Instances' /\ inst'[i].st \in {"idle", "row"}
      /\ \A j \in Instance : j # i => inst'[j] = inst[j]
  BY <1>1, OpenedMoves
<1>7. Streams'
  <2>1. \A c \in Client : Stream!Connected(c)' => Stream!Up(Home[c])'
    BY <1>5, <1>6 DEF Streams, Stream!Up, StreamConstants
  <2> QED
    BY <1>1, <1>5, <2>1 DEF Streams
<1>8. \A c \in Client, b \in committed \ excused' : Due(c, b) /\ Has(c, b) => Has(c, b)'
  BY <1>1, <1>4, <1>5 DEF Due, Has
<1>9. \A c \in Client : Due(c, a) /\ a \notin excused' => Has(c, a)'
  <2> SUFFICES ASSUME NEW c \in Client, Due(c, a), ~redis PROVE a \in Stream!ToSet(queue'[c])
    BY <1>4 DEF Has
  <2>1. Stream!Connected(c) /\ Stream!Up(Home[c]) /\ Home[c] \in Instance
    BY DEF Due, Streams, StreamConstants
  <2>2. Home[c] = i
    BY <1>1, <2>1 DEF Instances, Stream!Up
  <2> QED
    BY <1>5, <2>1, <2>2
<1>10. \A c \in Client : Stream!Connected(c)' => Stream!Connected(c)
  BY <1>5
<1> QED
  BY <1>1, <1>2, <1>4, <1>7, <1>8, <1>9, <1>10, RowDone

\* The race for the lock.
LEMMA FanoutLockKeeps ==
    ASSUME StreamConstants, StreamInv, NEW i \in Instance, Stream!FanoutLock(i) PROVE StreamInv'
<1> USE DEF StreamInv
<1> DEFINE x == inst[i]
<1>1. /\ x.st = "row" /\ UNCHANGED <<redis, now, created, committed, channel, queue, got, owed, excused>>
  BY DEF Stream!FanoutLock, Stream!table, Stream!clients
<1>2. PICK a : a = x.rows[1]
  OBVIOUS
<1>3. a \in committed /\ a \in Alert
  BY <1>1, <1>2, RowInHand
<1>4. CASE Stream!Won(a)
  <2> DEFINE y == [st |-> "won", mark |-> x.mark, rows |-> x.rows]
  <2>1. lock' = [lock EXCEPT ![a] = now + LOCK_TTL] /\ inst' = [inst EXCEPT ![i].st = "won"]
    BY <1>2, <1>4 DEF Stream!FanoutLock
  <2>2. InstOk(x, committed)
    BY DEF Instances
  <2>3. Turns(i, y)
    <3>1. [x EXCEPT !.st = "won"] = y
      BY <2>2 DEF InstOk
    <3>2. inst' = [inst EXCEPT ![i] = [x EXCEPT !.st = "won"]]
      BY <2>1
    <3> QED
      BY <3>1, <3>2 DEF Turns
  <2>4. InstOk(y, committed) /\ y.st = "won" /\ y.rows = x.rows /\ y.mark = x.mark
    BY <1>1, <2>2 DEF InstOk
  <2> HIDE DEF y
  <2>5. Instances' /\ inst'[i] = y /\ \A j \in Instance : j # i => inst'[j] = inst[j]
    BY <1>1, <2>3, <2>4, InstSet DEF Stream!Up
  <2>6. Table'
    BY <1>1, <1>3, <2>1 DEF Table, StreamConstants
  <2>7. Streams'
    <3>1. \A c \in Client : Stream!Connected(c)' => Stream!Up(Home[c])'
      BY <1>1, <2>4, <2>5 DEF Streams, Stream!Connected, Stream!Up, StreamConstants
    <3> QED
      BY <1>1, <3>1 DEF Streams
  <2>8. OnTheWay'
    <3> SUFFICES ASSUME NEW c \in Client, NEW b \in committed \ excused, Due(c, b)'
                 PROVE  Has(c, b)' \/ Held(b)' \/ (lock'[b] = 0 /\ NotYet(inst[Home[c]], b)')
      BY <1>1 DEF OnTheWay
    <3>1. Due(c, b) /\ Home[c] \in Instance /\ b \in Alert
      BY <1>1 DEF Due, Stream!Connected, StreamConstants, Table
    <3>2. Has(c, b) \/ Held(b) \/ (lock[b] = 0 /\ NotYet(inst[Home[c]], b))
      BY <3>1 DEF OnTheWay
    <3>3. Held(b) \/ b = a => Held(b)'
      BY <1>1, <1>2, <2>4, <2>5 DEF Held
    <3>4. NotYet(inst[Home[c]], b) => NotYet(inst[Home[c]], b)'
      BY <1>1, <2>4, <2>5, <3>1 DEF NotYet
    <3>5. b # a => lock'[b] = lock[b]
      BY <2>1, <3>1 DEF Table
    <3> QED
      BY <1>1, <3>2, <3>3, <3>4, <3>5 DEF Has
  <2> QED
    BY <2>5, <2>6, <2>7, <2>8
<1>5. CASE ~Stream!Won(a)
  <2>1. Stream!Opened(i) /\ lock' = lock
    BY <1>2, <1>5 DEF Stream!FanoutLock
  <2>2. lock[a] # 0
    BY <1>3, <1>5 DEF Stream!Won, Table
  <2>3. /\ Instances' /\ inst'[i].st \in {"idle", "row"}
        /\ \A j \in Instance : j # i => inst'[j] = inst[j]
    BY <1>1, <2>1, OpenedMoves
  <2>4. Streams'
    <3>1. \A c \in Client : Stream!Connected(c)' => Stream!Up(Home[c])'
      BY <1>1, <2>3 DEF Streams, Stream!Connected, Stream!Up, StreamConstants
    <3> QED
      BY <1>1, <3>1 DEF Streams
  <2>5. \A c \in Client, b \in committed \ excused' : Due(c, b) /\ Has(c, b) => Has(c, b)'
    BY <1>1 DEF Has
  <2>6. \A c \in Client : Stream!Connected(c)' => Stream!Connected(c)
    BY <1>1 DEF Stream!Connected
  <2> QED
    BY <1>1, <1>2, <2>1, <2>2, <2>4, <2>5, <2>6, RowDone
<1> QED
  BY <1>4, <1>5

\* The winner publishes: the client's instance is up and listens.
LEMMA FanoutPublishKeeps ==
    ASSUME StreamConstants, StreamInv, NEW i \in Instance, Stream!FanoutPublish(i) PROVE StreamInv'
<1> USE DEF StreamInv
<1>1. /\ inst[i].st = "won" /\ Stream!Opened(i) /\ channel' = Stream!Publish(i)
      /\ UNCHANGED <<redis, now, created, committed, lock, queue, got, owed, excused>>
  BY DEF Stream!FanoutPublish, Stream!table, Stream!clients
<1>2. PICK a : a = inst[i].rows[1]
  OBVIOUS
<1>3. a \in committed /\ a \in Alert
  BY <1>1, <1>2, RowInHand
<1>4. /\ channel' = [j \in Instance |-> channel'[j]]
      /\ \A j \in Instance : channel'[j] = IF Stream!Up(j) THEN Append(channel[j], a) ELSE channel[j]
  BY <1>1, <1>2 DEF Stream!Publish
<1>5. \A j \in Instance :
        /\ channel'[j] \in Seq(Alert) /\ Stream!ToSet(channel[j]) \subseteq Stream!ToSet(channel'[j])
        /\ Stream!Up(j) => a \in Stream!ToSet(channel'[j])
  <2> SUFFICES ASSUME NEW j \in Instance
               PROVE  /\ channel'[j] \in Seq(Alert) /\ Stream!ToSet(channel[j]) \subseteq Stream!ToSet(channel'[j])
                      /\ Stream!Up(j) => a \in Stream!ToSet(channel'[j])
    OBVIOUS
  <2>1. channel[j] \in Seq(Alert)
    BY DEF Streams
  <2>2. CASE Stream!Up(j)
    <3>1. channel'[j] = Append(channel[j], a)
      BY <1>4, <2>2
    <3> QED
      BY <1>3, <2>1, <3>1, AppendSet
  <2>3. CASE ~Stream!Up(j)
    BY <1>4, <2>1, <2>3
  <2> QED
    BY <2>2, <2>3
<1>6. /\ Instances' /\ inst'[i].st \in {"idle", "row"}
      /\ \A j \in Instance : j # i => inst'[j] = inst[j]
  BY <1>1, OpenedMoves
<1>7. Streams'
  <2>1. \A c \in Client : Stream!Connected(c)' => Stream!Up(Home[c])'
    BY <1>1, <1>6 DEF Streams, Stream!Connected, Stream!Up, StreamConstants
  <2>2. channel' \in [Instance -> Seq(Alert)]
    BY <1>4, <1>5
  <2> QED
    BY <1>1, <2>1, <2>2 DEF Streams
<1>8. \A c \in Client : Home[c] \in Instance
  BY DEF StreamConstants
<1>9. \A c \in Client, b \in committed \ excused' : Due(c, b) /\ Has(c, b) => Has(c, b)'
  BY <1>1, <1>5, <1>8 DEF Has
<1>10. \A c \in Client : Due(c, a) /\ a \notin excused' => Has(c, a)'
  BY <1>5, <1>8 DEF Has, Due, Streams
<1>11. \A c \in Client : Stream!Connected(c)' => Stream!Connected(c)
  BY <1>1 DEF Stream!Connected
<1> QED
  BY <1>1, <1>2, <1>7, <1>9, <1>10, <1>11, RowDone

\* Steps of channels and queues: nothing a client is due gets lost.
LEMMA StreamMoves ==
    ASSUME StreamConstants, StreamInv, UNCHANGED <<redis, now, created, committed, inst, lock>>, Streams',
           excused \subseteq excused',
           \A c \in Client, b \in committed \ excused' : Due(c, b)' => Due(c, b) /\ (Has(c, b) => Has(c, b)')
    PROVE  StreamInv'
<1> USE DEF StreamInv
<1>1. Table' /\ Instances'
  BY DEF Table, Instances, Stream!Up
<1>2. OnTheWay'
  BY DEF OnTheWay, Held, NotYet
<1> QED
  BY <1>1, <1>2

\* A published alert goes to the queues of the instance's clients.
LEMMA RunSubscriberKeeps ==
    ASSUME StreamConstants, StreamInv, NEW i \in Instance, Stream!RunSubscriber(i) PROVE StreamInv'
<1> USE DEF StreamInv
<1>1. /\ channel[i] # <<>> /\ queue' = Stream!BroadcastLocal(i, channel[i][1])
      /\ channel' = [channel EXCEPT ![i] = Tail(@)] /\ excused' = excused \cup Stream!Overflow(i)
      /\ UNCHANGED <<redis, now, created, committed, inst, lock, got, owed>>
  BY DEF Stream!RunSubscriber, Stream!table
<1>2. PICK a : a = channel[i][1]
  OBVIOUS
<1>3. channel[i] \in Seq(Alert)
  BY DEF Streams
<1>4. a \in Alert /\ Tail(channel[i]) \in Seq(Alert) /\ Stream!ToSet(channel[i]) \subseteq {a} \cup Stream!ToSet(Tail(channel[i]))
  BY <1>1, <1>2, <1>3, TailSet
<1>5. /\ queue' = [c \in Client |-> queue'[c]] /\ \A c \in Client : queue'[c] = Stream!Gone \/ QueueOk(queue'[c])
      /\ \A c \in Client : Stream!Connected(c)' <=> Stream!Connected(c)
      /\ \A c \in Client : Stream!Connected(c) =>
           /\ Stream!ToSet(queue[c]) \subseteq Stream!ToSet(queue'[c]) \cup Stream!Overflow(i)
           /\ Home[c] = i => a \in Stream!ToSet(queue'[c])
  BY <1>1, <1>2, <1>4, Broadcast
<1>6. /\ channel' \in [Instance -> Seq(Alert)] /\ channel'[i] = Tail(channel[i])
      /\ \A j \in Instance : j # i => channel'[j] = channel[j]
  BY <1>1, <1>4 DEF Streams
<1>7. Streams'
  <2>1. \A c \in Client : Stream!Connected(c)' => Stream!Up(Home[c])'
    BY <1>1, <1>5 DEF Streams, Stream!Up
  <2> QED
    BY <1>1, <1>5, <1>6, <2>1 DEF Streams
<1>8. ASSUME NEW c \in Client, NEW b \in committed \ excused', Due(c, b)'
      PROVE  Due(c, b) /\ (Has(c, b) => Has(c, b)')
  <2>1. Due(c, b) /\ Stream!Connected(c) /\ Home[c] \in Instance
    BY <1>1, <1>5, <1>8 DEF Due, StreamConstants
  <2>2. b \notin Stream!Overflow(i)
    BY <1>1
  <2>3. b \in Stream!ToSet(queue[c]) => b \in Stream!ToSet(queue'[c])
    BY <1>5, <2>1, <2>2
  <2>4. b \in Stream!ToSet(channel[Home[c]]) => b \in Stream!ToSet(channel'[Home[c]]) \/ b \in Stream!ToSet(queue'[c])
    BY <1>4, <1>5, <1>6, <2>1
  <2> QED
    BY <1>1, <2>1, <2>3, <2>4 DEF Has
<1>9. excused \subseteq excused'
  BY <1>1
<1> QED
  BY <1>1, <1>7, <1>8, <1>9, StreamMoves

-----------------------------------------------------------------------------
(* stream_alerts.                                                          *)

\* A client connects: it is due nothing yet.
LEMMA SubscribeKeeps ==
    ASSUME StreamConstants, StreamInv, NEW c \in Client, Stream!Subscribe(c) PROVE StreamInv'
<1> USE DEF StreamInv
<1>1. /\ Stream!Up(Home[c]) /\ owed[c] = {} /\ queue' = [queue EXCEPT ![c] = <<>>]
      /\ UNCHANGED <<redis, now, created, committed, inst, lock, channel, got, owed, excused>>
  BY DEF Stream!Subscribe, Stream!table
<1>2. QueueOk(<<>>)
  BY DEF QueueOk, StreamConstants
<1>3. /\ queue' = [d \in Client |-> queue'[d]] /\ queue'[c] = <<>>
      /\ \A d \in Client : d # c => queue'[d] = queue[d]
  BY <1>1 DEF Streams
<1>4. Streams'
  <2>1. \A d \in Client : queue'[d] = Stream!Gone \/ QueueOk(queue'[d])
    BY <1>2, <1>3 DEF Streams
  <2>2. \A d \in Client : Stream!Connected(d)' => Stream!Up(Home[d])'
    BY <1>1, <1>3 DEF Streams, Stream!Connected, Stream!Up
  <2> QED
    BY <1>1, <1>3, <2>1, <2>2 DEF Streams
<1>5. \A d \in Client, b \in committed \ excused' : Due(d, b)' => Due(d, b) /\ (Has(d, b) => Has(d, b)')
  BY <1>1, <1>3 DEF Due, Stream!Connected, Has
<1> QED
  BY <1>1, <1>4, <1>5, StreamMoves

\* A client goes.
LEMMA DisconnectKeeps ==
    ASSUME StreamConstants, StreamInv, NEW c \in Client, Stream!Disconnect(c) PROVE StreamInv'
<1> USE DEF StreamInv
<1>1. /\ queue' = [queue EXCEPT ![c] = Stream!Gone]
      /\ UNCHANGED <<redis, now, created, committed, inst, lock, channel, got, owed, excused>>
  BY DEF Stream!Disconnect, Stream!table
<1>2. /\ queue' = [d \in Client |-> queue'[d]] /\ queue'[c] = Stream!Gone
      /\ \A d \in Client : d # c => queue'[d] = queue[d]
  BY <1>1 DEF Streams
<1>3. Streams'
  <2>1. \A d \in Client : queue'[d] = Stream!Gone \/ QueueOk(queue'[d])
    BY <1>2 DEF Streams
  <2>2. \A d \in Client : Stream!Connected(d)' => Stream!Up(Home[d])'
    BY <1>1, <1>2 DEF Streams, Stream!Connected, Stream!Up
  <2> QED
    BY <1>1, <1>2, <2>1, <2>2 DEF Streams
<1>4. \A d \in Client, b \in committed \ excused' : Due(d, b)' => Due(d, b) /\ (Has(d, b) => Has(d, b)')
  BY <1>1, <1>2 DEF Due, Stream!Connected, Has
<1> QED
  BY <1>1, <1>3, <1>4, StreamMoves

\* The next event is sent.
LEMMA SendKeeps ==
    ASSUME StreamConstants, StreamInv, NEW c \in Client, Stream!Send(c) PROVE StreamInv'
<1> USE DEF StreamInv
<1> DEFINE q == queue[c]
           g == IF q[1] \in Visible[c] THEN Append(got[c], q[1]) ELSE got[c]
<1>1. /\ Stream!Connected(c) /\ q # <<>> /\ got' = [got EXCEPT ![c] = g] /\ queue' = [queue EXCEPT ![c] = Tail(q)]
      /\ UNCHANGED <<redis, now, created, committed, inst, lock, channel, owed, excused>>
  BY DEF Stream!Send, Stream!table
<1>2. QueueOk(q) /\ q \in Seq(Alert) /\ got[c] \in Seq(Alert)
  BY <1>1 DEF Streams, Stream!Connected, QueueOk
<1>3. /\ Tail(q) \in Seq(Alert) /\ q[1] \in Alert /\ Len(q) >= 1 /\ Len(Tail(q)) = Len(q) - 1
      /\ Stream!ToSet(q) \subseteq {q[1]} \cup Stream!ToSet(Tail(q))
  BY <1>1, <1>2, TailSet
<1>4. QueueOk(Tail(q))
  BY <1>2, <1>3 DEF QueueOk, StreamConstants
<1>5. /\ g \in Seq(Alert) /\ Stream!ToSet(got[c]) \subseteq Stream!ToSet(g) /\ (q[1] \in Visible[c] => q[1] \in Stream!ToSet(g))
  <2>1. CASE q[1] \in Visible[c]
    <3>1. g = Append(got[c], q[1])
      BY <2>1
    <3> QED
      BY <1>2, <1>3, <3>1, AppendSet
  <2>2. CASE q[1] \notin Visible[c]
    BY <1>2, <2>2
  <2> QED
    BY <2>1, <2>2
<1> HIDE DEF g
<1>6. /\ queue' = [d \in Client |-> queue'[d]] /\ queue'[c] = Tail(q)
      /\ \A d \in Client : d # c => queue'[d] = queue[d]
      /\ got' \in [Client -> Seq(Alert)] /\ got'[c] = g
      /\ \A d \in Client : d # c => got'[d] = got[d]
  BY <1>1, <1>5 DEF Streams
<1>7. Streams'
  <2>1. \A d \in Client : queue'[d] = Stream!Gone \/ QueueOk(queue'[d])
    BY <1>4, <1>6 DEF Streams
  <2>2. \A d \in Client : Stream!Connected(d)' => Stream!Up(Home[d])'
    BY <1>1, <1>6 DEF Streams, Stream!Connected, Stream!Up
  <2> QED
    BY <1>1, <1>6, <2>1, <2>2 DEF Streams
<1>8. ASSUME NEW d \in Client, NEW b \in committed \ excused', Due(d, b)'
      PROVE  Due(d, b) /\ (Has(d, b) => Has(d, b)')
  <2>1. CASE d # c
    BY <1>1, <1>6, <1>8, <2>1 DEF Due, Stream!Connected, Has
  <2>2. CASE d = c
    <3>1. Due(c, b) /\ b \in Visible[c]
      BY <1>1, <1>8, <2>2 DEF Due
    <3>2. b \in Stream!ToSet(q) => b \in Stream!ToSet(got'[c]) \/ b \in Stream!ToSet(queue'[c])
      BY <1>3, <1>5, <1>6, <3>1
    <3>3. b \in Stream!ToSet(got[c]) => b \in Stream!ToSet(got'[c])
      BY <1>5, <1>6
    <3> QED
      BY <1>1, <2>2, <3>1, <3>2, <3>3 DEF Has
  <2> QED
    BY <2>1, <2>2
<1> QED
  BY <1>1, <1>7, <1>8, StreamMoves

-----------------------------------------------------------------------------
(* The invariant and the theorems.                                         *)

\* The first states.
LEMMA StreamInit == ASSUME StreamConstants, Stream!Init PROVE StreamInv
<1>1. Table
  BY DEF Stream!Init, Table, StreamConstants, Stream!Never
<1>2. \A i \in Instance : inst[i] = Stream!Down /\ ~Stream!Up(i)
  BY DEF Stream!Init, Stream!Up, Stream!Down
<1>3. InstOk(Stream!Down, committed)
  BY DEF InstOk, Stream!Down, StreamConstants
<1>4. Instances
  BY <1>2, <1>3 DEF Instances, Stream!Init
<1>5. Streams
  BY DEF Stream!Init, Streams, Stream!Connected
<1>6. OnTheWay
  BY DEF Stream!Init, OnTheWay
<1> QED
  BY <1>1, <1>4, <1>5, <1>6 DEF StreamInv

\* Every step.
LEMMA StreamStep == ASSUME StreamConstants, StreamInv, [Stream!Next]_(Stream!vars) PROVE StreamInv'
<1>1. CASE Stream!Tick
  BY <1>1, TickKeeps
<1>2. CASE \E a \in Alert : Stream!Flush(a) \/ Stream!Commit(a)
  BY <1>2, FlushKeeps, RowCommitKeeps
<1>3. CASE \E i \in Instance : Stream!Start(i) \/ Stream!Stop(i) \/ Stream!Poll(i) \/ Stream!RunSubscriber(i)
  BY <1>3, StartKeeps, StopKeeps, PollKeeps, RunSubscriberKeeps
<1>4. CASE \E i \in Instance : Stream!FanoutLocal(i) \/ Stream!FanoutLock(i) \/ Stream!FanoutPublish(i)
  BY <1>4, FanoutLocalKeeps, FanoutLockKeeps, FanoutPublishKeeps
<1>5. CASE \E c \in Client : Stream!Subscribe(c) \/ Stream!Disconnect(c) \/ Stream!Send(c)
  BY <1>5, SubscribeKeeps, DisconnectKeeps, SendKeeps
<1>6. CASE UNCHANGED Stream!vars
  <2>1. UNCHANGED <<redis, now, created, committed, inst, lock, channel, queue, got, owed, excused>>
    BY <1>6 DEF Stream!vars
  <2>2. Streams'
    BY <2>1 DEF StreamInv, Streams, Stream!Connected, Stream!Up
  <2>3. \A c \in Client, b \in committed \ excused' : Due(c, b)' => Due(c, b) /\ (Has(c, b) => Has(c, b)')
    BY <2>1 DEF Due, Stream!Connected, Has
  <2> QED
    BY <2>1, <2>2, <2>3, StreamMoves
<1> QED
  BY <1>1, <1>2, <1>3, <1>4, <1>5, <1>6 DEF Stream!Next

\* The invariant, as it is used below.
LEMMA StreamInvariant == ASSUME StreamConstants PROVE Stream!Spec => []StreamInv
<1>1. Stream!Init => StreamInv
  BY StreamInit
<1>2. StreamInv /\ [Stream!Next]_(Stream!vars) => StreamInv'
  BY StreamStep
<1> QED
  BY <1>1, <1>2, PTL DEF Stream!Spec

\* Marks, polls, channels and queues have their types in every reachable state; a queue
\* never exceeds its bound.
THEOREM AlertStreamTypes == ASSUME StreamConstants PROVE Stream!Spec => []Stream!TypeOK
<1>1. StreamInv => Stream!TypeOK
  <2> SUFFICES ASSUME StreamInv PROVE Stream!TypeOK
    OBVIOUS
  <2>1. committed \subseteq {a \in Alert : created[a] # Stream!Never}
    BY DEF StreamInv, Table, Stream!Never, StreamConstants
  <2>2. ASSUME NEW i \in Instance
        PROVE  /\ inst[i].st \in {"down", "idle", "row", "won"} /\ inst[i].mark \in 0 .. MaxTime
               /\ inst[i].rows \in Seq(Alert) /\ channel[i] \in Seq(Alert)
    <3>1. InstOk(inst[i], committed) /\ committed \subseteq Alert
      BY DEF StreamInv, Instances, Table
    <3>2. inst[i].rows \in Seq(Alert)
      BY <3>1 DEF InstOk
    <3> QED
      BY <3>1, <3>2 DEF InstOk, StreamInv, Streams
  <2>3. \A c \in Client : Stream!Connected(c) => queue[c] \in Seq(Alert) /\ Len(queue[c]) <= QUEUE_MAX
    BY DEF StreamInv, Streams, Stream!Connected, QueueOk
  <2> QED
    BY <2>1, <2>2, <2>3 DEF Stream!TypeOK
<1> QED
  BY <1>1, StreamInvariant, PTL

\* However many instances race for an alert's lock, the lock drops copies of the alert
\* and never the alert: a client that was connected when it was committed has it once
\* every instance is past it, unless the row was late or a fault or a full queue took it.
THEOREM StreamIsComplete == ASSUME StreamConstants PROVE Stream!Spec => []Stream!StreamComplete
<1>1. StreamConstants /\ StreamInv => Stream!StreamComplete
  <2> SUFFICES ASSUME StreamConstants, StreamInv, NEW c \in Client, NEW a \in committed \ excused,
                      Stream!Connected(c), a \in owed[c], Stream!Settled(a), a \in Visible[c]
               PROVE  a \in Stream!ToSet(got[c]) \cup Stream!ToSet(queue[c])
    BY DEF Stream!StreamComplete
  <2>1. Has(c, a) \/ Held(a) \/ (lock[a] = 0 /\ NotYet(inst[Home[c]], a))
    BY DEF StreamInv, OnTheWay, Due
  <2>2. Home[c] \in Instance /\ Stream!Up(Home[c])
    BY DEF StreamConstants, StreamInv, Streams
  <2>3. ~NotYet(inst[Home[c]], a)
    <3>1. inst[Home[c]].mark >= created[a]
      BY <2>2 DEF Stream!Settled, Stream!Done
    <3>2. inst[Home[c]].mark \in Nat /\ created[a] \in Nat
      BY <2>2 DEF StreamInv, Instances, InstOk, Table
    <3> QED
      BY <3>1, <3>2 DEF NotYet
  <2>4. ~Held(a)
    <3> SUFFICES ASSUME NEW j \in Instance, inst[j].st = "won", inst[j].rows[1] = a PROVE FALSE
      BY DEF Held
    <3>1. inst[j].rows \in Seq(committed) /\ inst[j].rows # <<>>
      BY DEF StreamInv, Instances, InstOk
    <3>2. a \in Stream!ToSet(inst[j].rows)
      BY <3>1, TailSet
    <3> QED
      BY <3>2 DEF Stream!Settled, Stream!Done, Stream!Up
  <2>5. a \notin Stream!ToSet(channel[Home[c]])
    BY <2>2 DEF Stream!Settled
  <2> QED
    BY <2>1, <2>3, <2>4, <2>5 DEF Has
<1> QED
  BY <1>1, StreamInvariant, PTL
(***************************************************************************)
(* Proofs about quarantined files (Quarantine).                            *)
(*                                                                         *)
(* A copy on disk has an event that nothing after it takes back, and the   *)
(* worker, as far as it has come in the log, has an active row for every   *)
(* such event: whatever would break either step is a recorded loss.        *)
(***************************************************************************)
Status == {"active", "released", "deleted"}
Row == [sha : Sha, status : Status]
Report == [outcome : {"quarantined", "released", "failed"}, sha : Sha]
Order == [do : {"quarantine", "release"}, sha : Sha \cup {""}]

\* How far the worker has come: a stored row counts although its offset does not yet.
Settled == IF worker = "stored" THEN pos + 1 ELSE pos

\* The events are in order, and only a release names a content.
Events ==
    /\ cmds \in Seq(Order) /\ \A i \in DOMAIN cmds : cmds[i].do = "release" => cmds[i].sha \in Sha
    /\ log \in Seq(Report) /\ pos \in Nat /\ pos <= Len(log)
    /\ worker \in {"idle", "stored"} /\ (worker = "stored" => pos < Len(log))

Files == disk \subseteq Sha /\ rows \in Seq(Row)

\* Event i of log l reports the quarantine of s, and none up to the n-th its release.
Stands(l, s, i, n) ==
    /\ i \in 1 .. n /\ l[i].outcome = "quarantined" /\ l[i].sha = s
    /\ \A j \in 1 .. n : i < j => ~(l[j].outcome = "released" /\ l[j].sha = s)

\* Content s is in quarantine by the first n events of l.
Kept(l, s, n) == \E i \in 1 .. n : Stands(l, s, i, n)

Active(R, s) == \E i \in DOMAIN R : R[i].sha = s /\ R[i].status = "active"

OnRecord == \A s \in disk \ unlisted : Kept(log, s, Len(log))
Shown == \A s \in Sha \ unlisted : Kept(log, s, Settled) => Active(rows, s)

QuarantineInv == Events /\ Files /\ OnRecord /\ Shown

-----------------------------------------------------------------------------
(* What the worker does to the rows.                                       *)

\* A set of row numbers that is not empty has a largest one.
LEMMA LargestRow ==
    ASSUME NEW n \in Nat, NEW S, S \subseteq 1 .. n, S # {}
    PROVE  Vault!Max(S) \in S /\ \A y \in S : Vault!Max(S) >= y
<1> DEFINE D == {n - x : x \in S}
<1>1. D \subseteq Nat /\ D # {}
  <2>1. \A x \in S : n - x \in Nat
    OBVIOUS
  <2> QED
    BY <2>1
<1> HIDE DEF D
<1>2. PICK m \in D : \A k \in D : <<k, m>> \notin OpToRel(<, Nat)
  BY <1>1, WFMin, NatLessThanWellFounded, Zenon
<1>3. \A k \in Nat : <<k, m>> \notin OpToRel(<, Nat) /\ m \in Nat => ~(k < m)
  BY Zenon DEF OpToRel
<1>4. m \in Nat /\ \A k \in D : k \in Nat /\ ~(k < m)
  BY <1>1, <1>2, <1>3
<1>5. PICK x \in S : m = n - x
  BY DEF D
<1>6. \A y \in S : n - y \in D /\ y \in 1 .. n
  BY DEF D
<1>7. \A y \in S : x >= y
  BY <1>4, <1>5, <1>6
<1> QED
  BY <1>7 DEF Vault!Max

\* A released event leaves the rows of other contents alone.
LEMMA ReleaseBooked ==
    ASSUME rows \in Seq(Row), NEW s
    PROVE  /\ Vault!Released(s) \in Seq(Row)
           /\ \A t : t # s /\ Active(rows, t) => Active(Vault!Released(s), t)
<1>1. CASE Vault!ActiveRows(s) = {}
  BY <1>1 DEF Vault!Released
<1>2. CASE Vault!ActiveRows(s) # {}
  <2>1. Len(rows) \in Nat /\ DOMAIN rows = 1 .. Len(rows)
    OBVIOUS
  <2>2. PICK m : m = Vault!Max(Vault!ActiveRows(s)) /\ m \in Vault!ActiveRows(s)
    <3>1. Vault!ActiveRows(s) \subseteq 1 .. Len(rows)
      BY <2>1 DEF Vault!ActiveRows
    <3> QED
      BY <1>2, <2>1, <3>1, LargestRow
  <2>3. m \in DOMAIN rows /\ rows[m].sha = s
    BY <2>2 DEF Vault!ActiveRows
  <2>4. PICK r : r = [rows[m] EXCEPT !.status = "released"] /\ r \in Row
    <3>1. PICK x \in Row : x = rows[m]
      BY <2>1, <2>3
    <3>2. [x EXCEPT !.status = "released"] \in Row
      BY DEF Row, Status
    <3> QED
      BY <3>1, <3>2
  <2>5. Vault!Released(s) = [rows EXCEPT ![m] = r]
    BY <1>2, <2>2, <2>4 DEF Vault!Released
  <2>6. Vault!Released(s) \in Seq(Row) /\ DOMAIN Vault!Released(s) = DOMAIN rows
    BY <2>3, <2>4, <2>5
  <2>7. \A i \in DOMAIN rows : i # m => Vault!Released(s)[i] = rows[i]
    BY <2>5
  <2> QED
    BY <2>3, <2>6, <2>7 DEF Active
<1> QED
  BY <1>1, <1>2

\* A row that is added is shown, and hides none.
LEMMA RowAdded ==
    ASSUME NEW R \in Seq(Row), NEW x \in Row, NEW U, U = Append(R, x)
    PROVE  /\ U \in Seq(Row) /\ (x.status = "active" => Active(U, x.sha))
           /\ \A t : Active(R, t) => Active(U, t)
<1>1. /\ U \in Seq(Row) /\ Len(U) = Len(R) + 1 /\ U[Len(R) + 1] = x
      /\ DOMAIN U = 1 .. Len(R) + 1 /\ DOMAIN R = 1 .. Len(R) /\ Len(R) \in Nat
      /\ \A i \in DOMAIN R : i \in DOMAIN U /\ U[i] = R[i]
  OBVIOUS
<1>2. Len(R) + 1 \in DOMAIN U
  BY <1>1
<1> QED
  BY <1>1, <1>2 DEF Active

\* An event that is added leaves the earlier ones standing, unless it is their release.
LEMMA EventAdded ==
    ASSUME NEW l \in Seq(Report), NEW e \in Report, NEW k, k = Append(l, e), NEW s
    PROVE  /\ k \in Seq(Report) /\ Len(k) = Len(l) + 1 /\ Len(l) \in Nat
           /\ \A i \in 1 .. Len(l) : k[i] = l[i]
           /\ \A n \in Nat : n <= Len(l) => (Kept(k, s, n) <=> Kept(l, s, n))
           /\ Kept(l, s, Len(l)) /\ ~(e.outcome = "released" /\ e.sha = s) => Kept(k, s, Len(k))
           /\ e.outcome = "quarantined" /\ e.sha = s => Kept(k, s, Len(k))
<1>1. /\ k \in Seq(Report) /\ Len(k) = Len(l) + 1 /\ Len(l) \in Nat /\ k[Len(l) + 1] = e
      /\ \A i \in 1 .. Len(l) : k[i] = l[i]
  OBVIOUS
<1>2. ASSUME NEW n \in Nat, n <= Len(l) PROVE Kept(k, s, n) <=> Kept(l, s, n)
  <2>1. \A i \in 1 .. n : k[i] = l[i]
    BY <1>1, <1>2
  <2>2. \A i \in 1 .. n : Stands(k, s, i, n) <=> Stands(l, s, i, n)
    BY <2>1 DEF Stands
  <2> QED
    BY <2>2 DEF Kept
<1>3. ASSUME Kept(l, s, Len(l)), ~(e.outcome = "released" /\ e.sha = s) PROVE Kept(k, s, Len(k))
  <2>1. PICK i \in 1 .. Len(l) : Stands(l, s, i, Len(l))
    BY <1>3 DEF Kept
  <2>2. \A j \in 1 .. Len(k) : j \in 1 .. Len(l) \/ j = Len(l) + 1
    BY <1>1
  <2>3. i \in 1 .. Len(k)
    BY <1>1
  <2>4. Stands(k, s, i, Len(k))
    BY <1>1, <1>3, <2>1, <2>2, <2>3 DEF Stands
  <2> QED
    BY <2>3, <2>4 DEF Kept
<1>4. ASSUME e.outcome = "quarantined", e.sha = s PROVE Kept(k, s, Len(k))
  <2>1. Len(k) \in 1 .. Len(k) /\ k[Len(k)] = e /\ \A j \in 1 .. Len(k) : ~(Len(k) < j)
    BY <1>1
  <2>2. Stands(k, s, Len(k), Len(k))
    BY <1>4, <2>1 DEF Stands
  <2> QED
    BY <2>1, <2>2 DEF Kept
<1> QED
  BY <1>1, <1>2, <1>3, <1>4

\* What the first n + 1 events keep, the first n keep or the last of them reports; what
\* the first n keep, one more keeps unless it is the release.
LEMMA OneMoreEvent ==
    ASSUME NEW l, NEW n \in Nat, NEW s
    PROVE  /\ Kept(l, s, n + 1) => \/ Kept(l, s, n) /\ ~(l[n + 1].outcome = "released" /\ l[n + 1].sha = s)
                                   \/ l[n + 1].outcome = "quarantined" /\ l[n + 1].sha = s
           /\ Kept(l, s, n) /\ ~(l[n + 1].outcome = "released" /\ l[n + 1].sha = s) => Kept(l, s, n + 1)
<1>1. /\ 1 .. n \subseteq 1 .. n + 1 /\ n + 1 \in 1 .. n + 1
      /\ \A j \in 1 .. n + 1 : j \in 1 .. n \/ j = n + 1
      /\ \A j \in 1 .. n : j < n + 1
  OBVIOUS
<1>2. ASSUME Kept(l, s, n + 1)
      PROVE  \/ Kept(l, s, n) /\ ~(l[n + 1].outcome = "released" /\ l[n + 1].sha = s)
             \/ l[n + 1].outcome = "quarantined" /\ l[n + 1].sha = s
  <2>1. PICK i \in 1 .. n + 1 : Stands(l, s, i, n + 1)
    BY <1>2 DEF Kept
  <2>2. CASE i = n + 1
    BY <2>1, <2>2 DEF Stands
  <2>3. CASE i \in 1 .. n
    <3>1. Stands(l, s, i, n) /\ ~(l[n + 1].outcome = "released" /\ l[n + 1].sha = s)
      BY <1>1, <2>1, <2>3 DEF Stands
    <3> QED
      BY <2>3, <3>1 DEF Kept
  <2> QED
    BY <1>1, <2>2, <2>3
<1>3. ASSUME Kept(l, s, n), ~(l[n + 1].outcome = "released" /\ l[n + 1].sha = s) PROVE Kept(l, s, n + 1)
  <2>1. PICK i \in 1 .. n : Stands(l, s, i, n)
    BY <1>3 DEF Kept
  <2>2. i \in 1 .. n + 1
    BY <1>1
  <2>3. Stands(l, s, i, n + 1)
    BY <1>1, <1>3, <2>1, <2>2 DEF Stands
  <2> QED
    BY <2>2, <2>3 DEF Kept
<1> QED
  BY <1>2, <1>3

-----------------------------------------------------------------------------
(* The actions, one by one.                                                *)

\* A command that is queued.
LEMMA OrderAdded ==
    ASSUME cmds \in Seq(Order), \A i \in DOMAIN cmds : cmds[i].do = "release" => cmds[i].sha \in Sha,
           NEW c \in Order, c.do = "release" => c.sha \in Sha, cmds' = Append(cmds, c)
    PROVE  cmds' \in Seq(Order) /\ \A i \in DOMAIN cmds' : cmds'[i].do = "release" => cmds'[i].sha \in Sha
<1>1. /\ cmds' \in Seq(Order) /\ Len(cmds') = Len(cmds) + 1 /\ cmds'[Len(cmds) + 1] = c
      /\ DOMAIN cmds' = 1 .. Len(cmds) + 1 /\ DOMAIN cmds = 1 .. Len(cmds) /\ Len(cmds) \in Nat
      /\ \A i \in DOMAIN cmds : cmds'[i] = cmds[i]
  OBVIOUS
<1>2. \A i \in DOMAIN cmds' : i \in DOMAIN cmds \/ i = Len(cmds) + 1
  BY <1>1
<1> QED
  BY <1>1, <1>2

\* A command that is taken.
LEMMA OrderTaken ==
    ASSUME cmds \in Seq(Order), \A i \in DOMAIN cmds : cmds[i].do = "release" => cmds[i].sha \in Sha,
           cmds # << >>, cmds' = Tail(cmds)
    PROVE  /\ cmds' \in Seq(Order) /\ \A i \in DOMAIN cmds' : cmds'[i].do = "release" => cmds'[i].sha \in Sha
           /\ cmds[1].do = "release" => cmds[1].sha \in Sha
<1>1. /\ cmds' \in Seq(Order) /\ DOMAIN cmds' = 1 .. Len(cmds) - 1 /\ DOMAIN cmds = 1 .. Len(cmds)
      /\ Len(cmds) \in Nat /\ Len(cmds) >= 1 /\ \A i \in 1 .. Len(cmds) - 1 : cmds'[i] = cmds[i + 1]
  OBVIOUS
<1>2. \A i \in DOMAIN cmds' : i + 1 \in DOMAIN cmds
  BY <1>1
<1>3. 1 \in DOMAIN cmds
  BY <1>1
<1> QED
  BY <1>1, <1>2, <1>3

\* Nothing is quarantined at first.
LEMMA QuarantineInit == Vault!Init => QuarantineInv
<1> SUFFICES ASSUME Vault!Init PROVE QuarantineInv
  OBVIOUS
<1>1. Events /\ Files
  BY DEF Vault!Init, Events, Files
<1>2. Settled = 0
  BY DEF Vault!Init, Settled
<1>3. OnRecord
  BY DEF Vault!Init, OnRecord
<1>4. \A s : ~Kept(log, s, 0)
  BY DEF Kept
<1> QED
  BY <1>1, <1>2, <1>3, <1>4 DEF QuarantineInv, Shown

\* A request to release, and a file that is to be quarantined: only the commands change.
LEMMA IssueKeeps ==
    ASSUME QuarantineInv, NEW c \in Order, c.do = "release" => c.sha \in Sha,
           cmds' = Append(cmds, c), UNCHANGED <<disk, log, pos, rows, worker, unlisted>>
    PROVE  QuarantineInv'
<1>1. Events'
  BY OrderAdded DEF QuarantineInv, Events
<1>2. Files' /\ OnRecord' /\ Settled' = Settled
  BY DEF QuarantineInv, Files, OnRecord, Settled
<1>3. Shown'
  BY <1>2 DEF QuarantineInv, Shown
<1> QED
  BY <1>1, <1>2, <1>3 DEF QuarantineInv

\* The record of a copy is deleted: the copy is not listed from then on.
LEMMA DeleteKeeps ==
    ASSUME QuarantineInv, NEW i \in DOMAIN rows, Vault!DeleteQuarantinedRecord(i)
    PROVE  QuarantineInv'
<1>1. /\ rows' = [rows EXCEPT ![i].status = "deleted"] /\ unlisted' = unlisted \cup {rows[i].sha}
      /\ UNCHANGED <<cmds, disk, log, pos, worker>>
  BY DEF Vault!DeleteQuarantinedRecord
<1>2. rows \in Seq(Row) /\ rows[i] \in Row
  BY DEF QuarantineInv, Files
<1>3. PICK r : r = [rows[i] EXCEPT !.status = "deleted"] /\ r \in Row
  <2>1. PICK x \in Row : x = rows[i]
    BY <1>2
  <2>2. [x EXCEPT !.status = "deleted"] \in Row
    BY DEF Row, Status
  <2> QED
    BY <2>1, <2>2
<1>4. rows' = [rows EXCEPT ![i] = r]
  BY <1>1, <1>3
<1>5. rows' \in Seq(Row) /\ DOMAIN rows' = DOMAIN rows /\ \A j \in DOMAIN rows : j # i => rows'[j] = rows[j]
  BY <1>2, <1>3, <1>4
<1>6. \A s : s # rows[i].sha /\ Active(rows, s) => Active(rows', s)
  BY <1>5 DEF Active
<1>7. Events' /\ Files' /\ OnRecord' /\ Settled' = Settled
  BY <1>1, <1>5 DEF QuarantineInv, Events, Files, OnRecord, Settled
<1>8. Shown'
  BY <1>1, <1>6, <1>7 DEF QuarantineInv, Shown
<1> QED
  BY <1>7, <1>8 DEF QuarantineInv

\* An event that is emitted: nothing the worker has handled changes.
LEMMA EmitKeeps ==
    ASSUME QuarantineInv, NEW e \in Report, log' = Append(log, e), UNCHANGED <<pos, rows, worker>>,
           unlisted \subseteq unlisted'
    PROVE  /\ log' \in Seq(Report) /\ pos' \in Nat /\ pos' <= Len(log')
           /\ worker' \in {"idle", "stored"} /\ (worker' = "stored" => pos' < Len(log'))
           /\ Shown'
           /\ \A s : Kept(log, s, Len(log)) /\ ~(e.outcome = "released" /\ e.sha = s) => Kept(log', s, Len(log'))
           /\ \A s : e.outcome = "quarantined" /\ e.sha = s => Kept(log', s, Len(log'))
<1>1. /\ log \in Seq(Report) /\ pos \in Nat /\ pos <= Len(log) /\ worker \in {"idle", "stored"}
      /\ (worker = "stored" => pos < Len(log))
  BY DEF QuarantineInv, Events
<1>2. /\ log' \in Seq(Report) /\ Len(log') = Len(log) + 1 /\ Len(log) \in Nat
  BY <1>1, EventAdded
<1>3. \A s : /\ \A n \in Nat : n <= Len(log) => (Kept(log', s, n) <=> Kept(log, s, n))
             /\ Kept(log, s, Len(log)) /\ ~(e.outcome = "released" /\ e.sha = s) => Kept(log', s, Len(log'))
             /\ e.outcome = "quarantined" /\ e.sha = s => Kept(log', s, Len(log'))
  BY <1>1, EventAdded
<1>4. Settled \in Nat /\ Settled <= Len(log) /\ Settled' = Settled
  BY <1>1, <1>2 DEF Settled
<1>5. Shown'
  BY <1>3, <1>4 DEF QuarantineInv, Shown
<1> QED
  BY <1>1, <1>2, <1>3, <1>5

\* The agent copies a file and reports it, finds none, or fails after the copy.
LEMMA AgentQuarantineKeeps == ASSUME QuarantineInv, Vault!AgentQuarantine PROVE QuarantineInv'
<1>1. cmds # << >> /\ cmds' = Tail(cmds) /\ UNCHANGED <<pos, rows, worker>>
  BY DEF Vault!AgentQuarantine
<1>2. cmds' \in Seq(Order) /\ \A i \in DOMAIN cmds' : cmds'[i].do = "release" => cmds'[i].sha \in Sha
  BY <1>1, OrderTaken DEF QuarantineInv, Events
<1>3. CASE UNCHANGED <<disk, log, unlisted>>
  <2>1. Events' /\ Files' /\ OnRecord' /\ Settled' = Settled
    BY <1>1, <1>2, <1>3 DEF QuarantineInv, Events, Files, OnRecord, Settled
  <2> QED
    BY <1>1, <1>3, <2>1 DEF QuarantineInv, Shown
<1>4. ASSUME NEW s \in Sha, disk' = disk \cup {s}, Vault!Emit("quarantined", s), UNCHANGED unlisted PROVE QuarantineInv'
  <2>1. PICK e : e \in Report /\ log' = Append(log, e) /\ e.outcome = "quarantined" /\ e.sha = s
    BY <1>4 DEF Vault!Emit, Report
  <2>2. log' = Append(log, e)
    BY <2>1
  <2>3. Events' /\ Shown'
    BY <1>1, <1>2, <1>4, <2>1, <2>2, EmitKeeps DEF Events
  <2>4. OnRecord'
    <3>1. \A t : Kept(log, t, Len(log)) /\ ~(e.outcome = "released" /\ e.sha = t) => Kept(log', t, Len(log'))
      BY <1>1, <1>4, <2>2, EmitKeeps, <2>1
    <3>2. Kept(log', s, Len(log'))
      <4>1. \A t : e.outcome = "quarantined" /\ e.sha = t => Kept(log', t, Len(log'))
        BY <1>1, <1>4, <2>1, <2>2, EmitKeeps
      <4>2. e.outcome = "quarantined" /\ e.sha = s
        BY <2>1
      <4> QED
        BY <4>1, <4>2
    <3>3. e.outcome # "released"
      BY <2>1
    <3> QED
      BY <1>4, <3>1, <3>2, <3>3 DEF QuarantineInv, OnRecord
  <2>5. Files'
    BY <1>1, <1>4 DEF QuarantineInv, Files
  <2> QED
    BY <2>3, <2>4, <2>5 DEF QuarantineInv
<1>5. ASSUME NEW s \in Sha, disk' = disk \cup {s}, unlisted' = unlisted \cup {s}, UNCHANGED log PROVE QuarantineInv'
  <2>1. Events' /\ Files' /\ OnRecord' /\ Settled' = Settled
    BY <1>1, <1>2, <1>5 DEF QuarantineInv, Events, Files, OnRecord, Settled
  <2> QED
    BY <1>1, <1>5, <2>1 DEF QuarantineInv, Shown
<1> QED
  BY <1>3, <1>4, <1>5 DEF Vault!AgentQuarantine

\* The agent puts a copy back: nothing stands for it any more, and it is gone, or known to
\* be left over.
LEMMA AgentReleaseKeeps == ASSUME QuarantineInv, Vault!AgentRelease PROVE QuarantineInv'
<1>1. /\ cmds # << >> /\ cmds' = Tail(cmds) /\ cmds[1].do = "release" /\ UNCHANGED <<pos, rows, worker>>
  BY DEF Vault!AgentRelease
<1>2. /\ cmds' \in Seq(Order) /\ \A i \in DOMAIN cmds' : cmds'[i].do = "release" => cmds'[i].sha \in Sha
      /\ cmds[1].sha \in Sha
  BY <1>1, OrderTaken DEF QuarantineInv, Events
<1>3. PICK s \in Sha : s = cmds[1].sha
  BY <1>2
<1>4. /\ \E o \in {"released", "failed"} : Vault!Emit(o, s) /\ (o = "released" => s \notin disk' \/ s \in unlisted')
      /\ disk' \subseteq disk /\ (unlisted' = unlisted \/ unlisted' = unlisted \cup {s})
  BY <1>3 DEF Vault!AgentRelease
<1>5. PICK e : /\ e \in Report /\ log' = Append(log, e) /\ e.sha = s
               /\ e.outcome = "released" => s \notin disk' \/ s \in unlisted'
  BY <1>4 DEF Vault!Emit, Report
<1>6. Events' /\ Shown'
  BY <1>1, <1>2, <1>4, <1>5, EmitKeeps DEF Events
<1>7. \A t : Kept(log, t, Len(log)) /\ ~(e.outcome = "released" /\ e.sha = t) => Kept(log', t, Len(log'))
  BY <1>1, <1>4, <1>5, EmitKeeps
<1>8. \A t \in disk' \ unlisted' : t \in disk \ unlisted /\ ~(e.outcome = "released" /\ e.sha = t)
  BY <1>4, <1>5
<1>9. OnRecord' /\ Files'
  BY <1>1, <1>4, <1>7, <1>8 DEF QuarantineInv, OnRecord, Files
<1> QED
  BY <1>6, <1>9 DEF QuarantineInv

\* The worker books the next event.
LEMMA HandleKeeps == ASSUME QuarantineInv, Vault!Handle PROVE QuarantineInv'
<1>1. /\ worker = "idle" /\ pos < Len(log) /\ rows' = Vault!Booked(log[pos + 1]) /\ worker' = "stored"
      /\ UNCHANGED <<cmds, disk, log, pos, unlisted>>
  BY DEF Vault!Handle
<1>2. /\ log \in Seq(Report) /\ pos \in Nat /\ Len(log) \in Nat /\ rows \in Seq(Row)
  BY DEF QuarantineInv, Events, Files
<1>3. PICK e \in Report : e = log[pos + 1]
  BY <1>1, <1>2
<1>4. e.outcome \in {"quarantined", "released", "failed"} /\ e.sha \in Sha
  BY DEF Report
<1>5. /\ rows' \in Seq(Row)
      /\ \A t : Active(rows, t) /\ ~(e.outcome = "released" /\ e.sha = t) => Active(rows', t)
      /\ e.outcome = "quarantined" => Active(rows', e.sha)
  <2>1. CASE e.outcome = "quarantined"
    <3>1. PICK x \in Row : x = [sha |-> e.sha, status |-> "active"]
      BY <1>4 DEF Row, Status
    <3>2. rows' = Append(rows, x)
      BY <1>1, <1>3, <2>1, <3>1 DEF Vault!Booked
    <3>3. x.sha = e.sha /\ x.status = "active"
      BY <3>1
    <3> QED
      BY <1>2, <2>1, <3>2, <3>3, RowAdded
  <2>2. CASE e.outcome = "released"
    <3>1. rows' = Vault!Released(e.sha)
      BY <1>1, <1>3, <2>2 DEF Vault!Booked
    <3> QED
      BY <1>2, <2>2, <3>1, ReleaseBooked
  <2>3. CASE e.outcome = "failed"
    <3>1. rows' = rows
      BY <1>1, <1>3, <2>3 DEF Vault!Booked
    <3> QED
      BY <1>2, <2>3, <3>1
  <2> QED
    BY <1>4, <2>1, <2>2, <2>3
<1>6. Settled = pos /\ Settled' = pos + 1 /\ log' = log
  BY <1>1 DEF Settled
<1>7. Shown'
  <2> SUFFICES ASSUME NEW s \in Sha \ unlisted, Kept(log, s, pos + 1) PROVE Active(rows', s)
    BY <1>1, <1>6 DEF Shown
  <2>1. \/ Kept(log, s, pos) /\ ~(e.outcome = "released" /\ e.sha = s)
        \/ e.outcome = "quarantined" /\ e.sha = s
    BY <1>2, <1>3, OneMoreEvent
  <2> QED
    BY <1>5, <1>6, <2>1 DEF QuarantineInv, Shown
<1>8. Events' /\ Files' /\ OnRecord'
  BY <1>1, <1>2, <1>5 DEF QuarantineInv, Events, Files, OnRecord
<1> QED
  BY <1>7, <1>8 DEF QuarantineInv

\* The offset is committed after the row.
LEMMA CommitOffsetKeeps == ASSUME QuarantineInv, Vault!CommitOffset PROVE QuarantineInv'
<1>1. worker = "stored" /\ worker' = "idle" /\ pos' = pos + 1 /\ UNCHANGED <<cmds, disk, log, rows, unlisted>>
  BY DEF Vault!CommitOffset
<1>2. Settled' = Settled
  BY <1>1 DEF Settled
<1>3. Shown'
  BY <1>1, <1>2 DEF QuarantineInv, Shown
<1>4. Events'
  <2>1. pos \in Nat /\ log \in Seq(Report) /\ pos < Len(log)
    BY <1>1 DEF QuarantineInv, Events
  <2>2. pos' \in Nat /\ pos' <= Len(log)
    BY <1>1, <2>1
  <2> QED
    BY <1>1, <2>2 DEF QuarantineInv, Events
<1> QED
  BY <1>1, <1>3, <1>4 DEF QuarantineInv, Files, OnRecord

\* What the first n events keep was kept by the first m, or is of one of those between.
LEMMA MoreEvents ==
    ASSUME NEW l, NEW m \in Nat, NEW n \in Nat, m <= n, NEW s, Kept(l, s, n)
    PROVE  Kept(l, s, m) \/ \E i \in m + 1 .. n : l[i].sha = s
<1>1. PICK i \in 1 .. n : Stands(l, s, i, n)
  BY DEF Kept
<1>2. CASE i \in 1 .. m
  <2>1. Stands(l, s, i, m)
    BY <1>1, <1>2 DEF Stands
  <2> QED
    BY <1>2, <2>1 DEF Kept
<1>3. CASE i \in m + 1 .. n
  BY <1>1, <1>3 DEF Stands
<1> QED
  BY <1>2, <1>3

\* An event that is lost or passed over, or was booked and comes again, is of a content that
\* is unlisted.
LEMMA LostKeeps ==
    ASSUME QuarantineInv, Vault!HandleFails \/ Vault!RestartResumes \/ Vault!RestartAtEnd PROVE QuarantineInv'
<1>1. /\ log \in Seq(Report) /\ pos \in Nat /\ Len(log) \in Nat /\ pos <= Len(log)
  BY DEF QuarantineInv, Events
<1>2. CASE Vault!HandleFails
  <2>1. /\ worker = "idle" /\ pos < Len(log) /\ pos' = pos + 1 /\ unlisted' = unlisted \cup {log[pos + 1].sha}
        /\ UNCHANGED <<cmds, disk, log, rows, worker>>
    BY <1>2 DEF Vault!HandleFails
  <2>2. Settled = pos /\ Settled' = pos + 1
    BY <2>1 DEF Settled
  <2>3. Shown'
    <3> SUFFICES ASSUME NEW s \in Sha \ unlisted', Kept(log, s, pos + 1) PROVE Active(rows, s)
      BY <2>1, <2>2 DEF Shown
    <3>1. Kept(log, s, pos)
      BY <1>1, <2>1, OneMoreEvent
    <3> QED
      BY <2>1, <2>2, <3>1 DEF QuarantineInv, Shown
  <2>4. Events' /\ Files' /\ OnRecord'
    <3>1. pos' \in Nat /\ pos' <= Len(log)
      BY <1>1, <2>1
    <3> QED
      BY <2>1, <3>1 DEF QuarantineInv, Events, Files, OnRecord
  <2> QED
    BY <2>3, <2>4 DEF QuarantineInv
<1>3. CASE Vault!RestartResumes
  <2>1. /\ worker = "stored" /\ worker' = "idle" /\ UNCHANGED <<cmds, disk, log, pos, rows>>
        /\ unlisted' = unlisted \cup IF log[pos + 1].outcome = "released" THEN {log[pos + 1].sha} ELSE {}
    BY <1>3 DEF Vault!RestartResumes
  <2>2. Settled = pos + 1 /\ Settled' = pos
    BY <2>1 DEF Settled
  <2>3. Shown'
    <3> SUFFICES ASSUME NEW s \in Sha \ unlisted', Kept(log, s, pos) PROVE Active(rows, s)
      BY <2>1, <2>2 DEF Shown
    <3>1. s \notin unlisted /\ ~(log[pos + 1].outcome = "released" /\ log[pos + 1].sha = s)
      BY <2>1
    <3>2. Kept(log, s, pos + 1)
      BY <1>1, <3>1, OneMoreEvent
    <3> QED
      BY <2>2, <3>1, <3>2 DEF QuarantineInv, Shown
  <2>4. Events' /\ Files'
    BY <2>1 DEF QuarantineInv, Events, Files
  <2>5. OnRecord'
    <3>1. unlisted \subseteq unlisted'
      BY <2>1
    <3> QED
      BY <2>1, <3>1 DEF QuarantineInv, OnRecord
  <2> QED
    BY <2>3, <2>4, <2>5 DEF QuarantineInv
<1>4. CASE Vault!RestartAtEnd
  <2>1. /\ pos < Len(log) /\ worker' = "idle" /\ pos' = Len(log) /\ UNCHANGED <<cmds, disk, log, rows>>
        /\ unlisted' = unlisted \cup {log[n].sha : n \in pos + 1 .. Len(log)}
    BY <1>4 DEF Vault!RestartAtEnd
  <2>2. Settled' = Len(log)
    BY <2>1 DEF Settled
  <2>3. Settled \in Nat /\ pos <= Settled /\ Settled <= Len(log)
    BY <1>1, <2>1 DEF Settled, QuarantineInv, Events
  <2>4. Shown'
    <3> SUFFICES ASSUME NEW s \in Sha \ unlisted', Kept(log, s, Len(log)) PROVE Active(rows, s)
      BY <2>1, <2>2 DEF Shown
    <3>1. \A i \in Settled + 1 .. Len(log) : i \in pos + 1 .. Len(log)
      BY <1>1, <2>3
    <3>2. \A i \in Settled + 1 .. Len(log) : log[i].sha # s
      BY <2>1, <3>1
    <3>3. Kept(log, s, Settled)
      BY <1>1, <2>3, <3>2, MoreEvents
    <3> QED
      BY <2>1, <3>3 DEF QuarantineInv, Shown
  <2>5. Events' /\ Files' /\ OnRecord'
    BY <1>1, <2>1 DEF QuarantineInv, Events, Files, OnRecord
  <2> QED
    BY <2>4, <2>5 DEF QuarantineInv
<1> QED
  BY <1>2, <1>3, <1>4

-----------------------------------------------------------------------------
\* The invariant holds in every state.
LEMMA QuarantineInvariant == Vault!Spec => []QuarantineInv
<1>1. Vault!Init => QuarantineInv
  BY QuarantineInit
<1>2. QuarantineInv /\ [Vault!Next]_(Vault!vars) => QuarantineInv'
  <2> SUFFICES ASSUME QuarantineInv, [Vault!Next]_(Vault!vars) PROVE QuarantineInv'
    OBVIOUS
  <2>1. CASE Vault!QuarantineFile
    <3>1. PICK c \in Order : c = [do |-> "quarantine", sha |-> ""]
      BY DEF Order
    <3>2. c.do # "release"
      BY <3>1
    <3>3. cmds' = Append(cmds, c) /\ UNCHANGED <<disk, log, pos, rows, worker, unlisted>>
      BY <2>1, <3>1 DEF Vault!QuarantineFile, Vault!Issue
    <3> QED
      BY <3>2, <3>3, IssueKeeps
  <2>2. ASSUME NEW i \in DOMAIN rows, Vault!ReleaseQuarantinedFile(i) PROVE QuarantineInv'
    <3>1. rows[i] \in Row
      BY DEF QuarantineInv, Files
    <3>2. rows[i].sha \in Sha
      BY <3>1 DEF Row
    <3>3. PICK c \in Order : c = [do |-> "release", sha |-> rows[i].sha]
      BY <3>2 DEF Order
    <3>4. c.sha \in Sha
      BY <3>2, <3>3
    <3>5. cmds' = Append(cmds, c) /\ UNCHANGED <<disk, log, pos, rows, worker, unlisted>>
      BY <2>2, <3>3 DEF Vault!ReleaseQuarantinedFile, Vault!Issue
    <3> QED
      BY <3>4, <3>5, IssueKeeps
  <2>3. ASSUME NEW i \in DOMAIN rows, Vault!DeleteQuarantinedRecord(i) PROVE QuarantineInv'
    BY <2>3, DeleteKeeps
  <2>4. CASE Vault!AgentQuarantine
    BY <2>4, AgentQuarantineKeeps
  <2>5. CASE Vault!AgentRelease
    BY <2>5, AgentReleaseKeeps
  <2>6. CASE Vault!Handle
    BY <2>6, HandleKeeps
  <2>7. CASE Vault!CommitOffset
    BY <2>7, CommitOffsetKeeps
  <2>8. CASE Vault!HandleFails \/ Vault!RestartResumes \/ Vault!RestartAtEnd
    BY <2>8, LostKeeps
  <2>9. CASE UNCHANGED Vault!vars
    BY <2>9 DEF Vault!vars, QuarantineInv, Events, Files, OnRecord, Shown, Settled
  <2> QED
    BY <2>1, <2>2, <2>3, <2>4, <2>5, <2>6, <2>7, <2>8, <2>9 DEF Vault!Next
<1> QED
  BY <1>1, <1>2, PTL DEF Vault!Spec

\* Rows and events keep their types, and the worker is never ahead of the log, for any
\* contents and any number of commands (workers/quarantine.py).
THEOREM QuarantineTypes == Vault!Spec => []Vault!TypeOK
<1>1. QuarantineInv => Vault!TypeOK
  <2> SUFFICES ASSUME QuarantineInv, NEW i \in DOMAIN rows PROVE rows[i] \in Row
    BY DEF QuarantineInv, Events, Files, Vault!TypeOK, Row, Status
  <2> QED
    BY DEF QuarantineInv, Files
<1> QED
  BY <1>1, QuarantineInvariant, PTL

\* Once the quarantine worker has caught up, every copy under the agent's quarantine
\* directory is on an active row, where an analyst can release it, unless an event was
\* lost, repeated or passed over, the record deleted, or the copy of a released file could
\* not be removed: copies are named after their content and rows are one per file, and the
\* newest-row rule of a release never hides a copy.
THEOREM CopyAlwaysListed == Vault!Spec => []Vault!CopyListed
<1>1. QuarantineInv => Vault!CopyListed
  <2> SUFFICES ASSUME QuarantineInv, pos = Len(log), NEW s \in disk \ unlisted PROVE Vault!ActiveRows(s) # {}
    BY DEF Vault!CopyListed
  <2>1. Settled = Len(log)
    <3>1. pos \in Nat /\ (worker = "stored" => pos < Len(log))
      BY DEF QuarantineInv, Events
    <3>2. worker # "stored"
      BY <3>1
    <3> QED
      BY <3>2 DEF Settled
  <2>2. s \in Sha /\ Kept(log, s, Settled)
    BY <2>1 DEF QuarantineInv, Files, OnRecord
  <2>3. Active(rows, s)
    BY <2>2 DEF QuarantineInv, Shown
  <2> QED
    BY <2>3 DEF Active, Vault!ActiveRows
<1> QED
  BY <1>1, QuarantineInvariant, PTL

(***************************************************************************)
(* Proofs about the live-response terminal (Terminal).                     *)
(*                                                                         *)
(* Session and broker close each other through an id that may be used      *)
(* again, so a close could take out a later session, or leave its own in   *)
(* place.  It does not, since the broker's entry and the open object of an *)
(* id are one and the same at every step (Broker, Objects).  That I/O has  *)
(* left an audit row is Books: what was seen of a direction is on a row    *)
(* already or still in the batch, which only a finished flush and the      *)
(* finally block empty, each after it wrote a row of at least one chunk.   *)
(***************************************************************************)
\* What the proofs assume of the constants: times and bounds are natural numbers.
TerminalConstants == Ttl \in Nat /\ Idle \in Nat /\ MaxChunk \in Nat

-----------------------------------------------------------------------------
(* The inductive invariant.                                                *)

Counts == [Shell!Dir -> Nat]

\* A flush under way writes at least one chunk.
Slot == {Shell!None} \cup [dir : Shell!Dir, n : Nat \ {0}]

Ws == {"run", "ending", "closing", "done", "failed"}

TermSessions ==
    [id : Nat, host : Host, ws : Ws, closed : BOOLEAN, toAgent : Seq({"input", "resize", "close"}),
     toOps : Seq({"output", "exit"}), deadline : Nat, batch : Counts, ops : Slot, agent : Slot, ticker : Slot,
     logged : Counts, seen : Counts]

TokenRow == [host : Host, exp : Nat]

StreamRow == [obj : Nat, host : Host, run : BOOLEAN]

\* The batches are the tasks', or were left as they are.
At(s) == s.ws \in {"run", "ending", "failed"}

\* What was seen is on a row or in a batch, and no batch holds more than was sent.
Books(s, n) ==
    /\ \A d \in Shell!Dir : s.seen[d] > 0 => s.logged[d] > 0 \/ (s.batch[d] > 0 /\ At(s))
    /\ s.batch["stdin"] <= n /\ s.batch["stdout"] + Len(s.toOps) <= n

TerminalTables ==
    /\ now \in Nat /\ sent \in Nat /\ sent <= MaxChunk
    /\ tokens \in Seq(TokenRow) /\ dict \in Seq(Nat) /\ Len(dict) = Len(tokens)
    /\ objs \in Seq(TermSessions) /\ streams \in Seq(StreamRow)

\* The broker's entry for an id is an open object of that id, ...
Broker(D, O) == \A i \in DOMAIN D : D[i] = 0 \/ (D[i] \in DOMAIN O /\ O[D[i]].id = i /\ ~O[D[i]].closed)

\* ... an open object is the broker's entry for its id, and one that is done is closed.
Objects(D, O) ==
    \A o \in DOMAIN O :
        /\ O[o].id \in DOMAIN D
        /\ O[o].closed \/ (D[O[o].id] = o /\ O[o].ws # "done")

Dialled(O) == \A x \in DOMAIN streams : streams[x].obj \in DOMAIN O /\ O[streams[x].obj].host = streams[x].host

\* The object of a stream that has ended is out of the broker.
Parted(D) == \A x \in DOMAIN streams : streams[x].run \/ \A i \in DOMAIN D : D[i] # streams[x].obj

TerminalInv ==
    /\ TerminalTables
    /\ Broker(dict, objs) /\ Objects(dict, objs) /\ Dialled(objs) /\ Parted(dict)
    /\ \A o \in DOMAIN objs : Books(objs[o], sent)

-----------------------------------------------------------------------------
(* Steps of one session.                                                   *)

\* A session of the same id, host and state of closing.
Same(s, t) == t \in TermSessions /\ t.id = s.id /\ t.host = s.host /\ t.closed = s.closed

\* A change that leaves the books alone, of a session whose tasks run or end.
Calm(s, t) ==
    /\ Same(s, t) /\ At(t)
    /\ t.batch = s.batch /\ t.logged = s.logged /\ t.seen = s.seen /\ t.toOps = s.toOps

\* One field at a time.
LEMMA CalmFields ==
  ASSUME NEW s \in TermSessions, At(s)
  PROVE  /\ \A f \in Slot : /\ Calm(s, [s EXCEPT !.ops = f]) /\ Calm(s, [s EXCEPT !.agent = f])
                            /\ Calm(s, [s EXCEPT !.ticker = f])
         /\ \A m \in {"input", "resize", "close"} : Calm(s, [s EXCEPT !.toAgent = Append(@, m)])
         /\ \A t \in Nat : Calm(s, [s EXCEPT !.deadline = t])
         /\ \A w \in {"run", "ending"} : Calm(s, [s EXCEPT !.ws = w])
<1>1. ASSUME NEW f \in Slot PROVE Calm(s, [s EXCEPT !.ops = f])
  BY DEF Calm, Same, At, TermSessions
<1>2. ASSUME NEW f \in Slot PROVE Calm(s, [s EXCEPT !.agent = f])
  BY DEF Calm, Same, At, TermSessions
<1>3. ASSUME NEW f \in Slot PROVE Calm(s, [s EXCEPT !.ticker = f])
  BY DEF Calm, Same, At, TermSessions
<1>4. ASSUME NEW m \in {"input", "resize", "close"} PROVE Calm(s, [s EXCEPT !.toAgent = Append(@, m)])
  <2>0. s.toAgent \in Seq({"input", "resize", "close"})
    BY DEF TermSessions
  <2>4. Append(s.toAgent, m) \in Seq({"input", "resize", "close"})
    BY <2>0
  <2>1. PICK q : q = Append(s.toAgent, m)
    OBVIOUS
  <2>2. [s EXCEPT !.toAgent = Append(@, m)] = [s EXCEPT !.toAgent = q]
    BY <2>1, Zenon
  <2>3. Calm(s, [s EXCEPT !.toAgent = q])
    BY <2>1, <2>4 DEF Calm, Same, At, TermSessions
  <2> QED
    BY <2>2, <2>3
<1>5. ASSUME NEW t \in Nat PROVE Calm(s, [s EXCEPT !.deadline = t])
  BY DEF Calm, Same, At, TermSessions
<1>6. ASSUME NEW w \in {"run", "ending"} PROVE Calm(s, [s EXCEPT !.ws = w])
  BY DEF Calm, Same, At, TermSessions, Ws
<1> QED
  BY <1>1, <1>2, <1>3, <1>4, <1>5, <1>6

\* Calm changes compose and keep the books.
LEMMA CalmTwice ==
  ASSUME NEW s, NEW t, NEW u, Calm(s, t), Calm(t, u)
  PROVE  Calm(s, u)
BY DEF Calm, Same

\* The books of both are the same.
LEMMA CalmBooks ==
  ASSUME NEW s, NEW t, Calm(s, t), NEW n, Books(s, n)
  PROVE  Books(t, n)
BY DEF Calm, Books

\* A chunk is seen and put into the batch of its direction.
LEMMA AddChunkFacts ==
  ASSUME NEW s \in TermSessions, NEW d \in Shell!Dir, now + Idle \in Nat, NEW t, t = Shell!AddChunk(s, d)
  PROVE  /\ Same(s, t) /\ t.ws = s.ws /\ t.toOps = s.toOps /\ t.logged = s.logged
         /\ t.batch[d] = s.batch[d] + 1 /\ \A e \in Shell!Dir \ {d} : t.batch[e] = s.batch[e] /\ t.seen[e] = s.seen[e]
<1>0. s.batch \in [Shell!Dir -> Nat] /\ s.seen \in [Shell!Dir -> Nat]
  BY DEF TermSessions, Counts
<1>1. PICK b : b = [s.batch EXCEPT ![d] = @ + 1]
  OBVIOUS
<1>2. PICK c : c = [s.seen EXCEPT ![d] = @ + 1]
  OBVIOUS
<1>13. b \in Counts /\ c \in Counts
  BY <1>0, <1>1, <1>2 DEF Counts
<1>3. PICK s1 : s1 = [s EXCEPT !.batch = b]
  OBVIOUS
<1>4. s1 \in TermSessions /\ s1 = [s EXCEPT !.batch[d] = @ + 1]
  <2>1. s1 \in TermSessions
    BY <1>13, <1>3 DEF TermSessions
  <2>2. s1 = [s EXCEPT !.batch[d] = @ + 1]
    BY <1>1, <1>3, Zenon
  <2> QED
    BY <2>1, <2>2
<1>5. PICK s2 : s2 = [s1 EXCEPT !.seen = c]
  OBVIOUS
<1>6. s1.seen = s.seen
  BY <1>3 DEF TermSessions
<1>7. s2 \in TermSessions /\ s2 = [s1 EXCEPT !.seen[d] = @ + 1]
  <2>1. s2 \in TermSessions
    BY <1>13, <1>4, <1>5 DEF TermSessions
  <2>2. s2 = [s1 EXCEPT !.seen[d] = @ + 1]
    BY <1>2, <1>5, <1>6, Zenon
  <2> QED
    BY <2>1, <2>2
<1>8. t = [s2 EXCEPT !.deadline = now + Idle]
  BY <1>4, <1>7 DEF Shell!AddChunk
<1>9. /\ t \in TermSessions /\ t.id = s2.id /\ t.host = s2.host /\ t.closed = s2.closed /\ t.ws = s2.ws
      /\ t.toOps = s2.toOps /\ t.logged = s2.logged /\ t.batch = s2.batch /\ t.seen = s2.seen
  BY <1>7, <1>8 DEF TermSessions
<1>10. /\ s2.id = s1.id /\ s2.host = s1.host /\ s2.closed = s1.closed /\ s2.ws = s1.ws
       /\ s2.toOps = s1.toOps /\ s2.logged = s1.logged /\ s2.batch = s1.batch /\ s2.seen = c
  BY <1>4, <1>5 DEF TermSessions
<1>11. /\ s1.id = s.id /\ s1.host = s.host /\ s1.closed = s.closed /\ s1.ws = s.ws
       /\ s1.toOps = s.toOps /\ s1.logged = s.logged /\ s1.batch = b
  BY <1>3 DEF TermSessions
<1>12. b[d] = s.batch[d] + 1 /\ \A e \in Shell!Dir \ {d} : b[e] = s.batch[e] /\ c[e] = s.seen[e]
  BY <1>0, <1>1, <1>2
<1> QED
  BY <1>9, <1>10, <1>11, <1>12 DEF Same

\* A row that is written adds to what is logged.
LEMMA WrittenFacts ==
  ASSUME NEW s \in TermSessions, NEW f \in Slot, NEW t, t = Shell!Written(s, f)
  PROVE  /\ Same(s, t) /\ t.ws = s.ws /\ t.toOps = s.toOps /\ t.batch = s.batch /\ t.seen = s.seen
         /\ \A d \in Shell!Dir : t.logged[d] >= s.logged[d]
         /\ f # Shell!None => t.logged[f.dir] > 0
<1>1. CASE f = Shell!None
  <2>1. t = s
    BY <1>1 DEF Shell!Written
  <2>2. \A d \in Shell!Dir : s.logged[d] \in Nat
    BY DEF TermSessions, Counts
  <2> QED
    BY <1>1, <2>1, <2>2 DEF Same
<1>2. CASE f # Shell!None
  <2>1. f.dir \in Shell!Dir /\ f.n \in Nat \ {0}
    BY <1>2 DEF Slot
  <2>0. s.logged \in [Shell!Dir -> Nat]
    BY DEF TermSessions, Counts
  <2>2. PICK l : l = [s.logged EXCEPT ![f.dir] = @ + f.n]
    OBVIOUS
  <2>5. l \in Counts
    BY <2>0, <2>1, <2>2 DEF Counts
  <2>3. t = [s EXCEPT !.logged = l]
    BY <1>2, <2>2, Zenon DEF Shell!Written
  <2>4. Same(s, t) /\ t.ws = s.ws /\ t.toOps = s.toOps /\ t.batch = s.batch /\ t.seen = s.seen /\ t.logged = l
    BY <2>3, <2>5 DEF TermSessions, Same
  <2>6. (\A d \in Shell!Dir : l[d] >= s.logged[d]) /\ l[f.dir] > 0
    BY <2>0, <2>1, <2>2
  <2> QED
    BY <2>4, <2>6
<1> QED
  BY <1>1, <1>2

\* A finished flush wrote its row and emptied its batch.
LEMMA FlushedKeeps ==
  ASSUME NEW s \in TermSessions, At(s), NEW f \in Slot, f # Shell!None, NEW n \in Nat, Books(s, n), NEW t, t = Shell!Flushed(s, f)
  PROVE  Same(s, t) /\ At(t) /\ Books(t, n)
<1>1. PICK w : w = Shell!Written(s, f)
  OBVIOUS
<1>2. /\ Same(s, w) /\ w.ws = s.ws /\ w.toOps = s.toOps /\ w.batch = s.batch /\ w.seen = s.seen
      /\ \A d \in Shell!Dir : w.logged[d] >= s.logged[d]
      /\ w.logged[f.dir] > 0
  BY <1>1, WrittenFacts
<1>3. f.dir \in Shell!Dir
  BY DEF Slot
<1>0. w.batch \in [Shell!Dir -> Nat]
  BY <1>2 DEF Same, TermSessions, Counts
<1>4. PICK b : b \in Counts /\ b = [w.batch EXCEPT ![f.dir] = 0]
  BY <1>0, <1>3 DEF Counts
<1>5. t = [w EXCEPT !.batch = b]
  BY <1>1, <1>4 DEF Shell!Flushed
<1>6. Same(w, t) /\ t.ws = w.ws /\ t.toOps = w.toOps /\ t.batch = b /\ t.seen = w.seen /\ t.logged = w.logged
  BY <1>2, <1>4, <1>5 DEF TermSessions, Same
<1>7. \A d \in Shell!Dir : d # f.dir => b[d] = s.batch[d]
  BY <1>2, <1>3, <1>4 DEF Same, TermSessions, Counts
<1>8. \A d \in Shell!Dir : b[d] <= s.batch[d] /\ b[d] \in Nat /\ s.batch[d] \in Nat /\ s.logged[d] \in Nat /\ w.logged[d] \in Nat
  BY <1>2, <1>3, <1>4 DEF Same, TermSessions, Counts
<1>9. Len(s.toOps) \in Nat
  BY DEF TermSessions
<1>10. ASSUME NEW d \in Shell!Dir, t.seen[d] > 0 PROVE t.logged[d] > 0 \/ (t.batch[d] > 0 /\ At(t))
  <2>1. CASE d = f.dir
    BY <1>2, <1>6, <2>1
  <2>2. CASE d # f.dir
    BY <1>2, <1>6, <1>7, <1>8, <1>10, <2>2 DEF Books, At
  <2> QED
    BY <2>1, <2>2
<1>11. t.batch["stdin"] <= n /\ t.batch["stdout"] + Len(t.toOps) <= n
  <2>1. "stdin" \in Shell!Dir /\ "stdout" \in Shell!Dir
    BY DEF Shell!Dir
  <2> QED
    BY <1>2, <1>6, <1>8, <1>9, <2>1 DEF Books
<1> QED
  BY <1>2, <1>6, <1>10, <1>11 DEF Books, Same, At

\* A chunk that arrives is seen and in the batch.
LEMMA AddChunkKeeps ==
  ASSUME NEW s \in TermSessions, At(s), NEW d \in Shell!Dir, now + Idle \in Nat, NEW t, t = Shell!AddChunk(s, d), NEW n \in Nat,
         \A e \in Shell!Dir : s.seen[e] > 0 => s.logged[e] > 0 \/ (s.batch[e] > 0 /\ At(s)),
         \A e \in Shell!Dir : IF e = "stdin" THEN s.batch[e] + (IF e = d THEN 1 ELSE 0) <= n
                        ELSE s.batch[e] + (IF e = d THEN 1 ELSE 0) + Len(s.toOps) <= n
  PROVE  Same(s, t) /\ At(t) /\ Books(t, n) /\ t.batch[d] \in Nat \ {0}
<1>1. /\ Same(s, t) /\ t.ws = s.ws /\ t.toOps = s.toOps /\ t.logged = s.logged
      /\ t.batch[d] = s.batch[d] + 1 /\ \A e \in Shell!Dir \ {d} : t.batch[e] = s.batch[e] /\ t.seen[e] = s.seen[e]
  BY AddChunkFacts
<1>2. \A e \in Shell!Dir : s.batch[e] \in Nat
  BY DEF TermSessions, Counts
<1>3. At(t) /\ t.batch[d] \in Nat \ {0}
  BY <1>1, <1>2 DEF At
<1>4. ASSUME NEW e \in Shell!Dir, t.seen[e] > 0 PROVE t.logged[e] > 0 \/ (t.batch[e] > 0 /\ At(t))
  <2>1. CASE e = d
    BY <1>3, <2>1
  <2>2. CASE e # d
    BY <1>1, <1>3, <1>4, <2>2
  <2> QED
    BY <2>1, <2>2
<1>5. t.batch["stdin"] <= n /\ t.batch["stdout"] + Len(t.toOps) <= n
  <2>1. "stdin" \in Shell!Dir /\ "stdout" \in Shell!Dir
    BY DEF Shell!Dir
  <2>2. d = "stdin" \/ d = "stdout"
    BY DEF Shell!Dir
  <2>3. Len(s.toOps) \in Nat
    BY DEF TermSessions
  <2> QED
    BY <1>1, <1>2, <2>1, <2>2, <2>3
<1> QED
  BY <1>1, <1>3, <1>4, <1>5 DEF Books

\* The periodic task starts a flush of what there is, or looks at the deadline.
LEMMA TickedCalm ==
  ASSUME NEW s \in TermSessions, At(s), NEW todo \in SUBSET Shell!Dir, NEW t, t = Shell!Ticked(s, todo)
  PROVE  Calm(s, t)
<1> DEFINE next == {d \in todo : s.batch[d] > 0}
<1> DEFINE d == IF "stdin" \in next THEN "stdin" ELSE "stdout"
<1>0. Shell!None \in Slot
  BY DEF Slot
<1>1. CASE next # {}
  <2>1. d \in next
    BY <1>1 DEF Shell!Dir
  <2>2. s.batch[d] \in Nat \ {0} /\ d \in Shell!Dir
    BY <2>1 DEF TermSessions, Counts
  <2>3. PICK f : f = [dir |-> d, n |-> s.batch[d]]
    OBVIOUS
  <2>4. f \in Slot
    BY <2>2, <2>3 DEF Slot
  <2>5. t = [s EXCEPT !.ticker = f]
    BY <1>1, <2>3, Zenon DEF Shell!Ticked
  <2> QED
    BY <2>4, <2>5, CalmFields
<1>2. CASE next = {} /\ now >= s.deadline
  <2>1. t = [s EXCEPT !.ticker = Shell!None, !.ws = "ending"]
    BY <1>2, Zenon DEF Shell!Ticked
  <2>2. PICK u : u = [s EXCEPT !.ticker = Shell!None]
    OBVIOUS
  <2>3. Calm(s, u)
    BY <1>0, <2>2, CalmFields
  <2>4. t = [u EXCEPT !.ws = "ending"]
    BY <2>1, <2>2
  <2>6. u \in TermSessions /\ At(u)
    BY <2>3 DEF Calm, Same
  <2>5. Calm(u, t)
    BY <2>4, <2>6, CalmFields
  <2> QED
    BY <2>3, <2>5, CalmTwice
<1>3. CASE next = {} /\ ~(now >= s.deadline)
  <2>1. t = [s EXCEPT !.ticker = Shell!None]
    BY <1>3, Zenon DEF Shell!Ticked
  <2> QED
    BY <1>0, <2>1, CalmFields
<1> QED
  BY <1>1, <1>2, <1>3

\* The finally block flushes what the batches hold.
LEMMA FinalFlushKeeps ==
  ASSUME NEW s \in TermSessions, At(s), NEW n \in Nat, Books(s, n), NEW c, Same(s, c), c.toOps = s.toOps,
         c.batch = s.batch, c.seen = s.seen, \A d \in Shell!Dir : c.logged[d] >= s.logged[d],
         NEW t, t = [Shell!FinalFlush(c) EXCEPT !.ops = Shell!None, !.agent = Shell!None, !.ticker = Shell!None, !.ws = "closing"]
  PROVE  Same(s, t) /\ t.ws = "closing" /\ Books(t, n)
<1>1. /\ c \in TermSessions /\ c.batch \in [Shell!Dir -> Nat] /\ c.logged \in [Shell!Dir -> Nat]
      /\ s.logged \in [Shell!Dir -> Nat] /\ Shell!None \in Slot
  BY DEF Same, TermSessions, Counts, Slot
<1>2. PICK l : l = [d \in Shell!Dir |-> c.logged[d] + c.batch[d]]
  OBVIOUS
<1>3. PICK c1 : c1 = [c EXCEPT !.logged = l]
  OBVIOUS
<1>4. PICK c2 : c2 = [c1 EXCEPT !.batch = Shell!Batches]
  OBVIOUS
<1>5. Shell!FinalFlush(c) = c2
  BY <1>2, <1>3, <1>4, Zenon DEF Shell!FinalFlush
<1>6. l \in Counts /\ Shell!Batches \in Counts
  BY <1>1, <1>2 DEF Counts, Shell!Batches
<1>7. Same(s, c1) /\ c1.toOps = s.toOps /\ c1.seen = s.seen /\ c1.logged = l
  BY <1>1, <1>3, <1>6 DEF Same, TermSessions
<1>8. Same(s, c2) /\ c2.toOps = s.toOps /\ c2.seen = s.seen /\ c2.logged = l /\ c2.batch = Shell!Batches
  BY <1>4, <1>6, <1>7 DEF Same, TermSessions
<1>9. PICK c3 : c3 = [c2 EXCEPT !.ops = Shell!None]
  OBVIOUS
<1>10. Same(s, c3) /\ c3.toOps = s.toOps /\ c3.seen = s.seen /\ c3.logged = l /\ c3.batch = Shell!Batches
  BY <1>1, <1>8, <1>9 DEF Same, TermSessions
<1>11. PICK c4 : c4 = [c3 EXCEPT !.agent = Shell!None]
  OBVIOUS
<1>12. Same(s, c4) /\ c4.toOps = s.toOps /\ c4.seen = s.seen /\ c4.logged = l /\ c4.batch = Shell!Batches
  BY <1>1, <1>10, <1>11 DEF Same, TermSessions
<1>13. PICK c5 : c5 = [c4 EXCEPT !.ticker = Shell!None]
  OBVIOUS
<1>14. Same(s, c5) /\ c5.toOps = s.toOps /\ c5.seen = s.seen /\ c5.logged = l /\ c5.batch = Shell!Batches
  BY <1>1, <1>12, <1>13 DEF Same, TermSessions
<1>15. t = [c5 EXCEPT !.ws = "closing"]
  BY <1>5, <1>9, <1>11, <1>13
<1>16. Same(s, t) /\ t.toOps = s.toOps /\ t.seen = s.seen /\ t.logged = l /\ t.batch = Shell!Batches /\ t.ws = "closing"
  BY <1>14, <1>15 DEF Same, TermSessions, Ws
<1>17. ASSUME NEW d \in Shell!Dir, t.seen[d] > 0 PROVE t.logged[d] > 0
  <2>1. s.logged[d] > 0 \/ c.batch[d] > 0
    BY <1>16, <1>17 DEF Books
  <2>2. l[d] = c.logged[d] + c.batch[d]
    BY <1>2
  <2>3. c.logged[d] \in Nat /\ c.batch[d] \in Nat /\ s.logged[d] \in Nat
    BY <1>1
  <2> QED
    BY <1>16, <2>1, <2>2, <2>3
<1>18. t.batch["stdin"] <= n /\ t.batch["stdout"] + Len(t.toOps) <= n
  <2>1. "stdin" \in Shell!Dir /\ "stdout" \in Shell!Dir
    BY DEF Shell!Dir
  <2>2. t.batch["stdin"] = 0 /\ t.batch["stdout"] = 0
    BY <1>16, <2>1 DEF Shell!Batches
  <2>3. Len(s.toOps) \in Nat /\ s.batch["stdout"] \in Nat
    BY <2>1 DEF TermSessions, Counts
  <2> QED
    BY <1>16, <2>2, <2>3 DEF Books
<1> QED
  BY <1>16, <1>17, <1>18 DEF Books

\* The last flush fails: what is not on a row is still in its batch.
LEMMA LeftOpen ==
  ASSUME NEW s \in TermSessions, NEW e, Same(s, e), At(e), NEW n \in Nat, Books(e, n),
         NEW t, t = [e EXCEPT !.ops = Shell!None, !.agent = Shell!None, !.ticker = Shell!None, !.ws = "failed"]
  PROVE  Same(s, t) /\ t.ws = "failed" /\ Books(t, n)
<1> DEFINE StillHeld(c) == /\ Same(s, c) /\ c.toOps = e.toOps /\ c.seen = e.seen /\ c.logged = e.logged
                           /\ c.batch = e.batch
<1>1. e \in TermSessions /\ Shell!None \in Slot /\ StillHeld(e)
  BY DEF Same, Slot
<1>2. PICK c1 : c1 = [e EXCEPT !.ops = Shell!None]
  OBVIOUS
<1>3. StillHeld(c1)
  BY <1>1, <1>2 DEF Same, TermSessions
<1>4. PICK c2 : c2 = [c1 EXCEPT !.agent = Shell!None]
  OBVIOUS
<1>5. StillHeld(c2)
  BY <1>1, <1>3, <1>4 DEF Same, TermSessions
<1>6. PICK c3 : c3 = [c2 EXCEPT !.ticker = Shell!None]
  OBVIOUS
<1>7. StillHeld(c3)
  BY <1>1, <1>5, <1>6 DEF Same, TermSessions
<1>8. t = [c3 EXCEPT !.ws = "failed"]
  BY <1>2, <1>4, <1>6
<1>9. StillHeld(t) /\ t.ws = "failed"
  BY <1>7, <1>8 DEF Same, TermSessions, Ws
<1> QED
  BY <1>9 DEF Books, At

\* Where the last flush may stop, every chunk seen is on a row or in a batch.
LEMMA InterruptedKeeps ==
  ASSUME NEW s \in TermSessions, At(s), NEW n \in Nat, Books(s, n), NEW e \in Shell!Interrupted(s)
  PROVE  Same(s, e) /\ At(e) /\ Books(e, n)
<1>1. CASE e = s
  BY <1>1 DEF Same
<1>2. CASE e # s
  <2>1. PICK f : f = [dir |-> "stdin", n |-> s.batch["stdin"]]
    OBVIOUS
  <2>2. s.batch["stdin"] > 0 /\ e = Shell!Flushed(s, f)
    BY <1>2, <2>1 DEF Shell!Interrupted
  <2>3. s.batch \in [Shell!Dir -> Nat] /\ "stdin" \in Shell!Dir
    BY DEF TermSessions, Counts, Shell!Dir
  <2>4. s.batch["stdin"] \in Nat \ {0}
    BY <2>2, <2>3
  <2>5. f \in Slot /\ f # Shell!None
    BY <2>1, <2>3, <2>4 DEF Slot, Shell!None
  <2> QED
    BY <2>2, <2>5, FlushedKeeps
<1> QED
  BY <1>1, <1>2

-----------------------------------------------------------------------------
(* Steps of the system.                                                    *)

\* More may be sent without harm to the books.
LEMMA BooksGrow ==
  ASSUME NEW s \in TermSessions, NEW n \in Nat, NEW m \in Nat, n <= m, Books(s, n)
  PROVE  Books(s, m)
<1>1. s.batch["stdin"] \in Nat /\ s.batch["stdout"] \in Nat /\ Len(s.toOps) \in Nat
  BY DEF TermSessions, Counts, Shell!Dir
<1> QED
  BY <1>1 DEF Books

\* One session changes and stays what it is to the broker.
LEMMA UpdateKeeps ==
  ASSUME TerminalInv, NEW o \in DOMAIN objs, NEW t, objs' = [objs EXCEPT ![o] = t],
         UNCHANGED <<now, tokens, dict, streams>>,
         sent' \in Nat, sent <= sent', sent' <= MaxChunk,
         Same(objs[o], t), t.closed \/ t.ws # "done", Books(t, sent')
  PROVE  TerminalInv'
<1>1. TerminalTables /\ objs \in Seq(TermSessions) /\ objs[o] \in TermSessions
  BY DEF TerminalInv, TerminalTables
<1>2. objs' \in Seq(TermSessions) /\ Len(objs') = Len(objs) /\ DOMAIN objs' = DOMAIN objs
  BY <1>1 DEF Same
<1>3. \A p \in DOMAIN objs : objs'[p] = IF p = o THEN t ELSE objs[p]
  BY <1>1
<1>4. TerminalTables'
  BY <1>1, <1>2 DEF TerminalTables
<1>5. Broker(dict, objs)'
  BY <1>2, <1>3 DEF Broker, TerminalInv, Same
<1>6. Objects(dict, objs)'
  BY <1>2, <1>3 DEF Objects, TerminalInv, Same
<1>7. Dialled(objs)'
  BY <1>2, <1>3 DEF Dialled, TerminalInv, Same
<1>8. ASSUME NEW p \in DOMAIN objs' PROVE Books(objs'[p], sent')
  <2>1. CASE p = o
    BY <1>2, <1>3, <2>1
  <2>2. CASE p # o
    <3>1. objs[p] \in TermSessions /\ Books(objs[p], sent) /\ sent \in Nat
      BY <1>1, <1>2 DEF TerminalInv, TerminalTables
    <3>2. Books(objs[p], sent')
      BY <3>1, BooksGrow
    <3> QED
      BY <1>2, <1>3, <2>2, <3>2
  <2> QED
    BY <2>1, <2>2
<1>9. Parted(dict)'
  BY DEF Parted, TerminalInv
<1> QED
  BY <1>4, <1>5, <1>6, <1>7, <1>8, <1>9 DEF TerminalInv

\* The same, with nothing sent.
LEMMA UpdateOnly ==
  ASSUME TerminalInv, NEW o \in DOMAIN objs, NEW t, Shell!Update(o, t), UNCHANGED sent,
         Same(objs[o], t), t.ws # "done", Books(t, sent)
  PROVE  TerminalInv'
<1>1. sent' = sent /\ sent \in Nat /\ sent <= MaxChunk
  BY DEF TerminalInv, TerminalTables
<1>2. objs' = [objs EXCEPT ![o] = t] /\ UNCHANGED <<now, tokens, dict, streams>>
  BY DEF Shell!Update
<1>3. sent' \in Nat /\ sent <= sent' /\ sent' <= MaxChunk /\ Books(t, sent')
  BY <1>1
<1> QED
  BY <1>2, <1>3, UpdateKeeps

\* A calm change of a session that runs.
LEMMA CalmKeeps ==
  ASSUME TerminalInv, NEW o \in DOMAIN objs, NEW s, NEW t, Shell!Update(o, t), UNCHANGED sent,
         Same(objs[o], s), Books(s, sent), Calm(s, t)
  PROVE  TerminalInv'
<1>1. Books(t, sent)
  BY CalmBooks
<1>2. Same(objs[o], t) /\ t.ws # "done"
  BY DEF Calm, Same, At
<1> QED
  BY <1>1, <1>2, UpdateOnly

\* What an action finds of its session.
LEMMA Found ==
  ASSUME TerminalConstants, TerminalInv, NEW o \in DOMAIN objs
  PROVE  /\ objs[o] \in TermSessions /\ Same(objs[o], objs[o]) /\ Books(objs[o], sent) /\ sent \in Nat /\ now + Idle \in Nat
         /\ objs[o].ops \in Slot /\ objs[o].agent \in Slot /\ objs[o].ticker \in Slot
         /\ objs[o].ws = "run" => At(objs[o])
<1>1. objs[o] \in TermSessions /\ sent \in Nat /\ now \in Nat
  BY DEF TerminalInv, TerminalTables
<1>2. Books(objs[o], sent)
  BY DEF TerminalInv
<1>3. now + Idle \in Nat
  BY <1>1 DEF TerminalConstants
<1>4. objs[o].ops \in Slot /\ objs[o].agent \in Slot /\ objs[o].ticker \in Slot
  BY <1>1 DEF TermSessions
<1> QED
  BY <1>1, <1>2, <1>3, <1>4 DEF Same, At

\* An input chunk of the analyst.
LEMMA OpsInputKeeps ==
  ASSUME TerminalConstants, TerminalInv, NEW o \in DOMAIN objs, Shell!OpsInput(o)
  PROVE  TerminalInv'
<1>1. PICK s : s = Shell!AddChunk(objs[o], "stdin")
  OBVIOUS
<1>2. PICK t : t = IF Shell!Full(s, "stdin") THEN [s EXCEPT !.ops = [dir |-> "stdin", n |-> s.batch["stdin"]]]
                   ELSE [s EXCEPT !.toAgent = Append(@, "input")]
  OBVIOUS
<1>3. objs[o].ws = "run" /\ sent < MaxChunk /\ sent' = sent + 1 /\ Shell!Update(o, t)
  BY <1>1, <1>2, Zenon DEF Shell!OpsInput
<1>4. objs[o] \in TermSessions /\ Books(objs[o], sent) /\ sent \in Nat /\ now + Idle \in Nat /\ At(objs[o])
  BY <1>3, Found
<1>5. "stdin" \in Shell!Dir /\ Shell!Dir = {"stdin", "stdout"}
  BY DEF Shell!Dir
<1>6. \A e \in Shell!Dir : IF e = "stdin" THEN objs[o].batch[e] + (IF e = "stdin" THEN 1 ELSE 0) <= sent + 1
                     ELSE objs[o].batch[e] + (IF e = "stdin" THEN 1 ELSE 0) + Len(objs[o].toOps) <= sent + 1
  <2>1. objs[o].batch["stdin"] \in Nat /\ objs[o].batch["stdout"] \in Nat /\ Len(objs[o].toOps) \in Nat
    BY <1>4, <1>5 DEF TermSessions, Counts
  <2> QED
    BY <1>4, <1>5, <2>1 DEF Books
<1>7. Same(objs[o], s) /\ At(s) /\ Books(s, sent + 1) /\ s.batch["stdin"] \in Nat \ {0}
  <2>1. \A e \in Shell!Dir : objs[o].seen[e] > 0 => objs[o].logged[e] > 0 \/ (objs[o].batch[e] > 0 /\ At(objs[o]))
    BY <1>4 DEF Books
  <2>2. sent + 1 \in Nat
    BY <1>4
  <2> QED
    BY <1>1, <1>4, <1>5, <1>6, <2>1, <2>2, AddChunkKeeps
<1>8. Calm(s, t)
  <2>0. s \in TermSessions
    BY <1>7 DEF Same
  <2>1. CASE Shell!Full(s, "stdin")
    <3>1. [dir |-> "stdin", n |-> s.batch["stdin"]] \in Slot
      BY <1>5, <1>7 DEF Slot
    <3> QED
      BY <1>2, <1>7, <2>0, <2>1, <3>1, CalmFields
  <2>2. CASE ~Shell!Full(s, "stdin")
    BY <1>2, <1>7, <2>0, <2>2, CalmFields
  <2> QED
    BY <2>1, <2>2
<1>9. Books(t, sent') /\ Same(objs[o], t) /\ t.ws # "done"
  <2>1. Books(t, sent + 1)
    BY <1>7, <1>8, CalmBooks
  <2> QED
    BY <1>3, <1>7, <1>8, <2>1 DEF Calm, Same, At
<1>10. sent' \in Nat /\ sent <= sent' /\ sent' <= MaxChunk
  BY <1>3, <1>4 DEF TerminalConstants
<1> QED
  BY <1>3, <1>9, <1>10, UpdateKeeps DEF Shell!Update

\* A flush of the analyst's task is done, and the chunk queued.
LEMMA OpsFlushedKeeps ==
  ASSUME TerminalConstants, TerminalInv, NEW o \in DOMAIN objs, Shell!OpsFlushed(o)
  PROVE  TerminalInv'
<1>1. PICK s : s = Shell!Flushed(objs[o], objs[o].ops)
  OBVIOUS
<1>2. PICK u : u = [s EXCEPT !.ops = Shell!None]
  OBVIOUS
<1>3. PICK t : t = [u EXCEPT !.toAgent = Append(@, "input")]
  OBVIOUS
<1>4. objs[o].ws = "run" /\ objs[o].ops # Shell!None /\ sent' = sent
  BY DEF Shell!OpsFlushed
<1>5. Shell!Update(o, t)
  <2>1. t = [s EXCEPT !.ops = Shell!None, !.toAgent = Append(@, "input")]
    BY <1>2, <1>3
  <2> QED
    BY <1>1, <2>1 DEF Shell!OpsFlushed
<1>6. Same(objs[o], s) /\ At(s) /\ Books(s, sent)
  BY <1>1, <1>4, Found, FlushedKeeps
<1>7. s \in TermSessions /\ Shell!None \in Slot
  BY <1>6 DEF Same, Slot
<1>8. Calm(s, u)
  BY <1>2, <1>6, <1>7, CalmFields
<1>9. u \in TermSessions /\ At(u)
  BY <1>8 DEF Calm, Same
<1>10. Calm(u, t)
  BY <1>3, <1>9, CalmFields
<1>11. Calm(s, t)
  BY <1>8, <1>10, CalmTwice
<1> QED
  BY <1>4, <1>5, <1>6, <1>11, CalmKeeps

\* A resize.
LEMMA OpsResizeKeeps ==
  ASSUME TerminalConstants, TerminalInv, NEW o \in DOMAIN objs, Shell!OpsResize(o)
  PROVE  TerminalInv'
<1>1. PICK u : u = [objs[o] EXCEPT !.toAgent = Append(@, "resize")]
  OBVIOUS
<1>2. PICK t : t = [u EXCEPT !.deadline = now + Idle]
  OBVIOUS
<1>3. objs[o].ws = "run" /\ sent < MaxChunk /\ sent' = sent + 1
  BY DEF Shell!OpsResize
<1>4. Shell!Update(o, t)
  <2>1. t = [objs[o] EXCEPT !.toAgent = Append(@, "resize"), !.deadline = now + Idle]
    BY <1>1, <1>2
  <2> QED
    BY <2>1 DEF Shell!OpsResize
<1>5. objs[o] \in TermSessions /\ Books(objs[o], sent) /\ sent \in Nat /\ now + Idle \in Nat /\ At(objs[o])
  BY <1>3, Found
<1>6. Calm(objs[o], u)
  BY <1>1, <1>5, CalmFields
<1>7. u \in TermSessions /\ At(u)
  BY <1>6 DEF Calm, Same
<1>8. Calm(u, t)
  BY <1>2, <1>5, <1>7, CalmFields
<1>9. Calm(objs[o], t)
  BY <1>6, <1>8, CalmTwice
<1>10. t \in TermSessions /\ Same(objs[o], t) /\ t.ws # "done" /\ Books(t, sent)
  BY <1>5, <1>9, CalmBooks DEF Calm, Same, At
<1>11. sent' \in Nat /\ sent <= sent' /\ sent' <= MaxChunk
  BY <1>3, <1>5 DEF TerminalConstants
<1>12. Books(t, sent')
  BY <1>5, <1>10, <1>11, BooksGrow
<1>13. objs' = [objs EXCEPT ![o] = t] /\ UNCHANGED <<now, tokens, dict, streams>>
  BY <1>4 DEF Shell!Update
<1> QED
  BY <1>10, <1>11, <1>12, <1>13, UpdateKeeps

\* The analyst closes the terminal, or the browser goes away.
LEMMA OpsEndsKeeps ==
  ASSUME TerminalConstants, TerminalInv, NEW o \in DOMAIN objs, Shell!OpsClose(o) \/ Shell!WsDisconnect(o)
  PROVE  TerminalInv'
<1>1. objs[o].ws = "run" /\ sent' = sent
  BY DEF Shell!OpsClose, Shell!WsDisconnect
<1>2. objs[o] \in TermSessions /\ Same(objs[o], objs[o]) /\ Books(objs[o], sent) /\ At(objs[o])
  BY <1>1, Found
<1>3. CASE Shell!OpsClose(o)
  <2>1. PICK u : u = [objs[o] EXCEPT !.toAgent = Append(@, "close")]
    OBVIOUS
  <2>2. PICK t : t = [u EXCEPT !.ws = "ending"]
    OBVIOUS
  <2>3. Shell!Update(o, t)
    <3>1. t = [objs[o] EXCEPT !.toAgent = Append(@, "close"), !.ws = "ending"]
      BY <2>1, <2>2
    <3> QED
      BY <1>3, <3>1 DEF Shell!OpsClose
  <2>4. Calm(objs[o], u)
    BY <1>2, <2>1, CalmFields
  <2>5. u \in TermSessions /\ At(u)
    BY <2>4 DEF Calm, Same
  <2>6. Calm(u, t)
    BY <2>2, <2>5, CalmFields
  <2>7. Calm(objs[o], t)
    BY <2>4, <2>6, CalmTwice
  <2> QED
    BY <1>1, <1>2, <2>3, <2>7, CalmKeeps
<1>4. CASE Shell!WsDisconnect(o)
  <2>1. PICK t : t = [objs[o] EXCEPT !.ws = "ending"]
    OBVIOUS
  <2>2. Shell!Update(o, t)
    BY <1>4, <2>1 DEF Shell!WsDisconnect
  <2>3. Calm(objs[o], t)
    BY <1>2, <2>1, CalmFields
  <2> QED
    BY <1>1, <1>2, <2>2, <2>3, CalmKeeps
<1> QED
  BY <1>3, <1>4

\* A message of the agent: the end of the shell, or a chunk of output.
LEMMA AgentMessageKeeps ==
  ASSUME TerminalConstants, TerminalInv, NEW o \in DOMAIN objs, Shell!AgentMessage(o)
  PROVE  TerminalInv'
<1>1. PICK s : s = [objs[o] EXCEPT !.toOps = Tail(@)]
  OBVIOUS
<1>2. objs[o].ws = "run" /\ objs[o].toOps # << >> /\ sent' = sent
  BY DEF Shell!AgentMessage
<1>3. objs[o] \in TermSessions /\ Books(objs[o], sent) /\ sent \in Nat /\ now + Idle \in Nat /\ At(objs[o])
  BY <1>2, Found
<1>4. objs[o].toOps \in Seq({"output", "exit"})
  BY <1>3 DEF TermSessions
<1>5. Tail(objs[o].toOps) \in Seq({"output", "exit"}) /\ Len(Tail(objs[o].toOps)) = Len(objs[o].toOps) - 1
  BY <1>2, <1>4
<1>6. PICK q : q = Tail(objs[o].toOps)
  OBVIOUS
<1>7. s = [objs[o] EXCEPT !.toOps = q]
  BY <1>1, <1>6, Zenon
<1>8. /\ Same(objs[o], s) /\ s.ws = objs[o].ws /\ s.batch = objs[o].batch /\ s.logged = objs[o].logged
      /\ s.seen = objs[o].seen /\ s.toOps = q
  BY <1>3, <1>5, <1>6, <1>7 DEF Same, TermSessions
<1>9. s \in TermSessions /\ At(s)
  BY <1>2, <1>8 DEF Same, At
<1>10. "stdout" \in Shell!Dir /\ Shell!Dir = {"stdin", "stdout"}
  BY DEF Shell!Dir
<1>11. /\ objs[o].batch["stdin"] \in Nat /\ objs[o].batch["stdout"] \in Nat /\ Len(objs[o].toOps) \in Nat
       /\ Len(objs[o].toOps) > 0 /\ Len(q) = Len(objs[o].toOps) - 1
  <2>1. objs[o].batch \in [Shell!Dir -> Nat]
    BY <1>3 DEF TermSessions, Counts
  <2> QED
    BY <1>2, <1>4, <1>5, <1>6, <1>10, <2>1
<1>12. \A e \in Shell!Dir : s.seen[e] > 0 => s.logged[e] > 0 \/ (s.batch[e] > 0 /\ At(s))
  BY <1>3, <1>8, <1>9 DEF Books
<1>13. Books(s, sent)
  BY <1>3, <1>8, <1>11, <1>12 DEF Books
<1>14. CASE objs[o].toOps[1] = "exit"
  <2>1. PICK t : t = [s EXCEPT !.ws = "ending"]
    OBVIOUS
  <2>2. Shell!Update(o, t)
    <3>1. t = [objs[o] EXCEPT !.toOps = Tail(@), !.ws = "ending"]
      BY <1>1, <2>1
    <3> QED
      BY <1>14, <3>1 DEF Shell!AgentMessage
  <2>3. Calm(s, t)
    BY <1>9, <2>1, CalmFields
  <2> QED
    BY <1>2, <1>8, <1>13, <2>2, <2>3, CalmKeeps
<1>15. CASE objs[o].toOps[1] # "exit"
  <2>1. PICK t : t = Shell!AddChunk(s, "stdout")
    OBVIOUS
  <2>2. PICK u : u = IF Shell!Full(t, "stdout") THEN [t EXCEPT !.agent = [dir |-> "stdout", n |-> t.batch["stdout"]]] ELSE t
    OBVIOUS
  <2>3. Shell!Update(o, u)
    BY <1>1, <1>15, <2>1, <2>2, Zenon DEF Shell!AgentMessage
  <2>4. \A e \in Shell!Dir : IF e = "stdin" THEN s.batch[e] + (IF e = "stdout" THEN 1 ELSE 0) <= sent
                       ELSE s.batch[e] + (IF e = "stdout" THEN 1 ELSE 0) + Len(s.toOps) <= sent
    BY <1>3, <1>8, <1>10, <1>11 DEF Books
  <2>5. Same(s, t) /\ At(t) /\ Books(t, sent) /\ t.batch["stdout"] \in Nat \ {0}
    BY <1>3, <1>9, <1>10, <1>12, <2>1, <2>4, AddChunkKeeps
  <2>6. t \in TermSessions /\ Same(objs[o], t)
    BY <1>8, <2>5 DEF Same
  <2>7. Calm(t, u)
    <3>1. CASE Shell!Full(t, "stdout")
      <4>1. [dir |-> "stdout", n |-> t.batch["stdout"]] \in Slot
        BY <1>10, <2>5 DEF Slot
      <4> QED
        BY <2>2, <2>5, <2>6, <3>1, <4>1, CalmFields
    <3>2. CASE ~Shell!Full(t, "stdout")
      BY <2>2, <2>5, <2>6, <3>2 DEF Calm, Same
    <3> QED
      BY <3>1, <3>2
  <2> QED
    BY <1>2, <2>3, <2>5, <2>6, <2>7, CalmKeeps
<1> QED
  BY <1>14, <1>15

\* A flush of output is done.
LEMMA AgentFlushedKeeps ==
  ASSUME TerminalConstants, TerminalInv, NEW o \in DOMAIN objs, Shell!AgentFlushed(o)
  PROVE  TerminalInv'
<1>1. PICK s : s = Shell!Flushed(objs[o], objs[o].agent)
  OBVIOUS
<1>2. PICK t : t = [s EXCEPT !.agent = Shell!None]
  OBVIOUS
<1>3. objs[o].ws = "run" /\ objs[o].agent # Shell!None /\ sent' = sent /\ Shell!Update(o, t)
  BY <1>1, <1>2 DEF Shell!AgentFlushed
<1>4. Same(objs[o], s) /\ At(s) /\ Books(s, sent)
  BY <1>1, <1>3, Found, FlushedKeeps
<1>5. s \in TermSessions /\ Shell!None \in Slot
  BY <1>4 DEF Same, Slot
<1>6. Calm(s, t)
  BY <1>2, <1>4, <1>5, CalmFields
<1> QED
  BY <1>3, <1>4, <1>6, CalmKeeps

\* The periodic task.
LEMMA PeriodicKeeps ==
  ASSUME TerminalConstants, TerminalInv, NEW o \in DOMAIN objs, Shell!PeriodicFlush(o) \/ Shell!PeriodicFlushed(o)
  PROVE  TerminalInv'
<1>1. objs[o].ws = "run" /\ sent' = sent
  BY DEF Shell!PeriodicFlush, Shell!PeriodicFlushed
<1>2. objs[o] \in TermSessions /\ Same(objs[o], objs[o]) /\ Books(objs[o], sent) /\ At(objs[o])
      /\ sent \in Nat /\ objs[o].ticker \in Slot
  BY <1>1, Found
<1>3. CASE Shell!PeriodicFlush(o)
  <2>1. PICK t : t = Shell!Ticked(objs[o], Shell!Dir)
    OBVIOUS
  <2>2. Shell!Update(o, t)
    BY <1>3, <2>1 DEF Shell!PeriodicFlush
  <2>3. Calm(objs[o], t)
    BY <1>2, <2>1, TickedCalm
  <2> QED
    BY <1>1, <1>2, <2>2, <2>3, CalmKeeps
<1>4. CASE Shell!PeriodicFlushed(o)
  <2>1. PICK s : s = Shell!Flushed(objs[o], objs[o].ticker)
    OBVIOUS
  <2>2. PICK todo \in SUBSET Shell!Dir : todo = IF objs[o].ticker.dir = "stdin" THEN {"stdout"} ELSE {}
    BY DEF Shell!Dir
  <2>3. PICK t : t = Shell!Ticked(s, todo)
    OBVIOUS
  <2>4. objs[o].ticker # Shell!None /\ Shell!Update(o, t)
    BY <1>4, <2>1, <2>2, <2>3, Zenon DEF Shell!PeriodicFlushed
  <2>5. Same(objs[o], s) /\ At(s) /\ Books(s, sent)
    BY <1>2, <2>1, <2>4, FlushedKeeps
  <2>6. s \in TermSessions
    BY <2>5 DEF Same
  <2>7. Calm(s, t)
    BY <2>3, <2>5, <2>6, TickedCalm
  <2> QED
    BY <1>1, <2>4, <2>5, <2>7, CalmKeeps
<1> QED
  BY <1>3, <1>4

\* The finally block of the analyst's side.
LEMMA WsFinallyKeeps ==
  ASSUME TerminalConstants, TerminalInv, NEW o \in DOMAIN objs, Shell!WsFinally(o)
  PROVE  TerminalInv'
<1>1. PICK s : s = objs[o]
  OBVIOUS
<1>2. s.ws = "ending" /\ sent' = sent
  BY <1>1 DEF Shell!WsFinally
<1>3. /\ s \in TermSessions /\ Same(s, s) /\ Books(s, sent) /\ sent \in Nat
      /\ s.ops \in Slot /\ s.agent \in Slot /\ s.ticker \in Slot /\ At(s)
  BY <1>1, <1>2, Found DEF At
<1>4. PICK done \in SUBSET {s.ops, s.agent, s.ticker} :
        LET a == IF s.ops \in done THEN Shell!Written(s, s.ops) ELSE s
            b == IF s.agent \in done THEN Shell!Written(a, s.agent) ELSE a
            c == IF s.ticker \in done THEN Shell!Written(b, s.ticker) ELSE b
        IN  \/ Shell!Update(o, [Shell!FinalFlush(c) EXCEPT !.ops = Shell!None, !.agent = Shell!None, !.ticker = Shell!None, !.ws = "closing"])
            \/ \E e \in Shell!Interrupted(c) :
                Shell!Update(o, [e EXCEPT !.ops = Shell!None, !.agent = Shell!None, !.ticker = Shell!None, !.ws = "failed"])
  BY <1>1, Zenon DEF Shell!WsFinally
<1>5. PICK a : a = IF s.ops \in done THEN Shell!Written(s, s.ops) ELSE s
  OBVIOUS
<1>6. PICK b : b = IF s.agent \in done THEN Shell!Written(a, s.agent) ELSE a
  OBVIOUS
<1>7. PICK c : c = IF s.ticker \in done THEN Shell!Written(b, s.ticker) ELSE b
  OBVIOUS
<1>9. \/ Shell!Update(o, [Shell!FinalFlush(c) EXCEPT !.ops = Shell!None, !.agent = Shell!None, !.ticker = Shell!None, !.ws = "closing"])
      \/ \E e \in Shell!Interrupted(c) :
            Shell!Update(o, [e EXCEPT !.ops = Shell!None, !.agent = Shell!None, !.ticker = Shell!None, !.ws = "failed"])
  BY <1>4, <1>5, <1>6, <1>7, Zenon
<1> DEFINE More(x, y) == /\ Same(x, y) /\ y.toOps = x.toOps /\ y.batch = x.batch /\ y.seen = x.seen /\ y.ws = x.ws
                         /\ \A d \in Shell!Dir : y.logged[d] >= x.logged[d]
<1>10. ASSUME NEW x \in TermSessions, NEW f \in Slot PROVE More(x, x) /\ More(x, Shell!Written(x, f))
  <2>1. \A d \in Shell!Dir : x.logged[d] \in Nat
    BY DEF TermSessions, Counts
  <2> QED
    BY <2>1, WrittenFacts DEF Same
<1>11. ASSUME NEW x \in TermSessions, NEW y, NEW z, More(x, y), More(y, z) PROVE More(x, z)
  <2>1. y \in TermSessions /\ z \in TermSessions
    BY <1>11 DEF Same
  <2>2. \A d \in Shell!Dir : x.logged[d] \in Nat /\ y.logged[d] \in Nat /\ z.logged[d] \in Nat
    BY <2>1 DEF TermSessions, Counts
  <2> QED
    BY <1>11, <2>2 DEF Same
<1>12. More(s, a)
  BY <1>3, <1>5, <1>10
<1>13. a \in TermSessions
  BY <1>12 DEF Same
<1>14. More(a, b)
  BY <1>3, <1>6, <1>10, <1>13
<1>15. b \in TermSessions
  BY <1>14 DEF Same
<1>16. More(b, c)
  BY <1>3, <1>7, <1>10, <1>15
<1> HIDE DEF More
<1>17. More(s, c)
  BY <1>3, <1>11, <1>12, <1>13, <1>14, <1>16
<1>18. /\ Same(s, c) /\ c.toOps = s.toOps /\ c.batch = s.batch /\ c.seen = s.seen /\ c.ws = s.ws
       /\ \A d \in Shell!Dir : c.logged[d] >= s.logged[d]
  BY <1>17 DEF More
<1>19. CASE Shell!Update(o, [Shell!FinalFlush(c) EXCEPT !.ops = Shell!None, !.agent = Shell!None, !.ticker = Shell!None, !.ws = "closing"])
  <2>1. PICK t : t = [Shell!FinalFlush(c) EXCEPT !.ops = Shell!None, !.agent = Shell!None, !.ticker = Shell!None, !.ws = "closing"]
    OBVIOUS
  <2>2. Same(s, t) /\ t.ws = "closing" /\ Books(t, sent)
    BY <1>3, <1>18, <2>1, FinalFlushKeeps
  <2> QED
    BY <1>1, <1>2, <1>19, <2>1, <2>2, UpdateOnly
<1>20. ASSUME NEW e \in Shell!Interrupted(c),
              Shell!Update(o, [e EXCEPT !.ops = Shell!None, !.agent = Shell!None, !.ticker = Shell!None, !.ws = "failed"])
       PROVE  TerminalInv'
  <2>1. PICK t : t = [e EXCEPT !.ops = Shell!None, !.agent = Shell!None, !.ticker = Shell!None, !.ws = "failed"]
    OBVIOUS
  <2>2. c \in TermSessions /\ At(c) /\ Books(c, sent)
    <3>1. c \in TermSessions
      BY <1>18 DEF Same
    <3>2. \A d \in Shell!Dir : s.logged[d] \in Nat /\ c.logged[d] \in Nat
      BY <1>3, <3>1 DEF TermSessions, Counts
    <3> QED
      BY <1>3, <1>18, <3>1, <3>2 DEF Books, At
  <2>3. Same(c, e) /\ At(e) /\ Books(e, sent)
    BY <1>3, <2>2, InterruptedKeeps
  <2>4. Same(s, e)
    BY <1>18, <2>3 DEF Same
  <2>5. Same(s, t) /\ t.ws = "failed" /\ Books(t, sent)
    BY <1>3, <2>1, <2>3, <2>4, LeftOpen
  <2> QED
    BY <1>1, <1>2, <1>20, <2>1, <2>5, UpdateOnly
<1> QED
  BY <1>9, <1>19, <1>20

\* broker.close for an id, on the objects O.
Closing(i, O, P, D) == P = Shell!BrokerClose(i, O) /\ D = [dict EXCEPT ![i] = 0]

\* A session that leaves the broker is closed, and it is the only open one of its id.
LEMMA BrokerCloseFacts ==
  ASSUME NEW O \in Seq(TermSessions), dict \in Seq(Nat), Broker(dict, O), Objects(dict, O),
         NEW i \in DOMAIN dict, NEW P, NEW D, Closing(i, O, P, D)
  PROVE  /\ P \in Seq(TermSessions) /\ DOMAIN P = DOMAIN O /\ D \in Seq(Nat) /\ Len(D) = Len(dict)
         /\ Broker(D, P) /\ Objects(D, P)
         /\ \A o \in DOMAIN O :
             /\ P[o].id = O[o].id /\ P[o].host = O[o].host /\ P[o].ws = O[o].ws /\ P[o].toOps = O[o].toOps
             /\ P[o].batch = O[o].batch /\ P[o].logged = O[o].logged /\ P[o].seen = O[o].seen
             /\ O[o].id = i => P[o].closed
<1>1. DOMAIN P = DOMAIN O /\ \A o \in DOMAIN O : P[o] = IF o = dict[i] THEN [O[o] EXCEPT !.closed = TRUE] ELSE O[o]
  BY DEF Shell!BrokerClose, Closing
<1>2. DOMAIN D = DOMAIN dict /\ D \in Seq(Nat) /\ Len(D) = Len(dict)
      /\ \A j \in DOMAIN dict : D[j] = IF j = i THEN 0 ELSE dict[j]
  BY DEF Closing
<1>3. ASSUME NEW o \in DOMAIN O
      PROVE  /\ P[o] \in TermSessions
             /\ P[o].id = O[o].id /\ P[o].host = O[o].host /\ P[o].ws = O[o].ws /\ P[o].toOps = O[o].toOps
             /\ P[o].batch = O[o].batch /\ P[o].logged = O[o].logged /\ P[o].seen = O[o].seen
             /\ (o # dict[i] => P[o] = O[o]) /\ (o = dict[i] => P[o].closed)
  <2>1. O[o] \in TermSessions
    OBVIOUS
  <2>2. CASE o = dict[i]
    <3>1. P[o] = [O[o] EXCEPT !.closed = TRUE]
      BY <1>1, <2>2
    <3>2. P[o].closed
      BY <2>1, <3>1 DEF TermSessions
    <3>3. /\ P[o] \in TermSessions
          /\ P[o].id = O[o].id /\ P[o].host = O[o].host /\ P[o].ws = O[o].ws /\ P[o].toOps = O[o].toOps
          /\ P[o].batch = O[o].batch /\ P[o].logged = O[o].logged /\ P[o].seen = O[o].seen
      BY <2>1, <3>1 DEF TermSessions
    <3> QED
      BY <2>2, <3>2, <3>3
  <2>3. CASE o # dict[i]
    BY <1>1, <2>1, <2>3
  <2> QED
    BY <2>2, <2>3
<1>4. P \in Seq(TermSessions)
  <2>1. DOMAIN P = 1 .. Len(O) /\ Len(O) \in Nat
    BY <1>1
  <2>2. P = [o \in 1 .. Len(O) |-> P[o]]
    BY <2>1 DEF Shell!BrokerClose, Closing
  <2>3. \A o \in 1 .. Len(O) : P[o] \in TermSessions
    BY <1>3
  <2>4. [o \in 1 .. Len(O) |-> P[o]] \in Seq(TermSessions)
    BY <2>1, <2>3
  <2> QED
    BY <2>2, <2>4
<1>5. ASSUME NEW j \in DOMAIN D PROVE D[j] = 0 \/ (D[j] \in DOMAIN P /\ P[D[j]].id = j /\ ~P[D[j]].closed)
  <2>1. CASE j = i
    BY <1>2, <2>1
  <2>2. CASE j # i /\ dict[j] # 0
    <3>1. dict[j] \in DOMAIN O /\ O[dict[j]].id = j /\ ~O[dict[j]].closed /\ D[j] = dict[j]
      BY <1>2, <2>2 DEF Broker
    <3>2. dict[j] # dict[i]
      BY <2>2, <3>1 DEF Broker
    <3> QED
      BY <1>1, <1>3, <3>1, <3>2
  <2>3. CASE j # i /\ dict[j] = 0
    BY <1>2, <2>3
  <2> QED
    BY <2>1, <2>2, <2>3
<1>6. ASSUME NEW o \in DOMAIN O
      PROVE  /\ P[o].id \in DOMAIN D
             /\ P[o].closed \/ (D[P[o].id] = o /\ P[o].ws # "done")
             /\ O[o].id = i => P[o].closed
  <2>1. O[o].id \in DOMAIN dict /\ (O[o].closed \/ (dict[O[o].id] = o /\ O[o].ws # "done"))
    BY DEF Objects
  <2>2. CASE o = dict[i]
    BY <1>2, <1>3, <2>1, <2>2
  <2>3. CASE o # dict[i]
    BY <1>2, <1>3, <2>1, <2>3
  <2> QED
    BY <2>2, <2>3
<1>7. Broker(D, P)
  BY <1>5 DEF Broker
<1>8. Objects(D, P)
  BY <1>1, <1>6 DEF Objects
<1> QED
  BY <1>1, <1>2, <1>3, <1>4, <1>6, <1>7, <1>8

\* Entries that go away part no stream from its object.
LEMMA FewerEntries ==
  ASSUME TerminalInv, NEW i \in DOMAIN dict, dict' = [dict EXCEPT ![i] = 0], UNCHANGED streams
  PROVE  Parted(dict)'
<1>1. dict \in Seq(Nat) /\ objs \in Seq(TermSessions) /\ Dialled(objs) /\ Parted(dict)
  BY DEF TerminalInv, TerminalTables
<1>2. \A x \in DOMAIN streams : streams[x].obj # 0
  BY <1>1 DEF Dialled
<1>3. DOMAIN dict' = DOMAIN dict /\ \A j \in DOMAIN dict : dict'[j] = 0 \/ dict'[j] = dict[j]
  BY <1>1
<1> QED
  BY <1>1, <1>2, <1>3 DEF Parted

\* The analyst's side is over.
LEMMA WsCloseKeeps ==
  ASSUME TerminalInv, NEW o \in DOMAIN objs, Shell!WsClose(o)
  PROVE  TerminalInv'
<1>1. /\ TerminalTables /\ objs \in Seq(TermSessions) /\ dict \in Seq(Nat) /\ Broker(dict, objs) /\ Objects(dict, objs)
      /\ objs[o].id \in DOMAIN dict
  BY DEF TerminalInv, TerminalTables, Objects
<1>2. PICK i \in DOMAIN dict : i = objs[o].id
  BY <1>1
<1>3. PICK P : P = Shell!BrokerClose(i, objs)
  OBVIOUS
<1>4. PICK D : D = [dict EXCEPT ![i] = 0]
  OBVIOUS
<1>17. Closing(i, objs, P, D)
  BY <1>3, <1>4 DEF Closing
<1>5. /\ objs[o].ws = "closing" /\ objs' = [P EXCEPT ![o].ws = "done"] /\ dict' = D
      /\ UNCHANGED <<now, tokens, streams, sent>>
  BY <1>2, <1>3, <1>4 DEF Shell!WsClose
<1>6. /\ P \in Seq(TermSessions) /\ DOMAIN P = DOMAIN objs /\ D \in Seq(Nat) /\ Len(D) = Len(dict)
      /\ Broker(D, P) /\ Objects(D, P)
      /\ \A p \in DOMAIN objs :
          /\ P[p].id = objs[p].id /\ P[p].host = objs[p].host /\ P[p].ws = objs[p].ws /\ P[p].toOps = objs[p].toOps
          /\ P[p].batch = objs[p].batch /\ P[p].logged = objs[p].logged /\ P[p].seen = objs[p].seen
          /\ objs[p].id = i => P[p].closed
  BY <1>1, <1>17, BrokerCloseFacts
<1>7. PICK t : t = [P[o] EXCEPT !.ws = "done"]
  OBVIOUS
<1>8. objs' = [P EXCEPT ![o] = t]
  BY <1>5, <1>7
<1>9. P[o] \in TermSessions /\ P[o].closed /\ P[o].ws = "closing"
  BY <1>2, <1>5, <1>6
<1>10. /\ Same(P[o], t) /\ t.ws = "done" /\ t.batch = P[o].batch /\ t.logged = P[o].logged /\ t.seen = P[o].seen
       /\ t.toOps = P[o].toOps
  BY <1>7, <1>9 DEF Same, TermSessions, Ws
<1>11. objs' \in Seq(TermSessions) /\ DOMAIN objs' = DOMAIN objs /\ \A p \in DOMAIN objs : objs'[p] = IF p = o THEN t ELSE P[p]
  BY <1>6, <1>8, <1>10 DEF Same
<1>12. TerminalTables'
  BY <1>1, <1>5, <1>6, <1>11 DEF TerminalTables
<1>13. Broker(dict, objs)'
  BY <1>5, <1>6, <1>10, <1>11 DEF Broker, Same
<1>14. Objects(dict, objs)'
  BY <1>5, <1>6, <1>9, <1>10, <1>11 DEF Objects, Same
<1>15. Dialled(objs)'
  BY <1>5, <1>6, <1>10, <1>11 DEF Dialled, Same, TerminalInv
<1>16. ASSUME NEW p \in DOMAIN objs' PROVE Books(objs'[p], sent')
  <2>1. Books(objs[p], sent)
    BY <1>11 DEF TerminalInv
  <2>2. /\ objs'[p].batch = objs[p].batch /\ objs'[p].logged = objs[p].logged /\ objs'[p].seen = objs[p].seen
        /\ objs'[p].toOps = objs[p].toOps
    BY <1>6, <1>10, <1>11
  <2>3. At(objs[p]) => At(objs'[p])
    BY <1>5, <1>6, <1>11 DEF At
  <2> QED
    BY <1>5, <2>1, <2>2, <2>3 DEF Books
<1>18. Parted(dict)'
  BY <1>1, <1>4, <1>5, FewerEntries
<1> QED
  BY <1>12, <1>13, <1>14, <1>15, <1>16, <1>18 DEF TerminalInv

\* Sessions that differ in what waits for the agent only.
Alike(O, P) ==
    /\ P \in Seq(TermSessions) /\ DOMAIN P = DOMAIN O
    /\ \A p \in DOMAIN O :
        /\ Same(O[p], P[p]) /\ P[p].ws = O[p].ws /\ P[p].toOps = O[p].toOps
        /\ P[p].batch = O[p].batch /\ P[p].logged = O[p].logged /\ P[p].seen = O[p].seen

\* The end of an agent's stream.
LEMMA StreamEndsKeeps ==
  ASSUME TerminalInv, NEW x \in DOMAIN streams, NEW O, Alike(objs, O), Shell!StreamEnds(x, O)
  PROVE  TerminalInv'
<1>1. /\ TerminalTables /\ dict \in Seq(Nat) /\ Broker(dict, objs) /\ Objects(dict, objs) /\ Dialled(objs)
      /\ streams \in Seq(StreamRow)
  BY DEF TerminalInv, TerminalTables
<1>2. Shell!Session(x).id \in DOMAIN dict
  BY <1>1 DEF Dialled, Objects, Shell!Session
<1>3. PICK i \in DOMAIN dict : i = Shell!Session(x).id
  BY <1>2
<1>4. PICK P : P = Shell!BrokerClose(i, O)
  OBVIOUS
<1>5. PICK D : D = [dict EXCEPT ![i] = 0]
  OBVIOUS
<1>6. Closing(i, O, P, D)
  BY <1>4, <1>5 DEF Closing
<1>7. /\ objs' = P /\ dict' = D /\ streams' = [streams EXCEPT ![x].run = FALSE]
      /\ UNCHANGED <<now, tokens, sent>>
  BY <1>3, <1>4, <1>5 DEF Shell!StreamEnds
<1>8. O \in Seq(TermSessions) /\ Broker(dict, O) /\ Objects(dict, O)
  BY <1>1 DEF Alike, Same, Broker, Objects
<1>9. /\ P \in Seq(TermSessions) /\ DOMAIN P = DOMAIN O /\ D \in Seq(Nat) /\ Len(D) = Len(dict)
      /\ Broker(D, P) /\ Objects(D, P)
      /\ \A p \in DOMAIN O :
          /\ P[p].id = O[p].id /\ P[p].host = O[p].host /\ P[p].ws = O[p].ws /\ P[p].toOps = O[p].toOps
          /\ P[p].batch = O[p].batch /\ P[p].logged = O[p].logged /\ P[p].seen = O[p].seen
          /\ O[p].id = i => P[p].closed
  BY <1>1, <1>6, <1>8, BrokerCloseFacts
<1>10. /\ streams' \in Seq(StreamRow) /\ DOMAIN streams' = DOMAIN streams
       /\ \A y \in DOMAIN streams : streams'[y].obj = streams[y].obj /\ streams'[y].host = streams[y].host
       /\ \A y \in DOMAIN streams : y # x => streams'[y] = streams[y]
  <2>1. PICK r : r = [streams[x] EXCEPT !.run = FALSE]
    OBVIOUS
  <2>2. streams' = [streams EXCEPT ![x] = r]
    BY <1>7, <2>1
  <2>3. streams[x] \in StreamRow
    BY <1>1
  <2>4. r \in StreamRow /\ r.obj = streams[x].obj /\ r.host = streams[x].host
    BY <2>1, <2>3 DEF StreamRow
  <2> QED
    BY <1>1, <2>2, <2>4
<1>11. TerminalTables'
  BY <1>1, <1>7, <1>9, <1>10 DEF TerminalTables
<1>12. Dialled(objs)'
  <2> SUFFICES ASSUME NEW y \in DOMAIN streams'
               PROVE  streams'[y].obj \in DOMAIN objs' /\ objs'[streams'[y].obj].host = streams'[y].host
    BY DEF Dialled
  <2>1. streams[y].obj \in DOMAIN objs /\ objs[streams[y].obj].host = streams[y].host
    BY <1>1, <1>10 DEF Dialled
  <2>2. O[streams[y].obj].host = streams[y].host
    BY <2>1 DEF Alike, Same
  <2>3. DOMAIN P = DOMAIN objs /\ P[streams[y].obj].host = streams[y].host
    BY <1>9, <2>1, <2>2 DEF Alike
  <2> QED
    BY <1>7, <1>10, <2>1, <2>3
<1>13. ASSUME NEW p \in DOMAIN objs' PROVE Books(objs'[p], sent')
  <2>1. p \in DOMAIN objs /\ Books(objs[p], sent)
    BY <1>7, <1>9 DEF TerminalInv, Alike
  <2>2. /\ objs'[p].batch = objs[p].batch /\ objs'[p].logged = objs[p].logged /\ objs'[p].seen = objs[p].seen
        /\ objs'[p].toOps = objs[p].toOps /\ objs'[p].ws = objs[p].ws
    BY <1>7, <1>9, <2>1 DEF Alike
  <2> QED
    BY <1>7, <2>1, <2>2 DEF Books, At
<1>14. Parted(dict)'
  <2> SUFFICES ASSUME NEW y \in DOMAIN streams, ~streams'[y].run, NEW j \in DOMAIN D
               PROVE  D[j] # streams[y].obj
    BY <1>7, <1>10 DEF Parted
  <2>1. DOMAIN D = DOMAIN dict /\ D[i] = 0 /\ (j # i => D[j] = dict[j])
    BY <1>1, <1>5
  <2>2. streams[y].obj \in DOMAIN objs /\ streams[y].obj # 0
    BY <1>1 DEF Dialled, TerminalInv, TerminalTables
  <2>3. CASE y = x
    <3>1. objs[streams[y].obj].id = i
      BY <1>3, <2>3 DEF Shell!Session
    <3> QED
      BY <1>1, <2>1, <2>2, <3>1 DEF Broker
  <2>4. CASE y # x
    BY <1>10, <2>1, <2>2, <2>4 DEF TerminalInv, Parted
  <2> QED
    BY <2>3, <2>4
<1> QED
  BY <1>7, <1>9, <1>11, <1>12, <1>13, <1>14 DEF TerminalInv

\* The agent's stream takes the next message, or ends.
LEMMA StreamStepKeeps ==
  ASSUME TerminalInv, NEW x \in DOMAIN streams, Shell!StreamTake(x) \/ Shell!StreamExit(x)
  PROVE  TerminalInv'
<1>1. objs \in Seq(TermSessions) /\ \A p \in DOMAIN objs : objs[p] \in TermSessions
  BY DEF TerminalInv, TerminalTables
<1>2. CASE Shell!StreamExit(x)
  <2>1. Alike(objs, objs)
    BY <1>1 DEF Alike, Same
  <2> QED
    BY <1>2, <2>1, StreamEndsKeeps DEF Shell!StreamExit
<1>3. CASE Shell!StreamTake(x)
  <2>1. PICK o \in DOMAIN objs : o = streams[x].obj
    BY DEF TerminalInv, Dialled
  <2>2. PICK rest : rest = [objs EXCEPT ![o].toAgent = Tail(@)]
    OBVIOUS
  <2>3. /\ objs[o].toAgent # << >>
        /\ Shell!StreamEnds(x, rest) \/ (objs' = rest /\ UNCHANGED <<now, tokens, dict, streams, sent>>)
    BY <1>3, <2>1, <2>2 DEF Shell!StreamTake, Shell!Session
  <2>4. objs[o].toAgent \in Seq({"input", "resize", "close"})
    BY <1>1 DEF TermSessions
  <2>5. Tail(objs[o].toAgent) \in Seq({"input", "resize", "close"})
    BY <2>3, <2>4
  <2>6. PICK t : t = [objs[o] EXCEPT !.toAgent = Tail(@)]
    OBVIOUS
  <2>7. rest = [objs EXCEPT ![o] = t]
    BY <2>2, <2>6
  <2>8. /\ Same(objs[o], t) /\ t.ws = objs[o].ws /\ t.toOps = objs[o].toOps
        /\ t.batch = objs[o].batch /\ t.logged = objs[o].logged /\ t.seen = objs[o].seen
    <3>1. PICK q : q = Tail(objs[o].toAgent)
      OBVIOUS
    <3>2. t = [objs[o] EXCEPT !.toAgent = q]
      BY <2>6, <3>1, Zenon
    <3> QED
      BY <1>1, <2>5, <3>1, <3>2 DEF Same, TermSessions
  <2>9. Alike(objs, rest)
    BY <1>1, <2>7, <2>8 DEF Alike, Same
  <2>10. CASE Shell!StreamEnds(x, rest)
    BY <2>9, <2>10, StreamEndsKeeps
  <2>11. CASE objs' = rest /\ UNCHANGED <<now, tokens, dict, streams, sent>>
    <3>1. TerminalTables'
      BY <2>9, <2>11 DEF TerminalInv, TerminalTables, Alike
    <3>2. Broker(dict, objs)' /\ Objects(dict, objs)' /\ Dialled(objs)'
      <4>1. /\ DOMAIN objs' = DOMAIN objs /\ dict' = dict /\ streams' = streams
            /\ \A p \in DOMAIN objs : /\ objs'[p].id = objs[p].id /\ objs'[p].host = objs[p].host
                                     /\ objs'[p].closed = objs[p].closed /\ objs'[p].ws = objs[p].ws
        BY <2>9, <2>11 DEF Alike, Same
      <4>2. Broker(dict, objs)'
        BY <4>1 DEF TerminalInv, Broker
      <4>3. Objects(dict, objs)'
        BY <4>1 DEF TerminalInv, Objects
      <4>4. Dialled(objs)'
        BY <4>1 DEF TerminalInv, Dialled
      <4> QED
        BY <4>2, <4>3, <4>4
    <3>3. ASSUME NEW p \in DOMAIN objs' PROVE Books(objs'[p], sent')
      <4>1. p \in DOMAIN objs /\ Books(objs[p], sent)
        BY <2>9, <2>11 DEF TerminalInv, Alike
      <4>2. /\ objs'[p].batch = objs[p].batch /\ objs'[p].logged = objs[p].logged /\ objs'[p].seen = objs[p].seen
            /\ objs'[p].toOps = objs[p].toOps /\ objs'[p].ws = objs[p].ws
        BY <2>9, <2>11, <4>1 DEF Alike
      <4> QED
        BY <2>11, <4>1, <4>2 DEF Books, At
    <3>4. Parted(dict)'
      BY <2>11 DEF TerminalInv, Parted
    <3> QED
      BY <3>1, <3>2, <3>3, <3>4 DEF TerminalInv
  <2> QED
    BY <2>3, <2>10, <2>11
<1> QED
  BY <1>2, <1>3

\* The agent sends output or the end of the shell.
LEMMA FromAgentKeeps ==
  ASSUME TerminalConstants, TerminalInv, NEW x \in DOMAIN streams, NEW m \in {"output", "exit"}, Shell!FromAgent(x, m)
  PROVE  TerminalInv'
<1>1. PICK o \in DOMAIN objs : o = streams[x].obj
  BY DEF TerminalInv, Dialled
<1>2. PICK t : t = [objs[o] EXCEPT !.toOps = Append(@, m)]
  OBVIOUS
<1>3. /\ objs' = [objs EXCEPT ![o] = t] /\ sent < MaxChunk /\ sent' = sent + 1
      /\ UNCHANGED <<now, tokens, dict, streams>>
  BY <1>1, <1>2 DEF Shell!FromAgent
<1>4. objs[o] \in TermSessions /\ Books(objs[o], sent) /\ sent \in Nat
  BY Found
<1>5. PICK q : q = Append(objs[o].toOps, m)
  OBVIOUS
<1>6. objs[o].toOps \in Seq({"output", "exit"})
  BY <1>4 DEF TermSessions
<1>7. q \in Seq({"output", "exit"}) /\ Len(q) = Len(objs[o].toOps) + 1
  BY <1>5, <1>6
<1>8. t = [objs[o] EXCEPT !.toOps = q]
  BY <1>2, <1>5, Zenon
<1>9. /\ Same(objs[o], t) /\ t.ws = objs[o].ws /\ t.toOps = q
      /\ t.batch = objs[o].batch /\ t.logged = objs[o].logged /\ t.seen = objs[o].seen
  BY <1>4, <1>7, <1>8 DEF Same, TermSessions
<1>10. objs[o].batch["stdin"] \in Nat /\ objs[o].batch["stdout"] \in Nat /\ Len(objs[o].toOps) \in Nat
  <2>1. objs[o].batch \in [Shell!Dir -> Nat] /\ "stdin" \in Shell!Dir /\ "stdout" \in Shell!Dir
    BY <1>4 DEF TermSessions, Counts, Shell!Dir
  <2> QED
    BY <1>6, <2>1
<1>11. Books(t, sent + 1)
  BY <1>4, <1>7, <1>9, <1>10 DEF Books, At
<1>12. sent' \in Nat /\ sent <= sent' /\ sent' <= MaxChunk
  BY <1>3, <1>4 DEF TerminalConstants
<1>13. t.closed \/ t.ws # "done"
  BY <1>9 DEF TerminalInv, Objects, Same
<1>14. Books(t, sent') /\ Same(objs[o], t)
  BY <1>3, <1>9, <1>11
<1> QED
  BY <1>3, <1>12, <1>13, <1>14, UpdateKeeps

\* A token is minted; nothing is in the broker under it yet.
LEMMA OpenTokenKeeps ==
  ASSUME TerminalConstants, TerminalInv, NEW h \in Host, Shell!OpenTerminalSession(h)
  PROVE  TerminalInv'
<1>1. /\ now \in Nat /\ sent \in Nat /\ sent <= MaxChunk
      /\ tokens \in Seq(TokenRow) /\ dict \in Seq(Nat) /\ Len(dict) = Len(tokens)
      /\ objs \in Seq(TermSessions) /\ streams \in Seq(StreamRow)
  BY DEF TerminalInv, TerminalTables
<1>2. PICK k : k = [host |-> h, exp |-> now + Ttl]
  OBVIOUS
<1>3. k \in TokenRow
  BY <1>1, <1>2 DEF TerminalConstants, TokenRow
<1>4. tokens' = Append(tokens, k) /\ dict' = Append(dict, 0) /\ UNCHANGED <<now, objs, streams, sent>>
  BY <1>2 DEF Shell!OpenTerminalSession
<1>5. tokens' \in Seq(TokenRow) /\ Len(tokens') = Len(tokens) + 1
  BY <1>1, <1>3, <1>4
<1>6. /\ dict' \in Seq(Nat) /\ Len(dict') = Len(dict) + 1 /\ DOMAIN dict' = DOMAIN dict \cup {Len(dict) + 1}
      /\ \A i \in DOMAIN dict : dict'[i] = dict[i]
      /\ dict'[Len(dict) + 1] = 0
  BY <1>1, <1>4
<1>7. TerminalTables'
  BY <1>1, <1>4, <1>5, <1>6 DEF TerminalTables
<1>8. Broker(dict, objs)'
  BY <1>4, <1>6 DEF TerminalInv, Broker
<1>9. Objects(dict, objs)'
  BY <1>4, <1>6 DEF TerminalInv, Objects
<1>10. Dialled(objs)' /\ \A o \in DOMAIN objs' : Books(objs'[o], sent')
  BY <1>4 DEF TerminalInv, Dialled
<1>11. Parted(dict)'
  <2>1. \A x \in DOMAIN streams : streams[x].obj # 0
    BY <1>1 DEF TerminalInv, Dialled
  <2> QED
    BY <1>4, <1>6, <2>1 DEF TerminalInv, Parted
<1> QED
  BY <1>7, <1>8, <1>9, <1>10, <1>11 DEF TerminalInv

\* A WebSocket is accepted: a new object under an id that has none.
LEMMA WebsocketKeeps ==
  ASSUME TerminalConstants, TerminalInv, NEW i \in DOMAIN tokens, Shell!TerminalWebsocket(i)
  PROVE  TerminalInv'
<1>1. /\ now \in Nat /\ sent \in Nat /\ sent <= MaxChunk
      /\ tokens \in Seq(TokenRow) /\ dict \in Seq(Nat) /\ Len(dict) = Len(tokens)
      /\ objs \in Seq(TermSessions) /\ streams \in Seq(StreamRow)
      /\ Broker(dict, objs) /\ Objects(dict, objs) /\ Dialled(objs)
  BY DEF TerminalInv, TerminalTables
<1>2. i \in DOMAIN dict /\ i \in Nat
  BY <1>1
<1>3. tokens[i].host \in Host
  <2>1. tokens[i] \in TokenRow
    BY <1>1
  <2> QED
    BY <2>1 DEF TokenRow
<1>4. PICK s : s = Shell!NewSession(i)
  OBVIOUS
<1>5. PICK n : n = Len(objs) + 1
  OBVIOUS
<1>6. /\ dict[i] = 0 /\ objs' = Append(objs, s) /\ dict' = [dict EXCEPT ![i] = n]
      /\ UNCHANGED <<now, tokens, streams, sent>>
  BY <1>4, <1>5 DEF Shell!TerminalWebsocket
<1>7. s \in TermSessions /\ s.id = i /\ ~s.closed /\ s.ws = "run" /\ s.batch = Shell!Batches /\ s.seen = Shell!Batches /\ s.toOps = << >>
  <2>1. Shell!Batches \in Counts /\ Shell!None \in Slot /\ now + Idle \in Nat /\ FALSE \in BOOLEAN
    BY <1>1 DEF Shell!Batches, Counts, Slot, TerminalConstants
  <2>2. << >> \in Seq({"input", "resize", "close"}) /\ << >> \in Seq({"output", "exit"}) /\ "run" \in Ws
    BY DEF Ws
  <2>3. s \in TermSessions
    BY <1>2, <1>3, <1>4, <2>1, <2>2 DEF Shell!NewSession, TermSessions
  <2> QED
    BY <1>4, <2>3 DEF Shell!NewSession
<1>8. /\ objs' \in Seq(TermSessions) /\ DOMAIN objs' = DOMAIN objs \cup {n} /\ n \in Nat \ {0} /\ n \notin DOMAIN objs
      /\ objs'[n] = s /\ \A o \in DOMAIN objs : objs'[o] = objs[o]
  BY <1>1, <1>5, <1>6, <1>7
<1>9. /\ dict' \in Seq(Nat) /\ Len(dict') = Len(dict) /\ DOMAIN dict' = DOMAIN dict
      /\ \A j \in DOMAIN dict : dict'[j] = IF j = i THEN n ELSE dict[j]
  BY <1>1, <1>6, <1>8
<1>10. TerminalTables'
  BY <1>1, <1>6, <1>8, <1>9 DEF TerminalTables
<1>11. Broker(dict, objs)'
  <2> SUFFICES ASSUME NEW j \in DOMAIN dict'
               PROVE  dict'[j] = 0 \/ (dict'[j] \in DOMAIN objs' /\ objs'[dict'[j]].id = j /\ ~objs'[dict'[j]].closed)
    BY DEF Broker
  <2>1. CASE j = i
    BY <1>7, <1>8, <1>9, <2>1
  <2>2. CASE j # i
    BY <1>1, <1>8, <1>9, <2>2 DEF Broker
  <2> QED
    BY <2>1, <2>2
<1>12. Objects(dict, objs)'
  <2> SUFFICES ASSUME NEW o \in DOMAIN objs'
               PROVE  /\ objs'[o].id \in DOMAIN dict'
                      /\ objs'[o].closed \/ (dict'[objs'[o].id] = o /\ objs'[o].ws # "done")
    BY DEF Objects
  <2>1. CASE o = n
    BY <1>2, <1>7, <1>8, <1>9, <2>1
  <2>2. CASE o # n
    <3>1. o \in DOMAIN objs /\ objs'[o] = objs[o] /\ o # 0
      BY <1>1, <1>8, <2>2
    <3>2. objs[o].id \in DOMAIN dict /\ (objs[o].closed \/ (dict[objs[o].id] = o /\ objs[o].ws # "done"))
      BY <1>1, <3>1 DEF Objects
    <3> QED
      BY <1>6, <1>9, <3>1, <3>2
  <2> QED
    BY <2>1, <2>2
<1>13. Dialled(objs)'
  BY <1>1, <1>6, <1>8 DEF Dialled
<1>14. ASSUME NEW o \in DOMAIN objs' PROVE Books(objs'[o], sent')
  <2>1. CASE o = n
    <3>1. \A d \in Shell!Dir : s.seen[d] = 0
      BY <1>7 DEF Shell!Batches
    <3>2. s.batch["stdin"] = 0 /\ s.batch["stdout"] = 0 /\ Len(s.toOps) = 0
      BY <1>7 DEF Shell!Batches, Shell!Dir
    <3>3. sent \in Nat /\ sent' = sent /\ objs'[o] = s
      BY <1>1, <1>6, <1>8, <2>1
    <3>4. Books(s, sent)
      BY <3>1, <3>2, <3>3 DEF Books
    <3> QED
      BY <3>3, <3>4
  <2>2. CASE o # n
    BY <1>6, <1>8, <2>2 DEF TerminalInv
  <2> QED
    BY <2>1, <2>2
<1>15. Parted(dict)'
  <2>1. \A x \in DOMAIN streams : streams[x].obj # n
    BY <1>1, <1>8 DEF Dialled
  <2> QED
    BY <1>6, <1>9, <2>1 DEF TerminalInv, Parted
<1> QED
  BY <1>10, <1>11, <1>12, <1>13, <1>14, <1>15 DEF TerminalInv

\* An agent dials in to a session of its host.
LEMMA DialKeeps ==
  ASSUME TerminalInv, NEW i \in DOMAIN tokens, NEW h \in Host, Shell!TerminalStream(h, i)
  PROVE  TerminalInv'
<1>1. TerminalTables /\ streams \in Seq(StreamRow) /\ dict \in Seq(Nat) /\ Len(dict) = Len(tokens)
      /\ tokens \in Seq(TokenRow) /\ Broker(dict, objs) /\ Dialled(objs)
  BY DEF TerminalInv, TerminalTables
<1>2. i \in DOMAIN dict /\ dict[i] \in Nat
  BY <1>1
<1>3. dict[i] \in DOMAIN objs /\ objs[dict[i]].host = h
  BY <1>1, <1>2 DEF Shell!TerminalStream, Shell!Admitted, Broker
<1>4. PICK r : r = [obj |-> dict[i], host |-> h, run |-> TRUE]
  OBVIOUS
<1>5. r \in StreamRow /\ r.obj = dict[i] /\ r.host = h /\ r.run
  BY <1>2, <1>4 DEF StreamRow
<1>6. streams' = Append(streams, r) /\ UNCHANGED <<now, tokens, dict, objs, sent>>
  BY <1>4 DEF Shell!TerminalStream
<1>7. /\ streams' \in Seq(StreamRow) /\ DOMAIN streams' = DOMAIN streams \cup {Len(streams) + 1}
      /\ streams'[Len(streams) + 1] = r /\ \A y \in DOMAIN streams : streams'[y] = streams[y]
  BY <1>1, <1>5, <1>6
<1>8. TerminalTables'
  BY <1>1, <1>6, <1>7 DEF TerminalTables
<1>9. Dialled(objs)'
  BY <1>1, <1>3, <1>5, <1>6, <1>7 DEF Dialled
<1>10. Parted(dict)'
  BY <1>5, <1>6, <1>7 DEF TerminalInv, Parted
<1> QED
  BY <1>6, <1>8, <1>9, <1>10 DEF TerminalInv, Broker, Objects

\* Every step keeps the invariant.
LEMMA TerminalInvariant == ASSUME TerminalConstants PROVE Shell!Spec => []TerminalInv
<1>1. Shell!Init => TerminalInv
  BY DEF Shell!Init, TerminalInv, TerminalTables, Broker, Objects, Dialled, Parted, TerminalConstants
<1>2. TerminalInv /\ [Shell!Next]_(Shell!vars) => TerminalInv'
  <2> SUFFICES ASSUME TerminalInv, [Shell!Next]_(Shell!vars) PROVE TerminalInv'
    OBVIOUS
  <2>1. CASE Shell!Tick
    BY <2>1 DEF Shell!Tick, TerminalInv, TerminalTables, Broker, Objects, Dialled, Parted
  <2>2. ASSUME NEW h \in Host, Shell!OpenTerminalSession(h) PROVE TerminalInv'
    BY <2>2, OpenTokenKeeps
  <2>3. ASSUME NEW i \in DOMAIN tokens, Shell!TerminalWebsocket(i) PROVE TerminalInv'
    BY <2>3, WebsocketKeeps
  <2>4. ASSUME NEW i \in DOMAIN tokens, NEW h \in Host, Shell!TerminalStream(h, i) PROVE TerminalInv'
    BY <2>4, DialKeeps
  <2>5. ASSUME NEW o \in DOMAIN objs, Shell!OpsInput(o) PROVE TerminalInv'
    BY <2>5, OpsInputKeeps
  <2>6. ASSUME NEW o \in DOMAIN objs, Shell!OpsFlushed(o) PROVE TerminalInv'
    BY <2>6, OpsFlushedKeeps
  <2>7. ASSUME NEW o \in DOMAIN objs, Shell!OpsResize(o) PROVE TerminalInv'
    BY <2>7, OpsResizeKeeps
  <2>8. ASSUME NEW o \in DOMAIN objs, Shell!OpsClose(o) \/ Shell!WsDisconnect(o) PROVE TerminalInv'
    BY <2>8, OpsEndsKeeps
  <2>9. ASSUME NEW o \in DOMAIN objs, Shell!AgentMessage(o) PROVE TerminalInv'
    BY <2>9, AgentMessageKeeps
  <2>10. ASSUME NEW o \in DOMAIN objs, Shell!AgentFlushed(o) PROVE TerminalInv'
    BY <2>10, AgentFlushedKeeps
  <2>11. ASSUME NEW o \in DOMAIN objs, Shell!PeriodicFlush(o) \/ Shell!PeriodicFlushed(o) PROVE TerminalInv'
    BY <2>11, PeriodicKeeps
  <2>12. ASSUME NEW o \in DOMAIN objs, Shell!WsFinally(o) PROVE TerminalInv'
    BY <2>12, WsFinallyKeeps
  <2>13. ASSUME NEW o \in DOMAIN objs, Shell!WsClose(o) PROVE TerminalInv'
    BY <2>13, WsCloseKeeps
  <2>14. ASSUME NEW x \in DOMAIN streams, Shell!StreamTake(x) \/ Shell!StreamExit(x) PROVE TerminalInv'
    BY <2>14, StreamStepKeeps
  <2>15. ASSUME NEW x \in DOMAIN streams, NEW m \in {"output", "exit"}, Shell!FromAgent(x, m) PROVE TerminalInv'
    BY <2>15, FromAgentKeeps
  <2>16. CASE UNCHANGED Shell!vars
    BY <2>16 DEF Shell!vars, TerminalInv, TerminalTables, Broker, Objects, Dialled, Parted
  <2> QED
    BY <2>1, <2>2, <2>3, <2>4, <2>5, <2>6, <2>7, <2>8, <2>9, <2>10, <2>11, <2>12, <2>13, <2>14, <2>15, <2>16 DEF Shell!Next
<1> QED
  BY <1>1, <1>2, PTL DEF Shell!Spec

\* The broker's entries are open objects of their id and no audit batch outgrows what was
\* sent, for any number of tokens, terminals and streams (services/terminal.py).
THEOREM TerminalTypes == ASSUME TerminalConstants PROVE Shell!Spec => []Shell!TypeOK
<1>1. TerminalInv => Shell!TypeOK
  <2> SUFFICES ASSUME TerminalInv PROVE Shell!TypeOK
    OBVIOUS
  <2>1. \A i \in DOMAIN dict : dict[i] # 0 => objs[dict[i]].id = i /\ ~objs[dict[i]].closed
    BY DEF TerminalInv, Broker
  <2>2. ASSUME NEW o \in DOMAIN objs
        PROVE  objs[o].ws \in {"run", "ending", "closing", "done", "failed"} /\ objs[o].batch \in [Shell!Dir -> 0 .. MaxChunk]
    <3>1. objs[o] \in TermSessions /\ sent \in Nat /\ sent <= MaxChunk /\ Books(objs[o], sent)
      BY DEF TerminalInv, TerminalTables
    <3>2. objs[o].ws \in Ws /\ objs[o].batch \in [Shell!Dir -> Nat] /\ Len(objs[o].toOps) \in Nat
      BY <3>1 DEF TermSessions, Counts
    <3>3. \A d \in Shell!Dir : objs[o].batch[d] \in 0 .. MaxChunk
      <4>1. Shell!Dir = {"stdin", "stdout"} /\ objs[o].batch["stdin"] \in Nat /\ objs[o].batch["stdout"] \in Nat
        BY <3>2 DEF Shell!Dir
      <4> QED
        BY <3>1, <3>2, <4>1 DEF Books, TerminalConstants
    <3> QED
      BY <3>2, <3>3 DEF Ws
  <2> QED
    BY <2>1, <2>2 DEF Shell!TypeOK
<1> QED
  BY <1>1, TerminalInvariant, PTL

\* A stream serves a session of its own host; when the analyst's side is over, its session is
\* closed and out of the broker, also when its id has been used again, and I/O of either
\* direction has left at least one audit row, however the flushes of the three tasks were
\* interrupted; a session that a failed last flush left in the broker goes when the agent's
\* stream ends (api/host_terminal.py).
THEOREM TerminalsTornDown == ASSUME TerminalConstants PROVE Shell!Spec => []Shell!TornDown
<1>1. TerminalInv => Shell!TornDown
  <2> SUFFICES ASSUME TerminalInv PROVE Shell!TornDown
    OBVIOUS
  <2>1. \A x \in DOMAIN streams : /\ Shell!Session(x).host = streams[x].host
                                  /\ streams[x].run \/ \A i \in DOMAIN dict : dict[i] # streams[x].obj
    BY DEF TerminalInv, Dialled, Parted, Shell!Session
  <2>2. ASSUME NEW o \in DOMAIN objs, objs[o].ws = "done"
        PROVE  /\ objs[o].closed /\ \A i \in DOMAIN dict : dict[i] # o
               /\ \A d \in Shell!Dir : objs[o].seen[d] > 0 => objs[o].logged[d] > 0
    <3>1. objs[o].closed
      BY <2>2 DEF TerminalInv, Objects
    <3>2. \A i \in DOMAIN dict : dict[i] # o
      <4>1. o # 0
        BY DEF TerminalInv, TerminalTables
      <4> QED
        BY <3>1, <4>1 DEF TerminalInv, Broker
    <3>3. \A d \in Shell!Dir : objs[o].seen[d] > 0 => objs[o].logged[d] > 0
      BY <2>2 DEF TerminalInv, Books, At
    <3> QED
      BY <3>1, <3>2, <3>3
  <2> QED
    BY <2>1, <2>2 DEF Shell!TornDown
<1> QED
  BY <1>1, TerminalInvariant, PTL
=============================================================================
