---------------------------- MODULE AlertConsole ----------------------------
(***************************************************************************)
(* Triage: analysts move alerts through their states and assign them       *)
(* (api/alerts.py), every transition mirrors the alert into the enabled    *)
(* external trackers (services/case_management.py, services/case/), the    *)
(* case_sync worker polls the trackers, and administrators edit the        *)
(* destinations (api/case_destinations.py).                                *)
(*                                                                         *)
(* A state change is one transaction: it reads the alert, flushes the new  *)
(* state (from here it holds the row), calls the trackers over HTTP and    *)
(* commits when the response is made.                                      *)
(***************************************************************************)
EXTENDS Naturals, FiniteSets, Sequences

CONSTANTS
    Alert, Dest, User,
    Request,        \* state changes in flight
    MaxTicket,      \* bound: tickets the trackers hold
    MaxRequest,     \* bound: requests
    MaxEdit         \* bound: edits, failures and moves of tickets

Idle == [st |-> "idle"]
Free == "free"
Nobody == "nobody"
AlertState == {"new", "investigating", "false_positive", "true_positive"}
Closed == {"false_positive", "true_positive"}

\* ALERT_STATE_TRANSITIONS
Transitions ==
    [s \in AlertState |->
        CASE s = "new" -> {"investigating"} \cup Closed
          [] s = "investigating" -> {"new"} \cup Closed
          [] OTHER -> {}]

VARIABLES
    alerts,     \* alerts[a]: [state, closed (closed_at is set), assignee]
    history,    \* history[a]: AlertStateHistory, pairs <<from, to>>
    dests,      \* dests[d]: "none", "enabled", "disabled", "deleted"
    links,      \* CaseLink rows: a function on pairs <<alert, dest>>
    tickets,    \* the trackers' issues in order: [alert, dest, status]
    row,        \* row[a]: the transaction that has updated a's row
    tx,         \* tx[r]: a change_state request
    poll,       \* the case_sync worker's transaction
    undone,     \* history: pairs a tracker was called for and of which nothing was kept:
                \* the request was rolled back, or the answer could not be read
    refused,    \* history: a mirror made a request fail
    requests, edits

vars == <<alerts, history, dests, links, tickets, row, tx, poll, undone, refused, requests, edits>>
alertRows == <<alerts, history, row>>
traces == <<undone, refused>>

NoLinks == [x \in {} |-> Idle]

Init ==
    /\ alerts = [a \in Alert |-> [state |-> "new", closed |-> FALSE, assignee |-> Nobody]]
    /\ history = [a \in Alert |-> <<>>]
    /\ dests = [d \in Dest |-> "none"] /\ links = NoLinks /\ tickets = <<>>
    /\ row = [a \in Alert |-> Free] /\ tx = [r \in Request |-> Idle] /\ poll = Idle
    /\ undone = {} /\ refused = FALSE /\ requests = 0 /\ edits = 0

Edit == edits < MaxEdit /\ edits' = edits + 1
Merge(f, g) == [x \in DOMAIN f \cup DOMAIN g |-> IF x \in DOMAIN g THEN g[x] ELSE f[x]]
Enabled == {d \in Dest : dests[d] = "enabled"}
Exists(d) == dests[d] \in {"enabled", "disabled"}

-----------------------------------------------------------------------------
(* change_state.                                                           *)

\* The row is read and the transition checked against what was read.
ReadAlert(r, a, to) ==
    /\ tx[r] = Idle /\ requests < MaxRequest /\ requests' = requests + 1
    /\ to \in Transitions[alerts[a].state]
    /\ tx' = [tx EXCEPT ![r] = [st |-> "flush", alert |-> a, from |-> alerts[a].state, to |-> to,
                                todo |-> {}, new |-> NoLinks]]
    /\ UNCHANGED <<alertRows, dests, links, tickets, poll, traces, edits>>

\* The event is published and the UPDATE flushed: it waits for whoever has the row.
HasRowUnflushed(r, a) == TRUE
HasRow(r, a) == row[a] \in {Free, r}

FlushChange(r) ==
    /\ tx[r].st = "flush" /\ HasRow(r, tx[r].alert)
    /\ row' = [row EXCEPT ![tx[r].alert] = r]
    /\ tx' = [tx EXCEPT ![r].st = "read"]
    /\ UNCHANGED <<alerts, history, dests, links, tickets, poll, traces, requests, edits>>

\* sync_alert_to_destinations: the enabled destinations without a committed link.
SyncAlert(r) ==
    /\ tx[r].st = "read"
    /\ tx' = [tx EXCEPT ![r].st = "sync",
                        ![r].todo = {d \in Enabled : <<tx[r].alert, d>> \notin DOMAIN links}]
    /\ UNCHANGED <<alertRows, dests, links, tickets, poll, traces, requests, edits>>

Link(ext, sync) == [ext |-> ext, sync |-> sync, error |-> sync = "failed"]
AddLink(r, d, l) ==
    tx' = [tx EXCEPT ![r].todo = @ \ {d}, ![r].new = Merge(@, [x \in {<<tx[r].alert, d>>} |-> l])]

\* The tracker opens an issue.
CreateIssue(r, d) ==
    /\ tx[r].st = "sync" /\ d \in tx[r].todo /\ Len(tickets) < MaxTicket
    /\ tickets' = Append(tickets, [alert |-> tx[r].alert, dest |-> d, status |-> "open"])
    /\ AddLink(r, d, Link(Len(tickets) + 1, "open"))
    /\ UNCHANGED <<alertRows, dests, links, poll, traces, requests, edits>>

\* CaseSyncError: refused, or no answer although the issue may have been opened.
CreateFails(r, d) ==
    /\ tx[r].st = "sync" /\ d \in tx[r].todo /\ Edit
    /\ \/ UNCHANGED tickets
       \/ /\ Len(tickets) < MaxTicket
          /\ tickets' = Append(tickets, [alert |-> tx[r].alert, dest |-> d, status |-> "open"])
    /\ AddLink(r, d, Link(0, "failed"))
    /\ UNCHANGED <<alertRows, dests, links, poll, traces, requests>>

\* Any other error ends the mirroring; the links added so far stay in the session.  It may
\* come from reading the tracker's 2xx answer: the issue is open and gets no link.
SyncRaises(r) ==
    /\ tx[r].st = "sync" /\ tx[r].todo # {} /\ Edit
    /\ tx' = [tx EXCEPT ![r].todo = {}]
    /\ \/ UNCHANGED <<tickets, undone>>
       \/ \E d \in tx[r].todo :
            /\ Len(tickets) < MaxTicket
            /\ tickets' = Append(tickets, [alert |-> tx[r].alert, dest |-> d, status |-> "open"])
            /\ undone' = undone \cup {<<tx[r].alert, d>>}
    /\ UNCHANGED <<alertRows, dests, links, poll, refused, requests>>

Release(r) == [a \in Alert |-> IF row[a] = r THEN Free ELSE row[a]]

\* The links are flushed with the response and the request commits ...
CommitChange(r) ==
    LET x == tx[r] IN
    /\ x.st = "sync" /\ x.todo = {} /\ \A p \in DOMAIN x.new : Exists(p[2])
    /\ alerts' = [alerts EXCEPT ![x.alert].state = x.to, ![x.alert].closed = @ \/ x.to \in Closed]
    /\ history' = [history EXCEPT ![x.alert] = Append(@, <<x.from, x.to>>)]
    /\ links' = Merge(links, x.new)
    /\ row' = Release(r) /\ tx' = [tx EXCEPT ![r] = Idle]
    /\ UNCHANGED <<dests, tickets, poll, traces, requests, edits>>

\* ... unless a destination is gone, or the process dies: all of it is rolled back,
\* except at the trackers.
RollBackChange(r) ==
    LET x == tx[r]
        gone == \E p \in DOMAIN x.new : ~Exists(p[2])
    IN
    /\ x.st = "sync"
    /\ \/ x.todo = {} /\ gone /\ refused' = TRUE /\ UNCHANGED edits
       \/ ~gone /\ Edit /\ UNCHANGED refused
    /\ undone' = undone \cup DOMAIN x.new
    /\ row' = Release(r) /\ tx' = [tx EXCEPT ![r] = Idle]
    /\ UNCHANGED <<alerts, history, dests, links, tickets, poll, requests>>

\* assign
Assign(a) ==
    /\ Edit /\ row[a] = Free
    /\ \E u \in User \cup {Nobody} : u # alerts[a].assignee /\ alerts' = [alerts EXCEPT ![a].assignee = u]
    /\ UNCHANGED <<history, row, dests, links, tickets, tx, poll, traces, requests>>

-----------------------------------------------------------------------------
(* Destinations and trackers.                                              *)

SetDest(d, from, to) ==
    /\ dests[d] \in from /\ dests' = [dests EXCEPT ![d] = to]

CreateDestination(d) ==
    /\ Edit /\ \E s \in {"enabled", "disabled"} : SetDest(d, {"none"}, s)
    /\ UNCHANGED <<alertRows, links, tickets, tx, poll, traces, requests>>

UpdateDestination(d) ==
    /\ Edit /\ (SetDest(d, {"enabled"}, "disabled") \/ SetDest(d, {"disabled"}, "enabled"))
    /\ UNCHANGED <<alertRows, links, tickets, tx, poll, traces, requests>>

\* Its links go with it.
DeleteDestination(d) ==
    /\ Edit /\ SetDest(d, {"enabled", "disabled"}, "deleted")
    /\ links' = [p \in {p \in DOMAIN links : p[2] # d} |-> links[p]]
    /\ UNCHANGED <<alertRows, tickets, tx, poll, traces, requests>>

\* A test issue belongs to no alert.
TestDestination(d) ==
    /\ Edit /\ Exists(d) /\ Len(tickets) < MaxTicket
    /\ tickets' = Append(tickets, [alert |-> Nobody, dest |-> d, status |-> "open"])
    /\ UNCHANGED <<alertRows, dests, links, tx, poll, traces, requests>>

\* The people at the tracker work on it, close it, reopen it or delete it.
TrackerMoves(t) ==
    /\ Edit
    /\ \E s \in {"open", "in_progress", "closed", "gone"} \ {tickets[t].status} :
        tickets' = [tickets EXCEPT ![t].status = s]
    /\ UNCHANGED <<alertRows, dests, links, tx, poll, traces, requests>>

-----------------------------------------------------------------------------
(* The case_sync worker.                                                   *)

\* _run_once reads the enabled destinations, poll_destination the active links.
Active(p) == p[2] \in Enabled /\ links[p].sync \notin {"closed", "failed"}

PollBegin ==
    /\ poll = Idle /\ \E p \in DOMAIN links : Active(p)
    /\ poll' = [st |-> "run", todo |-> {p \in DOMAIN links : Active(p)}, new |-> NoLinks]
    /\ UNCHANGED <<alertRows, dests, links, tickets, tx, traces, requests, edits>>

\* fetch_status: a deleted issue counts as closed.
FetchStatus(t) == IF tickets[t].status = "gone" THEN "closed" ELSE tickets[t].status

PollLink(p, l) ==
    poll' = [poll EXCEPT !.todo = @ \ {p}, !.new = Merge(@, [x \in {p} |-> l])]

FetchOk(p) ==
    /\ p \in poll.todo /\ p \in DOMAIN links
    /\ PollLink(p, Link(links[p].ext, FetchStatus(links[p].ext)))
    /\ UNCHANGED <<alertRows, dests, links, tickets, tx, traces, requests, edits>>

FetchFails(p) ==
    /\ p \in poll.todo /\ Edit
    /\ IF p \in DOMAIN links THEN PollLink(p, [links[p] EXCEPT !.error = TRUE])
       ELSE poll' = [poll EXCEPT !.todo = @ \ {p}]
    /\ UNCHANGED <<alertRows, dests, links, tickets, tx, traces, requests>>

\* One commit for the whole pass; an updated link that is gone fails all of it.
PollCommit ==
    /\ poll.st = "run" /\ poll.todo \cap DOMAIN links = {}
    /\ links' = IF DOMAIN poll.new \subseteq DOMAIN links THEN Merge(links, poll.new) ELSE links
    /\ poll' = Idle
    /\ UNCHANGED <<alertRows, dests, tickets, tx, traces, requests, edits>>

Polling == IF poll = Idle THEN {} ELSE poll.todo

Next ==
    \/ \E r \in Request :
        \/ \E a \in Alert, to \in AlertState : ReadAlert(r, a, to)
        \/ FlushChange(r) \/ SyncAlert(r) \/ SyncRaises(r) \/ CommitChange(r) \/ RollBackChange(r)
        \/ \E d \in Dest : CreateIssue(r, d) \/ CreateFails(r, d)
    \/ \E a \in Alert : Assign(a)
    \/ \E d \in Dest :
        CreateDestination(d) \/ UpdateDestination(d) \/ DeleteDestination(d) \/ TestDestination(d)
    \/ \E t \in DOMAIN tickets : TrackerMoves(t)
    \/ PollBegin \/ PollCommit \/ \E p \in Polling : FetchOk(p) \/ FetchFails(p)

Spec == Init /\ [][Next]_vars

-----------------------------------------------------------------------------
\* Rows and requests have their types.
TypeOK ==
    /\ \A a \in Alert : alerts[a].state \in AlertState /\ row[a] \in Request \cup {Free}
    /\ DOMAIN links \subseteq Alert \X Dest
    /\ \A p \in DOMAIN links : links[p].ext \in 0 .. Len(tickets) /\ Exists(p[2])

\* However many analysts move an alert, a tracker gets one issue for it: a request
\* looks for links only while it holds the alert's row, so it sees those of the
\* request before it.  Only a request that was rolled back after the tracker had
\* answered, or that could not read the answer (resp.json() stands outside the try),
\* leaves an issue behind.  A link shows its own alert's issue.
OneTicket ==
    /\ \A t, u \in DOMAIN tickets :
        tickets[t].alert = tickets[u].alert /\ tickets[t].dest = tickets[u].dest
        /\ tickets[t].alert # Nobody /\ t # u => <<tickets[t].alert, tickets[t].dest>> \in undone
    /\ \A p \in DOMAIN links :
        links[p].ext # 0 => tickets[links[p].ext].alert = p[1] /\ tickets[links[p].ext].dest = p[2]

-----------------------------------------------------------------------------
(* Claims of the comments and documents that the code does not keep.      *)

\* "Closed states (FP/TP) are terminal in v1."
ClosedTerminal == [][\A a \in Alert : alerts[a].state \in Closed => alerts'[a].state = alerts[a].state]_vars

\* "external sync mustn't block the state change"
SyncNeverBlocks == ~refused
=============================================================================
