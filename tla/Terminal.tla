-------------------------------- MODULE Terminal --------------------------------
(***************************************************************************)
(* The live-response terminal: the token an analyst is given, the          *)
(* WebSocket handler with its three tasks and audit batches                *)
(* (api/host_terminal.py), the in-process broker (services/terminal.py)    *)
(* and the TerminalStream handler the agent dials (grpc/services.py).      *)
(*                                                                         *)
(* A session object joins the two halves.  It is found by its id, and an   *)
(* id may be opened again with the same token once the object is gone.     *)
(* Audit rows are counted in chunks; one message carries one chunk.        *)
(***************************************************************************)
EXTENDS Naturals, Sequences, FiniteSets

CONSTANTS
    Host,
    Ttl,            \* _TOKEN_TTL_SECONDS
    Idle,           \* terminal_idle_s
    BatchSize,      \* terminal_audit_batch_bytes
    MaxTime,        \* bound: the clock
    MaxToken,       \* bound: tokens minted
    MaxOpen,        \* bound: WebSockets accepted
    MaxStream,      \* bound: streams dialled
    MaxChunk        \* bound: messages sent

VARIABLES
    now,
    tokens,     \* tokens[id]: [host, exp]
    dict,       \* dict[id]: the broker's object for the id, or 0
    objs,       \* the session objects, each with the WebSocket handler that made it
    streams,    \* the agents' streams: [obj, host, run]
    sent        \* messages sent so far, either way

vars == <<now, tokens, dict, objs, streams, sent>>

Dir == {"stdin", "stdout"}
None == [dir |-> "", n |-> 0]

Init ==
    /\ now = 0 /\ tokens = << >> /\ dict = << >> /\ objs = << >> /\ streams = << >>
    /\ sent = 0

-----------------------------------------------------------------------------
(* Tokens and the broker.                                                  *)

\* open_terminal_session, for an analyst who may see the host.
OpenTerminalSession(h) ==
    /\ Len(tokens) < MaxToken
    /\ tokens' = Append(tokens, [host |-> h, exp |-> now + Ttl]) /\ dict' = Append(dict, 0)
    /\ UNCHANGED <<now, objs, streams, sent>>

VerifySessionToken(id) == tokens[id].exp >= now

\* broker.close pops whatever object is under the id and sets its event.
BrokerClose(id, os) == [o \in DOMAIN os |-> IF o = dict[id] THEN [os[o] EXCEPT !.closed = TRUE] ELSE os[o]]

-----------------------------------------------------------------------------
(* The WebSocket handler.  ops, agent and ticker are what the three tasks  *)
(* are doing: nothing, or a flush of so many chunks.                       *)

Batches == [d \in Dir |-> 0]
NewSession(id) ==
    [id |-> id, host |-> tokens[id].host, ws |-> "run", closed |-> FALSE, toAgent |-> << >>, toOps |-> << >>,
     deadline |-> now + Idle, batch |-> Batches, ops |-> None, agent |-> None, ticker |-> None,
     logged |-> Batches, seen |-> Batches]

TerminalWebsocket(id) ==
    /\ Len(objs) < MaxOpen /\ VerifySessionToken(id) /\ dict[id] = 0
    /\ objs' = Append(objs, NewSession(id)) /\ dict' = [dict EXCEPT ![id] = Len(objs) + 1]
    /\ UNCHANGED <<now, tokens, streams, sent>>

\* _flush reads the size of the batch, writes the row and, when that is done, empties the batch.
Written(s, f) == IF f = None THEN s ELSE [s EXCEPT !.logged[f.dir] = @ + f.n]
Flushed(s, f) == [Written(s, f) EXCEPT !.batch[f.dir] = 0]
AddChunk(s, d) == [s EXCEPT !.batch[d] = @ + 1, !.seen[d] = @ + 1, !.deadline = now + Idle]
Full(s, d) == s.batch[d] >= BatchSize

Update(o, s) == objs' = [objs EXCEPT ![o] = s] /\ UNCHANGED <<now, tokens, dict, streams>>

\* _from_ops_to_agent: an input chunk is counted, flushed if the batch is full, and queued.
OpsInput(o) ==
    LET s == AddChunk(objs[o], "stdin") IN
    /\ objs[o].ws = "run" /\ objs[o].ops = None /\ sent < MaxChunk /\ sent' = sent + 1
    /\ Update(o, IF Full(s, "stdin") THEN [s EXCEPT !.ops = [dir |-> "stdin", n |-> s.batch["stdin"]]]
                 ELSE [s EXCEPT !.toAgent = Append(@, "input")])

OpsFlushed(o) ==
    /\ objs[o].ws = "run" /\ objs[o].ops # None
    /\ Update(o, [Flushed(objs[o], objs[o].ops) EXCEPT !.ops = None, !.toAgent = Append(@, "input")])
    /\ UNCHANGED sent

OpsResize(o) ==
    /\ objs[o].ws = "run" /\ objs[o].ops = None /\ sent < MaxChunk /\ sent' = sent + 1
    /\ Update(o, [objs[o] EXCEPT !.toAgent = Append(@, "resize"), !.deadline = now + Idle])

OpsClose(o) ==
    /\ objs[o].ws = "run" /\ objs[o].ops = None
    /\ Update(o, [objs[o] EXCEPT !.toAgent = Append(@, "close"), !.ws = "ending"])
    /\ UNCHANGED sent

\* The browser goes away: the receive of the ops task, or the send of the other, fails.  So
\* does a flush of either task that the database refuses: the task ends with it.
WsDisconnect(o) ==
    /\ objs[o].ws = "run"
    /\ Update(o, [objs[o] EXCEPT !.ws = "ending"])
    /\ UNCHANGED sent

\* _from_agent_to_ops.
AgentMessage(o) ==
    LET s == objs[o]
        t == AddChunk([s EXCEPT !.toOps = Tail(@)], "stdout")
    IN
    /\ s.ws = "run" /\ s.agent = None /\ s.toOps # << >> /\ UNCHANGED sent
    /\ IF s.toOps[1] = "exit" THEN Update(o, [s EXCEPT !.toOps = Tail(@), !.ws = "ending"])
       ELSE Update(o, IF Full(t, "stdout") THEN [t EXCEPT !.agent = [dir |-> "stdout", n |-> t.batch["stdout"]]] ELSE t)

AgentFlushed(o) ==
    /\ objs[o].ws = "run" /\ objs[o].agent # None
    /\ Update(o, [Flushed(objs[o], objs[o].agent) EXCEPT !.agent = None])
    /\ UNCHANGED sent

\* _periodic_flush: stdin and stdout, as far as there is something, and then a look at the
\* deadline.
Ticked(s, todo) ==
    LET next == {d \in todo : s.batch[d] > 0}
        d == IF "stdin" \in next THEN "stdin" ELSE "stdout"
    IN  CASE next # {} -> [s EXCEPT !.ticker = [dir |-> d, n |-> s.batch[d]]]
          [] next = {} /\ now >= s.deadline -> [s EXCEPT !.ticker = None, !.ws = "ending"]
          [] OTHER -> [s EXCEPT !.ticker = None]

PeriodicFlush(o) ==
    /\ objs[o].ws = "run" /\ objs[o].ticker = None
    /\ Update(o, Ticked(objs[o], Dir)) /\ UNCHANGED sent

\* A flush that fails ends this task and not the handler: it is one that never gets here, and
\* no deadline is looked at again.
PeriodicFlushed(o) ==
    LET f == objs[o].ticker IN
    /\ objs[o].ws = "run" /\ f # None
    /\ Update(o, Ticked(Flushed(objs[o], f), IF f.dir = "stdin" THEN {"stdout"} ELSE {})) /\ UNCHANGED sent

\* The finally block: the tasks are cancelled (a flush under way has committed its row or
\* not, and did not empty its batch), what the batches hold is flushed, stdin first ...
FinalFlushSkipped(s) == s
FinalFlush(s) ==
    [s EXCEPT !.logged = [d \in Dir |-> @[d] + s.batch[d]], !.batch = Batches]

\* ... unless the database refuses a row: nothing catches that, and the handler is over
\* before broker.close.
Interrupted(s) ==
    LET stdin == [dir |-> "stdin", n |-> s.batch["stdin"]]
        first == IF s.batch["stdin"] > 0 THEN Flushed(s, stdin) ELSE s
    IN  {t \in {s, first} : t.batch # Batches}

WsFinally(o) ==
    LET s == objs[o]
        Left(t, ws) == [t EXCEPT !.ops = None, !.agent = None, !.ticker = None, !.ws = ws]
    IN
    /\ s.ws = "ending" /\ UNCHANGED sent
    /\ \E done \in SUBSET {s.ops, s.agent, s.ticker} :
        LET a == IF s.ops \in done THEN Written(s, s.ops) ELSE s
            b == IF s.agent \in done THEN Written(a, s.agent) ELSE a
            c == IF s.ticker \in done THEN Written(b, s.ticker) ELSE b
        IN  Update(o, Left(FinalFlush(c), "closing")) \/ \E t \in Interrupted(c) : Update(o, Left(t, "failed"))

\* The session leaves the broker.
WsCloseKeepsEntry(o) ==
    /\ objs[o].ws = "closing"
    /\ objs' = [BrokerClose(objs[o].id, objs) EXCEPT ![o].ws = "done"]
    /\ UNCHANGED <<now, tokens, dict, streams, sent>>

WsClose(o) ==
    LET id == objs[o].id IN
    /\ objs[o].ws = "closing"
    /\ objs' = [BrokerClose(id, objs) EXCEPT ![o].ws = "done"]
    /\ dict' = [dict EXCEPT ![id] = 0]
    /\ UNCHANGED <<now, tokens, streams, sent>>

-----------------------------------------------------------------------------
(* TerminalStream.                                                         *)

\* The agent of host h names a session: it must be in the broker, and its own.
Admitted(h, id) == dict[id] # 0 /\ objs[dict[id]].host = h
TerminalStream(h, id) ==
    /\ Len(streams) < MaxStream /\ Admitted(h, id)
    /\ streams' = Append(streams, [obj |-> dict[id], host |-> h, run |-> TRUE])
    /\ UNCHANGED <<now, tokens, dict, objs, sent>>

Session(x) == objs[streams[x].obj]

\* finally: the stream takes its session out of the broker.
StreamEnds(x, os) ==
    LET id == Session(x).id IN
    /\ streams' = [streams EXCEPT ![x].run = FALSE]
    /\ objs' = BrokerClose(id, os) /\ dict' = [dict EXCEPT ![id] = 0]
    /\ UNCHANGED <<now, tokens, sent>>

\* The outbound loop: input goes out, a resize is dropped, a close ends the stream.
StreamTake(x) ==
    LET o == streams[x].obj
        rest == [objs EXCEPT ![o].toAgent = Tail(@)]
    IN
    /\ streams[x].run /\ ~Session(x).closed /\ Session(x).toAgent # << >>
    /\ IF Session(x).toAgent[1] = "close" THEN StreamEnds(x, rest)
       ELSE objs' = rest /\ UNCHANGED <<now, tokens, dict, streams, sent>>

\* The session was closed, or the connection broke.
StreamExit(x) == streams[x].run /\ StreamEnds(x, objs)

\* _from_agent: output, and the end of the shell.
FromAgent(x, m) ==
    /\ streams[x].run /\ sent < MaxChunk /\ sent' = sent + 1
    /\ objs' = [objs EXCEPT ![streams[x].obj].toOps = Append(@, m)]
    /\ UNCHANGED <<now, tokens, dict, streams>>

Tick == now < MaxTime /\ now' = now + 1 /\ UNCHANGED <<tokens, dict, objs, streams, sent>>

Next ==
    \/ Tick
    \/ \E h \in Host : OpenTerminalSession(h)
    \/ \E id \in DOMAIN tokens : TerminalWebsocket(id) \/ \E h \in Host : TerminalStream(h, id)
    \/ \E o \in DOMAIN objs :
        \/ OpsInput(o) \/ OpsFlushed(o) \/ OpsResize(o) \/ OpsClose(o) \/ WsDisconnect(o)
        \/ AgentMessage(o) \/ AgentFlushed(o)
        \/ PeriodicFlush(o) \/ PeriodicFlushed(o)
        \/ WsFinally(o) \/ WsClose(o)
    \/ \E x \in DOMAIN streams : StreamTake(x) \/ StreamExit(x) \/ \E m \in {"output", "exit"} : FromAgent(x, m)

Spec == Init /\ [][Next]_vars

-----------------------------------------------------------------------------
\* The broker's entries are live objects of their id; batches stay within the chunks sent.
TypeOK ==
    /\ \A id \in DOMAIN dict : dict[id] # 0 => objs[dict[id]].id = id /\ ~objs[dict[id]].closed
    /\ \A o \in DOMAIN objs : objs[o].ws \in {"run", "ending", "closing", "done", "failed"} /\ objs[o].batch \in [Dir -> 0 .. MaxChunk]

\* A terminal leaves nothing behind and no gap: a stream serves a session of its own host;
\* when the analyst's side is over, its session is closed and out of the broker, and I/O of
\* either direction has left at least one audit row, however the flushes were interrupted.
\* Only where the last flush failed does the session stay, and it goes when the agent's
\* stream ends.
TornDown ==
    /\ \A x \in DOMAIN streams :
        Session(x).host = streams[x].host /\ (streams[x].run \/ \A id \in DOMAIN dict : dict[id] # streams[x].obj)
    /\ \A o \in DOMAIN objs : objs[o].ws = "done" =>
        /\ objs[o].closed /\ \A id \in DOMAIN dict : dict[id] # o
        /\ \A d \in Dir : objs[o].seen[d] > 0 => objs[o].logged[d] > 0

-----------------------------------------------------------------------------
(* Claims of the comments and documents that the code does not keep.      *)

\* "Coalesces I/O into batches and writes one host.terminal.io audit row per batch", with the
\* byte count of the batch: the rows of a closed terminal account for all that went through it.
AuditComplete ==
    \A o \in DOMAIN objs : objs[o].ws = "done" => \A d \in Dir : objs[o].logged[d] >= objs[o].seen[d]

\* The broker's dict has "one entry per active terminal session".
EntryIsActive == \A id \in DOMAIN dict : dict[id] # 0 => objs[dict[id]].ws # "failed"

\* closed is "set by either side to signal the other to close": a session whose stream has
\* ended is not one an analyst goes on typing into.
EitherSideCloses ==
    [][\A o \in DOMAIN objs : objs[o].closed => objs'[o].seen["stdin"] = objs[o].seen["stdin"]]_vars
=============================================================================
