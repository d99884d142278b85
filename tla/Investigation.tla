---------------------------- MODULE Investigation ----------------------------
(***************************************************************************)
(* What the investigation pages show (api/alerts.py, api/hosts.py,         *)
(* api/process_chain.py): the process chain of an alert, its timeline, the *)
(* detail of one process, the lineage of a pid and the live feed of a      *)
(* host, read from OpenSearch (services/opensearch.py) and from the        *)
(* process graph (services/process_graph.py), which the indexers fill at   *)
(* their own pace and retention empties.  Pids are reused.                 *)
(***************************************************************************)
EXTENDS Naturals, Sequences, SequencesExt, FiniteSets, FiniteSetsExt

CONSTANTS
    Events,         \* what the host did: [id, ts, pid, parent, action]
    Trigger,        \* the alert's event ids
    Opened,         \* the alert's opened_at
    Day,            \* the 24 hours the queries look back
    WindowMinutes,  \* window_minutes
    MaxDepth,       \* max_chain_depth
    MaxHops,        \* process_graph.MAX_DEPTH
    MaxHits         \* max_events, limit: the size of a result

VARIABLES
    docs,       \* events searchable in OpenSearch
    graph,      \* process_started events with a row in process_chain
    page        \* the page served from the stores as they are

vars == <<docs, graph, page>>

NoPage == [kind |-> "none"]
NoSince == 0

Init == docs = {} /\ graph = {} /\ page = NoPage

Started == {e \in Events : e.action = "process_started"}

-----------------------------------------------------------------------------
(* The stores.                                                             *)

Index(e) ==
    /\ e \notin docs /\ docs' = docs \cup {e}
    /\ page' = NoPage /\ UNCHANGED graph

IndexChain(e) ==
    /\ e \in Started \ graph /\ graph' = graph \cup {e}
    /\ page' = NoPage /\ UNCHANGED docs

Retention(e) ==
    /\ docs' = docs \ {e} /\ graph' = graph \ {e} /\ page' = NoPage

-----------------------------------------------------------------------------
(* Queries.                                                                *)

Oldest(S) == CHOOSE e \in S : \A f \in S : e.ts <= f.ts
Newest(S) == CHOOSE e \in S : \A f \in S : f.ts <= e.ts

\* A result sorted by time, ascending, cut at n.
Asc(S, n) == {e \in S : Cardinality({f \in S : f.ts < e.ts}) < n}

FetchEventsByIds == {e \in docs : e.id \in Trigger}

FetchProcessStarted(pid, before) ==
    {e \in docs \cap Started : e.pid = pid /\ e.ts <= before /\ before <= e.ts + Day}

FetchHostWindow(start, end) == Asc({e \in docs : start <= e.ts /\ e.ts <= end}, MaxHits)

FetchPidWindow(pid, start, end) ==
    Asc({e \in docs : e.pid = pid /\ start <= e.ts /\ e.ts <= end}, MaxHits)

FetchProcessChildren(parent, lower, upper, exclude) ==
    {e \in docs \cap Started : /\ e.parent = parent /\ lower <= e.ts /\ e.ts <= upper
                               /\ e.pid \notin exclude}

FetchHostSince(since, now) ==
    Asc({e \in docs : IF since = NoSince THEN now <= e.ts + WindowMinutes ELSE e.ts > since}, MaxHits)

\* Truncated subtraction of times.
Before(t, d) == IF t > d THEN t - d ELSE 0

-----------------------------------------------------------------------------
(* process_graph: recursive walks over process_chain.                      *)

\* ancestors: the pid's latest row, then every earlier row of a parent pid;
\* descendants goes the other way.
Related(p, c, way) ==
    IF way = "up" THEN p.pid = c.parent /\ p.ts <= c.ts ELSE p.parent = c.pid /\ p.ts >= c.ts

\* The rows at each distance from the start.
Walk(start, way) ==
    LET lvl[n \in 0 .. MaxHops] ==
            IF n = 0 THEN start ELSE {p \in graph : \E c \in lvl[n - 1] : Related(p, c, way)}
    IN  lvl

RowsOf(pid) == {g \in graph : g.pid = pid}

\* One row per pid, the latest, and the rows by falling depth: the pid itself last.
Ancestors(pid) ==
    LET start == IF RowsOf(pid) = {} THEN {} ELSE {Newest(RowsOf(pid))}
        lvl == Walk(start, "up")
        all == UNION {lvl[n] : n \in 0 .. MaxHops}
        one == {Newest({g \in all : g.pid = p}) : p \in {g.pid : g \in all}}
        depth(g) == CHOOSE n \in 0 .. MaxHops : g \in lvl[n] /\ \A m \in 0 .. n - 1 : g \notin lvl[m]
        cmp(g, h) == depth(g) > depth(h) \/ (depth(g) = depth(h) /\ g.pid <= h.pid)
    IN  SetToSortSeq(one, cmp)

Descendants(pid) ==
    LET lvl == Walk(RowsOf(pid), "down") IN UNION {lvl[n] : n \in 1 .. MaxHops}

-----------------------------------------------------------------------------
(* _build_process_chain.                                                   *)

Node(e) == [pid |-> e.pid, parent |-> e.parent, inferred |-> FALSE, siblings |-> {}, children |-> {}]
Inferred(pid) == [pid |-> pid, parent |-> 0, inferred |-> TRUE, siblings |-> {}, children |-> {}]
Pids(chain) == {chain[k].pid : k \in DOMAIN chain}

\* The walk from pid up its parents' latest process_started documents.
NextUpUnseen(chain, pid) == pid > 0 /\ Len(chain) < MaxDepth
NextUp(chain, pid) == pid > 0 /\ Len(chain) < MaxDepth /\ pid \notin Pids(chain)

WalkUp(seed, first) ==
    LET step[k \in 0 .. MaxDepth] ==
            IF k = 0 THEN [chain |-> seed, pid |-> first]
            ELSE LET w == step[k - 1]
                     found == FetchProcessStarted(w.pid, Opened)
                 IN  IF ~NextUp(w.chain, w.pid) THEN w
                     ELSE IF found = {} THEN [chain |-> Append(w.chain, Inferred(w.pid)), pid |-> 0]
                     ELSE [chain |-> Append(w.chain, Node(Newest(found))), pid |-> Newest(found).parent]
    IN  step[MaxDepth].chain

\* Siblings of every node with a parent, and children of the last node; a search
\* that fails leaves them empty.
WithSiblings(chain, ok) ==
    [k \in DOMAIN chain |->
        [chain[k] EXCEPT !.siblings =
            IF ok /\ chain[k].parent > 0
            THEN {e.pid : e \in FetchProcessChildren(chain[k].parent, Before(Opened, Day), Opened, Pids(chain))}
            ELSE {}]]

WithChildren(chain, ok) ==
    IF chain = <<>> \/ ~ok THEN chain
    ELSE [chain EXCEPT ![Len(chain)].children =
            {e.pid : e \in FetchProcessChildren(chain[Len(chain)].pid, Before(Opened, Day + Day),
                                               Opened + Day, Pids(chain))}]

\* The pid is that of the first trigger document that has one; a trigger that is
\* itself a process_started document starts the chain.
StartPids == {e \in FetchEventsByIds : e.pid > 0}

FromOpenSearch(ok) ==
    IF StartPids = {} THEN <<>>
    ELSE LET first == Oldest(FetchEventsByIds)
             start == Oldest(StartPids).pid
             seeded == first.action = "process_started"
             chain == IF seeded THEN WalkUp(<<Node(first)>>, first.parent) ELSE WalkUp(<<>>, start)
         IN  WithChildren(WithSiblings(chain, ok), ok)

\* _build_chain_from_pg: the last max_depth rows, without siblings or children.
FromGraph(pid) ==
    LET rows == Ancestors(pid)
        from == IF Len(rows) > MaxDepth THEN Len(rows) - MaxDepth + 1 ELSE 1
    IN  [k \in 1 .. Len(rows) - from + 1 |-> Node(rows[from + k - 1])]

BuildProcessChain(ok) ==
    LET pg == IF StartPids = {} THEN <<>> ELSE FromGraph(Oldest(StartPids).pid)
    IN  IF pg # <<>> THEN [source |-> "graph", chain |-> pg]
        ELSE [source |-> "search", chain |-> FromOpenSearch(ok)]

-----------------------------------------------------------------------------
(* The endpoints.                                                          *)

GetAlertContext ==
    /\ \E ok \in BOOLEAN :
        LET b == BuildProcessChain(ok)
            hits == FetchHostWindow(Before(Opened, WindowMinutes), Opened + WindowMinutes)
        IN  page' = [kind |-> "context", source |-> b.source, chain |-> b.chain, ok |-> ok,
                     start |-> IF StartPids = {} THEN 0 ELSE Oldest(StartPids).pid,
                     events |-> {[id |-> e.id, is_trigger |-> e.id \in Trigger] : e \in hits},
                     truncated |-> Cardinality(hits) >= MaxHits]
    /\ UNCHANGED <<docs, graph>>

\* The panels of get_process_detail; the first that fits takes the event.
Panel(e) ==
    CASE e.action = "image_loaded" -> "image_loads"
      [] e.action = "file_written" -> "files"
      [] e.action = "connected" -> "network"
      [] OTHER -> "other"

GetProcessDetail(pid) ==
    /\ pid > 0
    /\ LET hits == FetchPidWindow(pid, Before(Opened, WindowMinutes), Opened + WindowMinutes)
       IN  page' = [kind |-> "process", pid |-> pid, known |-> FetchProcessStarted(pid, Opened + WindowMinutes) # {},
                    panels |-> {<<Panel(e), e.id>> : e \in hits}, truncated |-> Cardinality(hits) >= MaxHits]
    /\ UNCHANGED <<docs, graph>>

HostProcessChain(pid) ==
    /\ pid > 0
    /\ page' = [kind |-> "lineage", pid |-> pid, ancestors |-> Ancestors(pid), descendants |-> Descendants(pid)]
    /\ UNCHANGED <<docs, graph>>

\* One poll of the live tab, which hands back the timestamp to go on from.
HostLiveTelemetry(since) ==
    /\ LET hits == FetchHostSince(since, Opened)
       IN  page' = [kind |-> "live", events |-> {e.id : e \in hits}, truncated |-> Cardinality(hits) >= MaxHits,
                    latest |-> IF hits = {} THEN since ELSE Newest(hits).ts]
    /\ UNCHANGED <<docs, graph>>

Next ==
    \/ GetAlertContext \/ \E since \in {NoSince, Opened} : HostLiveTelemetry(since)
    \/ \E e \in Events : Index(e) \/ IndexChain(e) \/ Retention(e)
    \/ \E pid \in {e.pid : e \in Events} : GetProcessDetail(pid) \/ HostProcessChain(pid)

Spec == Init /\ [][Next]_vars

-----------------------------------------------------------------------------
\* The stores hold events of the host.
TypeOK == docs \subseteq Events /\ graph \subseteq Started /\ page.kind \in {"none", "context", "process", "lineage", "live"}

\* A page's chain names no process twice and is never longer than asked, whatever
\* part of the telemetry is indexed and although reused pids close the parent
\* relation into a cycle; from OpenSearch each node is the parent of the one
\* before it, and from the graph the alert's own process is the last.
ChainSound ==
    page.kind = "context" =>
        LET c == page.chain
        IN  /\ Len(c) <= MaxDepth
            /\ \A j, k \in DOMAIN c : j # k => c[j].pid # c[k].pid
            /\ \A k \in DOMAIN c : (c[k].siblings \cup c[k].children) \cap Pids(c) = {}
            /\ page.source = "search" => \A k \in 2 .. Len(c) : c[k].pid = c[k - 1].parent
            /\ page.source = "graph" => c[Len(c)].pid = page.start

-----------------------------------------------------------------------------
(* Claims of the comments and documents that the code does not keep.      *)

\* "Direct children spawned by THIS process. Populated only for the leaf node in
\* the chain (the alert-triggering process)".
LeafIsTrigger ==
    page.kind = "context" =>
        \A k \in DOMAIN page.chain : page.chain[k].children # {} => page.chain[k].pid = page.start
=============================================================================
