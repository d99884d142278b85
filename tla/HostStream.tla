----------------------------- MODULE HostStream -----------------------------
(***************************************************************************)
(* The status column of one Host row and the HostStream gRPC handlers that *)
(* write it (backend/app/grpc/services.py), against the operator's PATCH   *)
(* /api/hosts/<id> (backend/app/api/hosts.py).                             *)
(*                                                                         *)
(* Every handler opens a fresh session, reads the row, and commits later;  *)
(* in between other handlers and the operator run.  SQLAlchemy writes a    *)
(* column only if the assigned value differs from the one the session      *)
(* loaded (OrmWrite), and Postgres runs at READ COMMITTED: the last writer *)
(* wins.                                                                   *)
(***************************************************************************)
EXTENDS Naturals, FiniteSets

CONSTANTS
    Streams,    \* HostStream handler invocations for this host, over time
    Certs,      \* SHA-256 fingerprints of client certificates
    None,       \* an absent fingerprint
    MaxOpen     \* bound: handlers of this host running at the same time

ASSUME HostStreamAssumption ==
    /\ IsFiniteSet(Streams)
    /\ None \notin Certs
    /\ MaxOpen \in Nat \ {0}

HostStatus == {"pending", "online", "offline", "isolated", "decommissioned"}

\* Where a handler stands.  admit: row read and admitted, ONLINE not yet
\* committed; sync: ONLINE committed, first RuleSync not yet sent, so not yet
\* inside the try block whose finally clause writes OFFLINE; live: the bidi
\* loop; ending: the loop left, finally clause to run; offline: the finally
\* clause has read the row and not yet committed.
StreamState == {"idle", "admit", "sync", "live", "ending", "offline", "done"}

VARIABLES
    status,     \* Host.status
    cert,       \* Host.cert_fingerprint
    fresh,      \* Host.last_seen_at lies within the online window
    stream,     \* state of each handler
    loaded,     \* the status each handler's session loaded
    patched,    \* history: handlers since whose read of the row the operator
                \* has set a status
    overrun,    \* history: handlers since whose admission another handler's
                \* finally clause has committed
    enforced    \* history: a decommission refused or aborted a stream, and the
                \* operator set no status since

vars == <<status, cert, fresh, stream, loaded, patched, overrun, enforced>>

Running == {s \in Streams : stream[s] \notin {"idle", "done"}}

Live(s) == stream[s] = "live"

Init ==
    /\ status = "pending"
    /\ cert \in Certs \cup {None}
    /\ fresh = FALSE
    /\ stream = [s \in Streams |-> "idle"]
    /\ loaded = [s \in Streams |-> "pending"]
    /\ patched = {} /\ overrun = {}
    /\ enforced = FALSE

\* _check_host_admission: fp is the peer's fingerprint, None on a plaintext
\* channel.
Admitted(st, fp) ==
    /\ st # "decommissioned"
    /\ ~(fp # None /\ cert # None /\ fp # cert)

\* What committing "status := new" does to a row whose session loaded old.
OrmWrite(old, new) == IF old = new THEN status ELSE new

\* HostStream up to the admission decision: the row is read and refused ...
OpenRejected(s, fp) ==
    /\ stream[s] = "idle"
    /\ Cardinality(Running) < MaxOpen
    /\ ~Admitted(status, fp)
    /\ stream' = [stream EXCEPT ![s] = "done"]
    /\ enforced' = (enforced \/ status = "decommissioned")
    /\ UNCHANGED <<status, cert, fresh, loaded, patched, overrun>>

\* Mutant of OpenAdmitted: the missing-row check dropped.
OpenWithoutRow(s, fp) ==
    /\ stream[s] = "idle"
    /\ Cardinality(Running) < MaxOpen
    /\ Admitted(status, fp)
    /\ stream' = [stream EXCEPT ![s] = "admit"]
    /\ loaded' = [loaded EXCEPT ![s] = None]
    /\ patched' = patched \ {s} /\ overrun' = overrun \ {s}
    /\ UNCHANGED <<status, cert, fresh, enforced>>

\* ... or admitted, with ONLINE and last_seen_at assigned in the session.
OpenAdmitted(s, fp) ==
    /\ stream[s] = "idle"
    /\ Cardinality(Running) < MaxOpen
    /\ Admitted(status, fp)
    /\ stream' = [stream EXCEPT ![s] = "admit"]
    /\ loaded' = [loaded EXCEPT ![s] = status]
    /\ patched' = patched \ {s} /\ overrun' = overrun \ {s}
    /\ UNCHANGED <<status, cert, fresh, enforced>>

\* Mutant of CommitOnline: only a host's first stream turns it ONLINE.
CommitFirstOnline(s) ==
    /\ stream[s] = "admit"
    /\ status' = IF loaded[s] = "pending" THEN "online" ELSE status
    /\ fresh' = TRUE
    /\ stream' = [stream EXCEPT ![s] = "sync"]
    /\ UNCHANGED <<cert, loaded, patched, overrun, enforced>>

CommitOnline(s) ==
    /\ stream[s] = "admit"
    /\ status' = OrmWrite(loaded[s], "online")
    /\ fresh' = TRUE
    /\ stream' = [stream EXCEPT ![s] = "sync"]
    /\ UNCHANGED <<cert, loaded, patched, overrun, enforced>>

\* The initial RuleSync went out and the three side tasks run.
EnterLoop(s) ==
    /\ stream[s] = "sync"
    /\ stream' = [stream EXCEPT ![s] = "live"]
    /\ UNCHANGED <<status, cert, fresh, loaded, patched, overrun, enforced>>

\* The call is cancelled, or the database fails, outside the try block: no
\* finally clause runs.
AbandonOpen(s) ==
    /\ stream[s] \in {"admit", "sync"}
    /\ stream' = [stream EXCEPT ![s] = "done"]
    /\ UNCHANGED <<status, cert, fresh, loaded, patched, overrun, enforced>>

\* Mutant of Heartbeat: admission is checked at open only.
HeartbeatUnchecked(s) ==
    /\ Live(s)
    /\ fresh' = TRUE
    /\ UNCHANGED <<status, cert, stream, loaded, patched, overrun, enforced>>

\* A heartbeat at least 30 s after the last one that was stored: admission is
\* checked again, without the fingerprint.  Refused, the call is aborted.
Heartbeat(s) ==
    /\ Live(s)
    /\ IF Admitted(status, None)
       THEN /\ fresh' = TRUE
            /\ UNCHANGED <<stream, enforced>>
       ELSE /\ stream' = [stream EXCEPT ![s] = "ending"]
            /\ enforced' = TRUE
            /\ UNCHANGED fresh
    /\ UNCHANGED <<status, cert, loaded, patched, overrun>>

\* The agent hangs up, the connection breaks, or a Hello with too old a
\* protocol_version aborts the call.
StreamEnds(s) ==
    /\ Live(s)
    /\ stream' = [stream EXCEPT ![s] = "ending"]
    /\ UNCHANGED <<status, cert, fresh, loaded, patched, overrun, enforced>>

\* The finally clause reads the row ...
CloseRead(s) ==
    /\ stream[s] = "ending"
    /\ loaded' = [loaded EXCEPT ![s] = status]
    /\ stream' = [stream EXCEPT ![s] = "offline"]
    /\ UNCHANGED <<status, cert, fresh, patched, overrun, enforced>>

\* ... and commits OFFLINE, whatever the row held.
CommitOffline(s) ==
    /\ stream[s] = "offline"
    /\ status' = OrmWrite(loaded[s], "offline")
    /\ stream' = [stream EXCEPT ![s] = "done"]
    /\ overrun' = overrun \cup (Running \ {s})
    /\ UNCHANGED <<cert, fresh, loaded, patched, enforced>>

\* PATCH /api/hosts/<id> with a status: read, assigned and committed by one
\* request; what it writes does not depend on what it read.
Patch(st) ==
    /\ status' = st
    /\ patched' = patched \cup Running
    /\ enforced' = FALSE
    /\ UNCHANGED <<cert, fresh, stream, loaded, overrun>>

\* The manager process dies: its handlers vanish, none of them writes.
ManagerCrash ==
    /\ Running # {}
    /\ stream' = [s \in Streams |-> IF s \in Running THEN "done" ELSE stream[s]]
    /\ UNCHANGED <<status, cert, fresh, loaded, patched, overrun, enforced>>

\* Time passes: last_seen_at drops out of the online window.
SeenAges ==
    /\ fresh
    /\ fresh' = FALSE
    /\ UNCHANGED <<status, cert, stream, loaded, patched, overrun, enforced>>

Handler(s) ==
    \/ CommitOnline(s) \/ EnterLoop(s) \/ CloseRead(s) \/ CommitOffline(s)

Next ==
    \/ \E s \in Streams, fp \in Certs \cup {None} :
          OpenRejected(s, fp) \/ OpenAdmitted(s, fp)
    \/ \E s \in Streams :
          Handler(s) \/ AbandonOpen(s) \/ Heartbeat(s) \/ StreamEnds(s)
    \/ \E st \in HostStatus : Patch(st)
    \/ ManagerCrash
    \/ SeenAges

\* A handler's own steps and the agent's periodic heartbeat keep coming;
\* opening, hanging up, crashing and the operator are not obliged to happen.
Fairness ==
    \A s \in Streams : WF_vars(Handler(s)) /\ WF_vars(Heartbeat(s))

Spec == Init /\ [][Next]_vars

FairSpec == Spec /\ Fairness
-----------------------------------------------------------------------------
\* The row and every handler stay in their types: a session always loaded a
\* row, and a status is one the enum has.
TypeOK ==
    /\ status \in HostStatus
    /\ cert \in Certs \cup {None}
    /\ fresh \in BOOLEAN
    /\ stream \in [Streams -> StreamState]
    /\ loaded \in [Streams -> HostStatus]
    /\ patched \subseteq Streams /\ overrun \subseteq Streams
    /\ enforced \in BOOLEAN

\* The host is picked by jobs with scope all_online and by the sweep
\* scheduler: status ONLINE and a recent last_seen_at.
InOnlineScope == status = "online" /\ fresh

\* No handler is between its read of the row and its commit.
Quiescent == \A s \in Streams : stream[s] \in {"idle", "live", "done"}

\* However handlers of one host overlap, a host in its bidi loop shows ONLINE
\* unless somebody wrote the status after the handler had read it: the
\* operator, or the finally clause of another handler that was slow to notice
\* its end.  The commit that may skip the column because the session loaded
\* ONLINE, and the commits of handlers that begin meanwhile, are no exception.
LiveMeansOnline ==
    \A s \in Streams :
        Live(s) /\ s \notin patched \cup overrun => status = "online"

\* The heartbeat tick enforces a decommission on an open stream: as long as
\* the row stays decommissioned, every live stream ends.
DecommissionEndsStreams ==
    \A s \in Streams :
        (status = "decommissioned" /\ Live(s)) ~> (status # "decommissioned" \/ ~Live(s))

-----------------------------------------------------------------------------
(* Claims of the comments and documents that the code does not keep.      *)

\* The manager "rejects every future HostStream open" of a decommissioned
\* host (operator guide): once the decommission has refused an open or aborted
\* a stream, and until the operator sets another status, no open is admitted.
NoAdmissionAfterDecommission ==
    [][\A s \in Streams :
          enforced /\ enforced' /\ stream[s] = "idle" => stream'[s] # "admit"]_vars

\* "A host is considered online if it's been heartbeating within this window"
\* (services/jobs.py): once every handler has finished what it was doing, a
\* host with a live stream and a fresh heartbeat, which no operator touched,
\* is in the all_online scope.
HeartbeatingHostInScope ==
    Quiescent /\ fresh /\ (\E s \in Streams \ patched : Live(s)) => InOnlineScope
=============================================================================
