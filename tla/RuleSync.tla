------------------------------ MODULE RuleSync ------------------------------
(***************************************************************************)
(* How detection rules reach a connected agent: the RuleSync pushed when a *)
(* HostStream opens and the dispatcher that polls MAX(Rule.updated_at) and *)
(* pushes again when it changes (backend/app/grpc/services.py), against    *)
(* the operator's edits (backend/app/api/rules.py).                        *)
(*                                                                         *)
(* updated_at is stamped when an edit is flushed and seen when its request *)
(* commits.  The stamp of an edit stands for what it wrote.                *)
(***************************************************************************)
EXTENDS Naturals, FiniteSets

CONSTANTS
    Rules,
    MaxEdits,       \* bound: creates and updates
    MaxOpenEdits,   \* bound: edits flushed and not yet committed, at once
    MaxDeletes,     \* bound: deletes
    MaxStreams,     \* bound: times the agent connects
    MaxFails        \* bound: polls that fail in the database

ASSUME RuleSyncAssumption ==
    /\ IsFiniteSet(Rules)
    /\ MaxOpenEdits \in Nat \ {0}
    /\ {MaxEdits, MaxDeletes, MaxStreams, MaxFails} \subseteq Nat

VARIABLES
    row,        \* per rule, the stamp of its committed version; 0: no such rule
    clock,      \* stamps handed out so far
    open,       \* per rule, the stamp of an uncommitted edit; 0: none
    deletes,
    stream,     \* down, build, mtime, wait, push
    agent,      \* the agent's rule cache
    mtime,      \* last_mtime of the dispatcher
    current,    \* what its poll has read
    streams,
    fails

table == <<row, clock, open, deletes>>
vars  == <<table, stream, agent, mtime, current, streams, fails>>

Init ==
    /\ row = [r \in Rules |-> 0] /\ clock = 0 /\ open = [r \in Rules |-> 0] /\ deletes = 0
    /\ stream = "down" /\ agent = [r \in Rules |-> 0]
    /\ mtime = 0 /\ current = 0 /\ streams = 0 /\ fails = 0

\* MAX(updated_at); 0 stands for NULL.
Newest == CHOOSE n \in {row[r] : r \in Rules} \cup {0} : \A r \in Rules : row[r] <= n
-----------------------------------------------------------------------------
\* create_rule, update_rule: flushed, which stamps the row and locks it ...
FlushEdit(r) ==
    /\ clock < MaxEdits /\ open[r] = 0
    /\ Cardinality({q \in Rules : open[q] # 0}) < MaxOpenEdits
    /\ clock' = clock + 1
    /\ open' = [open EXCEPT ![r] = clock + 1]
    /\ UNCHANGED <<row, deletes, stream, agent, mtime, current, streams, fails>>

\* ... and committed at the end of the request.
CommitEdit(r) ==
    /\ open[r] # 0
    /\ row' = [row EXCEPT ![r] = open[r]]
    /\ open' = [open EXCEPT ![r] = 0]
    /\ UNCHANGED <<clock, deletes, stream, agent, mtime, current, streams, fails>>

DeleteRule(r) ==
    /\ deletes < MaxDeletes /\ row[r] # 0 /\ open[r] = 0
    /\ deletes' = deletes + 1
    /\ row' = [row EXCEPT ![r] = 0]
    /\ UNCHANGED <<clock, open, stream, agent, mtime, current, streams, fails>>
-----------------------------------------------------------------------------
Connect ==
    /\ stream = "down" /\ streams < MaxStreams
    /\ streams' = streams + 1
    /\ stream' = "build"
    /\ UNCHANGED <<table, agent, mtime, current, fails>>

\* HostStream: _build_rule_sync for the initial push ...
BuildInitial ==
    /\ stream = "build"
    /\ agent' = row
    /\ stream' = "mtime"
    /\ UNCHANGED <<table, mtime, current, streams, fails>>

\* ... then a second query for the watermark.
ReadMtime ==
    /\ stream = "mtime"
    /\ mtime' = Newest
    /\ stream' = "wait"
    /\ UNCHANGED <<table, agent, current, streams, fails>>

\* Mutant of Poll: the watermark advances before the push.
PollAdvances ==
    /\ stream = "wait" /\ Newest \notin {0, mtime}
    /\ current' = Newest
    /\ mtime' = Newest
    /\ stream' = "push"
    /\ UNCHANGED <<table, agent, streams, fails>>

\* _rule_resync_dispatcher: the poll finds a change ...
Poll ==
    /\ stream = "wait" /\ Newest \notin {0, mtime}
    /\ current' = Newest
    /\ stream' = "push"
    /\ UNCHANGED <<table, agent, mtime, streams, fails>>

\* ... and a fresh RuleSync is built and queued for the agent ...
Push ==
    /\ stream = "push"
    /\ agent' = row
    /\ mtime' = current
    /\ stream' = "wait"
    /\ UNCHANGED <<table, current, streams, fails>>

\* ... or building it fails, which is logged.
PushFails ==
    /\ stream = "push" /\ fails < MaxFails
    /\ fails' = fails + 1
    /\ stream' = "wait"
    /\ UNCHANGED <<table, agent, mtime, current, streams>>

Disconnect ==
    /\ stream # "down"
    /\ stream' = "down"
    /\ UNCHANGED <<table, agent, mtime, current, streams, fails>>

Handler == BuildInitial \/ ReadMtime \/ Poll \/ Push

Next ==
    \/ \E r \in Rules : FlushEdit(r) \/ CommitEdit(r) \/ DeleteRule(r)
    \/ Connect \/ Handler \/ PushFails \/ Disconnect

\* The handler's tasks run and its 2 s timer fires.
Fairness == WF_vars(Handler)

Spec == Init /\ [][Next]_vars

FairSpec == Spec /\ Fairness
-----------------------------------------------------------------------------
\* An edit with the newest stamp that the dispatcher has not seen is pushed,
\* through failed polls and overlapping edits: the agent's rules become the
\* table's, or the stream ends.  (A deleted rule may take its stamp with it.)
NewestEditIsPushed ==
    (stream = "wait" /\ Newest > mtime) ~> (agent = row \/ stream = "down" \/ deletes > 0)

-----------------------------------------------------------------------------
(* Claims of the comments and documents that the code does not keep.      *)

\* "Toggling a YARA / IOC rule in the UI did not reach already-connected agents
\* until they reconnected" is what the dispatcher was added against
\* (grpc/services.py): an agent that stays connected and whose rules differ
\* from the table's gets them, or the table changes again.
EditsReachAgent ==
    \A f \in [Rules -> 0 .. MaxEdits] :
        (stream # "down" /\ row = f /\ agent # f)
        ~> (agent = f \/ stream = "down" \/ row # f)
=============================================================================
