------------------------------- MODULE Archive -------------------------------
(***************************************************************************)
(* The cold archive (services/archive.py).  A daily worker copies every    *)
(* index past the cold boundary to a blob, closes the index and records it *)
(* as frozen (workers/archive_worker.py); an administrator can have a      *)
(* frozen index brought back under another name by a background task       *)
(* (api/archive.py).                                                       *)
(*                                                                         *)
(* A pass of the worker writes its rows in one transaction, but stores     *)
(* blobs and closes indices as it goes: what a crash undoes in the         *)
(* database it does not undo there.  A cold index is read-only, so its     *)
(* documents never change; retention deletes it some day, and the index    *)
(* made from its copy too, whose name its pattern matches.                 *)
(***************************************************************************)
EXTENDS Naturals, Sequences, FiniteSets, Functions

CONSTANTS
    Index, Pages,       \* Pages[i]: what scrolling an index yields, a sequence of sets of documents
    Request,
    MaxPass, MaxRequest, MaxFault

VARIABLES
    index,      \* index[i]: "open", "closed" or "gone"
    blob,       \* blob[i]: the documents of <index>.ndjson.zst; {} while there is none
    target,     \* target[i]: the documents of <index>-rehydrated; {} too while there is none
    jobs,       \* archive_job: [n, index, st, key]; pass n made the row; key: s3_key is set
    pass,       \* the transaction of the worker
    reqs,       \* reqs[r]: a rehydrate request and its background task
    npass, nreq, faults,
    orphans,    \* history: indices closed by a pass that never committed or had no answer
    raced,      \* history: rows two requests found frozen
    partial,    \* history: indices whose rehydrated index lacks documents: the cluster
                \* refused some, or retention deleted it
    short       \* history: indices a scroll of which missed documents

vars == <<index, blob, target, jobs, pass, reqs, npass, nreq, faults, orphans, raced, partial, short>>
history == <<orphans, raced, partial, short>>

Idle == [st |-> "idle"]
Docs(i) == UNION Range(Pages[i])
Fault == faults < MaxFault /\ faults' = faults + 1

Init ==
    /\ index = [i \in Index |-> "open"] /\ blob = [i \in Index |-> {}] /\ target = [i \in Index |-> {}]
    /\ jobs = {} /\ pass = Idle /\ reqs = [r \in Request |-> Idle]
    /\ npass = 0 /\ nreq = 0 /\ faults = 0 /\ orphans = {} /\ raced = {} /\ partial = {} /\ short = {}

\* The retention policy of the cluster deletes an index, or the one rehydrated from it.
Expire(i) ==
    /\ index[i] # "gone" /\ Fault /\ index' = [index EXCEPT ![i] = "gone"]
    /\ UNCHANGED <<blob, target, jobs, pass, reqs, npass, nreq, history>>

ExpireRehydrated(i) ==
    /\ target[i] # {} /\ Fault /\ target' = [target EXCEPT ![i] = {}] /\ partial' = partial \cup {i}
    /\ UNCHANGED <<index, blob, jobs, pass, reqs, npass, nreq, orphans, raced, short>>

-----------------------------------------------------------------------------
(* The worker.                                                             *)

\* list_cold_indices finds closed indices too.  A rehydrated one has no date in its name.
RunOnce ==
    /\ pass = Idle /\ npass < MaxPass /\ npass' = npass + 1
    /\ pass' = [st |-> "next", todo |-> {i \in Index : index[i] # "gone"}, cur |-> "", buf |-> {},
                rows |-> {}, closed |-> {}]
    /\ UNCHANGED <<index, blob, target, jobs, reqs, nreq, faults, history>>

AlreadyFrozen(i) == \E j \in jobs \cup pass.rows : j.index = i /\ j.st = "frozen"

Skip(i) ==
    /\ pass.st = "next" /\ i \in pass.todo /\ AlreadyFrozen(i)
    /\ pass' = [pass EXCEPT !.todo = @ \ {i}]
    /\ UNCHANGED <<index, blob, target, jobs, reqs, npass, nreq, faults, history>>

StartFreeze(i) ==
    /\ pass.st = "next" /\ i \in pass.todo /\ ~AlreadyFrozen(i)
    /\ pass' = [pass EXCEPT !.st = "scroll", !.cur = i, !.todo = @ \ {i}]
    /\ UNCHANGED <<index, blob, target, jobs, reqs, npass, nreq, faults, history>>

\* freeze_index: the documents are read, they are stored, and the index is closed.
CloseFirst(st) == CASE st = "scroll" -> "close" [] st = "close" -> "put" [] OTHER -> "next"
StepAfter(st) == CASE st = "scroll" -> "put" [] st = "put" -> "close" [] OTHER -> "next"

Settle(st) == [pass EXCEPT !.st = "next", !.rows = @ \cup {[n |-> npass, index |-> pass.cur, st |-> st, key |-> st = "frozen"]}]
Advance == IF StepAfter(pass.st) = "next" THEN Settle("frozen") ELSE [pass EXCEPT !.st = StepAfter(@)]

\* _scroll_all, to the page that is empty; a closed index cannot be searched.  That a shard
\* failed or was too slow stands in the answer, where nothing looks: its documents are missing.
ScrollOnePage(i) == Head(Pages[i])
ScrollAll(i) == Docs(i)

Scroll ==
    /\ pass.st = "scroll" /\ index[pass.cur] = "open"
    /\ \/ pass' = [Advance EXCEPT !.buf = ScrollAll(pass.cur)] /\ UNCHANGED <<faults, short>>
       \/ /\ Fault
          /\ \E S \in SUBSET ScrollAll(pass.cur) : S # ScrollAll(pass.cur) /\ pass' = [Advance EXCEPT !.buf = S]
          /\ short' = short \cup {pass.cur}
    /\ UNCHANGED <<index, blob, target, jobs, reqs, npass, nreq, orphans, raced, partial>>

PutArchive ==
    /\ pass.st = "put"
    /\ blob' = [blob EXCEPT ![pass.cur] = pass.buf]
    /\ pass' = Advance
    /\ UNCHANGED <<index, target, jobs, reqs, npass, nreq, faults, history>>

CloseIndex ==
    /\ pass.st = "close" /\ index[pass.cur] # "gone"
    /\ index' = [index EXCEPT ![pass.cur] = "closed"]
    /\ pass' = [Advance EXCEPT !.closed = IF index[pass.cur] = "open" THEN @ \cup {pass.cur} ELSE @]
    /\ UNCHANGED <<blob, target, jobs, reqs, npass, nreq, faults, history>>

\* A step of freeze_index raises: always where the index is closed or gone, else by a
\* fault, which may hit the answer to a close that was done.
FreezeFails ==
    /\ \/ /\ \/ pass.st = "scroll" /\ index[pass.cur] # "open"
             \/ pass.st = "close" /\ index[pass.cur] = "gone"
          /\ UNCHANGED <<index, faults, orphans>>
       \/ pass.st \in {"scroll", "put", "close"} /\ Fault /\ UNCHANGED <<index, orphans>>
       \/ /\ pass.st = "close" /\ index[pass.cur] = "open" /\ Fault
          /\ index' = [index EXCEPT ![pass.cur] = "closed"] /\ orphans' = orphans \cup {pass.cur}
    /\ pass' = Settle("failed")
    /\ UNCHANGED <<blob, target, jobs, reqs, npass, nreq, raced, partial, short>>

CommitPass ==
    /\ pass.st = "next" /\ pass.todo = {}
    /\ jobs' = jobs \cup pass.rows /\ pass' = Idle
    /\ UNCHANGED <<index, blob, target, reqs, npass, nreq, faults, history>>

-----------------------------------------------------------------------------
(* Rehydration.                                                            *)

SetJob(j, st) == jobs' = (jobs \ {j}) \cup {[j EXCEPT !.st = st]}
Current(id) == CHOOSE j \in jobs : j.n = id.n /\ j.index = id.index
Id(j) == [n |-> j.n, index |-> j.index]

\* A task holds the row from its first flush to its commit.
Held(id) == \E r \in Request : reqs[r].st \in {"fetch", "recreate", "bulk", "finish"} /\ reqs[r].id = id

\* rehydrate_job loads a frozen row,
MayRehydrateStuck(st) == st \in {"frozen", "rehydrating"}
MayRehydrate(st) == st = "frozen"

RehydrateJob(r, j) ==
    /\ reqs[r] = Idle /\ nreq < MaxRequest /\ nreq' = nreq + 1 /\ MayRehydrate(j.st)
    /\ reqs' = [reqs EXCEPT ![r] = [st |-> "flip", id |-> Id(j), saw |-> j.st, buf |-> {}]]
    /\ UNCHANGED <<index, blob, target, jobs, pass, npass, faults, history>>

\* flips it, and leaves the rest to a background task.
FlipJob(r) ==
    /\ reqs[r].st = "flip" /\ ~Held(reqs[r].id)
    /\ SetJob(Current(reqs[r].id), "rehydrating")
    /\ reqs' = [reqs EXCEPT ![r].st = "queued"]
    /\ raced' = IF Current(reqs[r].id).st = reqs[r].saw THEN raced ELSE raced \cup {reqs[r].id}
    /\ UNCHANGED <<index, blob, target, pass, npass, nreq, faults, orphans, partial, short>>

Step(r, st) == reqs' = [reqs EXCEPT ![r].st = st]

\* rehydrate: the flush takes the row; its status as others see it stands until the commit.
DoRehydrate(r) ==
    /\ reqs[r].st = "queued" /\ ~Held(reqs[r].id) /\ Step(r, "fetch")
    /\ UNCHANGED <<index, blob, target, jobs, pass, npass, nreq, faults, history>>

FetchArchive(r) ==
    /\ reqs[r].st = "fetch"
    /\ reqs' = [reqs EXCEPT ![r].st = "recreate", ![r].buf = blob[reqs[r].id.index]]
    /\ UNCHANGED <<index, blob, target, jobs, pass, npass, nreq, faults, history>>

Recreate(r) ==
    /\ reqs[r].st = "recreate" /\ Step(r, "bulk")
    /\ target' = [target EXCEPT ![reqs[r].id.index] = {}]
    /\ UNCHANGED <<index, blob, jobs, pass, npass, nreq, faults, history>>

\* The answer to the bulk request is not looked at: documents it refused go unnoticed.
Bulk(r) ==
    /\ reqs[r].st = "bulk" /\ Step(r, "finish")
    /\ LET i == reqs[r].id.index
       IN  \/ /\ target' = [target EXCEPT ![i] = reqs[r].buf] /\ UNCHANGED <<faults, partial>>
           \/ /\ Fault /\ \E S \in SUBSET reqs[r].buf : S # reqs[r].buf /\ target' = [target EXCEPT ![i] = S]
              /\ partial' = partial \cup {i}
    /\ UNCHANGED <<index, blob, jobs, pass, npass, nreq, orphans, raced, short>>

\* The commit of _do_rehydrate, also of a failure.  The alias is tried and may fail.
Rehydrated(r) ==
    /\ reqs[r].st = "finish" /\ SetJob(Current(reqs[r].id), "rehydrated")
    /\ reqs' = [reqs EXCEPT ![r] = Idle]
    /\ UNCHANGED <<index, blob, target, pass, npass, nreq, faults, history>>

\* A call fails; of recreating, the delete may have been done.
RehydrateFails(r) ==
    /\ reqs[r].st \in {"fetch", "recreate", "bulk"} /\ Fault
    /\ SetJob(Current(reqs[r].id), "failed") /\ reqs' = [reqs EXCEPT ![r] = Idle]
    /\ \/ UNCHANGED target
       \/ reqs[r].st = "recreate" /\ target' = [target EXCEPT ![reqs[r].id.index] = {}]
    /\ UNCHANGED <<index, blob, pass, npass, nreq, history>>

\* The manager stops: the pass and the tasks are gone, and with them what they did not commit.
Crash ==
    /\ Fault
    /\ pass' = Idle /\ reqs' = [r \in Request |-> Idle]
    /\ orphans' = IF pass = Idle THEN orphans ELSE orphans \cup pass.closed
    /\ UNCHANGED <<index, blob, target, jobs, npass, nreq, raced, partial, short>>

-----------------------------------------------------------------------------
Next ==
    \/ RunOnce \/ Scroll \/ PutArchive \/ CloseIndex \/ FreezeFails \/ CommitPass \/ Crash
    \/ \E i \in Index : Expire(i) \/ ExpireRehydrated(i) \/ Skip(i) \/ StartFreeze(i)
    \/ \E r \in Request, j \in jobs : RehydrateJob(r, j)
    \/ \E r \in Request : FlipJob(r) \/ DoRehydrate(r) \/ FetchArchive(r) \/ Recreate(r) \/ Bulk(r)
                          \/ Rehydrated(r) \/ RehydrateFails(r)

Spec == Init /\ [][Next]_vars

-----------------------------------------------------------------------------
TypeOK ==
    /\ index \in [Index -> {"open", "closed", "gone"}]
    /\ \A i \in Index : blob[i] \subseteq Docs(i) /\ target[i] \subseteq Docs(i)
    /\ \A j \in jobs : j.index \in Index /\ j.st \in {"frozen", "rehydrating", "rehydrated", "failed"}
    /\ pass.st \in {"idle", "next", "scroll", "put", "close"}
    /\ npass \in 0..MaxPass /\ nreq \in 0..MaxRequest /\ faults \in 0..MaxFault

\* The stored copy of an index is whole, unless a scroll of it was answered in part.
Whole(i) == blob[i] = Docs(i) \/ i \in short

\* Whatever fails or crashes, a row the console lists as frozen, and one that is being
\* or was brought back, has a blob with every document of its index that the cluster
\* answered with (freeze_index), which outlives the index.
FrozenHasBlob == \A j \in jobs : j.st # "failed" => Whole(j.index)

\* An index is closed only with its copy stored, and with a row that knows the copy,
\* unless the pass that closed it died before its commit or was not told that it did
\* (_run_once, freeze_index).
ClosedIsListed ==
    \A i \in Index : index[i] = "closed" =>
        /\ Whole(i)
        /\ \/ \E j \in jobs : j.index = i /\ j.key
           \/ pass # Idle /\ i \in pass.closed
           \/ i \in orphans

\* A row that says rehydrated has all documents in the index made for it, unless the
\* copy was short, the cluster refused some unnoticed, retention has deleted that index,
\* or two requests had found the row frozen (rehydrate, rehydrate_job).
RehydratedServes ==
    \A j \in jobs : j.st = "rehydrated" =>
        target[j.index] = Docs(j.index) \/ j.index \in short \cup partial \/ Id(j) \in raced

\* That "a crash mid-freeze leaves a ``failed`` row" (archive.py:17) does not hold: rows
\* are committed with the pass, and the closed index fails every later one.
CrashLeavesRow == pass = Idle => \A i \in Index : index[i] = "closed" => \E j \in jobs : j.index = i
=============================================================================
