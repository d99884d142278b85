----------------------------- MODULE AuditChain -----------------------------
(***************************************************************************)
(* The audit log (services/audit.py): every request appends rows under a   *)
(* per-tenant advisory lock, each row carrying an HMAC over its            *)
(* predecessor's; a loop and an endpoint verify the chains                 *)
(* (services/audit_verifier.py, workers/audit_verifier_loop.py,            *)
(* api/audit.py).                                                          *)
(*                                                                         *)
(* An HMAC is modelled as the pair it digests: equal only for equal input. *)
(***************************************************************************)
EXTENDS Naturals, Sequences, SequencesExt, FiniteSets, FiniteSetsExt

CONSTANTS
    Tenant, User,
    Request,        \* transactions in flight
    Action,         \* what a row says was done
    MaxRow,         \* bound: rows written
    MaxDeploy,      \* bound: changes of VIGIL_AUDIT_HMAC_KEY
    MaxTamper       \* bound: privileged edits of the table

\* The markers the model adds are none of the code's own values.
ASSUME AuditChainAssumption == "free" \notin Request /\ "forged" \notin Action

None == [st |-> "none"]
Idle == [st |-> "idle"]

VARIABLES
    key,        \* is VIGIL_AUDIT_HMAC_KEY set
    seq,        \* audit_log_seq
    rows,       \* committed rows
    users,      \* existing users
    lock,       \* lock[t]: who holds the tenant's advisory lock, or "free"
    tx,         \* tx[p]: the request's transaction
    alerts,     \* seqs alerted on by the loop
    removed,    \* history: a user with rows on record was deleted
    tampered,   \* history: tenants whose rows were edited behind the application
    ended,      \* history: tenants whose chain lost its last row
    deploys

vars == <<key, seq, rows, users, lock, tx, alerts, removed, tampered, ended, deploys>>
history == <<removed, tampered, ended>>

Init ==
    /\ key = TRUE
    /\ seq = 0 /\ rows = {} /\ users = User
    /\ lock = [t \in Tenant |-> "free"]
    /\ tx = [p \in Request |-> Idle]
    /\ alerts = {}
    /\ removed = FALSE /\ tampered = {} /\ ended = {}
    /\ deploys = 0

-----------------------------------------------------------------------------
(* The chain.                                                              *)

CanonicalRow(r) == [seq |-> r.seq, user |-> r.user, action |-> r.action, tenant |-> r.tenant]

ComputeRowHmac(prev, canonical) == [prev |-> prev, row |-> canonical]

BySeq(S) ==
    [i \in 1 .. Cardinality(S) |-> CHOOSE r \in S : Cardinality({x \in S : x.seq < r.seq}) = i - 1]

Chained(S, t) == BySeq({r \in S : r.tenant = t /\ r.hmac # None})

\* The head a writer of the tenant links to.
HeadHmac(S, t) == IF Chained(S, t) = <<>> THEN None ELSE Last(Chained(S, t)).hmac

\* verify_chain: the breaks of one tenant's chain, in seq order.
BreaksIgnoringPrev(S, t) ==
    LET c == Chained(S, t)
    IN  {<<c[i].seq, "row_hmac">> : i \in
            {j \in DOMAIN c : c[j].hmac # ComputeRowHmac(c[j].prev, CanonicalRow(c[j]))}}

Breaks(S, t) ==
    LET c == Chained(S, t)
        prev(i) == IF i = 1 THEN None ELSE c[i - 1].hmac
    IN  {<<c[i].seq, "prev_hmac">> : i \in {j \in DOMAIN c : c[j].prev # prev(j)}}
          \cup {<<c[i].seq, "row_hmac">> : i \in
                  {j \in DOMAIN c : c[j].hmac # ComputeRowHmac(c[j].prev, CanonicalRow(c[j]))}}

\* Without a key the walk stops at the first chained row.
VerifyChain(S) == IF key THEN UNION {Breaks(S, t) : t \in Tenant} ELSE {}

-----------------------------------------------------------------------------
(* Requests.                                                               *)

\* A handler that will record n actions; deleting a user is one action.
Begin(p) ==
    /\ tx[p] = Idle
    /\ \E t \in Tenant, u \in users, n \in 1 .. 2, victim \in users \cup {"none"} :
        /\ victim # u /\ (victim # "none" => n = 1)
        /\ tx' = [tx EXCEPT ![p] = [st |-> "open", tenant |-> t, user |-> u, todo |-> n,
                                    victim |-> victim, prev |-> None, rows |-> {}]]
    /\ UNCHANGED <<key, seq, rows, users, lock, alerts, history, deploys>>

\* record takes the transaction's advisory lock ...
LockNobody(p) ==
    /\ tx[p].st = "open" /\ tx[p].todo > 0 /\ key
    /\ tx' = [tx EXCEPT ![p].st = "locked"]
    /\ UNCHANGED <<key, seq, rows, users, lock, alerts, history, deploys>>

Lock(p) ==
    /\ tx[p].st = "open" /\ tx[p].todo > 0 /\ key
    /\ lock[tx[p].tenant] \in {"free", p}
    /\ lock' = [lock EXCEPT ![tx[p].tenant] = p]
    /\ tx' = [tx EXCEPT ![p].st = "locked"]
    /\ UNCHANGED <<key, seq, rows, users, alerts, history, deploys>>

\* ... reads the tenant's last HMAC, its own flushed rows included ...
ReadHead(p) ==
    /\ tx[p].st = "locked"
    /\ tx' = [tx EXCEPT ![p].st = "read", ![p].prev = HeadHmac(rows \cup tx[p].rows, tx[p].tenant)]
    /\ UNCHANGED <<key, seq, rows, users, lock, alerts, history, deploys>>

\* ... draws a number and adds the row, complete.  Without a key the row goes in bare.
NewRowCounted(p, a) ==
    LET r == [seq |-> Cardinality(rows) + 1, tenant |-> tx[p].tenant, user |-> tx[p].user, action |-> a,
              prev |-> tx[p].prev, hmac |-> None]
    IN  IF key THEN [r EXCEPT !.hmac = ComputeRowHmac(r.prev, CanonicalRow(r))] ELSE r

NewRow(p, a) ==
    LET r == [seq |-> seq + 1, tenant |-> tx[p].tenant, user |-> tx[p].user, action |-> a,
              prev |-> tx[p].prev, hmac |-> None]
    IN  IF key THEN [r EXCEPT !.hmac = ComputeRowHmac(r.prev, CanonicalRow(r))] ELSE r

Record(p) ==
    /\ tx[p].st = IF key THEN "read" ELSE "open"
    /\ tx[p].todo > 0 /\ seq < MaxRow
    /\ tx[p].user \in users
    /\ seq' = seq + 1
    /\ \E a \in Action :
        tx' = [tx EXCEPT ![p].st = "open", ![p].todo = @ - 1, ![p].prev = None,
                         ![p].rows = @ \cup {NewRow(p, a)}]
    /\ UNCHANGED <<key, rows, users, lock, alerts, history, deploys>>

Release(p) == [t \in Tenant |-> IF lock[t] = p THEN "free" ELSE lock[t]]

\* A deleted user's rows keep their place; their user_id becomes NULL.
Anonymize(S, victim) == {IF r.user = victim THEN [r EXCEPT !.user = "null"] ELSE r : r \in S}

\* Foreign keys: the row's user still exists, and a user's deletion waits for the
\* transactions that have referred to it.
Commit(p) ==
    /\ tx[p].st = "open" /\ tx[p].todo = 0 /\ tx[p].user \in users
    /\ tx[p].victim # "none" =>
        \A q \in Request \ {p} : tx[q] # Idle /\ tx[q].rows # {} => tx[q].user # tx[p].victim
    /\ rows' = Anonymize(rows \cup tx[p].rows, tx[p].victim)
    /\ users' = users \ {tx[p].victim}
    /\ removed' = (removed \/ \E r \in rows : r.user = tx[p].victim)
    /\ lock' = Release(p)
    /\ tx' = [tx EXCEPT ![p] = Idle]
    /\ UNCHANGED <<key, seq, alerts, tampered, ended, deploys>>

\* The handler raises after it has recorded, or a foreign key fails.
Rollback(p) ==
    /\ tx[p] # Idle
    /\ lock' = Release(p)
    /\ tx' = [tx EXCEPT ![p] = Idle]
    /\ UNCHANGED <<key, seq, rows, users, alerts, history, deploys>>

-----------------------------------------------------------------------------
(* Verification.                                                           *)

\* _run_once: the loop verifies a snapshot and opens an alert for every break,
\* again at every pass.
RunOnce ==
    /\ VerifyChain(rows) # {}
    /\ alerts' = alerts \cup {b[1] : b \in VerifyChain(rows)}
    /\ UNCHANGED <<key, seq, rows, users, lock, tx, history, deploys>>

-----------------------------------------------------------------------------
(* The environment.                                                        *)

\* A deployment sets or unsets the key; requests in flight die with the process.
Deploy ==
    /\ deploys < MaxDeploy
    /\ key' = ~key /\ deploys' = deploys + 1
    /\ tx' = [p \in Request |-> Idle] /\ lock' = [t \in Tenant |-> "free"]
    /\ UNCHANGED <<seq, rows, users, alerts, history>>

\* Someone with the owner's rights changes or deletes a chained row.
Tamper ==
    /\ Cardinality(tampered) < MaxTamper
    /\ \E r \in rows :
        /\ r.hmac # None /\ r.tenant \notin tampered
        /\ tampered' = tampered \cup {r.tenant}
        /\ \/ rows' = (rows \ {r}) \cup {[r EXCEPT !.action = "forged"]} /\ UNCHANGED ended
           \/ /\ rows' = rows \ {r}
              /\ ended' = IF r.hmac = HeadHmac(rows, r.tenant) THEN ended \cup {r.tenant} ELSE ended
    /\ UNCHANGED <<key, seq, users, lock, tx, alerts, removed, deploys>>

Next ==
    \/ \E p \in Request : Begin(p) \/ Lock(p) \/ ReadHead(p) \/ Record(p) \/ Commit(p) \/ Rollback(p)
    \/ RunOnce \/ Deploy \/ Tamper

Spec == Init /\ [][Next]_vars

-----------------------------------------------------------------------------
RowType(r) ==
    /\ r.seq \in 1 .. seq /\ r.tenant \in Tenant /\ r.action \in Action \cup {"forged"}
    /\ r.user \in User \cup {"null"}

\* Rows are well formed, their numbers distinct and the locks held by requests.
TypeOK ==
    /\ \A r \in rows : RowType(r)
    /\ \A r, s \in rows : r.seq = s.seq => r = s
    /\ \A t \in Tenant : lock[t] # "free" => tx[lock[t]] # Idle

\* Writers that race for a tenant's head never fork its chain: as long as nobody
\* edits the table or deletes a user, the verifier finds no break.
ChainIntact ==
    tampered = {} /\ ~removed => \A t \in Tenant : Breaks(rows, t) = {}

\* An edited row, and a deleted one that was not the last, show up as a break for
\* good, however many rows are appended later.
TamperEvident ==
    \A t \in tampered \ ended : Breaks(rows, t) # {}

\* The committed chained rows, with what each says was done, are a log that only
\* grows at its end (AppendLog).
Log == INSTANCE AppendLog WITH
    log <- [t \in Tenant |-> LET c == Chained(rows, t)
                             IN  [i \in DOMAIN c |-> <<c[i].seq, c[i].action>>]],
    breached <- tampered # {}

\* The audit log implements the append-only log of AppendLog.
AppendOnly == Log!Spec

-----------------------------------------------------------------------------
(* Claims of the comments and documents that the code does not keep.      *)

\* "A break means one of: a row was UPDATEd ... DELETEd ... INSERTed at the wrong
\* sequence position; the HMAC key was changed": a break is never the result of
\* the application's own requests.
BreakMeansTampering ==
    tampered = {} => \A t \in Tenant : Breaks(rows, t) = {}
=============================================================================
