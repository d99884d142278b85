----------------------------- MODULE Enrollment -----------------------------
(***************************************************************************)
(* How hosts come into being: enrollment tokens (api/enrollment.py,        *)
(* services/enrollment.py), the internal certificate authority             *)
(* (services/ca.py), the two enroll paths (REST and AgentService.Enroll),  *)
(* the start of the gRPC server with its certificate (grpc/server.py), the *)
(* host row's later life (api/hosts.py) and its TPM attestation            *)
(* (services/attestation.py, api/attestation.py).                          *)
(*                                                                         *)
(* An enrollment is one transaction of several statements; the requests    *)
(* and the server's start interleave, and each reads what the others have  *)
(* committed.                                                              *)
(***************************************************************************)
EXTENDS Naturals, Sequences, SequencesExt, FiniteSets, FiniteSetsExt

CONSTANTS
    Token, Tenant, HostId, Hostname,
    Request,        \* enroll requests in flight
    Ca,             \* names for generated authorities
    Pcrs,           \* PCR reports, as the manager normalises them
    Ttl,            \* ttl_hours of a token
    Window,         \* reenrollment_window_seconds
    MaxTime,        \* bound: the clock
    MaxReport,      \* bound: attestation reports and promotions
    MaxEdit         \* bound: host edits and server starts

Idle == [st |-> "idle"]
None == "none"

TokenType == [tenant : Tenant, expires_at : Nat, used : BOOLEAN, host : HostId \cup {None}]
HostType == [tenant : Tenant, hostname : Hostname, enrolled_at : Nat,
             status : {"pending", "online", "decommissioned"}, ca : Ca, token : Token]

VARIABLES
    now,
    tokens,     \* EnrollmentToken rows
    hosts,      \* Host rows, with the authority that signed their certificate
    authorities,    \* CertificateAuthority rows
    generated,  \* authorities whose key was ever generated
    disk,       \* the server certificate on disk: the authority that signed it
    server,     \* the gRPC server: "down", starting, or the authority it trusts
    tx,         \* tx[r]: the enroll transaction of request r
    alerts,     \* re-enrollment alerts: [tenant, new, prior]
    events, golden,     \* attestation reports in order, and baselines, by host
    edits, reports

vars == <<now, tokens, hosts, authorities, generated, disk, server, tx, alerts, events, golden, edits, reports>>
identity == <<authorities, generated, disk, server>>
attestation == <<events, golden, reports>>

Empty == [x \in {} |-> None]

Init ==
    /\ now = 0 /\ tokens = Empty /\ hosts = Empty
    /\ authorities = {} /\ generated = {} /\ disk = None /\ server = Idle
    /\ tx = [r \in Request |-> Idle] /\ alerts = {}
    /\ events = [h \in HostId |-> <<>>] /\ golden = Empty
    /\ edits = 0 /\ reports = 0

Put(f, k, v) == [x \in DOMAIN f \cup {k} |-> IF x = k THEN v ELSE f[x]]
Drop(f, k) == [x \in DOMAIN f \ {k} |-> f[x]]

Tick ==
    /\ now < MaxTime /\ now' = now + 1
    /\ UNCHANGED <<tokens, hosts, identity, tx, alerts, attestation, edits>>

-----------------------------------------------------------------------------
(* Tokens.                                                                 *)

Holds(r, t) == tx[r].st # "idle" /\ tx[r].token = t
Locked(t) == \E r \in Request : Holds(r, t)

\* An administrator mints for the own tenant, a super-administrator for any.
CreateToken(t) ==
    /\ t \notin DOMAIN tokens /\ \A h \in DOMAIN hosts : hosts[h].token # t
    /\ \E n \in Tenant : tokens' = Put(tokens, t, [tenant |-> n, expires_at |-> now + Ttl,
                                                   used |-> FALSE, host |-> None])
    /\ UNCHANGED <<now, hosts, identity, tx, alerts, attestation, edits>>

\* The delete waits for a transaction that has the row.
RevokeToken(t) ==
    /\ t \in DOMAIN tokens /\ ~Locked(t)
    /\ edits < MaxEdit /\ edits' = edits + 1
    /\ tokens' = Drop(tokens, t)
    /\ UNCHANGED <<now, hosts, identity, tx, alerts, attestation>>

-----------------------------------------------------------------------------
(* Enrollment.                                                             *)

Usable(t) == t \in DOMAIN tokens /\ ~tokens[t].used /\ tokens[t].expires_at > now

\* consume_token: one UPDATE ... WHERE used_at IS NULL.  It waits for a
\* transaction that wrote the row and then looks again, so of two requests with
\* one token the second sees what the first made of it.
ConsumeTokenReadFirst(r, t) == tx[r] = Idle /\ Usable(t)
ConsumeToken(r, t) == tx[r] = Idle /\ ~Locked(t) /\ Usable(t)

\* The host row is flushed and detect_reenrollment looks, among the committed
\* hosts, for the latest enrollment of that name within the window.
Prior(name) ==
    {h \in DOMAIN hosts : /\ hosts[h].hostname = name /\ hosts[h].status # "decommissioned"
                          /\ hosts[h].enrolled_at + Window >= now}

Latest(S) == CHOOSE h \in S : \A k \in S : hosts[k].enrolled_at <= hosts[h].enrolled_at

DetectReenrollment(new, name) ==
    IF Prior(name) = {} THEN {}
    ELSE LET prior == Latest(Prior(name))
         IN  {[tenant |-> hosts[prior].tenant, new |-> new, prior |-> prior]}

InFlight == {tx[q].host : q \in {q \in Request : tx[q].st # "idle"}}

\* The first statements of enroll and of _do_enroll.
BeginEnroll(r, t) ==
    /\ ConsumeToken(r, t)
    /\ \E h \in HostId \ (DOMAIN hosts \cup InFlight), name \in Hostname :
        tx' = [tx EXCEPT ![r] =
                  [st |-> "sign", token |-> t, host |-> h, at |-> now, ca |-> None, new |-> None,
                   row |-> [tenant |-> tokens[t].tenant, hostname |-> name],
                   alert |-> DetectReenrollment(h, name)]]
    /\ UNCHANGED <<now, tokens, hosts, identity, alerts, attestation, edits>>

\* get_or_bootstrap: a committed authority (the query takes any one), else a new
\* key is generated, its row part of the caller's transaction.
Bootstrap ==
    IF authorities # {} THEN {[ca |-> c, new |-> None] : c \in authorities}
    ELSE {[ca |-> c, new |-> c] : c \in Ca \ generated}

Generate(b) == generated' = generated \cup ({b.new} \ {None})

\* sign_csr with an acceptable request.
SignCsr(r) ==
    /\ tx[r].st = "sign"
    /\ \E b \in Bootstrap :
        Generate(b) /\ tx' = [tx EXCEPT ![r].st = "commit", ![r].ca = b.ca, ![r].new = b.new]
    /\ UNCHANGED <<now, tokens, hosts, authorities, disk, server, alerts, attestation, edits>>

\* A bad request, an unknown operating system or any error rolls back: the token
\* is as it was.
RollbackEnroll(r) ==
    /\ tx[r].st = "sign"
    /\ tx' = [tx EXCEPT ![r] = Idle]
    /\ UNCHANGED <<now, tokens, hosts, identity, alerts, attestation, edits>>

\* bind_token_to_host and the commit.
CommitEnroll(r) ==
    /\ tx[r].st = "commit"
    /\ LET x == tx[r]
       IN  /\ tokens' = [tokens EXCEPT ![x.token].used = TRUE, ![x.token].host = x.host]
           /\ hosts' = Put(hosts, x.host, [tenant |-> x.row.tenant, hostname |-> x.row.hostname,
                                           enrolled_at |-> x.at, status |-> "pending",
                                           ca |-> x.ca, token |-> x.token])
           /\ authorities' = authorities \cup ({x.new} \ {None})
           /\ alerts' = alerts \cup {a \in x.alert : a.prior \in DOMAIN hosts}
    /\ tx' = [tx EXCEPT ![r] = Idle]
    /\ UNCHANGED <<now, generated, disk, server, attestation, edits>>

-----------------------------------------------------------------------------
(* The gRPC server.                                                        *)

\* _server_credentials: get_or_issue_server_cert writes the files when there are
\* none, and the transaction with a new authority commits after that.
StartServer ==
    /\ server = Idle
    /\ edits < MaxEdit /\ edits' = edits + 1
    /\ \E b \in Bootstrap :
            /\ Generate(b)
            /\ server' = [st |-> "starting", ca |-> b.ca, new |-> b.new]
            /\ disk' = IF disk = None THEN b.ca ELSE disk
    /\ UNCHANGED <<now, tokens, hosts, authorities, tx, alerts, attestation>>

ServerUp ==
    /\ server.st = "starting"
    /\ authorities' = authorities \cup ({server.new} \ {None})
    /\ server' = [server EXCEPT !.st = "up"]
    /\ UNCHANGED <<now, tokens, hosts, generated, disk, tx, alerts, attestation, edits>>

\* A stop, or a crash before the commit.
StopServer ==
    /\ server # Idle /\ server' = Idle
    /\ UNCHANGED <<now, tokens, hosts, authorities, generated, disk, tx, alerts, attestation, edits>>

-----------------------------------------------------------------------------
(* The host afterwards.                                                    *)

\* A certificate of the trusted authority connects; PATCH sets the status.
Admitted(h) == server.st = "up" /\ hosts[h].ca = server.ca /\ hosts[h].status # "decommissioned"

Connect(h) ==
    /\ Admitted(h) /\ hosts[h].status = "pending"
    /\ hosts' = [hosts EXCEPT ![h].status = "online"]
    /\ UNCHANGED <<now, tokens, identity, tx, alerts, attestation, edits>>

UpdateHost(h) ==
    /\ edits < MaxEdit /\ edits' = edits + 1
    /\ hosts' = [hosts EXCEPT ![h].status = "decommissioned"]
    /\ UNCHANGED <<now, tokens, identity, tx, alerts, attestation>>

\* The rows that reference the host go with it, the token forgets it.
DeleteHost(h) ==
    /\ edits < MaxEdit /\ edits' = edits + 1
    /\ hosts' = Drop(hosts, h)
    /\ tokens' = [t \in DOMAIN tokens |->
                    IF tokens[t].host = h THEN [tokens[t] EXCEPT !.host = None] ELSE tokens[t]]
    /\ alerts' = {a \in alerts : a.new # h}
    /\ events' = [events EXCEPT ![h] = <<>>] /\ golden' = Drop(golden, h)
    /\ UNCHANGED <<now, identity, tx, reports>>

-----------------------------------------------------------------------------
(* Attestation.                                                            *)

\* compare_to_golden: nothing matches a baseline that is not there.
Matches(h, p) == h \in DOMAIN golden /\ golden[h] = p

\* _handle_tpm_attestation and record_event: the verdict is stored with the report,
\* and a divergence from a baseline raises an alert.
RecordEvent(h, p) ==
    /\ reports < MaxReport /\ reports' = reports + 1
    /\ Admitted(h)
    /\ events' = [events EXCEPT ![h] = Append(@, [pcrs |-> p, matches |-> Matches(h, p),
                                                  alerted |-> h \in DOMAIN golden /\ ~Matches(h, p)])]
    /\ UNCHANGED <<now, tokens, hosts, identity, tx, alerts, golden, edits>>

\* promote_attestation: the latest report becomes the baseline.
PromoteAttestation(h) ==
    /\ reports < MaxReport /\ reports' = reports + 1
    /\ events[h] # <<>>
    /\ golden' = Put(golden, h, Last(events[h]).pcrs)
    /\ UNCHANGED <<now, tokens, hosts, identity, tx, alerts, events, edits>>

\* _attestation_block: the status the host's page shows.
AttestationStatus(h) ==
    IF events[h] = <<>> THEN IF h \in DOMAIN golden THEN "unverified" ELSE "unknown"
    ELSE IF h \notin DOMAIN golden THEN "unverified"
    ELSE IF Last(events[h]).matches THEN "ok" ELSE "diverged"

Next ==
    \/ Tick \/ StartServer \/ ServerUp \/ StopServer
    \/ \E t \in Token : CreateToken(t) \/ RevokeToken(t)
    \/ \E r \in Request :
        SignCsr(r) \/ RollbackEnroll(r) \/ CommitEnroll(r) \/ \E t \in Token : BeginEnroll(r, t)
    \/ \E h \in DOMAIN hosts :
        \/ Connect(h) \/ UpdateHost(h) \/ DeleteHost(h) \/ PromoteAttestation(h)
        \/ \E p \in Pcrs : RecordEvent(h, p)

Spec == Init /\ [][Next]_vars

-----------------------------------------------------------------------------
\* Rows and transactions have their types.
TypeOK ==
    /\ \A t \in DOMAIN tokens : t \in Token /\ tokens[t] \in TokenType
    /\ \A h \in DOMAIN hosts : h \in HostId /\ hosts[h] \in HostType
    /\ authorities \subseteq generated /\ generated \subseteq Ca /\ disk \in generated \cup {None}

\* A token brings in at most one host, into the token's own tenant, and a token is
\* used up only by a host that was enrolled with it: a failed request gives it
\* back, and of two racing requests one is refused.
TokenBindsOne ==
    /\ \A h, k \in DOMAIN hosts : hosts[h].token = hosts[k].token => h = k
    /\ \A t \in DOMAIN tokens :
        /\ tokens[t].host # None =>
            /\ tokens[t].used /\ tokens[t].host \in DOMAIN hosts
            /\ hosts[tokens[t].host].token = t /\ hosts[tokens[t].host].tenant = tokens[t].tenant
        /\ \A h \in DOMAIN hosts : hosts[h].token = t => tokens[t].used

\* Every authority that signs is a committed row by the time its certificate is
\* handed out, so restarting the server can always bring it back.
CertBacked == \A h \in DOMAIN hosts : hosts[h].ca \in authorities

-----------------------------------------------------------------------------
(* Claims of the comments and documents that the code does not keep.      *)

\* "Singleton row holding the manager's internal CA."
SingletonCa == Cardinality(authorities) <= 1

\* "Latest event matches golden -> ok. Latest event differs from golden ->
\* diverged."
StatusComparesLatest ==
    \A h \in DOMAIN hosts :
        events[h] # <<>> /\ h \in DOMAIN golden =>
            (AttestationStatus(h) = "ok" <=> Last(events[h]).pcrs = golden[h])
=============================================================================
