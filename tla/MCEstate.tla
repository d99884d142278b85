----------------------------- MODULE MCEstate -------------------------------
(***************************************************************************)
(* Who and what the manager trusts and keeps, one component at a time as   *)
(* in MCDetection: sign-in, accounts and tenants, enrollment and           *)
(* attestation, the limit on requests, the policies pushed to endpoints,   *)
(* hunts, the archive, and the watch over the fleet. v1, v2, ... hold the  *)
(* variables of the component in focus in the order its module declares    *)
(* them.                                                                   *)
(***************************************************************************)
EXTENDS Naturals, Sequences, TLC

VARIABLES
    focus,      \* the component that steps; it never changes
    v1, v2, v3, v4, v5, v6, v7, v8, v9, v10, v11, v12, v13, v14, v15, v16

vars == <<focus, v1, v2, v3, v4, v5, v6, v7, v8, v9, v10, v11, v12, v13, v14, v15, v16>>

\* The variables after the n-th, which the component in focus does not have.
Clear(n) ==
    /\ IF n < 8 THEN v8 = 0 ELSE TRUE
    /\ IF n < 9 THEN v9 = 0 ELSE TRUE
    /\ IF n < 10 THEN v10 = 0 ELSE TRUE
    /\ IF n < 11 THEN v11 = 0 ELSE TRUE
    /\ IF n < 12 THEN v12 = 0 ELSE TRUE
    /\ IF n < 13 THEN v13 = 0 ELSE TRUE
    /\ IF n < 14 THEN v14 = 0 ELSE TRUE
    /\ IF n < 15 THEN v15 = 0 ELSE TRUE
    /\ IF n < 16 THEN v16 = 0 ELSE TRUE

Keep(n) ==
    /\ UNCHANGED focus
    /\ IF n < 8 THEN UNCHANGED v8 ELSE TRUE
    /\ IF n < 9 THEN UNCHANGED v9 ELSE TRUE
    /\ IF n < 10 THEN UNCHANGED v10 ELSE TRUE
    /\ IF n < 11 THEN UNCHANGED v11 ELSE TRUE
    /\ IF n < 12 THEN UNCHANGED v12 ELSE TRUE
    /\ IF n < 13 THEN UNCHANGED v13 ELSE TRUE
    /\ IF n < 14 THEN UNCHANGED v14 ELSE TRUE
    /\ IF n < 15 THEN UNCHANGED v15 ELSE TRUE
    /\ IF n < 16 THEN UNCHANGED v16 ELSE TRUE

-----------------------------------------------------------------------------
\* A viewer on two workstations, and a caller whose token does not decode.
Callers == {[bearer |-> "jwt", role |-> "viewer", sub |-> "u", ip |-> x] : x \in {"w1", "w2"}}
           \cup {[bearer |-> "bad", role |-> "", sub |-> "", ip |-> "w1"]}
Limits == "viewer" :> 2 @@ "anon" :> 1 @@ "api_token" :> 1

\* Tenants t and n, with hosts h and k; an analyst, an administrator and one of all tenants.
TenantOf == "ad" :> "t" @@ "an" :> "t" @@ "su" :> "t" @@ "h" :> "t" @@ "k" :> "n"
Groups == "ad" :> {} @@ "an" :> {"h"} @@ "su" :> {}
HostOf == "e" :> "h" @@ "f" :> "k"

\* 0 * 1 * 6, and a string that is refused; of the minutes, three at ten
\* o'clock: of the first of a month, of a Saturday and of another day.
Chunk(a, b) == {[any |-> FALSE, a |-> a, b |-> b, step |-> 0]}
Every == {[any |-> TRUE, a |-> 0, b |-> 0, step |-> 0]}
Cron == "c" :> [minute |-> Chunk(0, 0), hour |-> Every, dom |-> Chunk(1, 1), month |-> Every, dow |-> Chunk(6, 6)]
        @@ "x" :> [minute |-> Chunk(50, 60), hour |-> Every, dom |-> Every, month |-> Every, dow |-> Every]
When == 0 :> [minute |-> 0, hour |-> 10, day |-> 1, month |-> 1, weekday |-> 3]
        @@ 1 :> [minute |-> 0, hour |-> 10, day |-> 3, month |-> 1, weekday |-> 5]
        @@ 2 :> [minute |-> 0, hour |-> 10, day |-> 4, month |-> 1, weekday |-> 6]

-----------------------------------------------------------------------------
SignIn == INSTANCE Login WITH
    Request <- {"p", "q"}, Limit <- 2, Window <- 1, Code <- {"c"}, Secret <- {"s"},
    MaxTime <- 2, MaxRequest <- 5,
    now <- v1, user <- v2, fails <- v3, req <- v4, mfa <- v5, sessions <- v6, guesses <- v7,
    made <- v8

Directory == INSTANCE Accounts WITH
    Tenant <- {"t0", "t1", "t2"}, Default <- "t0", Uid <- {"u0", "u1"}, Root <- "u0",
    Role <- {"admin", "viewer"}, Email <- {"e0", "e1"}, RootEmail <- "e0", Ext <- {"x"},
    Group <- {"h"}, GroupTenant <- "h" :> "t1", Request <- {"p", "q"}, Seeded <- {"t1"},
    Scim <- TRUE, MaxRequest <- 3,
    users <- v1, tenants <- v2, scim <- v3, tokens <- v4, audited <- v5, req <- v6, made <- v7

Registry == INSTANCE Enrollment WITH
    Token <- {"t1"}, Tenant <- {"n1", "n2"}, HostId <- {"h1", "h2"}, Hostname <- {"a"},
    Request <- {"p", "q"}, Ca <- {"c1", "c2"}, Pcrs <- {"x", "y"}, Ttl <- 2, Window <- 1,
    MaxTime <- 2, MaxReport <- 3, MaxEdit <- 2,
    now <- v1, tokens <- v2, hosts <- v3, authorities <- v4, generated <- v5, disk <- v6,
    server <- v7, tx <- v8, alerts <- v9, events <- v10, golden <- v11, edits <- v12,
    reports <- v13

Policies == INSTANCE EndpointPolicy WITH
    Host <- {"h"}, Group <- {"g"}, Domain <- {"d"}, Policy <- {"p", "q"}, DeviceKind <- {"u", "v"},
    Binary <- {"x"}, Request <- {"r1", "r2"}, MaxPending <- 1, MaxEdit <- 3,
    db <- v1, reqs <- v2, queue <- v3, agent <- v4, pending <- v5, learner <- v6, edits <- v7,
    excused <- v8

Limiter == INSTANCE RateLimit WITH
    Caller <- Callers, Limits <- Limits, Window <- 2, GcInterval <- 2, Call <- {"x", "y"},
    Lead <- 1, MaxTime <- 3, MaxRequest <- 4,
    now <- v1, store <- v2, buckets <- v3, lastGc <- v4, counters <- v5, calls <- v6,
    served <- v7, made <- v8, stray <- v9

Freezer == INSTANCE Archive WITH
    Index <- {"i", "j"}, Pages <- [i \in {"i", "j"} |-> <<{"d"}, {"e"}>>],
    Request <- {"p", "q"}, MaxPass <- 2, MaxRequest <- 2, MaxFault <- 2,
    index <- v1, blob <- v2, target <- v3, jobs <- v4, pass <- v5, reqs <- v6, npass <- v7,
    nreq <- v8, faults <- v9, orphans <- v10, raced <- v11, partial <- v12,
    short <- v13

Schedule == INSTANCE Hunts WITH
    Hunt <- {"a"}, Host <- {"h"}, Tenant <- {"t", "n"}, DefaultTenant <- "n", User <- {"su"},
    Admin <- {"ad", "su"}, Super <- {"su"}, TenantOf <- TenantOf, Groups <- Groups, Event <- {"e"}, HostOf <- HostOf,
    Matches <- "q" :> {"e"}, Cron <- Cron, When <- When, Scope <- {}, Request <- {"r"},
    PerMinute <- 2, Interval <- 1, MaxTime <- 4, MaxEdit <- 2, MaxFault <- 1,
    now <- v1, wake <- v2, hunts <- v3, hosts <- v4, index <- v5, pass <- v6, runs <- v7,
    alerts <- v8, reqs <- v9, edits <- v10, faults <- v11, since <- v12, seen <- v13,
    raced <- v14, lost <- v15, slow <- v16

Workbench == INSTANCE Hunts WITH
    Hunt <- {"a"}, Host <- {"h", "k"}, Tenant <- {"t", "n"}, DefaultTenant <- "n", User <- {"ad", "an"},
    Admin <- {"ad", "su"}, Super <- {"su"}, TenantOf <- TenantOf, Groups <- Groups,
    Event <- {"e", "f"}, HostOf <- HostOf, Matches <- "q" :> {"e", "f"} @@ "s" :> {"e"},
    Cron <- Cron, When <- When, Scope <- {{"h"}}, Request <- {"r", "s"}, PerMinute <- 2,
    Interval <- 1, MaxTime <- 0, MaxEdit <- 3, MaxFault <- 0,
    now <- v1, wake <- v2, hunts <- v3, hosts <- v4, index <- v5, pass <- v6, runs <- v7,
    alerts <- v8, reqs <- v9, edits <- v10, faults <- v11, since <- v12, seen <- v13,
    raced <- v14, lost <- v15, slow <- v16

Watch == INSTANCE FleetWatch WITH
    Host <- {"h"}, Threshold <- 1, Grace <- 1, Default <- 2, Intervals <- {0, 1}, MaxTime <- 5,
    MaxFault <- 1, MaxEdit <- 2,
    now <- v1, hosts <- v2, policy <- v3, silence <- v4, open <- v5, alerts <- v6,
    sweeper <- v7, sweeps <- v8, faults <- v9, edits <- v10, lost <- v11

-----------------------------------------------------------------------------
Init ==
    \/ focus = "login" /\ SignIn!Init /\ Clear(8)
    \/ focus = "accounts" /\ Directory!Init /\ Clear(7)
    \/ focus = "enrollment" /\ Registry!Init /\ Clear(13)
    \/ focus = "endpoint_policy" /\ Policies!Init /\ Clear(8)
    \/ focus = "rate_limit" /\ Limiter!Init /\ Clear(9)
    \/ focus = "archive" /\ Freezer!Init /\ Clear(13)
    \/ focus = "hunt_schedule" /\ Schedule!Init /\ Clear(16)
    \/ focus = "hunt_requests" /\ Workbench!Init /\ Clear(16)
    \/ focus = "fleet_watch" /\ Watch!Init /\ Clear(11)

Next ==
    \/ focus = "login" /\ SignIn!Next /\ Keep(8)
    \/ focus = "accounts" /\ Directory!Next /\ Keep(7)
    \/ focus = "enrollment" /\ Registry!Next /\ Keep(13)
    \/ focus = "endpoint_policy" /\ Policies!Next /\ Keep(8)
    \/ focus = "rate_limit" /\ Limiter!Next /\ Keep(9)
    \/ focus = "archive" /\ Freezer!Next /\ Keep(13)
    \/ focus = "hunt_schedule" /\ Schedule!Next /\ Keep(16)
    \/ focus = "hunt_requests" /\ Workbench!Next /\ Keep(16)
    \/ focus = "fleet_watch" /\ Watch!Next /\ Keep(11)

Spec == Init /\ [][Next]_vars

-----------------------------------------------------------------------------
\* The type invariant of the component in focus.
TypeOK ==
    CASE focus = "login" -> SignIn!TypeOK
      [] focus = "accounts" -> Directory!TypeOK
      [] focus = "enrollment" -> Registry!TypeOK
      [] focus = "endpoint_policy" -> Policies!TypeOK
      [] focus = "rate_limit" -> Limiter!TypeOK
      [] focus = "archive" -> Freezer!TypeOK
      [] focus = "hunt_schedule" -> Schedule!TypeOK
      [] focus = "hunt_requests" -> Workbench!TypeOK
      [] focus = "fleet_watch" -> Watch!TypeOK

\* What lets someone in is bounded: wrong passwords by the throttle, also of
\* requests in flight, requests by the limit of their identity, hosts by one per
\* enrollment token; an account that asks for a second factor has the secret to
\* check it with, and a hunt shows and does what its asker may.
AccessBounded ==
    /\ focus = "login" => SignIn!ThrottleBound /\ SignIn!EnabledHasSecret
    /\ focus = "enrollment" => Registry!TokenBindsOne /\ Registry!CertBacked
    /\ focus = "rate_limit" => Limiter!WindowExact /\ Limiter!MinuteBounded
    /\ focus = "hunt_requests" => Workbench!SideEffectsApproved /\ Workbench!ResultsConfined

\* Copies are true to what they copy: once its queue is empty an endpoint has the
\* policies of its groups, and an index is closed for its archived copy, and served
\* from it, only when that is complete.
CopiesTrue ==
    /\ focus = "endpoint_policy" => Policies!AgentMirrors
    /\ focus = "archive" => Freezer!FrozenHasBlob /\ Freezer!ClosedIsListed /\ Freezer!RehydratedServes

\* Periodic work is done when it is due and not twice: a silent host is alerted on in
\* the tick that finds it, every time it goes silent, sweeps keep their distance, and
\* a hunt runs once in each minute its schedule names.
SchedulesKept ==
    /\ focus = "fleet_watch" => Watch!SilenceCaught /\ Watch!SweepsSpaced
    /\ focus = "hunt_schedule" => Schedule!MinuteFired /\ Schedule!OncePerMinute

\* No request reaches across tenants, and only a race of two removes a tenant's
\* last administrator.
AccountsGuarded ==
    [][focus = "accounts" => Directory!TenantIsolation /\ Directory!AdminsVanishByRace]_vars
=============================================================================
