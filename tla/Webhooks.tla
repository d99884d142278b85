------------------------------ MODULE Webhooks ------------------------------
(***************************************************************************)
(* Outgoing webhooks: producers publish to the bus (services/event_bus.py),*)
(* the dispatcher worker (workers/webhook_dispatcher.py) posts every event *)
(* to the matching subscriptions (services/webhook_dispatcher.py) and      *)
(* disables the ones that keep failing, and administrators create, edit,   *)
(* test, rotate and delete subscriptions (api/webhooks.py).                *)
(*                                                                         *)
(* Worker and requests each load rows, change the objects for as long as   *)
(* the POSTs take, and write back the attributes they changed.             *)
(***************************************************************************)
EXTENDS Naturals, Sequences, SequencesExt, FiniteSets, FiniteSetsExt

CONSTANTS
    Sub,            \* subscription ids
    EventTypes,     \* WEBHOOK_EVENT_TYPES
    Admin,          \* administrators' requests
    RetryMax,       \* webhook_retry_max
    Threshold,      \* webhook_failure_threshold
    MaxEvent,       \* bound: events published
    MaxFault,       \* bound: crashes and key rotations
    MaxEdit         \* bound: requests

Idle == [st |-> "idle"]

\* A subscription row; "secret" says whether the current key decrypts it.
SubscriptionType ==
    [event_types : SUBSET EventTypes, enabled : BOOLEAN, failure_count : Nat,
     secret : {"good", "stale"}]

DeliveryType == [sub : Sub, status : {"delivered", "failed"}]

VARIABLES
    topic,      \* the bus: an event type, or "malformed"
    position, committed,    \* the worker's consumer
    work,       \* the dispatch in hand
    subs,       \* subscription rows by id
    created,    \* the ids ever given out
    deliveries, \* committed delivery rows
    request,    \* request[a]: the administrator's request in flight
    passed,     \* history: offsets whose dispatch raised
    streak,     \* history: failed deliveries since the last success or re-enabling
    snatched,   \* history: subscriptions disabled although streak was short
    faults, edits

vars == <<topic, position, committed, work, subs, created, deliveries, request, passed, streak,
          snatched, faults, edits>>
consumer == <<position, committed>>
history == <<passed, streak, snatched>>

Init ==
    /\ topic = <<>> /\ position = 0 /\ committed = 0
    /\ work = Idle
    /\ subs = [s \in {} |-> {}] /\ created = {}
    /\ deliveries = <<>>
    /\ request = [a \in Admin |-> Idle]
    /\ passed = {} /\ streak = [s \in Sub |-> 0] /\ snatched = {}
    /\ faults = 0 /\ edits = 0

-----------------------------------------------------------------------------
(* Delivery of one event to one subscription.                              *)

\* _post_with_retries: the answers of the attempts, in order.  A 2xx or a 4xx
\* ends the attempts, a 5xx or a transport error is tried again.
Answers ==
    {r \in SeqOf({"2xx", "4xx", "5xx"}, RetryMax + 1) :
        /\ r # <<>>
        /\ \A i \in 1 .. Len(r) - 1 : r[i] = "5xx"
        /\ Last(r) = "5xx" => Len(r) = RetryMax + 1}

\* deliver: the row it returns, and the subscription object it leaves behind.
DeliverPerAttempt(obj, answers) ==
    IF Last(answers) = "2xx"
    THEN [obj EXCEPT !.failure_count = 0]
    ELSE LET n == obj.failure_count + Len(answers)
         IN  [obj EXCEPT !.failure_count = n, !.enabled = @ /\ n < Threshold]

Deliver(obj, answers) ==
    IF Last(answers) = "2xx"
    THEN [obj EXCEPT !.failure_count = 0]
    ELSE LET n == obj.failure_count + 1
         IN  [obj EXCEPT !.failure_count = n, !.enabled = @ /\ n < Threshold]

Delivery(s, answers) ==
    [sub |-> s, status |-> IF Last(answers) = "2xx" THEN "delivered" ELSE "failed"]

\* Write back, on commit, what changed since the object was loaded.
Flush(row, was, is) ==
    [f \in DOMAIN row |-> IF is[f] # was[f] THEN is[f] ELSE row[f]]

\* The streaks after the deliveries of a transaction are committed.
StreakAfter(rows) ==
    FoldLeft(LAMBDA st, d : [st EXCEPT ![d.sub] = IF d.status = "failed" THEN @ + 1 ELSE 0],
             streak, rows)

DisabledShort(was, is, rows) ==
    {s \in DOMAIN was : was[s].enabled /\ ~is[s].enabled /\ StreakAfter(rows)[s] < Threshold}

-----------------------------------------------------------------------------
(* The worker.                                                             *)

\* publish_event: best effort, so an event may also never reach the bus.
PublishEvent ==
    /\ Len(topic) < MaxEvent
    /\ \E e \in EventTypes \cup {"malformed"} : topic' = Append(topic, e)
    /\ UNCHANGED <<consumer, work, subs, created, deliveries, request, history, faults, edits>>

\* _matching_subscriptions: enabled, and subscribed to the event's type.
MatchingSubscriptions(e) == {s \in DOMAIN subs : subs[s].enabled /\ e \in subs[s].event_types}

\* _consume: the next message; one that does not decode is skipped without a commit.
Fetch ==
    /\ work = Idle /\ position < Len(topic)
    /\ position' = position + 1
    /\ LET e == topic[position + 1]
           m == MatchingSubscriptions(e)
       IN  work' = IF e = "malformed" THEN Idle
                   ELSE [st |-> "post", todo |-> m, was |-> [s \in m |-> subs[s]],
                         is |-> [s \in m |-> subs[s]], rows |-> <<>>]
    /\ UNCHANGED <<topic, committed, subs, created, deliveries, request, history, faults, edits>>

\* One turn of dispatch_event's loop.
PostOne ==
    /\ work.st = "post" /\ work.todo # {}
    /\ \E s \in work.todo, r \in Answers :
        /\ work.is[s].secret = "good"
        /\ work' = [work EXCEPT !.todo = @ \ {s},
                                !.is[s] = Deliver(@, r),
                                !.rows = Append(@, Delivery(s, r))]
    /\ UNCHANGED <<topic, consumer, subs, created, deliveries, request, history, faults, edits>>

\* dispatch_event raises: decrypt_secret rejects a subscription's secret, or the
\* commit meets a subscription that was deleted.  Every row of the event is
\* rolled back and the loop continues with the next message.
DispatchRaises ==
    /\ work.st = "post"
    /\ \/ \E s \in work.todo : work.is[s].secret = "stale"
       \/ work.todo = {} /\ ~(DOMAIN work.was \subseteq DOMAIN subs)
    /\ passed' = passed \cup {position}
    /\ work' = Idle
    /\ UNCHANGED <<topic, consumer, subs, created, deliveries, request, streak, snatched, faults, edits>>

\* The transaction commits and then the offset.
DispatchCommits ==
    /\ work.st = "post" /\ work.todo = {} /\ DOMAIN work.was \subseteq DOMAIN subs
    /\ subs' = [s \in DOMAIN subs |->
                    IF s \in DOMAIN work.was THEN Flush(subs[s], work.was[s], work.is[s]) ELSE subs[s]]
    /\ deliveries' = deliveries \o work.rows
    /\ streak' = StreakAfter(work.rows)
    /\ snatched' = snatched \cup DisabledShort(work.was, work.is, work.rows)
    /\ work' = [st |-> "ack"]
    /\ UNCHANGED <<topic, consumer, created, request, passed, faults, edits>>

CommitOffset ==
    /\ work.st = "ack"
    /\ committed' = position
    /\ work' = Idle
    /\ UNCHANGED <<topic, position, subs, created, deliveries, request, history, faults, edits>>

\* run_forever, again, after a crash anywhere: at the stored offset, or, before the
\* group's first commit, at the end of the topic (auto_offset_reset="latest").
Restart ==
    /\ faults < MaxFault
    /\ position' = IF committed = 0 THEN Len(topic) ELSE committed
    /\ work' = Idle /\ faults' = faults + 1
    /\ UNCHANGED <<topic, committed, subs, created, deliveries, request, history, edits>>

\* The deployment changes the key that encrypts secrets.
RotateKey ==
    /\ faults < MaxFault
    /\ subs' = [s \in DOMAIN subs |-> [subs[s] EXCEPT !.secret = "stale"]]
    /\ faults' = faults + 1
    /\ UNCHANGED <<topic, consumer, work, created, deliveries, request, history, edits>>

-----------------------------------------------------------------------------
(* Administrators' requests.                                               *)

Edit == edits < MaxEdit /\ edits' = edits + 1

CreateSubscription(a, s) ==
    /\ Edit /\ request[a] = Idle /\ s \notin created
    /\ created' = created \cup {s}
    /\ \E types \in SUBSET EventTypes \ {{}}, on \in BOOLEAN :
        subs' = [x \in DOMAIN subs \cup {s} |->
                    IF x = s THEN [event_types |-> types, enabled |-> on,
                                   failure_count |-> 0, secret |-> "good"]
                    ELSE subs[x]]
    /\ streak' = [streak EXCEPT ![s] = 0]
    /\ UNCHANGED <<topic, consumer, work, deliveries, request, passed, snatched, faults>>

\* A request that loads a row and holds the changed object until its commit.
Hold(a, s, is, rows) ==
    /\ Edit /\ request[a] = Idle
    /\ request' = [request EXCEPT ![a] = [st |-> "held", sub |-> s, was |-> subs[s], is |-> is, rows |-> rows]]
    /\ UNCHANGED <<topic, consumer, work, subs, created, deliveries, history, faults>>

\* PATCH of "enabled": re-enabling resets the failure counter.
UpdateSubscription(a, s) ==
    \E on \in BOOLEAN :
        Hold(a, s, [subs[s] EXCEPT !.enabled = on,
                                   !.failure_count = IF on /\ ~subs[s].enabled THEN 0 ELSE @], <<>>)

\* POST test: delivers to the subscription whether it is enabled or not.
TestSubscription(a, s) ==
    /\ subs[s].secret = "good"
    /\ \E r \in Answers : Hold(a, s, Deliver(subs[s], r), <<Delivery(s, r)>>)

RotateSecret(a, s) == Hold(a, s, [subs[s] EXCEPT !.secret = "good"], <<>>)

\* The session commits after the handler; a row deleted meanwhile fails it.
CommitRequest(a) ==
    /\ request[a] # Idle
    /\ LET q == request[a]
       IN  IF q.sub \in DOMAIN subs
           THEN /\ subs' = [subs EXCEPT ![q.sub] = Flush(@, q.was, q.is)]
                /\ deliveries' = deliveries \o q.rows
                /\ streak' = [StreakAfter(q.rows) EXCEPT
                                 ![q.sub] = IF q.is.enabled /\ ~q.was.enabled THEN 0 ELSE @]
           ELSE UNCHANGED <<subs, deliveries, streak>>
    /\ request' = [request EXCEPT ![a] = Idle]
    /\ UNCHANGED <<topic, consumer, work, created, passed, snatched, faults, edits>>

\* The delivery rows go with the subscription.
DeleteSubscription(a, s) ==
    /\ Edit /\ request[a] = Idle
    /\ subs' = [x \in DOMAIN subs \ {s} |-> subs[x]]
    /\ deliveries' = SelectSeq(deliveries, LAMBDA d : d.sub # s)
    /\ UNCHANGED <<topic, consumer, work, created, request, history, faults>>

Next ==
    \/ PublishEvent \/ Fetch \/ PostOne \/ DispatchRaises \/ DispatchCommits \/ CommitOffset
    \/ Restart \/ RotateKey
    \/ \E a \in Admin :
        \/ CommitRequest(a)
        \/ \E s \in Sub : CreateSubscription(a, s)
        \/ \E s \in DOMAIN subs :
            UpdateSubscription(a, s) \/ TestSubscription(a, s) \/ RotateSecret(a, s)
                \/ DeleteSubscription(a, s)

Spec == Init /\ [][Next]_vars

-----------------------------------------------------------------------------
\* The rows, the consumer and the requests have their types.
TypeOK ==
    /\ committed <= position /\ position <= Len(topic)
    /\ DOMAIN subs \subseteq created /\ created \subseteq Sub /\ \A s \in DOMAIN subs : subs[s] \in SubscriptionType
    /\ deliveries \in Seq(DeliveryType)
    /\ \A a \in Admin : request[a] # Idle => request[a].was \in SubscriptionType

\* A subscription's failure counter never exceeds the failed deliveries on record
\* for it: the counter and the row are written in one transaction, whatever
\* stale objects the worker and the requests write back, so auto-disabling
\* is always backed by that many recorded failures.
CountBacked ==
    \A s \in DOMAIN subs :
        subs[s].failure_count <=
            Cardinality({i \in DOMAIN deliveries : deliveries[i] = [sub |-> s, status |-> "failed"]})

-----------------------------------------------------------------------------
(* Claims of the comments and documents that the code does not keep.      *)

\* "Operators don't expect a subscription they just re-enabled to instantly
\* auto-disable again": the dispatcher disables a subscription only after
\* Threshold failed deliveries since it was re-enabled or last succeeded.
CleanSlate == snatched = {}
=============================================================================
