---------------------------- MODULE AlertRouting ----------------------------
(***************************************************************************)
(* Alert notification: the router worker (workers/alert_router.py) polls   *)
(* the alert table by created_at and, for every alert, sends to the        *)
(* channels of the matching routing rules (services/routing.py);           *)
(* administrators edit channels (api/notifications.py) and rules           *)
(* (api/routing.py).                                                       *)
(*                                                                         *)
(* created_at is stamped when the row is inserted, so an alert becomes     *)
(* visible to the poll only later, at the commit of its producer.          *)
(***************************************************************************)
EXTENDS Naturals, Integers, Sequences, SequencesExt, FiniteSets

CONSTANTS
    Facts,          \* the alerts that may be raised: severity, kind, groups of the host
    RuleName, RuleBodies,       \* routing rules and the contents an administrator may save
    ChannelName, ChannelConfigs,\* channels and the contents: kind, valid, enabled, readable
    Backfill,       \* VIGIL_ALERT_ROUTER_BACKFILL_S
    Batch,          \* VIGIL_ALERT_ROUTER_BATCH
    RETRY_ATTEMPTS,
    MaxTime, MaxAlert, MaxFault, MaxEdit    \* bounds

VARIABLES
    now,
    pending,    \* alerts inserted and not yet committed
    alerts,     \* committed alerts: id, created_at, facts
    last_seen,  \* the router's high-water mark
    batch,      \* alerts of the poll still to be dispatched
    mark,       \* created_at of the poll's last row
    rules, channels,    \* rows by name
    dispatched, \* history: ids of the alerts dispatch_for_alert finished with
    sent,       \* history: <<alert id, channel>> of the posts an endpoint took
    unsure,     \* history: <<alert id, channel>> of the posts whose answer was lost
    late,       \* history: alerts committed with a created_at the mark had passed
    tied,       \* history: alerts that share created_at with the last row of a poll
                \* they were not in
    faults, edits

vars == <<now, pending, alerts, last_seen, batch, mark, rules, channels, dispatched, sent, unsure,
          late, tied, faults, edits>>
router == <<last_seen, batch, mark>>
config == <<rules, channels>>
history == <<dispatched, sent, unsure, late, tied>>

Init ==
    /\ now = 0
    /\ pending = {} /\ alerts = {}
    /\ last_seen = now - Backfill /\ batch = <<>> /\ mark = 0
    /\ rules = [r \in {} |-> {}] /\ channels = [c \in {} |-> {}]
    /\ dispatched = {} /\ sent = <<>> /\ unsure = {} /\ late = {} /\ tied = {}
    /\ faults = 0 /\ edits = 0

-----------------------------------------------------------------------------
(* Matching and sending.                                                   *)

\* matching_rules.
RuleMatches(r, f) ==
    /\ r.enabled
    /\ f.severity >= r.min_severity
    /\ r.rule_kind # "any" => f.kind = r.rule_kind
    /\ r.host_group # "any" => r.host_group \in f.groups
    /\ r.channel_ids # {}

MatchingRules(f) == {n \in DOMAIN rules : RuleMatches(rules[n], f)}

\* The channels to fire, each once however many of the rules list it; a channel
\* that is disabled or was deleted is skipped.
Targets(f) ==
    SetToSeq({c \in UNION {rules[n].channel_ids : n \in MatchingRules(f)} :
                c \in DOMAIN channels /\ channels[c].enabled})

\* What comes of a post to a channel of a kind: the endpoint takes it, takes it and the
\* answer is lost, or does not; SMTP errors are never permanent.
Answers(kind) == {"ok", "lost", "transient"} \cup (IF kind = "email" THEN {} ELSE {"permanent"})

\* _send_with_retry stops at a success, at a permanent failure, or after
\* RETRY_ATTEMPTS; a post whose answer was lost is tried again like any other.
SendWithRetry(kind) ==
    LET again == {"lost", "transient"}
        Heard(s) == {i \in DOMAIN s : s[i] \in {"ok", "lost"}}
    IN  {[heard |-> Cardinality(Heard(a)), unsure |-> "lost" \in Range(a)] :
            a \in {s \in SeqOf(Answers(kind), RETRY_ATTEMPTS) :
                     /\ s # <<>>
                     /\ \A i \in 1 .. Len(s) - 1 : s[i] \in again
                     /\ Last(s) \in again => Len(s) = RETRY_ATTEMPTS}}

\* _fire_one: a configuration that cannot be decrypted counts as a failure.
FireOne(c) ==
    IF channels[c].readable THEN SendWithRetry(channels[c].kind) ELSE {[heard |-> 0, unsure |-> FALSE]}

-----------------------------------------------------------------------------
(* Producers.                                                              *)

Tick == /\ now < MaxTime /\ now' = now + 1
        /\ UNCHANGED <<pending, alerts, router, config, history, faults, edits>>

InsertAlert ==
    /\ Cardinality(pending \cup alerts) < MaxAlert
    /\ \E f \in Facts :
        pending' = pending \cup {[id |-> Cardinality(pending \cup alerts), created_at |-> now, facts |-> f]}
    /\ UNCHANGED <<now, alerts, router, config, history, faults, edits>>

CommitAlert ==
    /\ \E a \in pending :
        /\ pending' = pending \ {a} /\ alerts' = alerts \cup {a}
        /\ late' = IF a.created_at <= (IF batch = <<>> THEN last_seen ELSE mark)
                   THEN late \cup {a.id} ELSE late
    /\ UNCHANGED <<now, router, config, dispatched, sent, unsure, tied, faults, edits>>

-----------------------------------------------------------------------------
(* The worker.                                                             *)

\* _tick_once selects the oldest Batch alerts newer than the mark.
Due == SetToSortSeq({a \in alerts : a.created_at > last_seen},
                    LAMBDA a, b : a.created_at < b.created_at
                                    \/ (a.created_at = b.created_at /\ a.id < b.id))

TickOnce ==
    /\ batch = <<>> /\ Due # <<>>
    /\ batch' = SubSeq(Due, 1, IF Len(Due) < Batch THEN Len(Due) ELSE Batch)
    /\ mark' = Last(batch').created_at
    /\ tied' = tied \cup {Due[i].id : i \in {j \in DOMAIN Due : j > Batch /\ Due[j].created_at = mark'}}
    /\ UNCHANGED <<now, pending, alerts, last_seen, config, dispatched, sent, unsure, late, faults, edits>>

\* dispatch_for_alert for the first alert of the batch; after the last one the
\* mark moves.
AdvanceToNow(b) == IF b = <<>> THEN now ELSE last_seen
Advance(b) == IF b = <<>> THEN mark ELSE last_seen

DispatchForAlert ==
    /\ batch # <<>>
    /\ LET a == Head(batch)
           ts == Targets(a.facts)
       IN  /\ \E out \in [DOMAIN ts -> UNION {FireOne(c) : c \in Range(ts)}] :
                /\ \A i \in DOMAIN ts : out[i] \in FireOne(ts[i])
                /\ sent' = sent \o FlattenSeq([i \in DOMAIN ts |->
                                                 [k \in 1 .. out[i].heard |-> <<a.id, ts[i]>>]])
                /\ unsure' = unsure \cup {<<a.id, ts[i]>> : i \in {j \in DOMAIN ts : out[j].unsure}}
           /\ dispatched' = dispatched \cup {a.id}
    /\ batch' = Tail(batch)
    /\ last_seen' = Advance(Tail(batch))
    /\ UNCHANGED <<now, pending, alerts, mark, config, late, tied, faults, edits>>

\* dispatch_for_alert raises (a database error): the poll is abandoned and its
\* mark with it.
DispatchCrashes ==
    /\ batch # <<>> /\ faults < MaxFault
    /\ batch' = <<>> /\ faults' = faults + 1
    /\ UNCHANGED <<now, pending, alerts, last_seen, mark, config, history, edits>>

\* A restart: start() puts the mark Backfill seconds into the past.
Start ==
    /\ faults < MaxFault
    /\ last_seen' = now - Backfill /\ batch' = <<>> /\ faults' = faults + 1
    /\ late' = late \cup {a.id : a \in {x \in alerts : x.created_at <= now - Backfill}}
    /\ UNCHANGED <<now, pending, alerts, mark, config, dispatched, sent, unsure, tied, edits>>

-----------------------------------------------------------------------------
(* Administrators' requests, each one transaction.                         *)

Edit == edits < MaxEdit /\ edits' = edits + 1
        /\ UNCHANGED <<now, pending, alerts, router, history, faults>>

Put(f, k, v) == [x \in DOMAIN f \cup {k} |-> IF x = k THEN v ELSE f[x]]
Drop(f, k) == [x \in DOMAIN f \ {k} |-> f[x]]

\* validate_config.
ValidateConfig(c) == c.valid

CreateChannel(n) ==
    /\ Edit /\ n \notin DOMAIN channels
    /\ \E c \in ChannelConfigs : ValidateConfig(c) /\ channels' = Put(channels, n, c)
    /\ UNCHANGED rules

\* A new configuration is validated against the row's kind, which cannot change.
UpdateChannel(n) ==
    /\ Edit /\ n \in DOMAIN channels
    /\ \E c \in ChannelConfigs :
        /\ ValidateConfig(c) /\ c.kind = channels[n].kind
        /\ channels' = Put(channels, n, c)
    /\ UNCHANGED rules

\* The rules that list the channel keep its id.
DeleteChannel(n) ==
    Edit /\ n \in DOMAIN channels /\ channels' = Drop(channels, n) /\ UNCHANGED rules

\* _validate_refs: the channels of a rule exist when it is saved.
ValidateRefs(r) == r.channel_ids \subseteq DOMAIN channels

CreateRule(n) ==
    /\ Edit /\ n \notin DOMAIN rules
    /\ \E r \in RuleBodies : ValidateRefs(r) /\ rules' = Put(rules, n, r)
    /\ UNCHANGED channels

UpdateRule(n) ==
    /\ Edit /\ n \in DOMAIN rules
    /\ \E r \in RuleBodies : ValidateRefs(r) /\ rules' = Put(rules, n, r)
    /\ UNCHANGED channels

DeleteRule(n) ==
    Edit /\ n \in DOMAIN rules /\ rules' = Drop(rules, n) /\ UNCHANGED channels

Next ==
    \/ Tick \/ InsertAlert \/ CommitAlert
    \/ TickOnce \/ DispatchForAlert \/ DispatchCrashes \/ Start
    \/ \E n \in ChannelName : CreateChannel(n) \/ UpdateChannel(n) \/ DeleteChannel(n)
    \/ \E n \in RuleName : CreateRule(n) \/ UpdateRule(n) \/ DeleteRule(n)

Spec == Init /\ [][Next]_vars

-----------------------------------------------------------------------------
AlertType == [id : Nat, created_at : Nat, facts : Facts]

\* Rows, mark and batch have their types.
TypeOK ==
    /\ last_seen \in -Backfill .. MaxTime
    /\ alerts \subseteq AlertType /\ pending \subseteq AlertType /\ batch \in Seq(AlertType)
    /\ \A n \in DOMAIN rules : rules[n] \in RuleBodies
    /\ \A n \in DOMAIN channels : channels[n] \in ChannelConfigs

\* The mark passes no alert by: every committed alert at or below it was
\* dispatched, except one that its producer committed after the mark had passed
\* its created_at (or that a restart left outside the backfill) and one that
\* ties with the last row of a full poll.
MarkPassesNone ==
    \A a \in alerts :
        a.created_at <= last_seen /\ a.id \notin late \cup tied => a.id \in dispatched

\* Unless a poll failed or the worker restarted, a channel hears of an alert at
\* most once, however many rules lead to it and however often the post is tried
\* again, except where the endpoint took it and the answer was lost ("if our retry
\* path ever double-posts").
OncePerChannel ==
    faults = 0 => \A i, j \in DOMAIN sent : sent[i] = sent[j] => i = j \/ sent[i] \in unsure

-----------------------------------------------------------------------------
(* Claims of the comments and documents that the code does not keep.      *)

\* "For every newly-inserted Alert, look up matching RoutingRule rows and fire
\* the channels they list".
EveryAlertRouted ==
    \A a \in alerts : faults = 0 /\ a.created_at <= last_seen => a.id \in dispatched
=============================================================================
