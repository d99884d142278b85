----------------------------- MODULE EndpointPolicy -----------------------------
(***************************************************************************)
(* Prevention policies of host groups: the DNS block list, USB device      *)
(* policies and the application allow list (api/dns_block.py,              *)
(* api/device_policies.py, api/allowlist.py and their services).  Every    *)
(* edit queues, in its own transaction, a command per affected host with   *)
(* the whole new state, which the agent puts in place of the old one.      *)
(* Membership of the groups changes (api/host_groups.py), and the learner  *)
(* (workers/allowlist_learner.py) adds to the allow list by itself.        *)
(*                                                                         *)
(* A request reads what it pushes before it commits: of two that overlap,  *)
(* neither push holds the other's change.  (The audit chain's lock, taken  *)
(* after the push by the allow list and only where a key is configured,    *)
(* narrows this and does not close it.)  Host holds the hosts that are not *)
(* decommissioned.                                                         *)
(***************************************************************************)
EXTENDS Naturals, FiniteSets, Sequences, SequencesExt

CONSTANTS
    Host, Group, Domain, Policy, DeviceKind, Binary,
    Request,
    MaxPending,     \* _PENDING's maxlen
    MaxEdit         \* bound: requests, edits and failures

VARIABLES
    db,         \* [member, dns, dev, mode, allow]: the committed rows
    reqs,       \* reqs[r]: an open request [op, kind, push, stale]
    queue,      \* queue[h]: sync commands not yet applied
    agent,      \* agent[h]: [dns, dev, mode, hashes] in force; dev is the one udev rule file
    pending,    \* observations staged for the learner: <<host, binary>>
    learner,    \* the learner's transaction
    edits,
    excused     \* history: <<h, kind>> out of step by a race, a move, a lost command or a restart

vars == <<db, reqs, queue, agent, pending, learner, edits, excused>>

Global == ""
Kinds == {"dns", "dev", "allow"}
Idle == [st |-> "idle"]
NoPolicy == [kind |-> "", group |-> Global, enabled |-> FALSE, upd |-> 0]
Bare == [dns |-> << >>, dev |-> NoPolicy, mode |-> "off", hashes |-> {}]

Init ==
    /\ \E m \in [Group -> SUBSET Host] :
        db = [member |-> m, dns |-> {}, dev |-> [p \in Policy |-> NoPolicy],
              mode |-> [g \in Group |-> "off"], allow |-> [g \in Group |-> << >>]]
    /\ reqs = [r \in Request |-> Idle] /\ queue = [h \in Host |-> << >>]
    /\ agent = [h \in Host |-> Bare]
    /\ pending = << >> /\ learner = Idle /\ edits = 0 /\ excused = {}

Edit == edits < MaxEdit /\ edits' = edits + 1
GroupsOf(d, h) == {g \in Group : h \in d.member[g]}
Put(f, k, v) == [x \in DOMAIN f \cup {k} |-> IF x = k THEN v ELSE f[x]]
Drop(f, k) == [x \in DOMAIN f \ {k} |-> f[x]]

-----------------------------------------------------------------------------
(* What applies to a host.                                                 *)

InScope(d, e, h) == e.group = Global \/ e.group \in GroupsOf(d, h)

\* effective_set_for_host_groups; the agent enters the sinkhole list last.
EffectiveSet(d, h) ==
    LET on == {e \in d.dns : InScope(d, e, h)}
    IN  [x \in {e.domain : e \in on} |->
            IF \E e \in on : e.domain = x /\ e.action = "sinkhole" THEN "sinkhole" ELSE "block"]

\* effective_policies_for_host: per kind the enabled ones first, the newest first.
Beats(a, b) == (a.enabled /\ ~b.enabled) \/ (a.enabled = b.enabled /\ a.upd >= b.upd)
Winners(d, h) ==
    LET on(k) == {d.dev[p] : p \in {p \in Policy : d.dev[p].kind = k /\ InScope(d, d.dev[p], h)}}
    IN  [k \in {k \in DeviceKind : on(k) # {}} |-> CHOOSE a \in on(k) : \A b \in on(k) : Beats(a, b)]

\* queue_resync_commands, push_to_group and push_allowlist_to_agent: the commands that the
\* state d puts into the queue of each host in the scope of group g.  The device commands
\* of one push are made in the order of the policies, and dispatched so.
DeviceCommands(w) ==
    LET ps == SetToSortSeq({w[k] : k \in DOMAIN w}, Beats)
    IN  [i \in DOMAIN ps |-> [kind |-> "dev", val |-> ps[i]]]
DnsCommand(d, h) == <<[kind |-> "dns", val |-> EffectiveSet(d, h)]>>
AllowCommand(d, g) == <<[kind |-> "allow", val |-> [mode |-> d.mode[g], hashes |-> DOMAIN d.allow[g]]]>>
Scope(d, g) == IF g = Global THEN Host ELSE d.member[g]
Push(d, kind, g) ==
    [h \in Host |->
        IF h \notin Scope(d, g) THEN << >>
        ELSE CASE kind = "dns" -> DnsCommand(d, h)
               [] kind = "dev" -> DeviceCommands(Winners(d, h))
               [] OTHER -> AllowCommand(d, g)]

-----------------------------------------------------------------------------
(* The edits: what they do to the rows, and when they are accepted.         *)

KindOf(op) == CASE op.do \in {"block", "unblock"} -> "dns" [] op.do \in {"setPolicy", "deletePolicy"} -> "dev" [] OTHER -> "allow"

Apply(d, op) ==
    CASE op.do = "block" -> [d EXCEPT !.dns = @ \cup op.entries]
      [] op.do = "unblock" -> [d EXCEPT !.dns = @ \ op.entries]
      [] op.do = "setPolicy" -> [d EXCEPT !.dev[op.id] = op.policy]
      [] op.do = "deletePolicy" -> [d EXCEPT !.dev[op.id] = NoPolicy]
      [] op.do = "mode" -> [d EXCEPT !.mode[op.group] = op.mode]
      [] op.do = "allow" -> [d EXCEPT !.allow[op.group] = Put(@, op.hash, "manual")]
      [] OTHER -> [d EXCEPT !.allow[op.group] = Drop(@, op.hash)]

\* create_entry and bulk_import of domains: those the scope has are refused, or skipped.
BlockOps ==
    {[do |-> "block", group |-> g, entries |-> {[group |-> g, domain |-> x, action |-> a] : x \in D}] :
        g \in Group \cup {Global}, a \in {"block", "sinkhole"}, D \in SUBSET Domain \ {{}}}
NewTo(d, e) == ~\E o \in d.dns : o.group = e.group /\ o.domain = e.domain

UnblockOps == {[do |-> "unblock", group |-> e.group, entries |-> {e}] : e \in db.dns}

\* create_policy and update_policy; the scope is fixed when the policy is made.
PolicyOps ==
    {[do |-> "setPolicy", id |-> p, group |-> g, policy |-> [kind |-> k, group |-> g, enabled |-> on, upd |-> edits + 1]] :
        p \in Policy, k \in DeviceKind, on \in BOOLEAN, g \in Group \cup {Global}}
DeletePolicyOps == {[do |-> "deletePolicy", id |-> p, group |-> db.dev[p].group] : p \in {p \in Policy : db.dev[p] # NoPolicy}}

ModeOps == {[do |-> "mode", group |-> g, mode |-> m] : g \in Group, m \in {"off", "learn", "enforce"}}
AllowOps == {[do |-> "allow", group |-> g, hash |-> x] : g \in Group, x \in Binary}
DisallowOps == UNION {{[do |-> "disallow", group |-> g, hash |-> x] : x \in DOMAIN db.allow[g]} : g \in Group}

\* delete_entry keeps the last entry of an enforced list.
LastEnforced(op) == op.do = "disallow" /\ db.mode[op.group] = "enforce" /\ Cardinality(DOMAIN db.allow[op.group]) <= 1

Accepted(op) ==
    /\ op.do = "block" => \E e \in op.entries : NewTo(db, e)
    /\ op.do = "setPolicy" => db.dev[op.id] = NoPolicy \/ db.dev[op.id].group = op.group
    /\ ~LastEnforced(op)

\* A second request on the same row waits for the first to end.  (A unique index guards
\* the domains of a group, none guards the global ones.)
RowsOf(op) ==
    CASE op.do = "block" -> IF op.group = Global THEN {} ELSE {<<op.group, e.domain>> : e \in op.entries}
      [] op.do = "unblock" -> {<<e.group, e.domain>> : e \in op.entries}
      [] op.do \in {"setPolicy", "deletePolicy"} -> {<<"policy", op.id>>}
      [] op.do = "mode" -> {<<"mode", op.group>>}
      [] OTHER -> {<<op.group, op.hash>>}
RowsFree(op) == \A r \in Request : reqs[r] # Idle => RowsOf(reqs[r].op) \cap RowsOf(op) = {}

\* The handler up to its commit: the check, the change, the push from what it can see.
Trim(op) == IF op.do = "block" THEN [op EXCEPT !.entries = {e \in @ : NewTo(db, e)}] ELSE op
PushBefore(op) == Push(db, KindOf(op), op.group)
PushFor(op) == Push(Apply(db, Trim(op)), KindOf(op), op.group)

Handle(r, op) ==
    /\ reqs[r] = Idle /\ Edit /\ Accepted(op) /\ RowsFree(op)
    /\ reqs' = [reqs EXCEPT ![r] = [op |-> Trim(op), kind |-> KindOf(op), push |-> PushFor(op), stale |-> FALSE]]
    /\ UNCHANGED <<db, queue, agent, pending, learner, excused>>

\* The commit.  What it changed is news to the open requests of its kind; a push that is
\* complete repairs whatever an earlier one left behind.
Outdate(rs, kind) == [r \in Request |-> IF rs[r] # Idle /\ rs[r].kind = kind THEN [rs[r] EXCEPT !.stale = TRUE] ELSE rs[r]]

Commit(r) ==
    /\ reqs[r] # Idle
    /\ LET q == reqs[r]
       IN  /\ db' = Apply(db, q.op)
           /\ queue' = [h \in Host |-> queue[h] \o q.push[h]]
           /\ reqs' = Outdate([reqs EXCEPT ![r] = Idle], q.kind)
           /\ excused' = IF q.stale THEN excused \cup (Host \X {q.kind})
                         ELSE excused \ ({h \in Host : q.push[h] # << >>} \X {q.kind})
    /\ UNCHANGED <<agent, pending, learner, edits>>

-----------------------------------------------------------------------------
(* Groups.  Nobody tells the agents about a move.                          *)

Moved(S) == S \X Kinds
ReplaceMembership(g) ==
    /\ Edit
    /\ \E S \in SUBSET Host :
        /\ S # db.member[g] /\ db' = [db EXCEPT !.member[g] = S]
        /\ excused' = excused \cup Moved((S \cup db.member[g]) \ (S \cap db.member[g]))
    /\ reqs' = [r \in Request |-> IF reqs[r] = Idle THEN Idle ELSE [reqs[r] EXCEPT !.stale = TRUE]]
    /\ UNCHANGED <<queue, agent, pending, learner>>

\* delete_group takes its rows along.
DeleteGroup(g) ==
    /\ Edit /\ db.member[g] # {}
    /\ db' = [db EXCEPT !.member[g] = {}, !.dns = {e \in @ : e.group # g}, !.mode[g] = "off", !.allow[g] = << >>,
                        !.dev = [p \in Policy |-> IF @[p].group = g THEN NoPolicy ELSE @[p]]]
    /\ excused' = excused \cup Moved(db.member[g])
    /\ reqs' = [r \in Request |-> IF reqs[r] = Idle THEN Idle ELSE IF reqs[r].op.group = g THEN Idle ELSE [reqs[r] EXCEPT !.stale = TRUE]]
    /\ learner' = Idle
    /\ UNCHANGED <<queue, agent, pending>>

-----------------------------------------------------------------------------
(* The learner.                                                            *)

\* stage_observation; the oldest falls out of a full buffer.
Stage(h, x) ==
    /\ Edit
    /\ pending' = LET s == Append(pending, <<h, x>>) IN IF Len(s) > MaxPending THEN Tail(s) ELSE s
    /\ UNCHANGED <<db, reqs, queue, agent, learner, excused>>

\* _run_once drains the buffer and reads which groups learn from which hosts.
Learns(g, x) == db.mode[g] = "learn" /\ \E h \in db.member[g] : <<h, x>> \in ToSet(pending)
Drain ==
    /\ learner = Idle /\ pending # << >> /\ pending' = << >>
    /\ learner' = [st |-> "run", seen |-> {k \in Group \X Binary : Learns(k[1], k[2])}]
    /\ UNCHANGED <<db, reqs, queue, agent, edits, excused>>

\* record_observed_hash for each, and the commit.
Learnt(g) == {x \in Binary : <<g, x>> \in learner.seen}
Persist ==
    /\ learner # Idle /\ learner' = Idle
    /\ db' = [db EXCEPT !.allow = [g \in Group |-> [x \in DOMAIN @[g] \cup Learnt(g) |->
                                                     IF x \in DOMAIN @[g] THEN @[g][x] ELSE "learned"]]]
    /\ UNCHANGED <<reqs, queue, agent, pending, edits, excused>>

\* The transaction fails: what was drained is lost.
PersistFails ==
    /\ learner # Idle /\ Edit /\ learner' = Idle
    /\ UNCHANGED <<db, reqs, queue, agent, pending, excused>>

-----------------------------------------------------------------------------
(* The agent: a command replaces what it is about.  Every device policy is  *)
(* written to the same rule file, and one that is disabled removes it.     *)

File(p) == IF p.enabled THEN p ELSE NoPolicy
Applied(a, c) ==
    CASE c.kind = "dns" -> [a EXCEPT !.dns = c.val]
      [] c.kind = "dev" -> [a EXCEPT !.dev = File(c.val)]
      [] OTHER -> [a EXCEPT !.mode = c.val.mode, !.hashes = c.val.hashes]

ApplyCommand(h) ==
    /\ queue[h] # << >> /\ queue' = [queue EXCEPT ![h] = Tail(@)]
    /\ agent' = [agent EXCEPT ![h] = Applied(@, Head(queue[h]))]
    /\ UNCHANGED <<db, reqs, pending, learner, edits, excused>>

\* A command the dispatcher gives up, or the agent cannot apply.
CommandFails(h) ==
    /\ queue[h] # << >> /\ Edit /\ queue' = [queue EXCEPT ![h] = Tail(@)]
    /\ excused' = excused \cup {<<h, Head(queue[h]).kind>>}
    /\ UNCHANGED <<db, reqs, agent, pending, learner>>

\* The agent starts anew with an empty block map; after a reboot the rule file under /run and
\* the allow list are gone too.  The manager is not asked for them: the next push brings them.
Missed(h, kinds) == {h} \X {k \in kinds : \A i \in DOMAIN queue[h] : queue[h][i].kind # k}
Restart(h) ==
    /\ agent[h] # Bare /\ Edit
    /\ \/ /\ agent' = [agent EXCEPT ![h].dns = << >>] /\ excused' = excused \cup Missed(h, {"dns"})
       \/ /\ agent' = [agent EXCEPT ![h] = Bare] /\ excused' = excused \cup Missed(h, Kinds)
    /\ UNCHANGED <<db, reqs, queue, pending, learner>>

Next ==
    \/ Drain \/ Persist \/ PersistFails
    \/ \E r \in Request :
        \/ \E op \in BlockOps : Handle(r, op)
        \/ \E op \in UnblockOps : Handle(r, op)
        \/ \E op \in PolicyOps : Handle(r, op)
        \/ \E op \in DeletePolicyOps : Handle(r, op)
        \/ \E op \in ModeOps : Handle(r, op)
        \/ \E op \in AllowOps : Handle(r, op)
        \/ \E op \in DisallowOps : Handle(r, op)
        \/ Commit(r)
    \/ \E g \in Group : ReplaceMembership(g) \/ DeleteGroup(g)
    \/ \E h \in Host, x \in Binary : Stage(h, x)
    \/ \E h \in Host : ApplyCommand(h) \/ CommandFails(h) \/ Restart(h)

Spec == Init /\ [][Next]_vars

-----------------------------------------------------------------------------
\* Modes and actions are the known ones; policies that exist have a kind.
TypeOK ==
    /\ \A g \in Group : db.mode[g] \in {"off", "learn", "enforce"} /\ db.member[g] \subseteq Host
    /\ \A p \in Policy : db.dev[p] = NoPolicy \/ db.dev[p].kind \in DeviceKind

\* What the agent has once its queue is empty.
Drained(h) == FoldLeft(Applied, agent[h], queue[h])

\* "after this command, kernel == manager view": a host whose last push raced no other edit,
\* whom nobody moved since, which did not start anew and none of whose commands failed ends
\* up with its whole block list, the device rule of the policy that was pushed last, and the
\* mode and every approved binary of its group.
AgentMirrors ==
    \A h \in Host :
        /\ <<h, "dns">> \notin excused => Drained(h).dns = EffectiveSet(db, h)
        /\ <<h, "dev">> \notin excused /\ DOMAIN Winners(db, h) # {} =>
             Drained(h).dev = File(Last(DeviceCommands(Winners(db, h))).val)
        /\ <<h, "allow">> \notin excused => \A g \in Group : GroupsOf(db, h) = {g} =>
             /\ Drained(h).mode = db.mode[g]
             /\ {x \in DOMAIN db.allow[g] : db.allow[g][x] = "manual"} \subseteq Drained(h).hashes
             /\ Drained(h).hashes \subseteq DOMAIN db.allow[g]

-----------------------------------------------------------------------------
(* Claims of the comments and documents that the code does not keep.      *)

\* "Refuse to delete the last entry while in ENFORCE — would immediately lock the group out
\* of every binary": deleting an entry does not empty an enforced list.
LastEntryKept ==
    [][\A g \in Group : db.mode[g] = "enforce" /\ DOMAIN db.allow[g] # {} /\ DOMAIN db'.allow[g] = {} =>
        db'.mode[g] # "enforce"]_vars

\* "Each kind is treated as a separate dimension.  The agent maintains one effective policy
\* file per kind": once the commands are applied, an enabled policy that wins for its kind is
\* in force on a host whose push raced nothing.
KindsSeparate ==
    \A h \in Host : <<h, "dev">> \notin excused =>
        \A k \in DOMAIN Winners(db, h) : Winners(db, h)[k].enabled => Drained(h).dev = Winners(db, h)[k]
=============================================================================
