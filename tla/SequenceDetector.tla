-------------------------- MODULE SequenceDetector --------------------------
(***************************************************************************)
(* Behavioural rules: a trigger event followed, on the same host and in    *)
(* time, by one or more legs.  services/sequence.py holds the rule language*)
(* and the evaluator with its partial matches, workers/sequence_detector.py*)
(* the worker that feeds it from the event topic and writes the alerts,    *)
(* api/sequence_rules.py the operators' edits.  One host: partial matches  *)
(* are kept per (rule, host).                                              *)
(*                                                                         *)
(* The evaluator, the offset read and the compiled rules live in the       *)
(* process and are lost when it restarts.                                  *)
(***************************************************************************)
EXTENDS Naturals, Sequences, FiniteSets, SequencesExt

CONSTANTS
    Rules,          \* sequence rules in the order they are evaluated
    Doc,            \* rule bodies an operator may write
    FirstDoc,       \* the body every rule starts with
    Ecs,            \* events that may be produced
    WindowS,        \* the rule's window_s
    RefreshS,       \* REFRESH_INTERVAL_S
    GcEvery,        \* events between two gc passes
    DedupWindow,    \* settings.alert_dedup_window_s
    MaxTime, MaxEvent, MaxFault, MaxEdit    \* bounds

RuleId == {Rules[i] : i \in DOMAIN Rules}
None == [st |-> "none"]

-----------------------------------------------------------------------------
(* The rule language.                                                      *)

\* classify_event_kind: the label of an event from its sections, categories and action.
FileKind(action) ==
    CASE action = "create" -> "file_created"
      [] action = "delete" -> "file_deleted"
      [] action = "load"   -> "image_loaded"
      [] OTHER             -> "file_modified"

ClassifyEventKind(e) ==
    CASE "process" \in e.has /\ "process" \in e.cats /\ e.action \in {"", "start"} -> "process_started"
      [] "network" \in e.has \/ "network" \in e.cats -> "network_connection"
      [] "file" \in e.has /\ ("file" \in e.cats \/ e.cats = {}) -> FileKind(e.action)
      [] "registry" \in e.has \/ "registry" \in e.cats -> "registry_set"
      [] OTHER -> "any"

\* flatten_event: the fields a predicate may name; a missing one reads as None (0).
FlattenEvent(e) == [kind |-> ClassifyEventKind(e), val |-> e.val]

\* _build_comparison: an ordering with a missing field is false, inequality true.
BuildComparison(c, v) ==
    CASE c.op = "==" -> v.val = c.right
      [] c.op = "!=" -> v.val # c.right
      [] c.op = ">=" -> v.val # 0 /\ v.val >= c.right
      [] c.op = "<"  -> v.val # 0 /\ v.val < c.right
      [] c.op = "in" -> v.val \in c.right

\* compile_predicate: "or" of "and" of comparisons, an empty one is always true.
CompilePredicate(where, v) == where = {} \/ \E conj \in where : \A c \in conj : BuildComparison(c, v)

\* _event_kind_matches, then the predicate.
Matches(spec, v) ==
    /\ spec.event_kind = "any" \/ spec.event_kind = v.kind
    /\ CompilePredicate(spec.where, v)

\* parse_yaml: a leg without "within" takes the default window; the outer window
\* is the document's or the default.
ParseYaml(doc, window) ==
    [trigger |-> doc.trigger, window |-> IF doc.window = 0 THEN window ELSE doc.window,
     legs |-> [i \in DOMAIN doc.legs |->
        [event_kind |-> doc.legs[i].event_kind, where |-> doc.legs[i].where,
         within |-> IF doc.legs[i].within = 0 THEN window ELSE doc.legs[i].within]]]

ValidDoc(doc) == doc.legs # <<>>

-----------------------------------------------------------------------------
VARIABLES
    now,
    topic,      \* the normalized events
    committed,  \* the group's offset, or 0 when it has none
    pos,        \* events read by the running process
    pc,         \* "poll" or "finish": what follows _process_message
    rows,       \* rows[r]: sequence_rules, or None
    managed,    \* managed rules: rules[i] backs the sequence rule it names
    cache,      \* _compiled[r]: the parsed rule and the detached row, or None
    partials,   \* partials[r]: the pending partial matches
    refreshed,  \* _last_refresh_ts
    gcs,        \* gc_counter
    alerts,     \* alert rows of the detector
    seen,       \* history: seen[i]: when event i was fed to the evaluator
    found,      \* history: the matches the evaluator returned
    clean,      \* history: no restart, edit or failed transaction so far
    budget      \* faults and edits left

vars == <<now, topic, committed, pos, pc, rows, managed, cache, partials, refreshed, gcs,
          alerts, seen, found, clean, budget>>

\* _compile_rules: the enabled rows, parsed, with a copy of the row.
CompileRules == [r \in RuleId |->
    IF rows[r] = None \/ ~rows[r].enabled THEN None
    ELSE [st |-> "on", parsed |-> ParseYaml(rows[r].doc, WindowS), managed |-> rows[r].managed]]

Init ==
    /\ now = 0 /\ topic = <<>> /\ committed = 0 /\ pos = 0 /\ pc = "poll"
    /\ rows = [r \in RuleId |-> [st |-> "row", doc |-> FirstDoc, enabled |-> TRUE, managed |-> 0]]
    /\ managed = <<>> /\ cache = CompileRules
    /\ partials = [r \in RuleId |-> <<>>]
    /\ refreshed = 0 /\ gcs = 0 /\ alerts = <<>>
    /\ seen = <<>> /\ found = {} /\ clean = TRUE
    /\ budget = [fault |-> MaxFault, edit |-> MaxEdit]

Tick == /\ now < MaxTime /\ now' = now + 1
        /\ UNCHANGED <<topic, committed, pos, pc, rows, managed, cache, partials, refreshed, gcs,
                       alerts, seen, found, clean, budget>>

Produce == /\ Len(topic) < MaxEvent
           /\ \E e \in Ecs : topic' = Append(topic, e)
           /\ UNCHANGED <<now, committed, pos, pc, rows, managed, cache, partials, refreshed, gcs,
                          alerts, seen, found, clean, budget>>

-----------------------------------------------------------------------------
(* The evaluator.                                                          *)

Expired(p) == p.deadline < now

\* What becomes of partial p of rule b on view v, event number i.
Advanced(p, b, v, i) == Matches(b.legs[p.leg], v)
Completes(p, b, v, i) == Advanced(p, b, v, i) /\ p.leg >= Len(b.legs)

NextPartial(p, b, v, i) ==
    IF Advanced(p, b, v, i)
    THEN [leg |-> p.leg + 1, deadline |-> now + b.legs[p.leg + 1].within, ids |-> Append(p.ids, i)]
    ELSE p

\* A partial of an earlier compilation may point past the legs of this one: the
\* list index raises.
Raises(ps, b) == \E k \in DOMAIN ps : ~Expired(ps[k]) /\ ps[k].leg > Len(b.legs)

\* The trigger opens a partial, after the pending ones have been advanced.
Opened(b, v, i) ==
    IF Matches(b.trigger, v)
    THEN <<[leg |-> 1, ids |-> <<i>>,
            deadline |-> now + (IF b.legs[1].within < b.window THEN b.legs[1].within ELSE b.window)]>>
    ELSE <<>>

\* One rule's part of feed_event.
FeedRule(ps, b, v, i) ==
    LET live == SelectSeq(ps, LAMBDA p : ~Expired(p))
        kept == SelectSeq(live, LAMBDA p : ~Completes(p, b, v, i))
    IN  [partials |-> [k \in DOMAIN kept |-> NextPartial(kept[k], b, v, i)] \o Opened(b, v, i),
         matches |-> {Append(p.ids, i) : p \in {live[k] : k \in {n \in DOMAIN live : Completes(live[n], b, v, i)}}}]

\* feed_event: rule after rule; a raise leaves the rules from there on untouched
\* and loses the matches.
FeedEvent(e, i) ==
    LET v == FlattenEvent(e)
        on == {k \in DOMAIN Rules : cache[Rules[k]] # None}
        bad == {k \in on : Raises(partials[Rules[k]], cache[Rules[k]].parsed)}
        done == {Rules[k] : k \in {n \in on : \A m \in bad : n < m}}
        out(r) == FeedRule(partials[r], cache[r].parsed, v, i)
    IN  [partials |-> [r \in RuleId |-> IF r \in done THEN out(r).partials ELSE partials[r]],
         matches |-> IF bad # {} THEN {} ELSE UNION {{[rule |-> r, ids |-> m] : m \in out(r).matches} : r \in done}]

\* gc drops what has expired.
GcAtDeadline(ps) == SelectSeq(ps, LAMBDA p : p.deadline > now)
Gc(ps) == SelectSeq(ps, LAMBDA p : ~Expired(p))

-----------------------------------------------------------------------------
(* The worker.                                                             *)

\* _ensure_managed_rule, against the detached row: its id is looked up, and a
\* rule is inserted when there is none.
EnsureManagedRule(s, r) ==
    IF s.cache[r].managed \in DOMAIN s.managed THEN s
    ELSE [s EXCEPT !.managed = Append(@, r), !.cache[r].managed = Len(s.managed) + 1]

FindOpenDupe(s, id) == {k \in DOMAIN s.alerts : s.alerts[k].rule = id /\ s.alerts[k].at + DedupWindow >= now}

\* _emit_alert: a new alert, or one more occurrence of an open one.
EmitAlert(s, m) ==
    LET t == EnsureManagedRule(s, m.rule)
        id == t.cache[m.rule].managed
        dupe == FindOpenDupe(t, id)
    IN  IF dupe # {}
        THEN [t EXCEPT !.alerts = [k \in DOMAIN @ |-> IF k \in dupe THEN [@[k] EXCEPT !.at = now] ELSE @[k]]]
        ELSE [t EXCEPT !.alerts = Append(@, [rule |-> id, of |-> m.rule, at |-> now])]

EmitAll(s, ms) == FoldLeft(EmitAlert, s, SetToSeq(ms))

\* _process_message: one transaction.  When it fails the rows are rolled back, the
\* evaluator and the detached rows are not; for a host that no tenant owns it
\* writes nothing at all.
ProcessMessage ==
    /\ pc = "poll" /\ pos < Len(topic)
    /\ LET f == FeedEvent(topic[pos + 1], pos + 1)
           s == EmitAll([managed |-> managed, cache |-> cache, alerts |-> alerts], f.matches)
       IN  /\ partials' = f.partials
           /\ found' = found \cup f.matches
           /\ \/ managed' = s.managed /\ alerts' = s.alerts /\ cache' = s.cache /\ UNCHANGED <<clean, budget>>
              \/ /\ budget.fault > 0 /\ f.matches # {}
                 /\ budget' = [budget EXCEPT !.fault = @ - 1] /\ clean' = FALSE
                 /\ cache' \in {s.cache, cache} /\ UNCHANGED <<managed, alerts>>
    /\ pos' = pos + 1 /\ seen' = [k \in 1 .. pos + 1 |-> IF k = pos + 1 THEN now ELSE seen[k]]
    /\ pc' = "finish"
    /\ UNCHANGED <<now, topic, committed, rows, refreshed, gcs>>

\* _refresh_rules: what was disabled or deleted is forgotten with its partials;
\* the others are registered again and keep theirs.
RefreshRules(ps) ==
    IF now - refreshed < RefreshS
    THEN partials' = ps /\ UNCHANGED <<cache, refreshed>>
    ELSE /\ cache' = CompileRules
         /\ partials' = [r \in RuleId |-> IF CompileRules[r] = None THEN <<>> ELSE ps[r]]
         /\ refreshed' = now

\* The rest of the loop's body: gc, refresh, commit of the offset.
Finish ==
    /\ pc = "finish"
    /\ LET due == gcs + 1 >= GcEvery
       IN  /\ gcs' = IF due THEN 0 ELSE gcs + 1
           /\ RefreshRules(IF due THEN [r \in RuleId |-> Gc(partials[r])] ELSE partials)
    /\ committed' = pos /\ pc' = "poll"
    /\ UNCHANGED <<now, topic, pos, rows, managed, alerts, seen, found, clean, budget>>

\* Nothing to read for a second.
IdleRefresh ==
    /\ pc = "poll" /\ pos = Len(topic) /\ now - refreshed >= RefreshS
    /\ RefreshRules(partials)
    /\ UNCHANGED <<now, topic, committed, pos, pc, rows, managed, gcs, alerts, seen, found, clean, budget>>

\* The process dies and comes back: from the committed offset, or from the end of
\* the topic when there is none ("latest").
Restart ==
    /\ budget.fault > 0 /\ budget' = [budget EXCEPT !.fault = @ - 1]
    /\ pos' = IF committed = 0 THEN Len(topic) ELSE committed
    /\ seen' = [k \in 1 .. pos' |-> IF k \in DOMAIN seen THEN seen[k] ELSE now]
    /\ partials' = [r \in RuleId |-> <<>>] /\ cache' = CompileRules
    /\ refreshed' = now /\ gcs' = 0 /\ pc' = "poll" /\ clean' = FALSE
    /\ UNCHANGED <<now, topic, committed, rows, managed, alerts, found>>

\* update_sequence_rule and delete_sequence_rule.
UpdateSequenceRule ==
    /\ budget.edit > 0 /\ budget' = [budget EXCEPT !.edit = @ - 1] /\ clean' = FALSE
    /\ \E r \in RuleId, d \in Doc, on \in BOOLEAN :
        /\ rows[r] # None /\ ValidDoc(d)
        /\ rows' = [rows EXCEPT ![r].doc = d, ![r].enabled = on]
    /\ UNCHANGED <<now, topic, committed, pos, pc, managed, cache, partials, refreshed, gcs, alerts, seen, found>>

DeleteSequenceRule ==
    /\ budget.edit > 0 /\ budget' = [budget EXCEPT !.edit = @ - 1] /\ clean' = FALSE
    /\ \E r \in RuleId : rows[r] # None /\ rows' = [rows EXCEPT ![r] = None]
    /\ UNCHANGED <<now, topic, committed, pos, pc, managed, cache, partials, refreshed, gcs, alerts, seen, found>>

Next == Tick \/ Produce \/ ProcessMessage \/ Finish \/ IdleRefresh \/ Restart
        \/ UpdateSequenceRule \/ DeleteSequenceRule

Spec == Init /\ [][Next]_vars

-----------------------------------------------------------------------------
\* The worker's state has its type.
TypeOK ==
    /\ pos \in 0 .. Len(topic) /\ committed \in 0 .. pos /\ Len(seen) = pos
    /\ \A r \in RuleId : \A k \in DOMAIN partials[r] :
         partials[r][k].ids # <<>> /\ partials[r][k].leg = Len(partials[r][k].ids)

\* What a rule means: from each trigger, each leg is taken at the first event that
\* satisfies it, if that comes within the leg's time of the event before.
FirstAfter(i, spec) ==
    {j \in i + 1 .. pos : /\ Matches(spec, FlattenEvent(topic[j]))
                          /\ \A k \in i + 1 .. j - 1 : ~Matches(spec, FlattenEvent(topic[k]))}

Chains(b) ==
    {c \in [1 .. Len(b.legs) + 1 -> 1 .. pos] :
        /\ Matches(b.trigger, FlattenEvent(topic[c[1]]))
        /\ \A k \in DOMAIN b.legs :
             /\ c[k + 1] \in FirstAfter(c[k], b.legs[k])
             /\ seen[c[k + 1]] <= seen[c[k]] +
                  (IF k = 1 /\ b.window < b.legs[1].within THEN b.window ELSE b.legs[k].within)}

\* As long as rules, process and database are undisturbed, the evaluator finds
\* exactly the chains its rules mean: however triggers overlap, legs expire and
\* gc and refresh fall between the events, none is missed, none is invented.
MatchesExactly ==
    clean => found = UNION {{[rule |-> r, ids |-> c] : c \in Chains(ParseYaml(rows[r].doc, WindowS))} : r \in RuleId}

-----------------------------------------------------------------------------
(* Claims of the comments and documents that the code does not keep.      *)

\* workers/sequence_detector.py: the managed rule is "lazily created on first hit".
OneManagedRule == \A i, j \in DOMAIN managed : managed[i] = managed[j] => i = j

\* services/sequence.py of feed_event: "each rule emits at most once per completing event".
OncePerCompletingEvent ==
    \A m, n \in found : m.rule = n.rule /\ m.ids[Len(m.ids)] = n.ids[Len(n.ids)] => m = n
=============================================================================
