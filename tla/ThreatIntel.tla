------------------------------ MODULE ThreatIntel ------------------------------
(***************************************************************************)
(* Indicators from outside.  Threat-intel feeds are pulled on a schedule   *)
(* or on demand and diffed into the rows of a managed rule                 *)
(* (workers/intel_ingest.py, api/intel.py); samples sent to a sandbox are  *)
(* polled until a verdict, and a malicious one becomes a row of a          *)
(* synthetic feed (services/detonation/submitter.py,                       *)
(* workers/detonation_poller.py, api/detonation.py).  Operators meanwhile  *)
(* edit and delete the managed rules (api/rules.py).                       *)
(*                                                                         *)
(* A pull or a poll is one transaction around calls to the network: what   *)
(* it loaded may be changed, by a commit of somebody else, before its own. *)
(***************************************************************************)
EXTENDS Naturals, FiniteSets

CONSTANTS
    Feed,       \* operator feeds
    Raw, Norm,  \* what feeds list, and its normal form; "" where unsupported or blank
    Job, Hash,  \* sandbox jobs, and the hash each is about: a function into normal forms
    Provider,
    MaxTx,      \* bound: worker transactions
    MaxEdit     \* bound: operator actions and failures

VARIABLES
    feeds,      \* feeds[f]: [st, rule]; st "none", "on", "off", "deleted"
    rules,      \* the managed rules that exist: <<n, f>>, made by transaction n for feed f
    rows,       \* ioc_entries: [n, rule, src, origin, val]; transaction n added it; origin is history
    fired,      \* rules some alert refers to
    providers,  \* providers[p]: "none", "on", "off"
    jobs,       \* jobs[j]: [st, prov, label]
    txs,        \* txs[w]: the open transaction of "tick", "forced" or "poller"
    ntx, edits,
    pulled,     \* history: pulled[f], the values of the last pull, while they must stand
    raced,      \* history: feeds some transaction committed for over a newer commit
    optedOut,   \* history: the rule of the sandbox feed was deleted
    dropped     \* history: hashes removed from the sandbox feed by an operator

vars == <<feeds, rules, rows, fired, providers, jobs, txs, ntx, edits, pulled, raced, optedOut, dropped>>
intel == <<feeds, rules, rows>>
history == <<pulled, raced, optedOut, dropped>>
counters == <<ntx, edits>>

Det == "detonation"
Feeds == Feed \cup {Det}
Worker == {"tick", "forced", "poller"}
NoRule == <<0, "">>
Idle == [st |-> "idle"]
Unknown == {"unknown"}

Init ==
    /\ feeds = [f \in Feeds |-> [st |-> "none", rule |-> NoRule]]
    /\ rules = {} /\ rows = {} /\ fired = {}
    /\ providers = [p \in Provider |-> "none"]
    /\ jobs = [j \in Job |-> [st |-> "none", prov |-> "", label |-> ""]]
    /\ txs = [w \in Worker |-> Idle]
    /\ ntx = 0 /\ edits = 0
    /\ pulled = [f \in Feeds |-> Unknown] /\ raced = {} /\ optedOut = FALSE /\ dropped = {}

Edit == edits < MaxEdit /\ edits' = edits + 1
Exists(f) == feeds[f].st \in {"on", "off"}
RowsOf(f) == {r \in rows : r.src = f}
Vals(R) == {r.val : r \in R}

\* A commit that changes feeds F makes every transaction that loaded one of them stale.
Outdate(t, F) == [w \in Worker |-> IF t[w] = Idle THEN Idle ELSE [t[w] EXCEPT !.stale = @ \cup (F \cap t[w].loaded)]]

-----------------------------------------------------------------------------
(* Pulling feeds.                                                          *)

\* _run_once loads enabled feeds, those that are due of them, or the forced one whether
\* enabled or not; rules are loaded with them.
Begin(w, F) ==
    /\ txs[w] = Idle /\ ntx < MaxTx /\ ntx' = ntx + 1
    /\ txs' = [txs EXCEPT ![w] = [st |-> "run", n |-> ntx + 1, todo |-> F, loaded |-> F, stale |-> {},
                                  rule |-> [f \in F |-> feeds[f].rule], done |-> << >>]]
    /\ UNCHANGED <<intel, fired, providers, jobs, edits, history>>

RunOnce == \E F \in SUBSET {f \in Feed : feeds[f].st = "on"} : F # {} /\ Begin("tick", F)
TriggerPull(f) == Exists(f) /\ Begin("forced", {f})

\* _diff_and_apply: the rows to add and to delete; of rows with one value it knows one.
DiffKeepsOld(f, desired) == [add |-> desired \ Vals(RowsOf(f)), del |-> {}]
Diff(f, desired) ==
    LET one(v) == CHOOSE r \in RowsOf(f) : r.val = v
    IN  [add |-> desired \ Vals(RowsOf(f)),
         del |-> {one(v) : v \in Vals(RowsOf(f)) \ desired}]

\* The pullers keep what has a kind of indicator that is supported; of spellings with one
\* normal form one row is wanted.
Supported(L) == {v \in L : Norm[v] # ""}
Desired(L) == {Norm[v] : v \in Supported(L)}

\* _pull_feed with an answer.
PullFeed(w, f) ==
    /\ f \in txs[w].todo /\ f # Det
    /\ \E L \in SUBSET Raw :
        LET desired == Desired(L)
        IN  txs' = [txs EXCEPT ![w].todo = @ \ {f},
                               ![w].done = [x \in DOMAIN @ \cup {f} |->
                                              IF x # f THEN @[x] ELSE [diff |-> Diff(f, desired), want |-> desired]]]
    /\ UNCHANGED <<intel, fired, providers, jobs, counters, history>>

\* The feed cannot be decrypted, fetched or parsed: only its error is written.  The
\* sandbox feed has no address to pull from.
PullFails(w, f) ==
    /\ f \in txs[w].todo /\ (f = Det \/ edits < MaxEdit)
    /\ edits' = IF f = Det THEN edits ELSE edits + 1
    /\ txs' = [txs EXCEPT ![w].todo = @ \ {f}]
    /\ UNCHANGED <<intel, fired, providers, jobs, ntx, history>>


\* The commit of a pull.  It fails, for every feed of the tick, when a feed or a rule
\* it writes to is gone.  A feed that had no rule when it was loaded gets a new one.
Changes(d) == d.diff.add # {} \/ d.diff.del # {}
RuleFor(t, f) == IF t.rule[f] = NoRule THEN <<t.n, f>> ELSE t.rule[f]
NewRows(t, f, V) == {[n |-> t.n, rule |-> RuleFor(t, f), src |-> f, origin |-> f, val |-> v] : v \in V}

Writable(t) ==
    /\ \A f \in t.loaded : Exists(f)
    /\ \A f \in DOMAIN t.done : t.rule[f] # NoRule /\ Changes(t.done[f]) => t.rule[f] \in rules

CommitPull(w) ==
    /\ w # "poller" /\ txs[w] # Idle /\ txs[w].todo = {}
    /\ LET t == txs[w]
           fs == DOMAIN t.done
           new == {f \in fs : t.rule[f] = NoRule}
       IN  IF Writable(t)
           THEN /\ rules' = rules \cup {RuleFor(t, f) : f \in new}
                /\ feeds' = [f \in Feeds |-> IF f \in new THEN [feeds[f] EXCEPT !.rule = RuleFor(t, f)] ELSE feeds[f]]
                /\ rows' = (rows \ UNION {t.done[f].diff.del : f \in fs})
                           \cup UNION {NewRows(t, f, t.done[f].diff.add) : f \in fs}
                /\ raced' = raced \cup (t.stale \cap fs)
                /\ pulled' = [f \in Feeds |-> IF f \in fs THEN t.done[f].want ELSE pulled[f]]
                /\ txs' = Outdate([txs EXCEPT ![w] = Idle], {f \in fs : f \in new \/ Changes(t.done[f])})
           ELSE txs' = [txs EXCEPT ![w] = Idle] /\ UNCHANGED <<intel, raced, pulled>>
    /\ UNCHANGED <<fired, providers, jobs, counters, optedOut, dropped>>

\* The process stops, or the database refuses.
TxDies(w) ==
    /\ txs[w] # Idle /\ Edit /\ txs' = [txs EXCEPT ![w] = Idle]
    /\ UNCHANGED <<intel, fired, providers, jobs, ntx, history>>

-----------------------------------------------------------------------------
(* Feeds and rules, as operators edit them.                                *)

SetFeed(f, from, to) ==
    /\ Edit /\ feeds[f].st \in from /\ feeds' = [feeds EXCEPT ![f].st = to]
    /\ UNCHANGED <<rules, rows, fired, providers, jobs, txs, ntx, history>>

CreateFeed(f) == \E st \in {"on", "off"} : SetFeed(f, {"none"}, st)
UpdateFeed(f) == SetFeed(f, {"on"}, "off") \/ SetFeed(f, {"off"}, "on")

\* The rows of a rule go with it; feeds that pointed at it point nowhere.
WithoutRule(r, fs) == [f \in Feeds |-> IF fs[f].rule = r THEN [fs[f] EXCEPT !.rule = NoRule] ELSE fs[f]]
Forget(R, st) ==
    /\ pulled' = [f \in Feeds |-> IF \E r \in R : r.src = f THEN Unknown ELSE pulled[f]]
    /\ dropped' = dropped \cup Vals({r \in R : r.src = Det})
    /\ optedOut' = (optedOut \/ st)
    /\ UNCHANGED raced
PointsAt(r) == {f \in Feeds : feeds[f].rule = r}

\* delete_feed deletes the rule it points at too, unless an alert refers to it.
DeleteFeed(f) ==
    /\ Exists(f) /\ Edit /\ feeds[f].rule \notin fired
    /\ LET r == feeds[f].rule
           gone == {x \in rows : x.rule = r}
       IN  /\ rules' = rules \ {r}
           /\ feeds' = [WithoutRule(r, feeds) EXCEPT ![f] = [st |-> "deleted", rule |-> NoRule]]
           /\ rows' = {IF x.src = f THEN [x EXCEPT !.src = ""] ELSE x : x \in rows \ gone}
           /\ Forget(RowsOf(f) \cup gone, FALSE)
           /\ txs' = Outdate(txs, PointsAt(r) \cup {f})
    /\ UNCHANGED <<fired, providers, jobs, ntx>>

\* api/rules.py: delete_rule
DeleteRule(r) ==
    /\ r \in rules \ fired /\ Edit
    /\ rules' = rules \ {r} /\ feeds' = WithoutRule(r, feeds)
    /\ rows' = {x \in rows : x.rule # r}
    /\ Forget({x \in rows : x.rule = r}, feeds[Det].rule = r)
    /\ txs' = Outdate(txs, PointsAt(r))
    /\ UNCHANGED <<fired, providers, jobs, ntx>>

\* api/rules.py: update_rule with a list of indicators replaces every row of the rule.
PatchIocs(r) ==
    /\ r \in rules /\ Edit
    /\ \E V \in SUBSET {Norm[v] : v \in Raw} :
        rows' = {x \in rows : x.rule # r}
                \cup {[n |-> 0, rule |-> r, src |-> "", origin |-> "", val |-> v] : v \in V \ {""}}
    /\ Forget({x \in rows : x.rule = r}, FALSE)
    /\ txs' = Outdate(txs, PointsAt(r))
    /\ UNCHANGED <<feeds, rules, fired, providers, jobs, ntx>>

\* A host meets an indicator: an alert refers to the rule from now on.
AlertFires(x) ==
    /\ x.rule \notin fired /\ Edit /\ fired' = fired \cup {x.rule}
    /\ UNCHANGED <<intel, providers, jobs, txs, ntx, history>>

-----------------------------------------------------------------------------
(* The sandbox.                                                            *)

CreateProvider(p) ==
    /\ providers[p] = "none" /\ Edit /\ \E st \in {"on", "off"} : providers' = [providers EXCEPT ![p] = st]
    /\ UNCHANGED <<intel, fired, jobs, txs, ntx, history>>
UpdateProvider(p) ==
    /\ providers[p] \in {"on", "off"} /\ Edit
    /\ providers' = [providers EXCEPT ![p] = IF @ = "on" THEN "off" ELSE "on"]
    /\ UNCHANGED <<intel, fired, jobs, txs, ntx, history>>

\* Its jobs go with it, the running ones too.
DeleteProvider(p) ==
    /\ providers[p] \in {"on", "off"} /\ Edit /\ providers' = [providers EXCEPT ![p] = "deleted"]
    /\ jobs' = [j \in Job |-> IF jobs[j].prov = p THEN [jobs[j] EXCEPT !.st = "deleted"] ELSE jobs[j]]
    /\ UNCHANGED <<intel, fired, txs, ntx, history>>

\* submit_for_analysis: a named provider may be disabled, the default one may not.  The
\* row becomes visible with the outcome of the call to the sandbox.
PickProvider(named) == {p \in Provider : providers[p] = "on" \/ (named /\ providers[p] = "off")}
Submit(j) ==
    /\ jobs[j].st = "none" /\ Edit
    /\ \E named \in BOOLEAN : \E p \in PickProvider(named) : \E st \in {"running", "failed"} :
        jobs' = [jobs EXCEPT ![j].st = st, ![j].prov = p]
    /\ UNCHANGED <<intel, fired, providers, txs, ntx, history>>

\* The poller loads the running jobs.
PollerRun ==
    /\ txs["poller"] = Idle /\ ntx < MaxTx /\ ntx' = ntx + 1
    /\ LET J == {j \in Job : jobs[j].st = "running"}
       IN  /\ J # {}
           /\ txs' = [txs EXCEPT !["poller"] = [st |-> "run", n |-> ntx + 1, todo |-> J, loaded |-> {}, stale |-> {},
                                                rule |-> [f \in {Det} |-> NoRule], had |-> FALSE, add |-> {},
                                                done |-> << >>]]
    /\ UNCHANGED <<intel, fired, providers, jobs, edits, history>>

LabelForScore(s) == CASE s = "high" -> "malicious" [] s = "middle" -> "suspicious" [] OTHER -> "benign"

\* _ensure_detonation_feed reads the synthetic feed once; what is missing is made.
EnsureFeed(t) ==
    IF Det \in t.loaded THEN t
    ELSE [t EXCEPT !.loaded = {Det}, !.rule[Det] = feeds[Det].rule, !.had = Exists(Det)]

\* _materialise_ioc: a hash the feed has is not added again.
MaterialiseIfRule(t, h) ==
    IF feeds[Det].rule = NoRule THEN t ELSE [EnsureFeed(t) EXCEPT !.add = @ \cup {h}]
MaterialiseIoc(t, h) ==
    IF h \in Vals(RowsOf(Det)) THEN EnsureFeed(t) ELSE [EnsureFeed(t) EXCEPT !.add = @ \cup {h}]

\* _poll_job: still running, an error that ends the job, or a verdict.
AfterPoll(t, j, r) == IF LabelForScore(r) = "malicious" THEN MaterialiseIoc(t, Hash[j]) ELSE t
PollJob(j) ==
    /\ txs["poller"] # Idle /\ j \in txs["poller"].todo
    /\ \E r \in {"running", "failed", "high", "middle", "low"} :
        /\ r \in {"failed", "middle", "low"} => edits < MaxEdit
        /\ edits' = IF r \in {"failed", "middle", "low"} THEN edits + 1 ELSE edits
        /\ LET t == AfterPoll(txs["poller"], j, r)
               done == [x \in DOMAIN t.done \cup {j} |-> IF x = j THEN r ELSE t.done[x]]
           IN  txs' = [txs EXCEPT !["poller"] = [t EXCEPT !.todo = t.todo \ {j}, !.done = done]]
    /\ UNCHANGED <<intel, fired, providers, jobs, ntx, history>>

Settled(j, r) ==
    CASE r = "running" -> jobs[j]
      [] r = "failed" -> [jobs[j] EXCEPT !.st = "failed"]
      [] OTHER -> [jobs[j] EXCEPT !.st = "verdict", !.label = LabelForScore(r)]

\* The commit of the poller: verdicts and indicators together.  It fails when a job it
\* settles, or the feed or rule it adds to, was deleted.
PollWritable(t) ==
    /\ \A j \in DOMAIN t.done : t.done[j] # "running" => jobs[j].st = "running"
    /\ t.add # {} => (t.had => Exists(Det)) /\ (t.rule[Det] # NoRule => t.rule[Det] \in rules)

CommitPoll ==
    /\ txs["poller"] # Idle /\ txs["poller"].todo = {}
    /\ LET t == txs["poller"]
           D == DOMAIN t.done
       IN  IF PollWritable(t)
           THEN /\ jobs' = [j \in Job |-> IF j \in D THEN Settled(j, t.done[j]) ELSE jobs[j]]
                /\ IF t.add = {} THEN UNCHANGED intel
                   ELSE /\ rules' = rules \cup {RuleFor(t, Det)}
                        /\ rows' = rows \cup NewRows(t, Det, t.add)
                        /\ feeds' = [feeds EXCEPT ![Det] = [st |-> IF t.had THEN @.st ELSE "off",
                                                            rule |-> RuleFor(t, Det)]]
                /\ dropped' = dropped \ t.add
                /\ txs' = Outdate([txs EXCEPT !["poller"] = Idle], IF t.add = {} THEN {} ELSE {Det})
           ELSE txs' = [txs EXCEPT !["poller"] = Idle] /\ UNCHANGED <<intel, jobs, dropped>>
    /\ UNCHANGED <<fired, providers, counters, pulled, raced, optedOut>>

Running == {w \in Worker \ {"poller"} : txs[w] # Idle}

Next ==
    \/ RunOnce \/ PollerRun \/ CommitPoll
    \/ \E f \in Feeds : TriggerPull(f) \/ UpdateFeed(f) \/ DeleteFeed(f)
    \/ \E f \in Feed : CreateFeed(f)
    \/ \E w \in Running, f \in Feeds : PullFeed(w, f) \/ PullFails(w, f)
    \/ \E w \in Worker : CommitPull(w) \/ TxDies(w)
    \/ \E r \in rules : DeleteRule(r) \/ PatchIocs(r)
    \/ \E x \in rows : AlertFires(x)
    \/ \E p \in Provider : CreateProvider(p) \/ UpdateProvider(p) \/ DeleteProvider(p)
    \/ \E j \in Job : Submit(j) \/ PollJob(j)

Spec == Init /\ [][Next]_vars

-----------------------------------------------------------------------------
\* Rows belong to rules that exist, feeds point at rules that exist.
TypeOK ==
    /\ \A x \in rows : x.rule \in rules /\ (x.src # "" => Exists(x.src))
    /\ \A f \in Feeds : feeds[f].rule \in rules \cup {NoRule}

\* "Refresh policy is full replace per pull": until an operator changes the rule, the
\* rows of a feed are the indicators of its last pull, each once and under its rule;
\* a feed two transactions worked on at once is excepted.
FullReplace ==
    \A f \in Feed \ raced : pulled[f] # Unknown /\ Exists(f) =>
        /\ Vals(RowsOf(f)) = pulled[f]
        /\ Cardinality(RowsOf(f)) = Cardinality(pulled[f])
        /\ \A x \in RowsOf(f) : x.rule = feeds[f].rule

\* A sample the sandbox found malicious is an indicator, unless an operator removed it
\* since: verdict and indicator are committed together or not at all.
VerdictKnown ==
    \A j \in Job : jobs[j].st = "verdict" /\ jobs[j].label = "malicious" =>
        Hash[j] \in Vals(RowsOf(Det)) \cup dropped

-----------------------------------------------------------------------------
(* Claims of the comments and documents that the code does not keep.      *)

\* "don't leave orphaned entries with source_id=NULL on a rule named intel:<deleted-feed>":
\* nothing that a feed brought in outlives it.
NoOrphans == \A x \in rows : x.origin # "" => x.src = x.origin

\* "delete the rule to opt out of automatic IOC feedback": after that no indicator of the
\* sandbox is added.
OptOutHonoured == [][optedOut => ~\E x \in rows' : x \notin rows /\ x.src = Det]_vars
=============================================================================
