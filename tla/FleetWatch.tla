------------------------------- MODULE FleetWatch -------------------------------
(***************************************************************************)
(* The two workers that watch the hosts table: SilenceWorker raises one    *)
(* alert per silence of an online host (workers/silence.py), and           *)
(* SweepScheduler queues a sweep of every live host at the interval of its *)
(* policy (workers/sweep_scheduler.py).  Heartbeats, connections and       *)
(* policy edits commit while a tick of either is between its read and its  *)
(* commit.  What the silence worker remembers of open alerts is in memory  *)
(* only, and is updated before the alerts are committed.                   *)
(***************************************************************************)
EXTENDS Naturals, Sequences, FiniteSets

CONSTANTS
    Host,
    Threshold,      \* VIGIL_SILENCE_THRESHOLD_SECONDS
    Grace,          \* _HEARTBEAT_GRACE
    Default,        \* VIGIL_SWEEP_DEFAULT_HOURS
    Intervals,      \* the intervals a policy may set; 0 turns sweeps off
    MaxTime, MaxFault, MaxEdit      \* bounds: the clock, failures, edits of a policy

VARIABLES
    now,
    hosts,      \* hosts[h]: [online, seen, swept, policy]; 0 stands for NULL
    policy,     \* the sweep interval of the policy
    silence,    \* the silence worker: [st, fire, at]; fire: the alerts to commit
    open,       \* _open_alerts
    alerts,     \* alerts[h]: the last_seen_at each alert of h was about
    sweeper,    \* the scheduler: [st, fire, at]
    sweeps,     \* sweeps[h]: [at, interval] of each sweep queued
    faults, edits,
    lost        \* history: hosts whose alert was rolled back

vars == <<now, hosts, policy, silence, open, alerts, sweeper, sweeps, faults, edits, lost>>

Init ==
    /\ now = 1 /\ hosts = [h \in Host |-> [online |-> FALSE, seen |-> 0, swept |-> 0, policy |-> FALSE]]
    /\ policy \in Intervals
    /\ silence = [st |-> "idle", fire |-> {}, at |-> 0] /\ sweeper = [st |-> "idle", fire |-> << >>, at |-> 0]
    /\ open = {} /\ alerts = [h \in Host |-> << >>] /\ sweeps = [h \in Host |-> << >>]
    /\ faults = 0 /\ edits = 0 /\ lost = {}

Watchers == <<silence, open, alerts, sweeper, sweeps, lost>>

-----------------------------------------------------------------------------
(* Hosts and policies.                                                     *)

Connect(h) ==
    /\ ~hosts[h].online /\ hosts' = [hosts EXCEPT ![h].online = TRUE, ![h].seen = now]
    /\ UNCHANGED <<now, policy, faults, edits, Watchers>>

Heartbeat(h) ==
    /\ hosts[h].online /\ hosts[h].seen # now /\ hosts' = [hosts EXCEPT ![h].seen = now]
    /\ UNCHANGED <<now, policy, faults, edits, Watchers>>

Disconnect(h) ==
    /\ hosts[h].online /\ hosts' = [hosts EXCEPT ![h].online = FALSE]
    /\ UNCHANGED <<now, policy, faults, edits, Watchers>>

\* update_policy, and a host that is given the policy or loses it.
EditPolicy ==
    /\ edits < MaxEdit /\ edits' = edits + 1
    /\ \/ \E i \in Intervals : i # policy /\ policy' = i /\ UNCHANGED hosts
       \/ \E h \in Host : hosts' = [hosts EXCEPT ![h].policy = ~@] /\ UNCHANGED policy
    /\ UNCHANGED <<now, faults, Watchers>>

\* The silence worker ticks ten times within a threshold: here, at every instant.  Ticks that
\* fail altogether (run) are taken not to fill one.
Tick ==
    /\ now < MaxTime /\ silence.st = "idle" /\ silence.at = now /\ now' = now + 1
    /\ UNCHANGED <<hosts, policy, faults, edits, Watchers>>

-----------------------------------------------------------------------------
(* SilenceWorker._tick_once.                                               *)

Watched(h) == hosts[h].online /\ hosts[h].seen # 0
Silent(h) == hosts[h].seen + Threshold < now

RecoveredNobody == {}
Recovered == {h \in open : Watched(h) /\ ~Silent(h)}

SilenceScan ==
    LET new == {h \in Host \ open : Watched(h) /\ Silent(h)} IN
    /\ silence.st = "idle" /\ silence.at # now
    /\ silence' = [st |-> "commit", fire |-> {<<h, hosts[h].seen>> : h \in new}, at |-> now]
    /\ open' = (open \ Recovered) \cup new /\ lost' = lost \ Recovered
    /\ UNCHANGED <<now, hosts, policy, alerts, sweeper, sweeps, faults, edits>>

SilenceCommit ==
    /\ silence.st = "commit" /\ silence' = [silence EXCEPT !.st = "idle", !.fire = {}]
    /\ alerts' = [h \in Host |-> IF \E f \in silence.fire : f[1] = h
                                 THEN Append(alerts[h], (CHOOSE f \in silence.fire : f[1] = h)[2]) ELSE alerts[h]]
    /\ UNCHANGED <<now, hosts, policy, open, sweeper, sweeps, faults, edits, lost>>

\* The commit fails; run logs it.  The hosts stay in _open_alerts.
SilenceFails ==
    /\ silence.st = "commit" /\ silence.fire # {} /\ faults < MaxFault /\ faults' = faults + 1
    /\ silence' = [silence EXCEPT !.st = "idle", !.fire = {}] /\ lost' = lost \cup {f[1] : f \in silence.fire}
    /\ UNCHANGED <<now, hosts, policy, open, alerts, sweeper, sweeps, edits>>

\* A new process has an empty set.
SilenceRestart ==
    /\ silence.st = "idle" /\ open # {} /\ faults < MaxFault /\ faults' = faults + 1
    /\ open' = {} /\ silence' = [silence EXCEPT !.at = 0]
    /\ UNCHANGED <<now, hosts, policy, alerts, sweeper, sweeps, edits, lost>>

-----------------------------------------------------------------------------
(* SweepScheduler._tick_once.                                              *)

EffectiveConfig(h) == IF hosts[h].policy THEN policy ELSE Default
Live(h) == Watched(h) /\ hosts[h].seen + Grace >= now
DueLate(h) == hosts[h].swept = 0 \/ now + 1 >= hosts[h].swept + EffectiveConfig(h)
Due(h) == hosts[h].swept = 0 \/ now >= hosts[h].swept + EffectiveConfig(h)

SweepScan ==
    LET fire == {h \in Host : Live(h) /\ EffectiveConfig(h) > 0 /\ Due(h)} IN
    /\ sweeper.st = "idle" /\ fire # {}
    /\ sweeper' = [st |-> "commit", fire |-> [h \in fire |-> EffectiveConfig(h)], at |-> now]
    /\ UNCHANGED <<now, hosts, policy, silence, open, alerts, sweeps, faults, edits, lost>>

\* _fire_sweep and the stamp commit together.
SweepCommit ==
    /\ sweeper.st = "commit" /\ sweeper' = [st |-> "idle", fire |-> << >>, at |-> 0]
    /\ sweeps' = [h \in Host |-> IF h \in DOMAIN sweeper.fire
                                 THEN Append(sweeps[h], [at |-> sweeper.at, interval |-> sweeper.fire[h]]) ELSE sweeps[h]]
    /\ hosts' = [h \in Host |-> IF h \in DOMAIN sweeper.fire THEN [hosts[h] EXCEPT !.swept = sweeper.at] ELSE hosts[h]]
    /\ UNCHANGED <<now, policy, silence, open, alerts, faults, edits, lost>>

SweepFails ==
    /\ sweeper.st = "commit" /\ faults < MaxFault /\ faults' = faults + 1
    /\ sweeper' = [st |-> "idle", fire |-> << >>, at |-> 0]
    /\ UNCHANGED <<now, hosts, policy, silence, open, alerts, sweeps, edits, lost>>

Next ==
    \/ Tick \/ EditPolicy
    \/ \E h \in Host : Connect(h) \/ Heartbeat(h) \/ Disconnect(h)
    \/ SilenceScan \/ SilenceCommit \/ SilenceFails \/ SilenceRestart
    \/ SweepScan \/ SweepCommit \/ SweepFails

Spec == Init /\ [][Next]_vars

-----------------------------------------------------------------------------
\* Times are in the past, and the worker remembers hosts only.
TypeOK ==
    /\ open \subseteq Host /\ lost \subseteq Host /\ policy \in Intervals
    /\ \A h \in Host : hosts[h].seen <= now /\ hosts[h].swept <= now

\* Once the tick of an instant is over, an online host that is silent has an alert about
\* this very silence, also if it was silent, came back and went silent again; the only
\* exception is an alert whose commit failed.
SilenceCaught ==
    silence.st = "idle" /\ silence.at = now =>
        \A h \in Host : Watched(h) /\ Silent(h) /\ h \notin lost => hosts[h].seen \in {alerts[h][i] : i \in DOMAIN alerts[h]}

\* Two sweeps of a host are at least the interval apart that applied to the second, and the
\* stamp on the host is the last one: a tick that fails leaves neither a job nor a stamp.
SweepsSpaced ==
    \A h \in Host :
        /\ \A i \in 1 .. Len(sweeps[h]) - 1 : sweeps[h][i + 1].at >= sweeps[h][i].at + sweeps[h][i + 1].interval
        /\ hosts[h].swept = IF sweeps[h] = << >> THEN 0 ELSE sweeps[h][Len(sweeps[h])].at

-----------------------------------------------------------------------------
(* Claims of the comments and documents that the code does not keep.      *)

\* "In-memory dedup ... cleared when we see the host go non-silent again" and "one alert per
\* silence-window": no two alerts are about the same silence.
OnePerSilence ==
    \A h \in Host : \A i, j \in DOMAIN alerts[h] : alerts[h][i] = alerts[h][j] => i = j
=============================================================================
