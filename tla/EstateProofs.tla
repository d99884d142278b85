---------------------------- MODULE EstateProofs ----------------------------
(***************************************************************************)
(* The estate: what the manager trusts and keeps.  One part per component, *)
(* each with its hypotheses, its inductive invariant and its theorems:     *)
(* the fleet watch, enrollment, the archive, accounts, hunts and sign-in.  *)
(* The components share no state; names of constants and variables that    *)
(* several of them use stand for each one's own.                           *)
(***************************************************************************)
EXTENDS Naturals, Sequences, FiniteSets, TLAPS

CONSTANTS
    Host, Threshold, Grace, Default, Intervals, MaxTime, MaxFault, MaxEdit,
    Token, Tenant, HostId, Hostname, Request, Ca, Pcrs, Ttl, Window, MaxReport,
    Index, Pages, MaxPass, MaxRequest,
    DefaultTenant, Uid, Root, Role, Email, RootEmail, Ext, Group, GroupTenant, Seeded, Scim,
    Hunt, User, Admin, Super, TenantOf, Groups, Event, HostOf, Matches, Cron, When, Scope, PerMinute, Interval,
    Limit, Code, Secret

VARIABLES
    now, hosts, policy, silence, open, alerts, sweeper, sweeps, faults, edits, lost,
    tokens, authorities, generated, disk, server, tx, events, golden, reports,
    index, blob, target, jobs, pass, reqs, npass, nreq, orphans, raced, partial, short,
    users, tenants, scim, apiTokens, audited, req, made,
    wake, hunts, runs, since, seen, slow,
    user, fails, mfa, sessions, guesses

Watch == INSTANCE FleetWatch
Reg == INSTANCE Enrollment
Freezer == INSTANCE Archive
Directory == INSTANCE Accounts WITH Default <- DefaultTenant, tokens <- apiTokens
Schedule == INSTANCE Hunts
SignIn == INSTANCE Login

(***************************************************************************)
(* The silence worker and the sweep scheduler keep their promises for any  *)
(* set of hosts, any intervals and any number of failures.                 *)
(*                                                                         *)
(* SilenceCaught is not inductive: it is silent about the time between two *)
(* ticks.  What makes it hold is that a host the worker remembers as       *)
(* alerted on, and that shows signs of life, does so at or after the last  *)
(* scan (Remembered); as the next scan is at most one instant later and    *)
(* the threshold is at least that long, it finds the host alive and        *)
(* forgets it before the host can be silent again.                         *)
(*                                                                         *)
(* SweepsSpaced needs that what a tick of the scheduler has read of a host *)
(* still holds when it commits (SweepPending): nobody else writes the      *)
(* stamp, whatever policies change meanwhile.                              *)
(***************************************************************************)
\* A scan takes place at least once in a threshold (Tick), and intervals are hours.
FleetConstants ==
    Threshold \in Nat \ {0} /\ Default \in Nat /\ Intervals \subseteq Nat

-----------------------------------------------------------------------------
(* The inductive invariant.                                                *)

HostRow == [online : BOOLEAN, seen : Nat, swept : Nat, policy : BOOLEAN]

FleetTypes ==
    /\ now \in Nat \ {0} /\ policy \in Intervals
    /\ hosts \in [Host -> HostRow] /\ \A h \in Host : hosts[h].seen <= now /\ hosts[h].swept <= now

SilenceTypes ==
    /\ silence \in [st : {"idle", "commit"}, fire : SUBSET (Host \X Nat), at : Nat]
    /\ open \subseteq Host /\ lost \subseteq Host
    /\ alerts \in [Host -> Seq(Nat)]

\* The last scan is not in the future, and not further back than one instant
\* when it left something to remember.
ScanRecent == silence.at <= now /\ (open # {} => now <= silence.at + 1)

\* One alert per host and tick.
FireOnce == \A f, g \in silence.fire : f[1] = g[1] => f = g

\* The alert about the present silence of h is stored or about to be.
Alerted(h) ==
    \/ \E i \in DOMAIN alerts[h] : alerts[h][i] = hosts[h].seen
    \/ silence.st = "commit" /\ <<h, hosts[h].seen>> \in silence.fire

\* A host in _open_alerts was alerted on, or has been alive since the last scan.
Remembered ==
    \A h \in open \ lost : Watch!Watched(h) => Alerted(h) \/ hosts[h].seen >= silence.at

\* A host outside was not silent at the last scan.
NotSilent == \A h \in Host \ open : Watch!Watched(h) => hosts[h].seen + Threshold >= silence.at

SilenceInv == SilenceTypes /\ ScanRecent /\ FireOnce /\ Remembered /\ NotSilent

Sweep == [at : Nat \ {0}, interval : Nat \ {0}]

SweepTypes ==
    /\ sweeps \in [Host -> Seq(Sweep)]
    /\ sweeper = [st |-> sweeper.st, fire |-> sweeper.fire, at |-> sweeper.at]
    /\ sweeper.st \in {"idle", "commit"} /\ sweeper.at \in 0 .. now

\* What a tick has read still holds when it commits.
SweepPending ==
    sweeper.st = "commit" =>
        /\ sweeper.at # 0
        /\ \A h \in Host : h \in DOMAIN sweeper.fire =>
              /\ sweeper.fire[h] \in Nat \ {0}
              /\ hosts[h].swept = 0 \/ sweeper.at >= hosts[h].swept + sweeper.fire[h]

SweepInv == SweepTypes /\ SweepPending /\ Watch!SweepsSpaced

FleetInv == FleetTypes /\ SilenceInv /\ SweepInv
-----------------------------------------------------------------------------
(* The hosts table.                                                        *)

\* What any step may do to a host's row: its heartbeat is unchanged, or the host
\* leaves, or it is seen at this instant; only the scheduler's commit stamps it.
HostStep ==
    /\ hosts' \in [Host -> HostRow]
    /\ \A h \in Host :
          /\ \/ hosts'[h].seen = hosts[h].seen /\ (hosts'[h].online => hosts[h].online)
             \/ hosts'[h].seen = now
          /\ Watch!SweepCommit \/ hosts'[h].swept = hosts[h].swept

\* Every step is such a step.
LEMMA HostsStep == ASSUME FleetTypes, SweepTypes, [Watch!Next]_(Watch!vars) PROVE HostStep
<1>1. /\ now \in Nat /\ hosts \in [Host -> HostRow] /\ sweeper.at \in Nat
      /\ \A h \in Host : hosts[h] \in HostRow
  BY DEF FleetTypes, SweepTypes
<1>2. ASSUME UNCHANGED hosts PROVE HostStep
  BY <1>1, <1>2 DEF HostStep
<1>3. ASSUME NEW k \in Host, Watch!Connect(k) PROVE HostStep
  BY <1>1, <1>3 DEF HostStep, Watch!Connect, HostRow
<1>4. ASSUME NEW k \in Host, Watch!Heartbeat(k) PROVE HostStep
  BY <1>1, <1>4 DEF HostStep, Watch!Heartbeat, HostRow
<1>5. ASSUME NEW k \in Host, Watch!Disconnect(k) PROVE HostStep
  BY <1>1, <1>5 DEF HostStep, Watch!Disconnect, HostRow
<1>6. CASE Watch!EditPolicy
  <2>1. ASSUME NEW k \in Host, hosts' = [hosts EXCEPT ![k].policy = ~@] PROVE HostStep
    BY <1>1, <2>1 DEF HostStep, HostRow
  <2> QED
    BY <1>2, <1>6, <2>1 DEF Watch!EditPolicy
<1>7. CASE Watch!SweepCommit
  <2>1. \A h \in Host : hosts'[h] = IF h \in DOMAIN sweeper.fire
                                    THEN [hosts[h] EXCEPT !.swept = sweeper.at] ELSE hosts[h]
    BY <1>7 DEF Watch!SweepCommit
  <2>2. hosts' = [h \in Host |-> hosts'[h]]
    BY <1>7 DEF Watch!SweepCommit
  <2>3. \A h \in Host : /\ hosts'[h] \in HostRow /\ hosts'[h].seen = hosts[h].seen
                        /\ hosts'[h].online = hosts[h].online
    BY <1>1, <2>1 DEF HostRow
  <2> QED
    BY <1>7, <2>2, <2>3 DEF HostStep
<1> QED
  BY <1>2, <1>3, <1>4, <1>5, <1>6, <1>7
     DEF Watch!Next, Watch!vars, Watch!Tick, Watch!SilenceScan, Watch!SilenceCommit, Watch!SilenceFails, Watch!SilenceRestart, Watch!SweepScan, Watch!SweepFails

\* Time never runs backwards, and it leaves the workers alone.
LEMMA TimeMoves ==
    ASSUME FleetTypes, [Watch!Next]_(Watch!vars)
    PROVE  /\ now' \in Nat \ {0} /\ now <= now' /\ policy' \in Intervals
           /\ now' # now => /\ now' = now + 1 /\ silence.st = "idle" /\ silence.at = now
                            /\ UNCHANGED <<hosts, silence, open, alerts, sweeper, sweeps, lost>>
<1>1. now \in Nat \ {0} /\ policy \in Intervals
  BY DEF FleetTypes
<1>2. CASE Watch!Tick
  BY <1>1, <1>2 DEF Watch!Tick, Watch!Watchers
<1>3. CASE Watch!EditPolicy
  BY <1>1, <1>3 DEF Watch!EditPolicy
<1>4. CASE UNCHANGED <<now, policy>>
  BY <1>1, <1>4
<1> QED
  BY <1>2, <1>3, <1>4
     DEF Watch!Next, Watch!vars, Watch!Connect, Watch!Heartbeat, Watch!Disconnect, Watch!SilenceScan, Watch!SilenceCommit, Watch!SilenceFails,
         Watch!SilenceRestart, Watch!SweepScan, Watch!SweepCommit, Watch!SweepFails

\* The stamps are in the past.
LEMMA FleetTypesStep == ASSUME FleetTypes, SweepTypes, [Watch!Next]_(Watch!vars) PROVE FleetTypes'
<1>1. HostStep /\ now' \in Nat \ {0} /\ now <= now' /\ policy' \in Intervals
  BY HostsStep, TimeMoves
<1>2. now \in Nat /\ \A h \in Host : hosts[h] \in HostRow /\ hosts'[h] \in HostRow
  BY <1>1 DEF FleetTypes, HostStep
<1>3. ASSUME NEW h \in Host PROVE hosts'[h].seen <= now'
  BY <1>1, <1>2 DEF HostStep, FleetTypes, HostRow
<1>4. ASSUME NEW h \in Host PROVE hosts'[h].swept <= now'
  <2>1. CASE hosts'[h].swept = hosts[h].swept
    BY <1>1, <1>2, <2>1 DEF FleetTypes, HostRow
  <2>2. CASE Watch!SweepCommit
    <3>1. hosts'[h] = IF h \in DOMAIN sweeper.fire
                      THEN [hosts[h] EXCEPT !.swept = sweeper.at] ELSE hosts[h]
      BY <2>2 DEF Watch!SweepCommit
    <3>2. hosts'[h].swept \in {sweeper.at, hosts[h].swept}
      BY <1>2, <3>1 DEF HostRow
    <3> QED
      BY <1>1, <1>2, <3>2 DEF FleetTypes, SweepTypes, HostRow
  <2> QED
    BY <1>1, <2>1, <2>2 DEF HostStep
<1> QED
  BY <1>1, <1>3, <1>4 DEF FleetTypes, HostStep
-----------------------------------------------------------------------------
(* The silence worker.                                                     *)

\* Heartbeats, connections, edits, the scheduler and the clock.
LEMMA SilenceUntouched ==
    ASSUME FleetConstants, FleetTypes, SilenceInv, HostStep, now' \in Nat, now <= now',
           now' # now => now' = now + 1 /\ silence.at = now,
           UNCHANGED <<silence, open, alerts, lost>>
    PROVE  SilenceInv'
<1>1. /\ now \in Nat /\ silence.at \in Nat /\ Threshold \in Nat /\ silence.at <= now
      /\ \A h \in Host : hosts[h].seen \in Nat /\ hosts'[h].seen \in Nat
  BY DEF FleetConstants, FleetTypes, SilenceInv, SilenceTypes, ScanRecent, HostStep, HostRow
<1>2. SilenceTypes' /\ FireOnce'
  BY DEF SilenceInv, SilenceTypes, FireOnce
<1>3. ScanRecent'
  BY <1>1 DEF SilenceInv, ScanRecent
<1>4. ASSUME NEW h \in Host, Watch!Watched(h)'
      PROVE  hosts'[h].seen = now \/ (Watch!Watched(h) /\ hosts'[h].seen = hosts[h].seen)
  BY <1>4 DEF HostStep, Watch!Watched
<1>5. Remembered'
  <2> SUFFICES ASSUME NEW h \in open \ lost, Watch!Watched(h)'
               PROVE  Alerted(h)' \/ hosts'[h].seen >= silence.at
    BY DEF Remembered
  <2>1. h \in Host
    BY DEF SilenceInv, SilenceTypes
  <2>2. CASE hosts'[h].seen = now
    BY <1>1, <2>2
  <2>3. CASE Watch!Watched(h) /\ hosts'[h].seen = hosts[h].seen
    BY <2>3 DEF SilenceInv, Remembered, Alerted
  <2> QED
    BY <1>4, <2>1, <2>2, <2>3
<1>6. NotSilent'
  <2> SUFFICES ASSUME NEW h \in Host \ open, Watch!Watched(h)'
               PROVE  hosts'[h].seen + Threshold >= silence.at
    BY DEF NotSilent
  <2>1. CASE hosts'[h].seen = now
    BY <1>1, <2>1
  <2>2. CASE Watch!Watched(h) /\ hosts'[h].seen = hosts[h].seen
    BY <2>2 DEF SilenceInv, NotSilent
  <2> QED
    BY <1>4, <2>1, <2>2
<1> QED
  BY <1>2, <1>3, <1>5, <1>6 DEF SilenceInv

\* A scan: who is silent now is remembered and alerted on, who is alive forgotten.
LEMMA SilenceScanKeeps ==
    ASSUME FleetConstants, FleetTypes, SilenceInv, Watch!SilenceScan
    PROVE  SilenceInv'
<1> DEFINE new == {h \in Host \ open : Watch!Watched(h) /\ Watch!Silent(h)}
<1>1. /\ now \in Nat /\ silence.at \in Nat /\ Threshold \in Nat \ {0} /\ silence.at <= now
      /\ \A h \in Host : hosts[h].seen \in Nat
  BY DEF FleetConstants, FleetTypes, SilenceInv, SilenceTypes, ScanRecent, HostRow
<1>2. /\ silence' = [st |-> "commit", fire |-> {<<h, hosts[h].seen>> : h \in new}, at |-> now]
      /\ open' = (open \ Watch!Recovered) \cup new /\ lost' = lost \ Watch!Recovered
      /\ UNCHANGED <<now, hosts, alerts>> /\ silence.st = "idle"
  BY DEF Watch!SilenceScan
<1>3. /\ silence'.st = "commit" /\ silence'.fire = {<<h, hosts[h].seen>> : h \in new}
      /\ silence'.at = now
  BY <1>2
<1> HIDE DEF new
<1>4. new \subseteq Host /\ open \subseteq Host /\ \A h \in new : Watch!Watched(h) /\ Watch!Silent(h) /\ h \notin open
  BY DEF new, SilenceInv, SilenceTypes
<1>5. SilenceTypes'
  <2>1. silence'.fire \subseteq Host \X Nat
    BY <1>1, <1>3, <1>4
  <2>2. silence' \in [st : {"idle", "commit"}, fire : SUBSET (Host \X Nat), at : Nat]
    BY <1>1, <1>2, <1>3, <2>1
  <2> QED
    BY <1>2, <1>4, <2>2 DEF SilenceTypes, SilenceInv
<1>6. ScanRecent'
  BY <1>1, <1>2, <1>3 DEF ScanRecent
<1>7. FireOnce'
  BY <1>3 DEF FireOnce
<1>8. Remembered'
  <2> SUFFICES ASSUME NEW h \in open' \ lost', Watch!Watched(h)
               PROVE  Alerted(h)' \/ hosts[h].seen >= now
    BY <1>2, <1>3 DEF Remembered, Watch!Watched
  <2>1. CASE h \in new
    BY <1>2, <1>3, <2>1 DEF Alerted
  <2>2. CASE h \in open \ Watch!Recovered
    <3>1. h \in open /\ h \notin lost /\ h \in Host /\ Watch!Silent(h)
      BY <1>2, <1>4, <2>2 DEF Watch!Recovered
    <3>2. hosts[h].seen + Threshold < now /\ now <= silence.at + 1
      BY <3>1 DEF Watch!Silent, SilenceInv, ScanRecent
    <3>3. ~(hosts[h].seen >= silence.at)
      BY <1>1, <3>1, <3>2
    <3>4. \E i \in DOMAIN alerts[h] : alerts[h][i] = hosts[h].seen
      BY <1>2, <3>1, <3>3 DEF SilenceInv, Remembered, Alerted
    <3> QED
      BY <1>2, <3>4 DEF Alerted
  <2> QED
    BY <1>2, <2>1, <2>2
<1>9. NotSilent'
  <2> SUFFICES ASSUME NEW h \in Host \ open', Watch!Watched(h) PROVE hosts[h].seen + Threshold >= now
    BY <1>2, <1>3 DEF NotSilent, Watch!Watched
  <2>1. ~Watch!Silent(h)
    BY <1>2 DEF new, Watch!Recovered
  <2> QED
    BY <1>1, <2>1 DEF Watch!Silent
<1> QED
  BY <1>5, <1>6, <1>7, <1>8, <1>9 DEF SilenceInv

\* The commit stores the alert of every host that fired.
LEMMA SilenceCommitKeeps ==
    ASSUME FleetTypes, SilenceInv, Watch!SilenceCommit
    PROVE  SilenceInv'
<1> DEFINE fired(h) == \E f \in silence.fire : f[1] = h
<1>1. /\ silence' = [silence EXCEPT !.st = "idle", !.fire = {}]
      /\ alerts' = [h \in Host |-> IF fired(h)
                                   THEN Append(alerts[h], (CHOOSE f \in silence.fire : f[1] = h)[2])
                                   ELSE alerts[h]]
      /\ UNCHANGED <<now, hosts, open, lost>>
  BY DEF Watch!SilenceCommit
<1>2. silence \in [st : {"idle", "commit"}, fire : SUBSET (Host \X Nat), at : Nat]
  BY DEF SilenceInv, SilenceTypes
<1>3. /\ silence'.st = "idle" /\ silence'.fire = {} /\ silence'.at = silence.at
      /\ silence' \in [st : {"idle", "commit"}, fire : SUBSET (Host \X Nat), at : Nat]
  BY <1>1, <1>2
<1>4. ASSUME NEW h \in Host
      PROVE  /\ alerts'[h] \in Seq(Nat)
             /\ \A i \in DOMAIN alerts[h] : i \in DOMAIN alerts'[h] /\ alerts'[h][i] = alerts[h][i]
             /\ \A f \in silence.fire : f[1] = h => \E i \in DOMAIN alerts'[h] : alerts'[h][i] = f[2]
  <2>1. alerts[h] \in Seq(Nat)
    BY DEF SilenceInv, SilenceTypes
  <2>2. CASE fired(h)
    <3>1. PICK g : g = CHOOSE f \in silence.fire : f[1] = h
      OBVIOUS
    <3>2. g \in silence.fire /\ g[1] = h
      BY <2>2, <3>1
    <3>3. g[2] \in Nat /\ \A f \in silence.fire : f[1] = h => f = g
      BY <1>2, <3>2 DEF SilenceInv, FireOnce
    <3>4. alerts'[h] = Append(alerts[h], g[2])
      BY <1>1, <2>2, <3>1
    <3>5. PICK s, r : s = alerts[h] /\ r = alerts'[h]
      OBVIOUS
    <3>6. s \in Seq(Nat) /\ r = Append(s, g[2])
      BY <2>1, <3>4, <3>5
    <3>7. /\ r \in Seq(Nat) /\ Len(s) + 1 \in DOMAIN r /\ r[Len(s) + 1] = g[2]
          /\ \A i \in DOMAIN s : i \in DOMAIN r /\ r[i] = s[i]
      BY <3>3, <3>6
    <3>8. \A f \in silence.fire : f[1] = h => \E i \in DOMAIN r : r[i] = f[2]
      BY <3>3, <3>7
    <3> QED
      BY <3>5, <3>7, <3>8
  <2>3. CASE ~fired(h)
    <3>1. alerts'[h] = alerts[h]
      BY <1>1, <2>3
    <3> QED
      BY <2>1, <2>3, <3>1
  <2> QED
    BY <2>2, <2>3
<1>5. SilenceTypes'
  <2>1. alerts' \in [Host -> Seq(Nat)]
    BY <1>1, <1>4
  <2> QED
    BY <1>1, <1>3, <2>1 DEF SilenceInv, SilenceTypes
<1>6. ScanRecent' /\ FireOnce' /\ NotSilent'
  BY <1>1, <1>3 DEF SilenceInv, ScanRecent, FireOnce, NotSilent, Watch!Watched
<1>7. Remembered'
  <2> SUFFICES ASSUME NEW h \in open \ lost, Watch!Watched(h)
               PROVE  Alerted(h)' \/ hosts[h].seen >= silence.at
    BY <1>1, <1>3 DEF Remembered, Watch!Watched
  <2>1. h \in Host
    BY DEF SilenceInv, SilenceTypes
  <2>2. CASE Alerted(h)
    <3>1. \E i \in DOMAIN alerts'[h] : alerts'[h][i] = hosts[h].seen
      BY <1>4, <2>1, <2>2 DEF Alerted
    <3> QED
      BY <1>1, <3>1 DEF Alerted
  <2> QED
    BY <2>2 DEF SilenceInv, Remembered
<1> QED
  BY <1>5, <1>6, <1>7 DEF SilenceInv

\* A failed commit loses the alerts of the tick, and says whose.
LEMMA SilenceFailsKeeps ==
    ASSUME FleetTypes, SilenceInv, Watch!SilenceFails
    PROVE  SilenceInv'
<1>1. /\ silence' = [silence EXCEPT !.st = "idle", !.fire = {}]
      /\ lost' = lost \cup {f[1] : f \in silence.fire}
      /\ UNCHANGED <<now, hosts, open, alerts>>
  BY DEF Watch!SilenceFails
<1>2. silence \in [st : {"idle", "commit"}, fire : SUBSET (Host \X Nat), at : Nat]
  BY DEF SilenceInv, SilenceTypes
<1>3. /\ silence'.st = "idle" /\ silence'.fire = {} /\ silence'.at = silence.at
      /\ silence' \in [st : {"idle", "commit"}, fire : SUBSET (Host \X Nat), at : Nat]
  BY <1>1, <1>2
<1>4. SilenceTypes'
  BY <1>1, <1>2, <1>3 DEF SilenceInv, SilenceTypes
<1>5. ScanRecent' /\ FireOnce' /\ NotSilent'
  BY <1>1, <1>3 DEF SilenceInv, ScanRecent, FireOnce, NotSilent, Watch!Watched
<1>6. Remembered'
  <2> SUFFICES ASSUME NEW h \in open \ lost', Watch!Watched(h)
               PROVE  Alerted(h)' \/ hosts[h].seen >= silence.at
    BY <1>1, <1>3 DEF Remembered, Watch!Watched
  <2>1. h \notin lost /\ \A f \in silence.fire : f[1] # h
    BY <1>1
  <2>2. CASE \E i \in DOMAIN alerts[h] : alerts[h][i] = hosts[h].seen
    BY <1>1, <2>2 DEF Alerted
  <2>3. <<h, hosts[h].seen>> \notin silence.fire
    BY <2>1
  <2> QED
    BY <2>1, <2>2, <2>3 DEF SilenceInv, Remembered, Alerted
<1> QED
  BY <1>4, <1>5, <1>6 DEF SilenceInv

\* A new process remembers nobody and has not scanned.
LEMMA SilenceRestartKeeps ==
    ASSUME FleetConstants, FleetTypes, SilenceInv, Watch!SilenceRestart
    PROVE  SilenceInv'
<1>1. open' = {} /\ silence' = [silence EXCEPT !.at = 0] /\ UNCHANGED <<now, hosts, alerts, lost>>
  BY DEF Watch!SilenceRestart
<1>2. silence \in [st : {"idle", "commit"}, fire : SUBSET (Host \X Nat), at : Nat]
  BY DEF SilenceInv, SilenceTypes
<1>3. /\ silence'.fire = silence.fire /\ silence'.at = 0
      /\ silence' \in [st : {"idle", "commit"}, fire : SUBSET (Host \X Nat), at : Nat]
  BY <1>1, <1>2
<1>4. SilenceTypes' /\ ScanRecent' /\ FireOnce' /\ Remembered'
  <2>1. SilenceTypes' /\ FireOnce'
    BY <1>1, <1>3 DEF SilenceInv, SilenceTypes, FireOnce
  <2>2. ScanRecent'
    BY <1>1, <1>3 DEF FleetTypes, ScanRecent
  <2>3. Remembered'
    BY <1>1 DEF Remembered
  <2> QED
    BY <2>1, <2>2, <2>3
<1>5. NotSilent'
  <2> SUFFICES ASSUME NEW h \in Host PROVE hosts[h].seen + Threshold >= 0
    BY <1>1, <1>3 DEF NotSilent
  <2>1. hosts[h].seen \in Nat /\ Threshold \in Nat
    BY DEF FleetConstants, FleetTypes, HostRow
  <2> QED
    BY <2>1
<1> QED
  BY <1>4, <1>5 DEF SilenceInv

\* Every step keeps the silence worker's invariant.
LEMMA SilenceStep ==
    ASSUME FleetConstants, FleetTypes, SilenceInv, SweepTypes, [Watch!Next]_(Watch!vars)
    PROVE  SilenceInv'
<1>1. CASE UNCHANGED <<silence, open, alerts, lost>>
  <2>1. HostStep /\ now' \in Nat /\ now <= now' /\ (now' # now => now' = now + 1 /\ silence.at = now)
    BY HostsStep, TimeMoves
  <2> QED
    BY <1>1, <2>1, SilenceUntouched
<1>2. CASE Watch!Tick \/ Watch!EditPolicy \/ Watch!SweepScan \/ Watch!SweepCommit \/ Watch!SweepFails \/ UNCHANGED Watch!vars
  BY <1>1, <1>2 DEF Watch!Tick, Watch!EditPolicy, Watch!SweepScan, Watch!SweepCommit, Watch!SweepFails, Watch!vars, Watch!Watchers
<1>3. ASSUME NEW h \in Host, Watch!Connect(h) \/ Watch!Heartbeat(h) \/ Watch!Disconnect(h)
      PROVE  UNCHANGED <<silence, open, alerts, lost>>
  BY <1>3 DEF Watch!Connect, Watch!Heartbeat, Watch!Disconnect, Watch!Watchers
<1> QED
  BY <1>1, <1>2, <1>3, SilenceScanKeeps, SilenceCommitKeeps, SilenceFailsKeeps, SilenceRestartKeeps
     DEF Watch!Next
-----------------------------------------------------------------------------
(* The sweep scheduler.                                                    *)

\* A tick reads who is due, and what applies to it.
LEMMA SweepScanKeeps ==
    ASSUME FleetConstants, FleetTypes, SweepInv, Watch!SweepScan
    PROVE  SweepInv'
<1> DEFINE fire == {h \in Host : Watch!Live(h) /\ Watch!EffectiveConfig(h) > 0 /\ Watch!Due(h)}
           rd == [h \in fire |-> Watch!EffectiveConfig(h)]
<1>1. /\ sweeper' = [st |-> "commit", fire |-> rd, at |-> now]
      /\ UNCHANGED <<now, hosts, policy, sweeps>>
  BY DEF Watch!SweepScan
<1>2. sweeper'.st = "commit" /\ sweeper'.fire = rd /\ sweeper'.at = now
  BY <1>1
<1>3. now \in Nat \ {0} /\ \A h \in Host : Watch!EffectiveConfig(h) \in Nat
  BY DEF FleetConstants, FleetTypes, Watch!EffectiveConfig
<1>4. SweepTypes'
  BY <1>1, <1>2, <1>3 DEF SweepInv, SweepTypes
<1>5. SweepPending'
  <2> SUFFICES ASSUME NEW h \in Host, h \in DOMAIN rd
               PROVE  /\ rd[h] \in Nat \ {0}
                      /\ hosts[h].swept = 0 \/ now >= hosts[h].swept + rd[h]
    BY <1>1, <1>2, <1>3 DEF SweepPending
  <2>1. rd[h] = Watch!EffectiveConfig(h) /\ Watch!EffectiveConfig(h) > 0 /\ Watch!Due(h)
    OBVIOUS
  <2> QED
    BY <1>3, <2>1 DEF Watch!Due
<1>6. Watch!SweepsSpaced'
  BY <1>1 DEF SweepInv, Watch!SweepsSpaced
<1> QED
  BY <1>4, <1>5, <1>6 DEF SweepInv

\* The commit queues the sweeps and stamps their hosts.
LEMMA SweepCommitKeeps ==
    ASSUME FleetTypes, SweepInv, Watch!SweepCommit
    PROVE  SweepInv'
<1> DEFINE new(h) == [at |-> sweeper.at, interval |-> sweeper.fire[h]]
<1>1. /\ sweeper.st = "commit" /\ sweeper' = [st |-> "idle", fire |-> << >>, at |-> 0]
      /\ sweeps' = [h \in Host |-> IF h \in DOMAIN sweeper.fire THEN Append(sweeps[h], new(h)) ELSE sweeps[h]]
      /\ hosts' = [h \in Host |-> IF h \in DOMAIN sweeper.fire
                                  THEN [hosts[h] EXCEPT !.swept = sweeper.at] ELSE hosts[h]]
      /\ UNCHANGED <<now, policy>>
  BY DEF Watch!SweepCommit
<1>2. sweeper'.st = "idle" /\ sweeper'.at = 0 /\ sweeper.at \in Nat \ {0} /\ now \in Nat
  BY <1>1 DEF SweepInv, SweepTypes, SweepPending, FleetTypes
<1>3. ASSUME NEW h \in Host
      PROVE  /\ sweeps'[h] \in Seq(Sweep)
             /\ \A i \in 1 .. Len(sweeps'[h]) - 1 :
                   sweeps'[h][i + 1].at >= sweeps'[h][i].at + sweeps'[h][i + 1].interval
             /\ hosts'[h].swept = IF sweeps'[h] = << >> THEN 0 ELSE sweeps'[h][Len(sweeps'[h])].at
  <2>1. PICK s : s = sweeps[h]
    OBVIOUS
  <2>2. s \in Seq(Sweep) /\ hosts[h] \in HostRow
    BY <2>1 DEF SweepInv, SweepTypes, FleetTypes
  <2>3. /\ \A i \in 1 .. Len(s) - 1 : s[i + 1].at >= s[i].at + s[i + 1].interval
        /\ hosts[h].swept = IF s = << >> THEN 0 ELSE s[Len(s)].at
    BY <2>1 DEF SweepInv, Watch!SweepsSpaced
  <2>4. CASE h \in DOMAIN sweeper.fire
    <3>1. PICK n : n = new(h)
      OBVIOUS
    <3>2. /\ sweeper.fire[h] \in Nat \ {0}
          /\ hosts[h].swept = 0 \/ sweeper.at >= hosts[h].swept + sweeper.fire[h]
      BY <1>1, <2>4 DEF SweepInv, SweepPending
    <3>3. n \in Sweep /\ n.at = sweeper.at /\ n.interval = sweeper.fire[h]
      BY <1>2, <3>1, <3>2 DEF Sweep
    <3>4. PICK u : u = Append(s, n)
      OBVIOUS
    <3>5. /\ u \in Seq(Sweep) /\ Len(u) = Len(s) + 1 /\ u # << >> /\ u[Len(s) + 1] = n
          /\ \A i \in 1 .. Len(s) : u[i] = s[i]
      BY <2>2, <3>3, <3>4
    <3>6. sweeps'[h] = u /\ hosts'[h].swept = sweeper.at
      BY <1>1, <2>1, <2>2, <2>4, <3>1, <3>4 DEF HostRow
    <3>7. ASSUME NEW i \in 1 .. Len(u) - 1 PROVE u[i + 1].at >= u[i].at + u[i + 1].interval
      <4>1. Len(s) \in Nat
        BY <2>2
      <4>2. CASE i < Len(s)
        BY <2>3, <3>5, <4>1, <4>2
      <4>3. CASE i = Len(s)
        <5>1. s # << >> /\ s[i] \in Sweep
          BY <2>2, <4>3
        <5>2. hosts[h].swept = s[i].at /\ s[i].at # 0
          BY <2>3, <4>3, <5>1 DEF Sweep
        <5> QED
          BY <3>2, <3>3, <3>5, <4>3, <5>2
      <4> QED
        BY <3>5, <4>1, <4>2, <4>3
    <3> QED
      BY <3>3, <3>5, <3>6, <3>7
  <2>5. CASE h \notin DOMAIN sweeper.fire
    <3>1. sweeps'[h] = s /\ hosts'[h].swept = hosts[h].swept
      BY <1>1, <2>1, <2>5
    <3> QED
      BY <2>2, <2>3, <3>1
  <2> QED
    BY <2>4, <2>5
<1>4. SweepTypes'
  <2>1. sweeps' = [h \in Host |-> sweeps'[h]]
    BY <1>1
  <2>2. sweeps' \in [Host -> Seq(Sweep)]
    BY <1>3, <2>1
  <2> QED
    BY <1>1, <1>2, <2>2 DEF SweepTypes
<1>5. SweepPending' /\ Watch!SweepsSpaced'
  BY <1>2, <1>3 DEF SweepPending, Watch!SweepsSpaced
<1> QED
  BY <1>4, <1>5 DEF SweepInv

\* Every step keeps the scheduler's invariant.
LEMMA SweepStep ==
    ASSUME FleetConstants, FleetTypes, SweepInv, [Watch!Next]_(Watch!vars)
    PROVE  SweepInv'
<1>1. HostStep /\ now' \in Nat /\ now <= now' /\ now \in Nat
  BY HostsStep, TimeMoves DEF SweepInv, FleetTypes
<1>2. ASSUME UNCHANGED <<sweeper, sweeps>>, \A h \in Host : hosts'[h].swept = hosts[h].swept
      PROVE  SweepInv'
  <2>1. SweepTypes'
    BY <1>1, <1>2 DEF SweepInv, SweepTypes
  <2>2. SweepPending' /\ Watch!SweepsSpaced'
    BY <1>2 DEF SweepInv, SweepPending, Watch!SweepsSpaced
  <2> QED
    BY <2>1, <2>2 DEF SweepInv
<1>3. CASE Watch!SweepFails
  <2>1. sweeper' = [st |-> "idle", fire |-> << >>, at |-> 0] /\ UNCHANGED <<hosts, sweeps>>
    BY <1>3 DEF Watch!SweepFails
  <2>2. SweepTypes' /\ SweepPending' /\ Watch!SweepsSpaced'
    BY <1>1, <2>1 DEF SweepInv, SweepTypes, SweepPending, Watch!SweepsSpaced
  <2> QED
    BY <2>2 DEF SweepInv
<1>4. CASE Watch!SweepScan \/ Watch!SweepCommit
  BY <1>4, SweepScanKeeps, SweepCommitKeeps
<1>5. CASE UNCHANGED <<sweeper, sweeps>>
  <2>1. CASE Watch!SweepCommit
    BY <2>1, SweepCommitKeeps
  <2> QED
    BY <1>1, <1>2, <1>5, <2>1 DEF HostStep
<1>6. CASE Watch!Tick \/ Watch!EditPolicy \/ Watch!SilenceScan \/ Watch!SilenceCommit \/ Watch!SilenceFails \/ Watch!SilenceRestart
  BY <1>5, <1>6 DEF Watch!Tick, Watch!EditPolicy, Watch!SilenceScan, Watch!SilenceCommit, Watch!SilenceFails, Watch!SilenceRestart, Watch!Watchers
<1>7. ASSUME NEW h \in Host, Watch!Connect(h) \/ Watch!Heartbeat(h) \/ Watch!Disconnect(h)
      PROVE  UNCHANGED <<sweeper, sweeps>>
  BY <1>7 DEF Watch!Connect, Watch!Heartbeat, Watch!Disconnect, Watch!Watchers
<1>8. CASE UNCHANGED Watch!vars
  BY <1>5, <1>8 DEF Watch!vars
<1> QED
  BY <1>3, <1>4, <1>5, <1>6, <1>7, <1>8 DEF Watch!Next
-----------------------------------------------------------------------------
(* The theorems.                                                           *)

\* At the start no host is known and nobody is silent.
LEMMA FleetInvInit == ASSUME FleetConstants, Watch!Init PROVE FleetInv
<1>1. FleetTypes
  BY DEF Watch!Init, FleetTypes, HostRow
<1>2. SilenceInv
  <2>1. SilenceTypes
    BY DEF Watch!Init, SilenceTypes
  <2>2. ScanRecent /\ FireOnce /\ Remembered /\ NotSilent
    BY DEF Watch!Init, ScanRecent, FireOnce, Remembered, NotSilent, Watch!Watched
  <2> QED
    BY <2>1, <2>2 DEF SilenceInv
<1>3. SweepInv
  BY DEF Watch!Init, SweepInv, SweepTypes, SweepPending, Watch!SweepsSpaced
<1> QED
  BY <1>1, <1>2, <1>3 DEF FleetInv

\* FleetInv holds in every reachable state.
LEMMA FleetInvariant == ASSUME FleetConstants PROVE Watch!Spec => []FleetInv
<1>1. Watch!Init => FleetInv
  BY FleetInvInit
<1>2. ASSUME FleetInv, [Watch!Next]_(Watch!vars) PROVE FleetInv'
  <2>1. FleetTypes /\ SilenceInv /\ SweepInv /\ SweepTypes
    BY <1>2 DEF FleetInv, SweepInv
  <2>2. FleetTypes'
    BY <1>2, <2>1, FleetTypesStep
  <2>3. SilenceInv'
    BY <1>2, <2>1, SilenceStep
  <2>4. SweepInv'
    BY <1>2, <2>1, SweepStep
  <2> QED
    BY <2>2, <2>3, <2>4 DEF FleetInv
<1> QED
  BY <1>1, <1>2, PTL DEF Watch!Spec

\* The rows are well formed and their stamps in the past.
THEOREM FleetWatchTypes == ASSUME FleetConstants PROVE Watch!Spec => []Watch!TypeOK
<1>1. ASSUME FleetInv PROVE Watch!TypeOK
  BY <1>1 DEF FleetInv, FleetTypes, SilenceInv, SilenceTypes, Watch!TypeOK
<1> QED
  BY <1>1, FleetInvariant, PTL

\* Once a tick of the silence worker is over every silent host has an alert about
\* this very silence, however often it came back and went silent before, whatever
\* heartbeats came between scan and commit, and through restarts of the worker.
THEOREM SilenceIsCaught == ASSUME FleetConstants PROVE Watch!Spec => []Watch!SilenceCaught
<1>1. ASSUME FleetInv PROVE Watch!SilenceCaught
  <2> SUFFICES ASSUME silence.st = "idle", silence.at = now, NEW h \in Host, Watch!Watched(h), Watch!Silent(h),
                      h \notin lost
               PROVE  hosts[h].seen \in {alerts[h][i] : i \in DOMAIN alerts[h]}
    BY DEF Watch!SilenceCaught
  <2>1. now \in Nat /\ hosts[h].seen \in Nat /\ Threshold \in Nat
    BY <1>1 DEF FleetConstants, FleetInv, FleetTypes, HostRow
  <2>2. hosts[h].seen + Threshold < now
    BY DEF Watch!Silent
  <2>3. h \in open
    BY <1>1, <2>1, <2>2 DEF FleetInv, SilenceInv, NotSilent
  <2>4. Alerted(h)
    BY <1>1, <2>1, <2>2, <2>3 DEF FleetInv, SilenceInv, Remembered
  <2> QED
    BY <2>4 DEF Alerted
<1> QED
  BY <1>1, FleetInvariant, PTL

\* Two sweeps of a host are at least the interval apart that applied to the
\* second, and its stamp is that of the last, whatever policies are edited and
\* ticks fail in between.
THEOREM SweepsAreSpaced == ASSUME FleetConstants PROVE Watch!Spec => []Watch!SweepsSpaced
<1>1. ASSUME FleetInv PROVE Watch!SweepsSpaced
  BY <1>1 DEF FleetInv, SweepInv
<1> QED
  BY <1>1, FleetInvariant, PTL
(***************************************************************************)
(* Enrollment for any tokens, requests, hosts and authorities: a token     *)
(* brings in at most one host, and every certificate is backed by a        *)
(* committed authority.                                                    *)
(*                                                                         *)
(* What a transaction has read of its token stays true until it commits,   *)
(* because it holds the row (TxOK, OneHolder); and the authority it signs  *)
(* with is committed already or is committed with it (SignedBy).           *)
(***************************************************************************)
\* "none" stands for NULL, which is neither a host nor an authority.
EnrollmentConstants == Reg!None \notin HostId /\ Reg!None \notin Ca /\ Ttl \in Nat

-----------------------------------------------------------------------------
(* The inductive invariant.                                                *)

TokenRows ==
    /\ tokens = [t \in DOMAIN tokens |-> tokens[t]]
    /\ \A t \in DOMAIN tokens : t \in Token /\ tokens[t] \in Reg!TokenType

HostRows ==
    /\ hosts = [h \in DOMAIN hosts |-> hosts[h]]
    /\ \A h \in DOMAIN hosts : h \in HostId /\ hosts[h] \in Reg!HostType

\* A key was generated before its authority is committed, or on its way to be.
Keys ==
    /\ authorities \subseteq generated /\ generated \subseteq Ca /\ disk \in generated \cup {Reg!None}
    /\ \/ server = Reg!Idle
       \/ /\ server = [st |-> server.st, ca |-> server.ca, new |-> server.new]
          /\ server.new \in generated \cup {Reg!None}

\* The certificate of a transaction is signed by a committed authority, or by one
\* that is committed with it.
SignedBy(x) ==
    /\ x.new \in generated \cup {Reg!None}
    /\ x.st = "commit" => x.ca \in generated /\ (x.ca \in authorities \/ x.ca = x.new)

\* What a transaction has read of its token.
Claims(x) ==
    /\ x.token \in DOMAIN tokens /\ ~tokens[x.token].used
    /\ x.row.tenant = tokens[x.token].tenant /\ x.row.hostname \in Hostname
    /\ x.host \in HostId /\ x.host \notin DOMAIN hosts /\ x.at \in Nat

IsTx(x) ==
    /\ x = [st |-> x.st, token |-> x.token, host |-> x.host, at |-> x.at, ca |-> x.ca,
            new |-> x.new, row |-> x.row, alert |-> x.alert]
    /\ x.st \in {"sign", "commit"}

TxOK ==
    /\ tx = [r \in Request |-> tx[r]]
    /\ \A r \in Request : tx[r] = Reg!Idle \/ (IsTx(tx[r]) /\ Claims(tx[r]) /\ SignedBy(tx[r]))

\* No two transactions hold one token or make one host.
OneHolder ==
    \A r, q \in Request :
        /\ tx[r].st # "idle" /\ tx[q].st # "idle"
        /\ tx[r].token = tx[q].token \/ tx[r].host = tx[q].host
        => r = q

EnrollInv ==
    /\ now \in Nat /\ TokenRows /\ HostRows /\ Keys /\ TxOK /\ OneHolder
    /\ Reg!TokenBindsOne /\ Reg!CertBacked
-----------------------------------------------------------------------------
(* What steps leave alone.                                                 *)

\* The record of a transaction in flight.
LEMMA InFlightIs ==
    ASSUME TxOK, NEW r \in Request, tx[r].st # "idle"
    PROVE  IsTx(tx[r]) /\ Claims(tx[r]) /\ SignedBy(tx[r])
  BY DEF TxOK, Reg!Idle

\* Transactions stay sound while their tokens and ids do, and authorities are added.
LEMMA TxStays ==
    ASSUME TxOK, OneHolder, UNCHANGED tx, generated \subseteq generated', authorities \subseteq authorities',
           \A r \in Request : tx[r].st # "idle" => Claims(tx[r])'
    PROVE  TxOK' /\ OneHolder'
<1>1. OneHolder'
  BY DEF OneHolder
<1>2. ASSUME NEW r \in Request, tx[r] # Reg!Idle
      PROVE  IsTx(tx[r])' /\ Claims(tx[r])' /\ SignedBy(tx[r])'
  <2>1. IsTx(tx[r]) /\ SignedBy(tx[r]) /\ tx[r].st # "idle" /\ tx'[r] = tx[r]
    BY <1>2 DEF TxOK, IsTx
  <2>2. IsTx(tx[r])'
    BY <2>1 DEF IsTx
  <2>3. SignedBy(tx[r])'
    BY <2>1 DEF SignedBy
  <2> QED
    BY <2>1, <2>2, <2>3
<1> QED
  BY <1>1, <1>2 DEF TxOK

\* Steps that touch neither tokens nor hosts nor transactions.
LEMMA OthersKeep ==
    ASSUME EnrollInv, UNCHANGED <<tokens, hosts, tx>>, now' \in Nat, Keys',
           generated \subseteq generated', authorities \subseteq authorities'
    PROVE  EnrollInv'
<1>1. \A r \in Request : tx[r].st # "idle" => Claims(tx[r])'
  BY InFlightIs DEF EnrollInv, Claims
<1>2. TxOK' /\ OneHolder'
  BY <1>1, TxStays DEF EnrollInv
<1>3. TokenRows' /\ HostRows' /\ Reg!TokenBindsOne'
  BY DEF EnrollInv, TokenRows, HostRows, Reg!TokenBindsOne
<1>4. Reg!CertBacked'
  BY DEF EnrollInv, Reg!CertBacked
<1> QED
  BY <1>2, <1>3, <1>4 DEF EnrollInv

\* The clock and attestation.
LEMMA QuietKeeps ==
    ASSUME EnrollInv,
           Reg!Tick \/ \E h \in DOMAIN hosts : Reg!PromoteAttestation(h) \/ \E p \in Pcrs : Reg!RecordEvent(h, p)
    PROVE  EnrollInv'
<1>1. UNCHANGED <<tokens, hosts, tx, authorities, generated, disk, server>> /\ now' \in {now, now + 1}
  BY DEF Reg!Tick, Reg!PromoteAttestation, Reg!RecordEvent, Reg!identity
<1>2. Keys'
  BY <1>1 DEF EnrollInv, Keys
<1>3. now' \in Nat
  BY <1>1 DEF EnrollInv
<1> QED
  BY <1>1, <1>2, <1>3, OthersKeep

\* Bootstrap offers a committed authority, or one with a new key.
LEMMA BootstrapOffers ==
    ASSUME EnrollmentConstants, Keys, NEW b \in Reg!Bootstrap, Reg!Generate(b)
    PROVE  /\ b.ca \in generated' /\ b.new \in generated' \cup {Reg!None}
           /\ b.ca \in authorities \/ b.ca = b.new
           /\ generated \subseteq generated' /\ generated' \subseteq Ca
<1>1. CASE authorities # {}
  <2>1. PICK c \in authorities : b = [ca |-> c, new |-> Reg!None]
    BY <1>1 DEF Reg!Bootstrap
  <2> QED
    BY <2>1 DEF Reg!Generate, Keys
<1>2. CASE authorities = {}
  <2>1. PICK c \in Ca \ generated : b = [ca |-> c, new |-> c]
    BY <1>2 DEF Reg!Bootstrap
  <2> QED
    BY <2>1 DEF Reg!Generate, Keys, EnrollmentConstants
<1> QED
  BY <1>1, <1>2

\* The server starts, with an authority it commits after writing the files, and stops.
LEMMA ServerKeeps ==
    ASSUME EnrollmentConstants, EnrollInv, Reg!StartServer \/ Reg!ServerUp \/ Reg!StopServer
    PROVE  EnrollInv'
<1>1. CASE Reg!StartServer
  <2>1. PICK b \in Reg!Bootstrap : /\ Reg!Generate(b)
                                   /\ server' = [st |-> "starting", ca |-> b.ca, new |-> b.new]
                                   /\ disk' = IF disk = Reg!None THEN b.ca ELSE disk
    BY <1>1 DEF Reg!StartServer
  <2>2. UNCHANGED <<now, tokens, hosts, authorities, tx>>
    BY <1>1 DEF Reg!StartServer
  <2>3. /\ b.ca \in generated' /\ b.new \in generated' \cup {Reg!None}
        /\ generated \subseteq generated' /\ generated' \subseteq Ca
    BY <2>1, BootstrapOffers DEF EnrollInv
  <2>4. Keys'
    BY <2>1, <2>2, <2>3 DEF EnrollInv, Keys
  <2> QED
    BY <2>2, <2>3, <2>4, OthersKeep DEF EnrollInv
<1>2. CASE Reg!ServerUp
  <2>1. /\ server.st = "starting" /\ server' = [server EXCEPT !.st = "up"]
        /\ authorities' = authorities \cup ({server.new} \ {Reg!None})
        /\ UNCHANGED <<now, tokens, hosts, generated, disk, tx>>
    BY <1>2 DEF Reg!ServerUp
  <2>2. /\ server = [st |-> server.st, ca |-> server.ca, new |-> server.new]
        /\ server.new \in generated \cup {Reg!None}
    BY <2>1 DEF EnrollInv, Keys, Reg!Idle
  <2>3. PICK s : s = [server EXCEPT !.st = "up"]
    OBVIOUS
  <2>4. s = [st |-> "up", ca |-> server.ca, new |-> server.new]
    BY <2>2, <2>3
  <2>5. server' = [st |-> server'.st, ca |-> server'.ca, new |-> server'.new] /\ server'.new = server.new
    BY <2>1, <2>3, <2>4
  <2>6. Keys'
    BY <2>1, <2>2, <2>5 DEF EnrollInv, Keys
  <2> QED
    BY <2>1, <2>6, OthersKeep DEF EnrollInv
<1>3. CASE Reg!StopServer
  <2>1. server' = Reg!Idle /\ UNCHANGED <<now, tokens, hosts, authorities, generated, disk, tx>>
    BY <1>3 DEF Reg!StopServer
  <2>2. Keys'
    BY <2>1 DEF EnrollInv, Keys
  <2> QED
    BY <2>1, <2>2, OthersKeep DEF EnrollInv
<1> QED
  BY <1>1, <1>2, <1>3
-----------------------------------------------------------------------------
(* Tokens.                                                                 *)

\* A token is minted that no host came in with.
LEMMA CreateTokenKeeps ==
    ASSUME EnrollmentConstants, EnrollInv, NEW t \in Token, Reg!CreateToken(t)
    PROVE  EnrollInv'
<1>1. /\ t \notin DOMAIN tokens /\ \A h \in DOMAIN hosts : hosts[h].token # t
      /\ UNCHANGED <<now, hosts, authorities, generated, disk, server, tx>>
  BY DEF Reg!CreateToken, Reg!identity
<1>2. PICK n \in Tenant : tokens' = Reg!Put(tokens, t, [tenant |-> n, expires_at |-> now + Ttl,
                                                    used |-> FALSE, host |-> Reg!None])
  BY DEF Reg!CreateToken
<1>3. PICK v : v = [tenant |-> n, expires_at |-> now + Ttl, used |-> FALSE, host |-> Reg!None]
  OBVIOUS
<1>4. v \in Reg!TokenType /\ ~v.used /\ v.host = Reg!None
  <2>1. now + Ttl \in Nat
    BY DEF EnrollInv, EnrollmentConstants
  <2> QED
    BY <1>3, <2>1 DEF Reg!TokenType
<1>5. /\ DOMAIN tokens' = DOMAIN tokens \cup {t} /\ tokens' = [x \in DOMAIN tokens' |-> tokens'[x]]
      /\ tokens'[t] = v /\ \A x \in DOMAIN tokens : tokens'[x] = tokens[x]
  <2>1. tokens' = Reg!Put(tokens, t, v)
    BY <1>2, <1>3
  <2> QED
    BY <1>1, <2>1 DEF Reg!Put
<1>6. TokenRows'
  BY <1>4, <1>5 DEF EnrollInv, TokenRows
<1>7. TxOK' /\ OneHolder'
  <2>1. \A r \in Request : tx[r].st # "idle" => Claims(tx[r])'
    BY <1>1, <1>5, InFlightIs DEF EnrollInv, Claims
  <2> QED
    BY <1>1, <2>1, TxStays DEF EnrollInv
<1>8. Reg!TokenBindsOne'
  BY <1>1, <1>4, <1>5 DEF EnrollInv, Reg!TokenBindsOne
<1>9. HostRows' /\ Keys' /\ Reg!CertBacked' /\ now' \in Nat
  BY <1>1 DEF EnrollInv, HostRows, Keys, Reg!CertBacked
<1> QED
  BY <1>6, <1>7, <1>8, <1>9 DEF EnrollInv

\* A token no transaction holds is revoked.
LEMMA RevokeTokenKeeps ==
    ASSUME EnrollInv, NEW t \in Token, Reg!RevokeToken(t)
    PROVE  EnrollInv'
<1>1. /\ ~Reg!Locked(t) /\ tokens' = Reg!Drop(tokens, t)
      /\ UNCHANGED <<now, hosts, authorities, generated, disk, server, tx>>
  BY DEF Reg!RevokeToken, Reg!identity
<1>2. /\ DOMAIN tokens' = DOMAIN tokens \ {t} /\ tokens' = [x \in DOMAIN tokens' |-> tokens'[x]]
      /\ \A x \in DOMAIN tokens \ {t} : tokens'[x] = tokens[x]
  BY <1>1 DEF Reg!Drop
<1>3. TokenRows'
  BY <1>2 DEF EnrollInv, TokenRows
<1>4. TxOK' /\ OneHolder'
  <2>1. \A r \in Request : tx[r].st # "idle" => Claims(tx[r])'
    BY <1>1, <1>2, InFlightIs DEF EnrollInv, Claims, Reg!Locked, Reg!Holds
  <2> QED
    BY <1>1, <2>1, TxStays DEF EnrollInv
<1>5. Reg!TokenBindsOne'
  BY <1>1, <1>2 DEF EnrollInv, Reg!TokenBindsOne
<1>6. HostRows' /\ Keys' /\ Reg!CertBacked' /\ now' \in Nat
  BY <1>1 DEF EnrollInv, HostRows, Keys, Reg!CertBacked
<1> QED
  BY <1>3, <1>4, <1>5, <1>6 DEF EnrollInv
-----------------------------------------------------------------------------
(* Enrollment.                                                             *)

\* A transaction changes and tables do not: the others are as they were.
LEMMA TxMoves ==
    ASSUME EnrollInv, NEW r \in Request, UNCHANGED <<now, tokens, hosts, authorities, disk, server>>,
           generated \subseteq generated', generated' \subseteq Ca,
           tx' = [q \in Request |-> tx'[q]], \A q \in Request \ {r} : tx'[q] = tx[q],
           tx'[r] = Reg!Idle \/ (IsTx(tx[r]) /\ Claims(tx[r]) /\ SignedBy(tx[r]))',
           tx'[r].st # "idle" =>
              \A q \in Request \ {r} : tx[q].st # "idle" =>
                  tx'[r].token # tx[q].token /\ tx'[r].host # tx[q].host
    PROVE  EnrollInv'
<1>1. ASSUME NEW q \in Request \ {r}, tx[q] # Reg!Idle
      PROVE  (IsTx(tx[q]) /\ Claims(tx[q]) /\ SignedBy(tx[q]))'
  <2>1. IsTx(tx[q]) /\ Claims(tx[q]) /\ SignedBy(tx[q]) /\ tx'[q] = tx[q]
    BY <1>1 DEF EnrollInv, TxOK
  <2>2. IsTx(tx[q])'
    BY <2>1 DEF IsTx
  <2>3. Claims(tx[q])'
    BY <2>1 DEF Claims
  <2>4. SignedBy(tx[q])'
    BY <2>1 DEF SignedBy
  <2> QED
    BY <2>2, <2>3, <2>4
<1>2. TxOK'
  <2> SUFFICES ASSUME NEW q \in Request
               PROVE  tx'[q] = Reg!Idle \/ (IsTx(tx[q]) /\ Claims(tx[q]) /\ SignedBy(tx[q]))'
    BY DEF TxOK
  <2>1. CASE q = r
    BY <2>1
  <2>2. CASE q # r
    BY <1>1, <2>2
  <2> QED
    BY <2>1, <2>2
<1>3. OneHolder'
  BY DEF EnrollInv, OneHolder
<1>4. TokenRows' /\ HostRows' /\ Reg!TokenBindsOne' /\ Reg!CertBacked' /\ now' \in Nat
  BY DEF EnrollInv, TokenRows, HostRows, Reg!TokenBindsOne, Reg!CertBacked
<1>5. Keys'
  BY DEF EnrollInv, Keys
<1> QED
  BY <1>2, <1>3, <1>4, <1>5 DEF EnrollInv

\* The token is taken and the host row flushed.
LEMMA BeginEnrollKeeps ==
    ASSUME EnrollmentConstants, EnrollInv, NEW r \in Request, NEW t \in Token, Reg!BeginEnroll(r, t)
    PROVE  EnrollInv'
<1>1. /\ tx[r] = Reg!Idle /\ ~Reg!Locked(t) /\ t \in DOMAIN tokens /\ ~tokens[t].used
      /\ UNCHANGED <<now, tokens, hosts, authorities, generated, disk, server>>
  BY DEF Reg!BeginEnroll, Reg!ConsumeToken, Reg!Usable, Reg!identity
<1>2. PICK h \in HostId \ (DOMAIN hosts \cup Reg!InFlight), name \in Hostname :
         tx' = [tx EXCEPT ![r] =
                   [st |-> "sign", token |-> t, host |-> h, at |-> now, ca |-> Reg!None, new |-> Reg!None,
                    row |-> [tenant |-> tokens[t].tenant, hostname |-> name],
                    alert |-> Reg!DetectReenrollment(h, name)]]
  BY DEF Reg!BeginEnroll
<1>3. PICK v : v = [st |-> "sign", token |-> t, host |-> h, at |-> now, ca |-> Reg!None, new |-> Reg!None,
                    row |-> [tenant |-> tokens[t].tenant, hostname |-> name],
                    alert |-> Reg!DetectReenrollment(h, name)]
  OBVIOUS
<1>4. /\ v.st = "sign" /\ v.token = t /\ v.host = h /\ v.at = now /\ v.ca = Reg!None /\ v.new = Reg!None
      /\ v.row.tenant = tokens[t].tenant /\ v.row.hostname = name
      /\ v = [st |-> v.st, token |-> v.token, host |-> v.host, at |-> v.at, ca |-> v.ca,
              new |-> v.new, row |-> v.row, alert |-> v.alert]
  BY <1>3
<1>5. tx' = [tx EXCEPT ![r] = v]
  BY <1>2, <1>3
<1>6. tx'[r] = v /\ tx' = [q \in Request |-> tx'[q]] /\ \A q \in Request \ {r} : tx'[q] = tx[q]
  BY <1>5 DEF EnrollInv, TxOK
<1>7. (IsTx(tx[r]) /\ Claims(tx[r]) /\ SignedBy(tx[r]))'
  <2>1. IsTx(tx[r])'
    BY <1>4, <1>6 DEF IsTx
  <2>2. Claims(tx[r])'
    BY <1>1, <1>2, <1>4, <1>6 DEF Claims, EnrollInv
  <2>3. SignedBy(tx[r])'
    BY <1>4, <1>6 DEF SignedBy
  <2> QED
    BY <2>1, <2>2, <2>3
<1>8. \A q \in Request \ {r} : tx[q].st # "idle" =>
         tx'[r].token # tx[q].token /\ tx'[r].host # tx[q].host
  BY <1>1, <1>2, <1>4, <1>6 DEF Reg!Locked, Reg!Holds, Reg!InFlight
<1>9. generated \subseteq generated' /\ generated' \subseteq Ca
  BY <1>1 DEF EnrollInv, Keys
<1> QED
  BY <1>1, <1>6, <1>7, <1>8, <1>9, TxMoves

\* The certificate is signed.
LEMMA SignCsrKeeps ==
    ASSUME EnrollmentConstants, EnrollInv, NEW r \in Request, Reg!SignCsr(r)
    PROVE  EnrollInv'
<1>1. /\ tx[r].st = "sign" /\ UNCHANGED <<now, tokens, hosts, authorities, disk, server>>
  BY DEF Reg!SignCsr
<1>2. PICK b \in Reg!Bootstrap :
         Reg!Generate(b) /\ tx' = [tx EXCEPT ![r].st = "commit", ![r].ca = b.ca, ![r].new = b.new]
  BY DEF Reg!SignCsr
<1>3. /\ b.ca \in generated' /\ b.new \in generated' \cup {Reg!None}
      /\ b.ca \in authorities \/ b.ca = b.new
      /\ generated \subseteq generated' /\ generated' \subseteq Ca
  BY <1>2, BootstrapOffers DEF EnrollInv
<1>4. /\ IsTx(tx[r]) /\ Claims(tx[r]) /\ tx = [q \in Request |-> tx[q]]
  BY <1>1, InFlightIs DEF EnrollInv, TxOK
<1>5. /\ tx' = [q \in Request |-> tx'[q]] /\ \A q \in Request \ {r} : tx'[q] = tx[q]
      /\ tx'[r] = [[[tx[r] EXCEPT !.st = "commit"] EXCEPT !.ca = b.ca] EXCEPT !.new = b.new]
  BY <1>2, <1>4
<1>6. PICK u : u = [tx[r] EXCEPT !.st = "commit"]
  OBVIOUS
<1>7. u = [st |-> "commit", token |-> tx[r].token, host |-> tx[r].host, at |-> tx[r].at,
           ca |-> tx[r].ca, new |-> tx[r].new, row |-> tx[r].row, alert |-> tx[r].alert]
  BY <1>4, <1>6 DEF IsTx
<1>8. PICK w : w = [u EXCEPT !.ca = b.ca]
  OBVIOUS
<1>9. w = [st |-> "commit", token |-> tx[r].token, host |-> tx[r].host, at |-> tx[r].at,
           ca |-> b.ca, new |-> tx[r].new, row |-> tx[r].row, alert |-> tx[r].alert]
  BY <1>7, <1>8
<1>10. tx'[r] = [w EXCEPT !.new = b.new]
  BY <1>5, <1>6, <1>8
<1>11. tx'[r] = [st |-> "commit", token |-> tx[r].token, host |-> tx[r].host, at |-> tx[r].at,
                 ca |-> b.ca, new |-> b.new, row |-> tx[r].row, alert |-> tx[r].alert]
  BY <1>9, <1>10
<1>12. (IsTx(tx[r]) /\ Claims(tx[r]) /\ SignedBy(tx[r]))'
  <2>1. IsTx(tx[r])'
    BY <1>11 DEF IsTx
  <2>2. Claims(tx[r])'
    BY <1>1, <1>4, <1>11 DEF Claims
  <2>3. SignedBy(tx[r])'
    BY <1>1, <1>3, <1>11 DEF SignedBy
  <2> QED
    BY <2>1, <2>2, <2>3
<1>13. \A q \in Request \ {r} : tx[q].st # "idle" =>
          tx'[r].token # tx[q].token /\ tx'[r].host # tx[q].host
  BY <1>1, <1>11 DEF EnrollInv, OneHolder
<1> QED
  BY <1>1, <1>3, <1>5, <1>12, <1>13, TxMoves

\* A failed request gives the token back.
LEMMA RollbackEnrollKeeps ==
    ASSUME EnrollInv, NEW r \in Request, Reg!RollbackEnroll(r)
    PROVE  EnrollInv'
<1>1. /\ tx' = [tx EXCEPT ![r] = Reg!Idle]
      /\ UNCHANGED <<now, tokens, hosts, authorities, generated, disk, server>>
  BY DEF Reg!RollbackEnroll, Reg!identity
<1>2. tx'[r] = Reg!Idle /\ tx' = [q \in Request |-> tx'[q]] /\ \A q \in Request \ {r} : tx'[q] = tx[q]
  BY <1>1 DEF EnrollInv, TxOK
<1>3. tx'[r].st = "idle" /\ generated \subseteq generated' /\ generated' \subseteq Ca
  BY <1>1, <1>2 DEF Reg!Idle, EnrollInv, Keys
<1> QED
  BY <1>1, <1>2, <1>3, TxMoves

\* The token is bound to the host and both are committed with the authority.
LEMMA CommitEnrollKeeps ==
    ASSUME EnrollmentConstants, EnrollInv, NEW r \in Request, Reg!CommitEnroll(r)
    PROVE  EnrollInv'
<1>1. PICK x : x = tx[r]
  OBVIOUS
<1>2. /\ x.st = "commit"
      /\ tokens' = [tokens EXCEPT ![x.token].used = TRUE, ![x.token].host = x.host]
      /\ hosts' = Reg!Put(hosts, x.host, [tenant |-> x.row.tenant, hostname |-> x.row.hostname,
                                      enrolled_at |-> x.at, status |-> "pending",
                                      ca |-> x.ca, token |-> x.token])
      /\ authorities' = authorities \cup ({x.new} \ {Reg!None})
      /\ tx' = [tx EXCEPT ![r] = Reg!Idle]
      /\ UNCHANGED <<now, generated, disk, server>>
  BY <1>1 DEF Reg!CommitEnroll
<1>3. Claims(x) /\ SignedBy(x)
  BY <1>1, <1>2, InFlightIs DEF EnrollInv
<1>4. PICK t : t = x.token
  OBVIOUS
<1>5. PICK h : h = x.host
  OBVIOUS
<1>6. /\ t \in DOMAIN tokens /\ ~tokens[t].used /\ tokens[t] \in Reg!TokenType /\ t \in Token
      /\ x.row.tenant = tokens[t].tenant /\ x.row.hostname \in Hostname
      /\ h \in HostId /\ h \notin DOMAIN hosts /\ x.at \in Nat /\ h # Reg!None
  BY <1>3, <1>4, <1>5 DEF Claims, EnrollInv, TokenRows, EnrollmentConstants
<1>7. PICK v : v = [tenant |-> x.row.tenant, hostname |-> x.row.hostname, enrolled_at |-> x.at,
                    status |-> "pending", ca |-> x.ca, token |-> x.token]
  OBVIOUS
<1>8. /\ DOMAIN hosts' = DOMAIN hosts \cup {h} /\ hosts' = [k \in DOMAIN hosts' |-> hosts'[k]]
      /\ hosts'[h] = v /\ \A k \in DOMAIN hosts : hosts'[k] = hosts[k]
  <2>1. hosts' = Reg!Put(hosts, h, v)
    BY <1>2, <1>5, <1>7
  <2> QED
    BY <1>6, <2>1 DEF Reg!Put
<1>9. v.tenant = tokens[t].tenant /\ v.ca = x.ca /\ v.token = t
  BY <1>4, <1>6, <1>7
<1>10. PICK w : w = [tokens[t] EXCEPT !.used = TRUE, !.host = h]
  OBVIOUS
<1>11. w \in Reg!TokenType /\ w.used /\ w.host = h /\ w.tenant = tokens[t].tenant
  BY <1>6, <1>10 DEF Reg!TokenType
<1>12. /\ DOMAIN tokens' = DOMAIN tokens /\ tokens' = [k \in DOMAIN tokens' |-> tokens'[k]]
       /\ tokens'[t] = w /\ \A k \in DOMAIN tokens \ {t} : tokens'[k] = tokens[k]
  <2>1. tokens = [k \in DOMAIN tokens |-> tokens[k]]
    BY DEF EnrollInv, TokenRows
  <2>2. tokens' = [tokens EXCEPT ![t].used = TRUE, ![t].host = h]
    BY <1>2, <1>4, <1>5
  <2> QED
    BY <1>6, <1>10, <2>1, <2>2
<1>13. x.ca \in authorities' /\ x.ca \in Ca /\ x.new \in generated \cup {Reg!None}
  BY <1>2, <1>3 DEF SignedBy, EnrollInv, Keys, EnrollmentConstants
<1>14. TokenRows'
  BY <1>11, <1>12 DEF EnrollInv, TokenRows
<1>15. HostRows'
  <2>1. v \in Reg!HostType
    BY <1>4, <1>6, <1>7, <1>13 DEF Reg!HostType, Reg!TokenType
  <2> QED
    BY <1>6, <1>8, <2>1 DEF EnrollInv, HostRows
<1>16. Keys' /\ now' \in Nat
  BY <1>2, <1>13 DEF EnrollInv, Keys
<1>17. Reg!CertBacked'
  BY <1>2, <1>8, <1>9, <1>13 DEF EnrollInv, Reg!CertBacked
<1>18. tx'[r] = Reg!Idle /\ tx' = [q \in Request |-> tx'[q]] /\ \A q \in Request \ {r} : tx'[q] = tx[q]
  BY <1>2 DEF EnrollInv, TxOK
<1>19. OneHolder'
  <2>1. tx'[r].st = "idle"
    BY <1>18 DEF Reg!Idle
  <2> QED
    BY <1>18, <2>1 DEF EnrollInv, OneHolder
<1>20. TxOK'
  <2>1. ASSUME NEW q \in Request \ {r}, tx[q] # Reg!Idle
        PROVE  (IsTx(tx[q]) /\ Claims(tx[q]) /\ SignedBy(tx[q]))'
    <3>1. IsTx(tx[q]) /\ Claims(tx[q]) /\ SignedBy(tx[q]) /\ tx'[q] = tx[q]
      BY <1>18, <2>1 DEF EnrollInv, TxOK
    <3>2. tx[q].token # t /\ tx[q].host # h
      BY <1>1, <1>2, <1>4, <1>5, <3>1 DEF EnrollInv, OneHolder, IsTx
    <3>3. IsTx(tx[q])'
      BY <3>1 DEF IsTx
    <3>4. Claims(tx[q])'
      BY <1>8, <1>12, <3>1, <3>2 DEF Claims
    <3>5. SignedBy(tx[q])'
      BY <1>2, <3>1 DEF SignedBy
    <3> QED
      BY <3>3, <3>4, <3>5
  <2> QED
    BY <1>18, <2>1 DEF TxOK
<1>21. Reg!TokenBindsOne'
  <2>1. tokens[t].host = Reg!None /\ \A k \in DOMAIN hosts : hosts[k].token # t
    BY <1>6 DEF EnrollInv, Reg!TokenBindsOne
  <2>2. \A k, l \in DOMAIN hosts' : hosts'[k].token = hosts'[l].token => k = l
    BY <1>8, <1>9, <2>1 DEF EnrollInv, Reg!TokenBindsOne
  <2>3. ASSUME NEW s \in DOMAIN tokens', tokens'[s].host # Reg!None
        PROVE  /\ tokens'[s].used /\ tokens'[s].host \in DOMAIN hosts'
               /\ hosts'[tokens'[s].host].token = s
               /\ hosts'[tokens'[s].host].tenant = tokens'[s].tenant
    <3>1. CASE s = t
      BY <1>8, <1>9, <1>11, <1>12, <3>1
    <3>2. CASE s # t
      BY <1>8, <1>12, <2>3, <3>2 DEF EnrollInv, Reg!TokenBindsOne
    <3> QED
      BY <3>1, <3>2
  <2>4. ASSUME NEW s \in DOMAIN tokens', NEW k \in DOMAIN hosts', hosts'[k].token = s
        PROVE  tokens'[s].used
    <3>1. CASE s = t
      BY <1>11, <1>12, <3>1
    <3>2. CASE s # t
      BY <1>8, <1>9, <1>12, <2>4, <3>2 DEF EnrollInv, Reg!TokenBindsOne
    <3> QED
      BY <3>1, <3>2
  <2> QED
    BY <2>2, <2>3, <2>4 DEF Reg!TokenBindsOne
<1> QED
  BY <1>14, <1>15, <1>16, <1>17, <1>19, <1>20, <1>21 DEF EnrollInv
-----------------------------------------------------------------------------
(* The host afterwards.                                                    *)

\* The status of a host changes and nothing else of it.
LEMMA StatusKeeps ==
    ASSUME EnrollInv, NEW h \in DOMAIN hosts, Reg!Connect(h) \/ Reg!UpdateHost(h)
    PROVE  EnrollInv'
<1>1. PICK st \in {"online", "decommissioned"} : hosts' = [hosts EXCEPT ![h].status = st]
  BY DEF Reg!Connect, Reg!UpdateHost
<1>2. UNCHANGED <<now, tokens, authorities, generated, disk, server, tx>>
  BY DEF Reg!Connect, Reg!UpdateHost, Reg!identity
<1>3. hosts = [k \in DOMAIN hosts |-> hosts[k]] /\ hosts[h] \in Reg!HostType
  BY DEF EnrollInv, HostRows
<1>4. PICK v : v = [hosts[h] EXCEPT !.status = st]
  OBVIOUS
<1>5. /\ v \in Reg!HostType /\ v.token = hosts[h].token /\ v.tenant = hosts[h].tenant
      /\ v.ca = hosts[h].ca
  BY <1>3, <1>4 DEF Reg!HostType
<1>6. /\ DOMAIN hosts' = DOMAIN hosts /\ hosts' = [k \in DOMAIN hosts' |-> hosts'[k]]
      /\ hosts'[h] = v /\ \A k \in DOMAIN hosts \ {h} : hosts'[k] = hosts[k]
  BY <1>1, <1>3, <1>4
<1>7. \A k \in DOMAIN hosts : /\ hosts'[k].token = hosts[k].token /\ hosts'[k].ca = hosts[k].ca
                              /\ hosts'[k].tenant = hosts[k].tenant
  BY <1>5, <1>6
<1>8. HostRows'
  BY <1>5, <1>6 DEF EnrollInv, HostRows
<1>9. Reg!TokenBindsOne' /\ Reg!CertBacked'
  BY <1>2, <1>6, <1>7 DEF EnrollInv, Reg!TokenBindsOne, Reg!CertBacked
<1>10. TxOK' /\ OneHolder'
  <2>1. \A r \in Request : tx[r].st # "idle" => Claims(tx[r])'
    BY <1>2, <1>6, InFlightIs DEF EnrollInv, Claims
  <2> QED
    BY <1>2, <2>1, TxStays DEF EnrollInv
<1>11. TokenRows' /\ Keys' /\ now' \in Nat
  BY <1>2 DEF EnrollInv, TokenRows, Keys
<1> QED
  BY <1>8, <1>9, <1>10, <1>11 DEF EnrollInv

\* A host is deleted and its token forgets it, but stays used.
LEMMA DeleteHostKeeps ==
    ASSUME EnrollmentConstants, EnrollInv, NEW h \in DOMAIN hosts, Reg!DeleteHost(h)
    PROVE  EnrollInv'
<1>1. /\ hosts' = Reg!Drop(hosts, h)
      /\ tokens' = [t \in DOMAIN tokens |->
                      IF tokens[t].host = h THEN [tokens[t] EXCEPT !.host = Reg!None] ELSE tokens[t]]
      /\ UNCHANGED <<now, authorities, generated, disk, server, tx>>
  BY DEF Reg!DeleteHost, Reg!identity
<1>2. /\ DOMAIN hosts' = DOMAIN hosts \ {h} /\ hosts' = [k \in DOMAIN hosts' |-> hosts'[k]]
      /\ \A k \in DOMAIN hosts \ {h} : hosts'[k] = hosts[k]
  BY <1>1 DEF Reg!Drop
<1>3. DOMAIN tokens' = DOMAIN tokens /\ tokens' = [t \in DOMAIN tokens' |-> tokens'[t]]
  BY <1>1
<1>4. ASSUME NEW t \in DOMAIN tokens
      PROVE  /\ tokens'[t] \in Reg!TokenType /\ tokens'[t].used = tokens[t].used
             /\ tokens'[t].tenant = tokens[t].tenant
             /\ tokens'[t].host = IF tokens[t].host = h THEN Reg!None ELSE tokens[t].host
  <2>1. tokens[t] \in Reg!TokenType
    BY DEF EnrollInv, TokenRows
  <2>2. CASE tokens[t].host # h
    BY <1>1, <2>1, <2>2
  <2>3. CASE tokens[t].host = h
    <3>1. tokens'[t] = [tokens[t] EXCEPT !.host = Reg!None]
      BY <1>1, <2>3
    <3> QED
      BY <2>1, <2>3, <3>1 DEF Reg!TokenType
  <2> QED
    BY <2>2, <2>3
<1>5. TokenRows'
  BY <1>3, <1>4 DEF EnrollInv, TokenRows
<1>6. HostRows' /\ Reg!CertBacked'
  BY <1>1, <1>2 DEF EnrollInv, HostRows, Reg!CertBacked
<1>7. Reg!TokenBindsOne'
  <2>1. ASSUME NEW t \in DOMAIN tokens', tokens'[t].host # Reg!None
        PROVE  tokens'[t].host = tokens[t].host /\ tokens[t].host # Reg!None /\ tokens[t].host # h
    BY <1>3, <1>4, <2>1
  <2>2. ASSUME NEW t \in DOMAIN tokens', tokens'[t].host # Reg!None
        PROVE  /\ tokens'[t].used /\ tokens'[t].host \in DOMAIN hosts'
               /\ hosts'[tokens'[t].host].token = t
               /\ hosts'[tokens'[t].host].tenant = tokens'[t].tenant
    BY <1>2, <1>3, <1>4, <2>1, <2>2 DEF EnrollInv, Reg!TokenBindsOne
  <2>3. ASSUME NEW t \in DOMAIN tokens', NEW k \in DOMAIN hosts', hosts'[k].token = t
        PROVE  tokens'[t].used
    BY <1>2, <1>3, <1>4, <2>3 DEF EnrollInv, Reg!TokenBindsOne
  <2>4. \A k, l \in DOMAIN hosts' : hosts'[k].token = hosts'[l].token => k = l
    BY <1>2 DEF EnrollInv, Reg!TokenBindsOne
  <2> QED
    BY <2>2, <2>3, <2>4 DEF Reg!TokenBindsOne
<1>8. TxOK' /\ OneHolder'
  <2>1. \A r \in Request : tx[r].st # "idle" => Claims(tx[r])'
    BY <1>1, <1>2, <1>3, <1>4, InFlightIs DEF EnrollInv, Claims
  <2> QED
    BY <1>1, <2>1, TxStays DEF EnrollInv
<1>9. Keys' /\ now' \in Nat
  BY <1>1 DEF EnrollInv, Keys
<1> QED
  BY <1>5, <1>6, <1>7, <1>8, <1>9 DEF EnrollInv
-----------------------------------------------------------------------------
(* The theorems.                                                           *)

\* At first there is nothing.
LEMMA EnrollInitially == ASSUME Reg!Init PROVE EnrollInv
<1>1. DOMAIN tokens = {} /\ DOMAIN hosts = {}
  BY DEF Reg!Init, Reg!Empty
<1>2. \A r \in Request : tx[r] = Reg!Idle /\ tx[r].st = "idle"
  BY DEF Reg!Init, Reg!Idle
<1>3. TokenRows /\ HostRows /\ Reg!TokenBindsOne /\ Reg!CertBacked
  <2>1. tokens = [t \in DOMAIN tokens |-> tokens[t]] /\ hosts = [h \in DOMAIN hosts |-> hosts[h]]
    BY DEF Reg!Init, Reg!Empty
  <2> QED
    BY <1>1, <2>1 DEF TokenRows, HostRows, Reg!TokenBindsOne, Reg!CertBacked
<1>4. TxOK /\ OneHolder
  BY <1>2 DEF Reg!Init, TxOK, OneHolder
<1>5. Keys /\ now \in Nat
  BY DEF Reg!Init, Keys
<1> QED
  BY <1>3, <1>4, <1>5 DEF EnrollInv

\* Every step keeps the invariant.
LEMMA EnrollStep == ASSUME EnrollmentConstants, EnrollInv, [Reg!Next]_(Reg!vars) PROVE EnrollInv'
<1>1. CASE Reg!Tick
  BY <1>1, QuietKeeps
<1>2. CASE Reg!StartServer \/ Reg!ServerUp \/ Reg!StopServer
  BY <1>2, ServerKeeps
<1>3. ASSUME NEW t \in Token, Reg!CreateToken(t) \/ Reg!RevokeToken(t) PROVE EnrollInv'
  BY <1>3, CreateTokenKeeps, RevokeTokenKeeps
<1>4. ASSUME NEW r \in Request,
             Reg!SignCsr(r) \/ Reg!RollbackEnroll(r) \/ Reg!CommitEnroll(r) \/ \E t \in Token : Reg!BeginEnroll(r, t)
      PROVE  EnrollInv'
  BY <1>4, SignCsrKeeps, RollbackEnrollKeeps, CommitEnrollKeeps, BeginEnrollKeeps
<1>5. ASSUME NEW h \in DOMAIN hosts,
             \/ Reg!Connect(h) \/ Reg!UpdateHost(h) \/ Reg!DeleteHost(h) \/ Reg!PromoteAttestation(h)
             \/ \E p \in Pcrs : Reg!RecordEvent(h, p)
      PROVE  EnrollInv'
  BY <1>5, StatusKeeps, DeleteHostKeeps, QuietKeeps
<1>6. CASE UNCHANGED Reg!vars
  <2>1. UNCHANGED <<tokens, hosts, tx, authorities, generated, disk, server, now>>
    BY <1>6 DEF Reg!vars
  <2>2. Keys' /\ now' \in Nat
    BY <2>1 DEF EnrollInv, Keys
  <2> QED
    BY <2>1, <2>2, OthersKeep
<1> QED
  BY <1>1, <1>2, <1>3, <1>4, <1>5, <1>6 DEF Reg!Next

\* So it always holds.
LEMMA EnrollInvariant == ASSUME EnrollmentConstants PROVE Reg!Spec => []EnrollInv
<1>1. Reg!Init => EnrollInv
  BY EnrollInitially
<1>2. EnrollInv /\ [Reg!Next]_(Reg!vars) => EnrollInv'
  BY EnrollStep
<1> QED
  BY <1>1, <1>2, PTL DEF Reg!Spec

\* Token, host and authority rows are well formed, and every authority's key was
\* generated (services/enrollment.py, services/ca.py).
THEOREM EnrollmentTypes == ASSUME EnrollmentConstants PROVE Reg!Spec => []Reg!TypeOK
<1>1. EnrollInv => Reg!TypeOK
  BY DEF EnrollInv, TokenRows, HostRows, Keys, Reg!TypeOK
<1> QED
  BY <1>1, EnrollInvariant, PTL

\* However many enroll requests race for a token, fail and are retried, while it is
\* revoked and minted anew and hosts are deleted (consume_token, bind_token_to_host):
\* a token brings in at most one host, into its own tenant, and is used up only then.
THEOREM TokenAlwaysBindsOne == ASSUME EnrollmentConstants PROVE Reg!Spec => []Reg!TokenBindsOne
<1>1. EnrollInv => Reg!TokenBindsOne
  BY DEF EnrollInv
<1> QED
  BY <1>1, EnrollInvariant, PTL

\* Whoever bootstraps first, and whichever of enroll and server start is rolled back
\* or crashes (get_or_bootstrap, sign_csr): the authority that signed the certificate
\* of a host is a committed row.
THEOREM CertAlwaysBacked == ASSUME EnrollmentConstants PROVE Reg!Spec => []Reg!CertBacked
<1>1. EnrollInv => Reg!CertBacked
  BY DEF EnrollInv
<1> QED
  BY <1>1, EnrollInvariant, PTL
(***************************************************************************)
(* Freezing and rehydrating keep their promises for any indices, pages and *)
(* requests, and through any number of passes, faults and crashes.         *)
(*                                                                         *)
(* The properties are not inductive: they speak of rows, and what makes a  *)
(* row true happened steps earlier.  The invariant follows the copy from   *)
(* the scroll to the close (PassOK), says that an index with a copied row  *)
(* is never open again, so that no two rows copy one index (OneCopy), and  *)
(* that two tasks work on one row only if two requests found it frozen     *)
(* (OneTask).                                                              *)
(***************************************************************************)
\* The bounds are numbers.
ArchiveConstants == MaxPass \in Nat /\ MaxRequest \in Nat /\ MaxFault \in Nat

-----------------------------------------------------------------------------
(* The inductive invariant.                                                *)

IsJob(j) ==
    /\ j = [n |-> j.n, index |-> j.index, st |-> j.st, key |-> j.key]
    /\ j.n \in Nat /\ j.index \in Index /\ j.key \in BOOLEAN

Counters == npass \in 0 .. MaxPass /\ nreq \in 0 .. MaxRequest /\ faults \in 0 .. MaxFault

Stores ==
    /\ index \in [Index -> {"open", "closed", "gone"}]
    /\ blob = [i \in Index |-> blob[i]] /\ \A i \in Index : blob[i] \subseteq Freezer!Docs(i)
    /\ target = [i \in Index |-> target[i]] /\ \A i \in Index : target[i] \subseteq Freezer!Docs(i)

\* What was read of an index is all of it, unless a scroll of it was answered in part.
Full(S, i) == S \subseteq Freezer!Docs(i) /\ (S = Freezer!Docs(i) \/ i \in short)

\* Rows of the pass in flight; there are none without one.
PassRows == IF pass.st = "idle" THEN {} ELSE pass.rows

\* A row that was once frozen has its copy, and no other has a status but failed.
Copied(j) ==
    /\ j.key => Freezer!Whole(j.index) /\ index[j.index] # "open"
    /\ ~j.key => j.st = "failed"

JobsOK ==
    /\ \A j \in jobs : /\ IsJob(j) /\ j.n <= npass /\ Copied(j)
                       /\ pass.st # "idle" => j.n # npass
                       /\ j.st \in {"frozen", "rehydrating", "rehydrated", "failed"}
    /\ \A j, k \in jobs : Freezer!Id(j) = Freezer!Id(k) => j = k

Freezing == pass.st \in {"scroll", "put", "close"}

PassFields ==
    /\ pass = [st |-> pass.st, todo |-> pass.todo, cur |-> pass.cur, buf |-> pass.buf,
               rows |-> pass.rows, closed |-> pass.closed]
    /\ pass.st \in {"next", "scroll", "put", "close"}
    /\ pass.todo \subseteq Index

\* A copy is stored as it was read, and then the index is closed.
CopyOK ==
    /\ Freezing => pass.cur \in Index \ pass.todo
    /\ pass.st = "put" => Full(pass.buf, pass.cur)
    /\ pass.st = "close" => Freezer!Whole(pass.cur)
    /\ pass.st \in {"put", "close"} => index[pass.cur] # "closed"

PassRowsOK ==
    /\ \A j \in pass.rows :
          /\ IsJob(j) /\ j.n = npass /\ Copied(j) /\ j.st \in {"frozen", "failed"}
          /\ j.index \notin pass.todo /\ (Freezing => j.index # pass.cur)
    /\ \A j, k \in pass.rows : j.index = k.index => j = k
    /\ \A i \in pass.closed : \E j \in pass.rows : j.index = i /\ j.key

PassOK == pass = Freezer!Idle \/ (PassFields /\ CopyOK /\ PassRowsOK)

\* No two rows copy one index, and none copies the index that is being copied.
OneCopy ==
    /\ \A j, k \in jobs \cup PassRows : j.key /\ k.key /\ j.index = k.index => j = k
    /\ pass.st \in {"put", "close"} => \A j \in jobs \cup PassRows : j.key => j.index # pass.cur

Post(r) == reqs[r].st \in {"queued", "fetch", "recreate", "bulk", "finish"}

\* A task writes what the copy holds.
Fetched(r) == reqs[r].st \in {"recreate", "bulk"} => Full(reqs[r].buf, reqs[r].id.index)

ReqsOK ==
    /\ reqs = [r \in Request |-> reqs[r]]
    /\ \A r \in Request :
          \/ reqs[r] = Freezer!Idle
          \/ /\ reqs[r] = [st |-> reqs[r].st, id |-> reqs[r].id, saw |-> reqs[r].saw, buf |-> reqs[r].buf]
             /\ reqs[r].st = "flip" \/ Post(r)
             /\ reqs[r].saw = "frozen"
             /\ \E j \in jobs : j.key /\ Freezer!Id(j) = reqs[r].id
             /\ Fetched(r)

\* A row no two requests found frozen has one task, while it says so.
OneTask ==
    /\ \A r, q \in Request : Post(r) /\ Post(q) /\ reqs[r].id = reqs[q].id =>
          r = q \/ reqs[r].id \in raced
    /\ \A r \in Request, j \in jobs : Post(r) /\ reqs[r].id = Freezer!Id(j) =>
          j.st = "rehydrating" \/ Freezer!Id(j) \in raced

\* A task about to say rehydrated has brought the documents back.
Served(id) ==
    target[id.index] = Freezer!Docs(id.index) \/ id.index \in short \cup partial \/ id \in raced

TasksServe == \A r \in Request : reqs[r].st = "finish" => Served(reqs[r].id)

\* The worker's half and the requests' half.
PassInv == Counters /\ Stores /\ JobsOK /\ PassOK /\ OneCopy /\ Freezer!ClosedIsListed

TaskInv == ReqsOK /\ OneTask /\ TasksServe /\ Freezer!RehydratedServes

ArchiveInv == PassInv /\ TaskInv
-----------------------------------------------------------------------------
(* Rows and copies.                                                        *)

\* A stored copy is never overwritten by less, a closed index never reopened.
CopiesStay ==
    \A i \in Index : /\ Freezer!Whole(i) => Freezer!Whole(i)'
                     /\ index[i] # "open" => index'[i] # "open"

\* So rows keep what they promise.
LEMMA CopiedStays ==
    ASSUME CopiesStay, NEW j, IsJob(j), Copied(j)
    PROVE  Copied(j)'
  BY DEF CopiesStay, IsJob, Copied

\* A pass in flight is a record of its fields.
LEMMA PassInFlight ==
    ASSUME PassOK, pass.st # "idle"
    PROVE  /\ pass # Freezer!Idle
           /\ pass = [st |-> pass.st, todo |-> pass.todo, cur |-> pass.cur, buf |-> pass.buf,
                      rows |-> pass.rows, closed |-> pass.closed]
           /\ PassRows = pass.rows /\ PassFields /\ CopyOK /\ PassRowsOK
  BY DEF PassOK, PassFields, Freezer!Idle, PassRows

\* A job's status changes and nothing else of it.
LEMMA JobRelabelled ==
    ASSUME NEW j, IsJob(j), NEW st
    PROVE  \E k : /\ k = [j EXCEPT !.st = st] /\ IsJob(k) /\ Freezer!Id(k) = Freezer!Id(j)
                  /\ k.n = j.n /\ k.index = j.index /\ k.key = j.key /\ k.st = st
<1>1. PICK k : k = [j EXCEPT !.st = st]
  OBVIOUS
<1>2. k = [n |-> j.n, index |-> j.index, st |-> st, key |-> j.key]
  BY <1>1 DEF IsJob
<1>3. k.n = j.n /\ k.index = j.index /\ k.key = j.key /\ k.st = st
  BY <1>2
<1> QED
  BY <1>1, <1>2, <1>3 DEF IsJob, Freezer!Id

\* Whatever the status is.
LEMMA JobRelabels ==
    ASSUME NEW j, IsJob(j)
    PROVE  \A st : \E k : /\ k = [j EXCEPT !.st = st] /\ IsJob(k) /\ Freezer!Id(k) = Freezer!Id(j)
                          /\ k.n = j.n /\ k.index = j.index /\ k.key = j.key /\ k.st = st
<1> TAKE st
<1> QED
  BY JobRelabelled

\* The row a request speaks of is the one with its pass and index.
LEMMA CurrentIs ==
    ASSUME JobsOK, NEW j \in jobs, NEW id, Freezer!Id(j) = id
    PROVE  Freezer!Current(id) = j /\ id.index = j.index
<1>1. id.n = j.n /\ id.index = j.index
  BY DEF Freezer!Id
<1>2. \A k \in jobs : k.n = id.n /\ k.index = id.index => k = j
  BY <1>1 DEF JobsOK, Freezer!Id
<1> QED
  BY <1>1, <1>2 DEF Freezer!Current

\* The steps of the worker leave the tasks alone.
LEMMA TasksUntouched ==
    ASSUME PassInv, TaskInv, UNCHANGED <<target, reqs, raced, partial>>, short \subseteq short',
           jobs' = jobs \/ (pass.st # "idle" /\ jobs' = jobs \cup pass.rows)
    PROVE  TaskInv'
<1>1. jobs \subseteq jobs'
  OBVIOUS
<1>2. ASSUME NEW j \in jobs', j \notin jobs
      PROVE  j.st \in {"frozen", "failed"} /\ \A k \in jobs : Freezer!Id(j) # Freezer!Id(k)
  <2>1. pass.st # "idle" /\ j \in pass.rows
    BY <1>2
  <2>2. j.n = npass /\ j.st \in {"frozen", "failed"}
    BY <2>1, PassInFlight DEF PassInv, PassRowsOK
  <2>3. \A k \in jobs : k.n # npass
    BY <2>1 DEF PassInv, JobsOK
  <2> QED
    BY <2>2, <2>3 DEF Freezer!Id
<1>3. ReqsOK'
  BY <1>1 DEF TaskInv, ReqsOK, Post, Fetched, Full
<1>4. TasksServe'
  BY DEF TaskInv, TasksServe, Served
<1>5. OneTask'
  <2>1. ASSUME NEW r \in Request, NEW j \in jobs', Post(r), reqs[r].id = Freezer!Id(j)
        PROVE  j.st = "rehydrating" \/ Freezer!Id(j) \in raced
    <3>1. \E k \in jobs : Freezer!Id(k) = reqs[r].id
      BY <2>1 DEF TaskInv, ReqsOK, Post, Freezer!Idle
    <3> QED
      BY <1>2, <2>1, <3>1 DEF TaskInv, OneTask
  <2> QED
    BY <2>1 DEF TaskInv, OneTask, Post
<1>6. Freezer!RehydratedServes'
  BY <1>2 DEF TaskInv, Freezer!RehydratedServes
<1> QED
  BY <1>3, <1>4, <1>5, <1>6 DEF TaskInv
-----------------------------------------------------------------------------
(* The worker.                                                             *)

\* Rows stay as they are while copies do.
LEMMA JobsStay ==
    ASSUME JobsOK, CopiesStay, jobs' = jobs, npass' \in Nat,
           \A j \in jobs : j.n <= npass' /\ (pass'.st # "idle" => j.n # npass')
    PROVE  JobsOK'
<1>1. ASSUME NEW j \in jobs
      PROVE  /\ IsJob(j) /\ Copied(j)' /\ j.st \in {"frozen", "rehydrating", "rehydrated", "failed"}
  BY CopiedStays DEF JobsOK
<1>2. \A j, k \in jobs : Freezer!Id(j) = Freezer!Id(k) => j = k
  BY DEF JobsOK
<1> QED
  BY <1>1, <1>2 DEF JobsOK, IsJob, Freezer!Id

\* What a closed index has does not go away.
LEMMA ClosedStays ==
    ASSUME Stores, Freezer!ClosedIsListed, CopiesStay, orphans \subseteq orphans',
           \A j \in jobs : j.key => \E k \in jobs' : k.index = j.index /\ k.key,
           pass = Freezer!Idle \/ (pass' # Freezer!Idle /\ pass.closed \subseteq pass'.closed)
               \/ \A i \in pass.closed : i \in orphans' \/ \E k \in jobs' : k.index = i /\ k.key,
           NEW i \in Index, index[i] = "closed"
    PROVE  /\ Freezer!Whole(i)'
           /\ \/ \E j \in jobs' : j.index = i /\ j.key
              \/ pass' # Freezer!Idle /\ i \in pass'.closed
              \/ i \in orphans'
<1>1. Freezer!Whole(i)'
  BY DEF Freezer!ClosedIsListed, CopiesStay
<1>2. \/ \E j \in jobs : j.index = i /\ j.key
      \/ pass # Freezer!Idle /\ i \in pass.closed
      \/ i \in orphans
  BY DEF Freezer!ClosedIsListed
<1> QED
  BY <1>1, <1>2

\* A fault counts.
LEMMA FaultCounts == ASSUME ArchiveConstants, Counters, Freezer!Fault PROVE faults' \in 0 .. MaxFault
<1>1. faults \in Nat /\ MaxFault \in Nat /\ faults < MaxFault /\ faults' = faults + 1
  BY DEF ArchiveConstants, Counters, Freezer!Fault
<1> QED
  BY <1>1

\* A new pass.
LEMMA RunOnceKeeps == ASSUME ArchiveConstants, PassInv, Freezer!RunOnce PROVE PassInv'
<1>1. /\ pass = Freezer!Idle /\ npass < MaxPass /\ npass' = npass + 1
      /\ pass' = [st |-> "next", todo |-> {i \in Index : index[i] # "gone"}, cur |-> "", buf |-> {},
                  rows |-> {}, closed |-> {}]
      /\ UNCHANGED <<index, blob, target, jobs, nreq, faults, orphans, short>>
  BY DEF Freezer!RunOnce, Freezer!history
<1>2. /\ npass \in Nat /\ npass' \in Nat /\ npass' = npass + 1
      /\ npass' \in 0 .. MaxPass
  <2>1. npass < MaxPass /\ npass' = npass + 1
    BY <1>1
  <2>2. npass \in Nat /\ MaxPass \in Nat
    BY DEF ArchiveConstants, PassInv, Counters
  <2> QED
    BY <2>1, <2>2
<1>3. pass'.st = "next" /\ pass'.rows = {} /\ pass'.closed = {} /\ pass' # Freezer!Idle
  BY <1>1 DEF Freezer!Idle
<1>4. CopiesStay
  BY <1>1 DEF CopiesStay, Freezer!Whole
<1>5. Counters' /\ Stores'
  <2>1. UNCHANGED <<index, blob, target, nreq, faults>>
    BY <1>1
  <2> QED
    BY <1>2, <2>1 DEF PassInv, Counters, Stores
<1>6. JobsOK'
  <2>1. ASSUME NEW j \in jobs PROVE j.n <= npass' /\ j.n # npass'
    <3>1. j.n \in Nat /\ j.n <= npass
      BY DEF PassInv, JobsOK, IsJob
    <3> QED
      BY <1>2, <3>1
  <2> QED
    BY <1>1, <1>2, <1>4, <2>1, JobsStay DEF PassInv
<1>7. PassOK'
  BY <1>1, <1>3 DEF PassOK, PassFields, CopyOK, PassRowsOK, Freezing
<1>8. OneCopy'
  <2>1. PassRows' = {} /\ jobs' \cup PassRows' = jobs /\ jobs \subseteq jobs \cup PassRows
    BY <1>1, <1>3 DEF PassRows
  <2> QED
    BY <1>3, <2>1 DEF PassInv, OneCopy
<1>9. Freezer!ClosedIsListed'
  BY <1>1, <1>3, <1>4, ClosedStays DEF PassInv, Freezer!ClosedIsListed
<1> QED
  BY <1>5, <1>6, <1>7, <1>8, <1>9 DEF PassInv

\* Steps that only move the pass on.
LEMMA PassMoves ==
    ASSUME PassInv, pass.st # "idle", pass'.st # "idle", pass' # Freezer!Idle,
           UNCHANGED <<index, blob, target, jobs, npass, nreq, orphans>>,
           faults' \in 0 .. MaxFault, short \subseteq short',
           pass'.closed = pass.closed, PassOK', OneCopy'
    PROVE  PassInv'
<1>1. CopiesStay
  BY DEF CopiesStay, Freezer!Whole
<1>2. Counters' /\ Stores' /\ npass \in Nat
  BY DEF PassInv, Counters, Stores
<1>3. JobsOK'
  <2>1. \A j \in jobs : j.n <= npass /\ j.n # npass
    BY DEF PassInv, JobsOK
  <2> QED
    BY <1>1, <1>2, <2>1, JobsStay DEF PassInv
<1>4. Freezer!ClosedIsListed'
  BY <1>1, ClosedStays DEF PassInv, Freezer!ClosedIsListed
<1> QED
  BY <1>2, <1>3, <1>4 DEF PassInv

\* An index with a frozen row is passed over.
LEMMA SkipKeeps == ASSUME PassInv, NEW i \in Index, Freezer!Skip(i) PROVE PassInv'
<1>1. /\ pass.st = "next" /\ pass' = [pass EXCEPT !.todo = @ \ {i}]
      /\ UNCHANGED <<index, blob, target, jobs, npass, nreq, faults, orphans, short>>
  BY DEF Freezer!Skip, Freezer!history
<1>2. /\ pass = [st |-> pass.st, todo |-> pass.todo, cur |-> pass.cur, buf |-> pass.buf,
                 rows |-> pass.rows, closed |-> pass.closed]
      /\ PassRows = pass.rows /\ pass # Freezer!Idle /\ PassFields /\ CopyOK /\ PassRowsOK
  BY <1>1, PassInFlight DEF PassInv
<1>3. pass' = [st |-> "next", todo |-> pass.todo \ {i}, cur |-> pass.cur, buf |-> pass.buf,
               rows |-> pass.rows, closed |-> pass.closed]
  BY <1>1, <1>2
<1>4. /\ pass'.st = "next" /\ pass'.todo = pass.todo \ {i} /\ pass'.rows = pass.rows
      /\ pass'.closed = pass.closed
  BY <1>3
<1>5. pass' # Freezer!Idle /\ PassRows' = pass.rows
  BY <1>3, <1>4 DEF Freezer!Idle, PassRows
<1>6. PassOK'
  <2>1. \A j \in pass.rows : /\ IsJob(j) /\ j.n = npass /\ Copied(j)' /\ j.st \in {"frozen", "failed"}
                             /\ j.index \notin pass.todo
    BY <1>1, <1>2 DEF PassRowsOK, Copied, Freezer!Whole
  <2>2. PassRowsOK'
    BY <1>1, <1>2, <1>4, <2>1 DEF PassRowsOK, Freezing, IsJob
  <2>3. PassFields' /\ CopyOK'
    BY <1>1, <1>2, <1>3, <1>4 DEF PassFields, CopyOK, Freezing, Full, Freezer!Whole
  <2> QED
    BY <2>2, <2>3 DEF PassOK
<1>7. OneCopy'
  BY <1>1, <1>2, <1>4, <1>5 DEF PassInv, OneCopy
<1>8. faults' \in 0 .. MaxFault
  BY <1>1 DEF PassInv, Counters
<1> QED
  BY <1>1, <1>4, <1>5, <1>6, <1>7, <1>8, PassMoves

\* An index is taken up.
LEMMA StartFreezeKeeps == ASSUME PassInv, NEW i \in Index, Freezer!StartFreeze(i) PROVE PassInv'
<1>1. /\ pass.st = "next" /\ i \in pass.todo
      /\ pass' = [pass EXCEPT !.st = "scroll", !.cur = i, !.todo = @ \ {i}]
      /\ UNCHANGED <<index, blob, target, jobs, npass, nreq, faults, orphans, short>>
  BY DEF Freezer!StartFreeze, Freezer!history
<1>2. /\ pass = [st |-> pass.st, todo |-> pass.todo, cur |-> pass.cur, buf |-> pass.buf,
                 rows |-> pass.rows, closed |-> pass.closed]
      /\ PassRows = pass.rows /\ pass # Freezer!Idle /\ PassFields /\ CopyOK /\ PassRowsOK
  BY <1>1, PassInFlight DEF PassInv
<1>3. pass' = [st |-> "scroll", todo |-> pass.todo \ {i}, cur |-> i, buf |-> pass.buf,
               rows |-> pass.rows, closed |-> pass.closed]
  BY <1>1, <1>2
<1>4. /\ pass'.st = "scroll" /\ pass'.todo = pass.todo \ {i} /\ pass'.rows = pass.rows
      /\ pass'.closed = pass.closed /\ pass'.cur = i
  BY <1>3
<1>5. pass' # Freezer!Idle /\ PassRows' = pass.rows
  BY <1>3, <1>4 DEF Freezer!Idle, PassRows
<1>6. PassOK'
  <2>1. \A j \in pass.rows : /\ IsJob(j) /\ j.n = npass /\ Copied(j)' /\ j.st \in {"frozen", "failed"}
                             /\ j.index \notin pass.todo
    BY <1>1, <1>2 DEF PassRowsOK, Copied, Freezer!Whole
  <2>2. PassRowsOK'
    BY <1>1, <1>2, <1>4, <2>1 DEF PassRowsOK, Freezing, IsJob
  <2>3. PassFields' /\ CopyOK'
    BY <1>1, <1>2, <1>3, <1>4 DEF PassFields, CopyOK, Freezing, Full, Freezer!Whole
  <2> QED
    BY <2>2, <2>3 DEF PassOK
<1>7. OneCopy'
  BY <1>1, <1>2, <1>4, <1>5 DEF PassInv, OneCopy
<1>8. faults' \in 0 .. MaxFault
  BY <1>1 DEF PassInv, Counters
<1> QED
  BY <1>1, <1>4, <1>5, <1>6, <1>7, <1>8, PassMoves

\* Documents are read, all unless the index is listed as short; an index that is open has
\* no copied row.
LEMMA ScrollKeeps == ASSUME ArchiveConstants, PassInv, Freezer!Scroll PROVE PassInv'
<1>1. /\ pass.st = "scroll" /\ index[pass.cur] = "open"
      /\ UNCHANGED <<index, blob, target, jobs, npass, nreq, orphans>>
      /\ \/ pass' = [Freezer!Advance EXCEPT !.buf = Freezer!Docs(pass.cur)] /\ UNCHANGED <<faults, short>>
         \/ /\ Freezer!Fault
            /\ \E S \in SUBSET Freezer!Docs(pass.cur) : pass' = [Freezer!Advance EXCEPT !.buf = S]
            /\ short' = short \cup {pass.cur}
  BY DEF Freezer!Scroll, Freezer!ScrollAll
<1>2. PICK S \in SUBSET Freezer!Docs(pass.cur) :
          /\ pass' = [Freezer!Advance EXCEPT !.buf = S]
          /\ S = Freezer!Docs(pass.cur) \/ pass.cur \in short'
  BY <1>1
<1>3. short \subseteq short' /\ faults' \in 0 .. MaxFault
  BY <1>1, FaultCounts DEF PassInv, Counters
<1>4. CopiesStay
  BY <1>1, <1>3 DEF CopiesStay, Freezer!Whole
<1>5. /\ pass = [st |-> pass.st, todo |-> pass.todo, cur |-> pass.cur, buf |-> pass.buf,
                 rows |-> pass.rows, closed |-> pass.closed]
      /\ PassRows = pass.rows /\ pass # Freezer!Idle /\ PassFields /\ CopyOK /\ PassRowsOK
  BY <1>1, PassInFlight DEF PassInv
<1>6. PICK a : a = Freezer!Advance
  OBVIOUS
<1>7. a = [st |-> "put", todo |-> pass.todo, cur |-> pass.cur, buf |-> pass.buf,
           rows |-> pass.rows, closed |-> pass.closed]
  BY <1>1, <1>5, <1>6 DEF Freezer!Advance, Freezer!StepAfter
<1>8. pass' = [st |-> "put", todo |-> pass.todo, cur |-> pass.cur, buf |-> S,
               rows |-> pass.rows, closed |-> pass.closed]
  BY <1>2, <1>6, <1>7
<1>9. /\ pass'.st = "put" /\ pass'.todo = pass.todo /\ pass'.rows = pass.rows
      /\ pass'.closed = pass.closed /\ pass'.cur = pass.cur /\ pass'.buf = S
  BY <1>8
<1>10. pass' # Freezer!Idle /\ PassRows' = pass.rows
  BY <1>8, <1>9 DEF Freezer!Idle, PassRows
<1>11. /\ pass.cur \in Index \ pass.todo
      /\ \A j \in pass.rows : /\ IsJob(j) /\ j.n = npass /\ Copied(j)' /\ j.st \in {"frozen", "failed"}
                              /\ j.index \notin pass.todo /\ j.index # pass.cur
  BY <1>1, <1>5, <1>4, CopiedStays DEF CopyOK, PassRowsOK, Freezing
<1>12. PassOK'
  <2>1. PassRowsOK'
    BY <1>1, <1>5, <1>9, <1>11 DEF PassRowsOK, Freezing, IsJob
  <2>2. PassFields' /\ CopyOK'
    BY <1>1, <1>5, <1>2, <1>8, <1>9, <1>11 DEF PassFields, CopyOK, Freezing, Full
  <2> QED
    BY <2>1, <2>2 DEF PassOK
<1>13. \A j \in jobs \cup pass.rows : j.key => j.index # pass.cur
  BY <1>1, <1>5 DEF PassInv, JobsOK, PassRowsOK, Copied
<1>14. OneCopy'
  BY <1>1, <1>5, <1>9, <1>10, <1>13 DEF PassInv, OneCopy
<1> QED
  BY <1>1, <1>3, <1>9, <1>10, <1>12, <1>14, PassMoves

\* The documents are stored.
LEMMA PutArchiveKeeps == ASSUME PassInv, Freezer!PutArchive PROVE PassInv'
<1>1. /\ pass.st = "put" /\ blob' = [blob EXCEPT ![pass.cur] = pass.buf] /\ pass' = Freezer!Advance
      /\ UNCHANGED <<index, target, jobs, npass, nreq, faults, orphans, short>>
  BY DEF Freezer!PutArchive, Freezer!history
<1>2. /\ pass = [st |-> pass.st, todo |-> pass.todo, cur |-> pass.cur, buf |-> pass.buf,
                 rows |-> pass.rows, closed |-> pass.closed]
      /\ PassRows = pass.rows /\ pass # Freezer!Idle /\ PassFields /\ CopyOK /\ PassRowsOK
  BY <1>1, PassInFlight DEF PassInv
<1>3. pass' = [st |-> "close", todo |-> pass.todo, cur |-> pass.cur, buf |-> pass.buf,
               rows |-> pass.rows, closed |-> pass.closed]
  BY <1>1, <1>2 DEF Freezer!Advance, Freezer!StepAfter
<1>4. /\ pass'.st = "close" /\ pass'.todo = pass.todo /\ pass'.rows = pass.rows
      /\ pass'.closed = pass.closed /\ pass'.cur = pass.cur
  BY <1>3
<1>5. pass' # Freezer!Idle /\ PassRows' = pass.rows
  BY <1>3, <1>4 DEF Freezer!Idle, PassRows
<1>6. /\ pass.cur \in Index /\ Full(pass.buf, pass.cur) /\ index[pass.cur] # "closed"
  BY <1>1, <1>2 DEF CopyOK, Freezing
<1>7. \A i \in Index : blob'[i] = IF i = pass.cur THEN pass.buf ELSE blob[i]
  BY <1>1, <1>6 DEF PassInv, Stores
<1>8. CopiesStay
  BY <1>1, <1>6, <1>7 DEF CopiesStay, Freezer!Whole, Full
<1>9. Counters' /\ Stores' /\ npass \in Nat
  <2>1. blob' = [i \in Index |-> blob'[i]]
    BY <1>1 DEF PassInv, Stores
  <2> QED
    BY <1>1, <1>6, <1>7, <2>1 DEF PassInv, Counters, Stores, Full
<1>10. JobsOK'
  <2>1. \A j \in jobs : j.n <= npass /\ j.n # npass
    BY <1>1 DEF PassInv, JobsOK
  <2> QED
    BY <1>1, <1>8, <1>9, <2>1, JobsStay DEF PassInv
<1>11. PassOK'
  <2>1. \A j \in pass.rows : /\ IsJob(j) /\ j.n = npass /\ Copied(j)' /\ j.st \in {"frozen", "failed"}
                             /\ j.index \notin pass.todo /\ j.index # pass.cur
    BY <1>1, <1>2, <1>8, CopiedStays DEF PassRowsOK, Freezing
  <2>2. PassRowsOK'
    BY <1>1, <1>2, <1>4, <2>1 DEF PassRowsOK, IsJob
  <2>3. PassFields' /\ CopyOK'
    BY <1>1, <1>2, <1>3, <1>4, <1>6, <1>7 DEF PassFields, CopyOK, Freezing, Full, Freezer!Whole
  <2> QED
    BY <2>2, <2>3 DEF PassOK
<1>12. OneCopy'
  BY <1>1, <1>2, <1>4, <1>5 DEF PassInv, OneCopy
<1>13. Freezer!ClosedIsListed'
  BY <1>1, <1>4, <1>5, <1>8, ClosedStays DEF PassInv, Freezer!ClosedIsListed
<1> QED
  BY <1>9, <1>10, <1>11, <1>12, <1>13 DEF PassInv

\* The row a freeze ends with.
Row(s) == [n |-> npass, index |-> pass.cur, st |-> s, key |-> s = "frozen"]

\* The freeze of the index in hand ends with row k, and the index may be closed.
Ends(k, cl) ==
    /\ pass' = [st |-> "next", todo |-> pass.todo, cur |-> pass.cur, buf |-> pass.buf,
                rows |-> pass.rows \cup {k}, closed |-> cl]
    /\ UNCHANGED <<blob, target, jobs, npass, nreq, short>> /\ faults' \in 0 .. MaxFault
    /\ index' = index \/ (index' = [index EXCEPT ![pass.cur] = "closed"] /\ pass.st = "close")

\* Such an end, with the index closed only over its copy, keeps the invariant.
LEMMA EndsKeeps ==
    ASSUME PassInv, Freezing, NEW s \in {"frozen", "failed"}, NEW cl, Ends(Row(s), cl),
           s = "frozen" => pass.st = "close" /\ index'[pass.cur] # "open",
           pass.closed \subseteq cl, cl \subseteq pass.closed \cup {pass.cur},
           pass.cur \in cl => s = "frozen",
           orphans \subseteq orphans',
           index'[pass.cur] = "closed" /\ index[pass.cur] # "closed" =>
               pass.cur \in cl \/ pass.cur \in orphans'
    PROVE  PassInv'
<1>1. PICK k : k = Row(s)
  OBVIOUS
<1>2. k.n = npass /\ k.index = pass.cur /\ k.st = s /\ k.key = (s = "frozen")
  BY <1>1 DEF Row
<1>3. /\ pass' = [st |-> "next", todo |-> pass.todo, cur |-> pass.cur, buf |-> pass.buf,
                  rows |-> pass.rows \cup {k}, closed |-> cl]
      /\ UNCHANGED <<blob, target, jobs, npass, nreq, short>> /\ faults' \in 0 .. MaxFault
      /\ index' = index \/ (index' = [index EXCEPT ![pass.cur] = "closed"] /\ pass.st = "close")
  BY <1>1 DEF Ends
<1>4. /\ pass.st # "idle" /\ PassRows = pass.rows /\ pass # Freezer!Idle /\ PassFields /\ CopyOK /\ PassRowsOK
  BY PassInFlight DEF PassInv, Freezing
<1>5. /\ pass'.st = "next" /\ pass'.todo = pass.todo /\ pass'.rows = pass.rows \cup {k} /\ pass'.closed = cl
  BY <1>3
<1>6. pass' # Freezer!Idle /\ PassRows' = pass.rows \cup {k}
  BY <1>3, <1>5 DEF Freezer!Idle, PassRows
<1>7. /\ pass.cur \in Index \ pass.todo
      /\ pass.st = "close" => Freezer!Whole(pass.cur) /\ index[pass.cur] # "closed"
  BY <1>4 DEF CopyOK
<1>8. \A i \in Index : /\ i # pass.cur => index'[i] = index[i]
                       /\ index'[i] = index[i] \/ (index'[i] = "closed" /\ pass.st = "close")
  BY <1>3 DEF PassInv, Stores
<1>9. CopiesStay
  BY <1>3, <1>8 DEF CopiesStay, Freezer!Whole
<1>10. Counters' /\ Stores' /\ npass \in Nat
  BY <1>3 DEF PassInv, Counters, Stores
<1>11. JobsOK'
  <2>1. \A j \in jobs : j.n <= npass /\ j.n # npass
    BY <1>4 DEF PassInv, JobsOK
  <2> QED
    BY <1>3, <1>9, <1>10, <2>1, JobsStay DEF PassInv
<1>12. IsJob(k) /\ Copied(k)'
  <2>1. IsJob(k)
    BY <1>1, <1>2, <1>7, <1>10 DEF IsJob, Row
  <2>2. k.key => Freezer!Whole(k.index)' /\ index'[k.index] # "open"
    BY <1>2, <1>7, <1>9 DEF CopiesStay
  <2>3. ~k.key => k.st = "failed"
    BY <1>2
  <2> QED
    BY <2>1, <2>2, <2>3 DEF Copied
<1>13. PassOK'
  <2>1. \A j \in pass.rows : /\ IsJob(j) /\ j.n = npass /\ Copied(j)' /\ j.st \in {"frozen", "failed"}
                             /\ j.index \notin pass.todo /\ j.index # pass.cur
    BY <1>4, <1>9, CopiedStays DEF PassRowsOK
  <2>2. \A j \in pass'.rows : /\ IsJob(j) /\ j.n = npass /\ Copied(j)' /\ j.st \in {"frozen", "failed"}
                              /\ j.index \notin pass.todo
    BY <1>2, <1>5, <1>7, <1>12, <2>1
  <2>3. \A j, l \in pass'.rows : j.index = l.index => j = l
    BY <1>2, <1>4, <1>5, <2>1 DEF PassRowsOK
  <2>4. \A i \in cl : \E j \in pass'.rows : j.index = i /\ j.key
    BY <1>2, <1>4, <1>5 DEF PassRowsOK
  <2>5. PassRowsOK'
    BY <1>3, <1>5, <2>2, <2>3, <2>4 DEF PassRowsOK, Freezing, IsJob
  <2>6. PassFields' /\ CopyOK'
    BY <1>3, <1>4, <1>5 DEF PassFields, CopyOK, Freezing, Full, Freezer!Whole
  <2> QED
    BY <2>5, <2>6 DEF PassOK
<1>14. OneCopy'
  <2>1. ASSUME k.key, NEW j \in jobs \cup pass.rows, j.key PROVE j.index # k.index
    BY <1>2, <1>4, <2>1 DEF PassInv, OneCopy
  <2>2. \A j, l \in jobs \cup pass.rows : j.key /\ l.key /\ j.index = l.index => j = l
    BY <1>4 DEF PassInv, OneCopy
  <2> QED
    BY <1>3, <1>5, <1>6, <2>1, <2>2 DEF OneCopy
<1>15. Freezer!ClosedIsListed'
  <2> SUFFICES ASSUME NEW i \in Index, index'[i] = "closed"
               PROVE  /\ Freezer!Whole(i)'
                      /\ \/ \E j \in jobs' : j.index = i /\ j.key
                         \/ pass' # Freezer!Idle /\ i \in pass'.closed
                         \/ i \in orphans'
    BY DEF Freezer!ClosedIsListed
  <2>1. CASE index[i] = "closed"
    BY <1>3, <1>5, <1>6, <1>9, <2>1, ClosedStays DEF PassInv
  <2>2. CASE index[i] # "closed"
    BY <1>3, <1>5, <1>6, <1>7, <1>8, <1>9, <2>2 DEF CopiesStay
  <2> QED
    BY <2>1, <2>2
<1> QED
  BY <1>10, <1>11, <1>13, <1>14, <1>15 DEF PassInv

\* Settling adds the row and goes on to the next index.
LEMMA SettleIs ==
    ASSUME PassFields, NEW s
    PROVE  Freezer!Settle(s) = [st |-> "next", todo |-> pass.todo, cur |-> pass.cur, buf |-> pass.buf,
                        rows |-> pass.rows \cup {Row(s)}, closed |-> pass.closed]
<1>1. Freezer!Settle(s) = [pass EXCEPT !.st = "next", !.rows = @ \cup {Row(s)}]
  BY DEF Freezer!Settle, Row
<1>2. PICK R : R = pass.rows \cup {Row(s)}
  OBVIOUS
<1>3. Freezer!Settle(s) = [pass EXCEPT !.st = "next", !.rows = R]
  BY <1>1, <1>2
<1>4. Freezer!Settle(s) = [st |-> "next", todo |-> pass.todo, cur |-> pass.cur, buf |-> pass.buf,
                   rows |-> R, closed |-> pass.closed]
  BY <1>3 DEF PassFields
<1> QED
  BY <1>2, <1>4

\* The index is closed, and its row says frozen.
LEMMA CloseIndexKeeps == ASSUME PassInv, Freezer!CloseIndex PROVE PassInv'
<1> DEFINE cl == IF index[pass.cur] = "open" THEN pass.closed \cup {pass.cur} ELSE pass.closed
<1>1. /\ pass.st = "close" /\ index' = [index EXCEPT ![pass.cur] = "closed"]
      /\ pass' = [Freezer!Advance EXCEPT !.closed = IF index[pass.cur] = "open" THEN @ \cup {pass.cur} ELSE @]
      /\ index[pass.cur] # "gone"
      /\ UNCHANGED <<blob, target, jobs, npass, nreq, faults, orphans, short>>
  BY DEF Freezer!CloseIndex, Freezer!history
<1>2. PassFields /\ CopyOK /\ PassRowsOK /\ Freezing
  BY <1>1, PassInFlight DEF PassInv, Freezing
<1>3. PICK a : a = Freezer!Advance
  OBVIOUS
<1>4. a = [st |-> "next", todo |-> pass.todo, cur |-> pass.cur, buf |-> pass.buf,
           rows |-> pass.rows \cup {Row("frozen")}, closed |-> pass.closed]
  BY <1>1, <1>2, <1>3, SettleIs DEF Freezer!Advance, Freezer!StepAfter
<1>5. pass' = [st |-> "next", todo |-> pass.todo, cur |-> pass.cur, buf |-> pass.buf,
               rows |-> pass.rows \cup {Row("frozen")}, closed |-> cl]
  <2>1. PICK c : c = IF index[pass.cur] = "open" THEN a.closed \cup {pass.cur} ELSE a.closed
    OBVIOUS
  <2>2. pass' = [a EXCEPT !.closed = c]
    BY <1>1, <1>3, <2>1
  <2>3. a.closed = pass.closed
    BY <1>4
  <2>4. c = cl
    BY <2>1, <2>3
  <2>5. PICK R : R = pass.rows \cup {Row("frozen")}
    OBVIOUS
  <2>6. a = [st |-> "next", todo |-> pass.todo, cur |-> pass.cur, buf |-> pass.buf,
             rows |-> R, closed |-> pass.closed]
    BY <1>4, <2>5
  <2>7. pass' = [st |-> "next", todo |-> pass.todo, cur |-> pass.cur, buf |-> pass.buf,
                 rows |-> R, closed |-> c]
    BY <2>2, <2>6
  <2> QED
    BY <2>4, <2>5, <2>7
<1>6. Ends(Row("frozen"), cl)
  BY <1>1, <1>5 DEF Ends, PassInv, Counters
<1>7. pass.cur \in Index /\ index'[pass.cur] = "closed" /\ index[pass.cur] = "open"
  BY <1>1, <1>2 DEF CopyOK, PassInv, Stores, Freezing
<1> QED
  BY <1>1, <1>2, <1>6, <1>7, EndsKeeps

\* A step of the freeze raises, and its row says failed.
LEMMA FreezeFailsKeeps == ASSUME ArchiveConstants, PassInv, Freezer!FreezeFails PROVE PassInv'
<1>1. /\ pass' = Freezer!Settle("failed")
      /\ UNCHANGED <<blob, target, jobs, npass, nreq, short>>
      /\ \/ pass.st \in {"scroll", "close"} /\ UNCHANGED <<index, faults, orphans>>
         \/ pass.st \in {"scroll", "put", "close"} /\ Freezer!Fault /\ UNCHANGED <<index, orphans>>
         \/ /\ pass.st = "close" /\ index[pass.cur] = "open" /\ Freezer!Fault
            /\ index' = [index EXCEPT ![pass.cur] = "closed"] /\ orphans' = orphans \cup {pass.cur}
  BY DEF Freezer!FreezeFails
<1>2. Freezing /\ pass.st # "idle"
  BY <1>1 DEF Freezing
<1>3. PassFields /\ CopyOK /\ PassRowsOK /\ Counters
  BY <1>2, PassInFlight DEF PassInv
<1>4. faults' \in 0 .. MaxFault
  BY <1>1, <1>3, FaultCounts DEF Counters
<1>5. Ends(Row("failed"), pass.closed)
  BY <1>1, <1>3, <1>4, SettleIs DEF Ends
<1>6. pass.cur \notin pass.closed
  BY <1>2, <1>3 DEF PassRowsOK
<1>7. /\ orphans \subseteq orphans'
      /\ index'[pass.cur] = "closed" /\ index[pass.cur] # "closed" => pass.cur \in orphans'
  BY <1>1
<1> QED
  BY <1>2, <1>5, <1>6, <1>7, EndsKeeps

\* The rows of the pass are committed together.
LEMMA CommitPassKeeps == ASSUME PassInv, Freezer!CommitPass PROVE PassInv'
<1>1. /\ pass.st = "next" /\ jobs' = jobs \cup pass.rows /\ pass' = Freezer!Idle
      /\ UNCHANGED <<index, blob, target, npass, nreq, faults, orphans, short>>
  BY DEF Freezer!CommitPass, Freezer!history
<1>2. PassRows = pass.rows /\ pass # Freezer!Idle /\ PassRowsOK
  BY <1>1, PassInFlight DEF PassInv
<1>3. pass'.st = "idle" /\ PassRows' = {}
  BY <1>1 DEF Freezer!Idle, PassRows
<1>4. Counters' /\ Stores' /\ PassOK' /\ npass \in Nat
  BY <1>1 DEF PassInv, Counters, Stores, PassOK
<1>5. OneCopy'
  BY <1>1, <1>2, <1>3 DEF PassInv, OneCopy
<1>6. CopiesStay
  BY <1>1 DEF CopiesStay, Freezer!Whole
<1>7. JobsOK'
  <2>1. \A j \in jobs : /\ IsJob(j) /\ j.n <= npass /\ Copied(j) /\ j.n # npass
                        /\ j.st \in {"frozen", "rehydrating", "rehydrated", "failed"}
    BY <1>1 DEF PassInv, JobsOK
  <2>2. \A j \in pass.rows : IsJob(j) /\ j.n = npass /\ Copied(j) /\ j.st \in {"frozen", "failed"}
    BY <1>2 DEF PassRowsOK
  <2>3. \A j \in jobs' : /\ IsJob(j) /\ j.n <= npass /\ Copied(j)'
                         /\ j.st \in {"frozen", "rehydrating", "rehydrated", "failed"}
    BY <1>1, <1>4, <1>6, <2>1, <2>2, CopiedStays
  <2>4. \A j, k : Freezer!Id(j) = Freezer!Id(k) => j.n = k.n /\ j.index = k.index
    BY DEF Freezer!Id
  <2>5. \A j, k \in jobs' : Freezer!Id(j) = Freezer!Id(k) => j = k
    <3>1. \A j, k \in jobs : Freezer!Id(j) = Freezer!Id(k) => j = k
      BY DEF PassInv, JobsOK
    <3>2. \A j, k \in pass.rows : Freezer!Id(j) = Freezer!Id(k) => j = k
      BY <1>2, <2>4 DEF PassRowsOK
    <3> QED
      BY <1>1, <2>1, <2>2, <2>4, <3>1, <3>2
  <2> QED
    BY <1>1, <1>3, <2>3, <2>5 DEF JobsOK, IsJob, Freezer!Id
<1>8. Freezer!ClosedIsListed'
  <2>1. \A i \in pass.closed : \E k \in jobs' : k.index = i /\ k.key
    BY <1>1, <1>2 DEF PassRowsOK
  <2> QED
    BY <1>1, <1>6, <2>1, ClosedStays DEF PassInv, Freezer!ClosedIsListed
<1> QED
  BY <1>4, <1>5, <1>7, <1>8 DEF PassInv

\* Retention deletes an index; its copy outlives it.
LEMMA ExpireKeeps == ASSUME ArchiveConstants, PassInv, NEW i \in Index, Freezer!Expire(i) PROVE PassInv'
<1>1. /\ Freezer!Fault /\ index' = [index EXCEPT ![i] = "gone"]
      /\ UNCHANGED <<blob, target, jobs, pass, npass, nreq, orphans, short>>
  BY DEF Freezer!Expire, Freezer!history
<1>2. faults' \in 0 .. MaxFault
  BY <1>1, FaultCounts DEF PassInv
<1>3. \A k \in Index : index'[k] = IF k = i THEN "gone" ELSE index[k]
  BY <1>1 DEF PassInv, Stores
<1>4. CopiesStay
  BY <1>1, <1>3 DEF CopiesStay, Freezer!Whole
<1>5. Counters' /\ Stores' /\ npass \in Nat
  BY <1>1, <1>2 DEF PassInv, Counters, Stores
<1>6. JobsOK'
  <2>1. \A j \in jobs : j.n <= npass /\ (pass.st # "idle" => j.n # npass)
    BY DEF PassInv, JobsOK
  <2> QED
    BY <1>1, <1>4, <1>5, <2>1, JobsStay DEF PassInv
<1>7. PassOK'
  <2>1. CASE pass = Freezer!Idle
    BY <1>1, <2>1 DEF PassOK
  <2>2. CASE PassFields /\ CopyOK /\ PassRowsOK
    <3>1. PassFields'
      BY <1>1, <2>2 DEF PassFields
    <3>2. CopyOK'
      BY <1>1, <1>3, <2>2 DEF CopyOK, Freezing, Full, Freezer!Whole
    <3>3. \A j \in pass.rows : Copied(j)'
      BY <1>4, <2>2, CopiedStays DEF PassRowsOK
    <3>4. PassRowsOK'
      BY <1>1, <2>2, <3>3 DEF PassRowsOK, Freezing, IsJob
    <3> QED
      BY <3>1, <3>2, <3>4 DEF PassOK
  <2> QED
    BY <2>1, <2>2 DEF PassInv, PassOK
<1>8. OneCopy'
  BY <1>1 DEF PassInv, OneCopy, PassRows
<1>9. Freezer!ClosedIsListed'
  BY <1>1, <1>3, <1>4, ClosedStays DEF PassInv, Freezer!ClosedIsListed
<1> QED
  BY <1>5, <1>6, <1>7, <1>8, <1>9 DEF PassInv

\* A crash drops the pass, and the indices it closed are orphans.
LEMMA CrashKeepsPass == ASSUME ArchiveConstants, PassInv, Freezer!Crash PROVE PassInv'
<1>1. /\ Freezer!Fault /\ pass' = Freezer!Idle
      /\ orphans' = IF pass = Freezer!Idle THEN orphans ELSE orphans \cup pass.closed
      /\ UNCHANGED <<index, blob, target, jobs, npass, nreq, short>>
  BY DEF Freezer!Crash
<1>2. faults' \in 0 .. MaxFault
  BY <1>1, FaultCounts DEF PassInv
<1>3. CopiesStay
  BY <1>1 DEF CopiesStay, Freezer!Whole
<1>4. pass'.st = "idle" /\ PassRows' = {}
  BY <1>1 DEF Freezer!Idle, PassRows
<1>5. Counters' /\ Stores' /\ PassOK' /\ npass \in Nat
  BY <1>1, <1>2 DEF PassInv, Counters, Stores, PassOK
<1>6. JobsOK'
  <2>1. \A j \in jobs : j.n <= npass
    BY DEF PassInv, JobsOK
  <2> QED
    BY <1>1, <1>3, <1>4, <1>5, <2>1, JobsStay DEF PassInv
<1>7. OneCopy'
  BY <1>1, <1>4 DEF PassInv, OneCopy
<1>8. Freezer!ClosedIsListed'
  <2>1. orphans \subseteq orphans' /\ (pass = Freezer!Idle \/ \A i \in pass.closed : i \in orphans')
    BY <1>1
  <2> QED
    BY <1>1, <1>3, <2>1, ClosedStays DEF PassInv, Freezer!ClosedIsListed
<1> QED
  BY <1>5, <1>6, <1>7, <1>8 DEF PassInv
-----------------------------------------------------------------------------
(* Rehydration.                                                            *)

\* A task changes the status of a copied row at most, which the worker's half
\* of the invariant allows.
LEMMA TasksLeavePass ==
    ASSUME PassInv, UNCHANGED <<index, blob, pass, npass, orphans, short>>, Counters', Stores',
           \/ jobs' = jobs
           \/ \E j \in jobs, st \in {"rehydrating", "rehydrated", "failed"} : j.key /\ Freezer!SetJob(j, st)
    PROVE  PassInv'
<1>1. CopiesStay /\ npass \in Nat
  BY DEF CopiesStay, PassInv, Counters, Freezer!Whole
<1>2. PassOK'
  <2>1. CASE pass = Freezer!Idle
    BY <2>1 DEF PassOK
  <2>2. CASE PassFields /\ CopyOK /\ PassRowsOK
    BY <2>2 DEF PassOK, PassFields, CopyOK, PassRowsOK, Freezing, Copied, Full, Freezer!Whole
  <2> QED
    BY <2>1, <2>2 DEF PassInv, PassOK
<1>3. CASE jobs' = jobs
  <2>1. \A j \in jobs : j.n <= npass /\ (pass.st # "idle" => j.n # npass)
    BY DEF PassInv, JobsOK
  <2>2. JobsOK'
    BY <1>1, <1>3, <2>1, JobsStay DEF PassInv
  <2>3. OneCopy' /\ Freezer!ClosedIsListed'
    BY <1>3 DEF PassInv, OneCopy, PassRows, Freezer!ClosedIsListed, Freezer!Whole
  <2> QED
    BY <1>2, <2>2, <2>3 DEF PassInv
<1>4. ASSUME NEW j \in jobs, NEW st \in {"rehydrating", "rehydrated", "failed"}, j.key, Freezer!SetJob(j, st)
      PROVE  PassInv'
  <2>1. IsJob(j) /\ Copied(j) /\ j.n <= npass /\ (pass.st # "idle" => j.n # npass)
    BY DEF PassInv, JobsOK
  <2>2. PICK k : /\ k = [j EXCEPT !.st = st] /\ IsJob(k) /\ Freezer!Id(k) = Freezer!Id(j)
                 /\ k.n = j.n /\ k.index = j.index /\ k.key = j.key /\ k.st = st
    BY <2>1, JobRelabelled
  <2>3. jobs' = (jobs \ {j}) \cup {k}
    BY <1>4, <2>2 DEF Freezer!SetJob
  <2>4. Copied(k)'
    BY <1>1, <1>4, <2>1, <2>2 DEF Copied, CopiesStay, IsJob
  <2>5. JobsOK'
    <3>1. \A l \in jobs : /\ IsJob(l) /\ l.n <= npass /\ Copied(l)' /\ (pass.st # "idle" => l.n # npass)
                          /\ l.st \in {"frozen", "rehydrating", "rehydrated", "failed"}
      BY <1>1, CopiedStays DEF PassInv, JobsOK
    <3>2. \A l \in jobs' : /\ IsJob(l) /\ l.n <= npass /\ Copied(l)' /\ (pass.st # "idle" => l.n # npass)
                           /\ l.st \in {"frozen", "rehydrating", "rehydrated", "failed"}
      BY <2>1, <2>2, <2>3, <2>4, <3>1
    <3>3. \A l, m \in jobs' : Freezer!Id(l) = Freezer!Id(m) => l = m
      <4>1. \A l \in jobs : Freezer!Id(l) = Freezer!Id(j) => l = j
        BY DEF PassInv, JobsOK
      <4>2. \A l, m \in jobs : Freezer!Id(l) = Freezer!Id(m) => l = m
        BY DEF PassInv, JobsOK
      <4> QED
        BY <2>2, <2>3, <4>1, <4>2
    <3> QED
      BY <3>2, <3>3 DEF JobsOK, IsJob, Freezer!Id
  <2>6. OneCopy'
    <3>1. PassRows' = PassRows
      BY DEF PassRows
    <3>2. \A l, m \in jobs \cup PassRows : l.key /\ m.key /\ l.index = m.index => l = m
      BY DEF PassInv, OneCopy
    <3>3. \A l \in PassRows : l.key => l.index # j.index
      <4> SUFFICES ASSUME NEW l \in PassRows, l.key, l.index = j.index PROVE FALSE
        OBVIOUS
      <4>1. l = j
        <5>1. l \in jobs \cup PassRows /\ j \in jobs \cup PassRows
          OBVIOUS
        <5> QED
          BY <1>4, <5>1 DEF PassInv, OneCopy
      <4>2. pass.st # "idle" /\ l \in pass.rows
        BY DEF PassRows
      <4>3. l.n = npass
        BY <4>2, PassInFlight DEF PassInv, PassRowsOK
      <4> QED
        BY <2>1, <4>1, <4>2, <4>3
    <3>4. \A l \in jobs : l.key /\ l.index = j.index => l = j
      BY <1>4 DEF PassInv, OneCopy
    <3>5. \A l, m \in jobs' \cup PassRows : l.key /\ m.key /\ l.index = m.index => l = m
      <4>1. \A l \in jobs' \cup PassRows : l = k \/ (l \in jobs \cup PassRows /\ l # j) \/ l \in PassRows
        BY <2>3
      <4>2. \A l \in jobs' \cup PassRows : l.key /\ l.index = k.index => l = k
        BY <2>2, <3>3, <3>4, <4>1
      <4> QED
        BY <3>2, <4>1, <4>2
    <3>6. pass.st \in {"put", "close"} => \A l \in jobs' \cup PassRows : l.key => l.index # pass.cur
      <4> SUFFICES ASSUME pass.st \in {"put", "close"}, NEW l \in jobs' \cup PassRows, l.key
                   PROVE  l.index # pass.cur
        OBVIOUS
      <4>1. \A m \in jobs \cup PassRows : m.key => m.index # pass.cur
        BY DEF PassInv, OneCopy
      <4>2. CASE l \in jobs \cup PassRows
        BY <4>1, <4>2
      <4>3. CASE l = k
        BY <1>4, <2>2, <4>1, <4>3
      <4> QED
        BY <2>3, <4>2, <4>3
    <3> QED
      BY <3>1, <3>5, <3>6 DEF OneCopy
  <2>7. Freezer!ClosedIsListed'
    <3>1. \A l \in jobs : l.key => \E m \in jobs' : m.index = l.index /\ m.key
      BY <2>2, <2>3
    <3> QED
      BY <1>1, <3>1, ClosedStays DEF PassInv, Freezer!ClosedIsListed
  <2> QED
    BY <1>2, <2>5, <2>6, <2>7 DEF PassInv
<1> QED
  BY <1>3, <1>4

\* A request in flight speaks of a copied row.
LEMMA ReqInFlight ==
    ASSUME PassInv, TaskInv, NEW r \in Request, reqs[r].st # "idle"
    PROVE  /\ reqs[r] = [st |-> reqs[r].st, id |-> reqs[r].id, saw |-> reqs[r].saw, buf |-> reqs[r].buf]
           /\ reqs[r].saw = "frozen"
           /\ \E j \in jobs : /\ j.key /\ Freezer!Id(j) = reqs[r].id /\ Freezer!Current(reqs[r].id) = j
                              /\ reqs[r].id.index = j.index /\ j.index \in Index /\ IsJob(j)
           /\ Fetched(r)
<1>1. reqs[r] # Freezer!Idle
  BY DEF Freezer!Idle
<1>2. PICK j \in jobs : j.key /\ Freezer!Id(j) = reqs[r].id
  BY <1>1 DEF TaskInv, ReqsOK
<1>3. Freezer!Current(reqs[r].id) = j /\ reqs[r].id.index = j.index /\ j.index \in Index /\ IsJob(j)
  BY <1>2, CurrentIs DEF PassInv, JobsOK, IsJob
<1> QED
  BY <1>1, <1>2, <1>3 DEF TaskInv, ReqsOK

\* Two requests about one index speak of one row.
LEMMA OneRow ==
    ASSUME PassInv, NEW j \in jobs, j.key, NEW k \in jobs, k.key, j.index = k.index
    PROVE  j = k
  BY DEF PassInv, OneCopy

\* A step of one request leaves the others alone.
LEMMA OtherReqs ==
    ASSUME ReqsOK, NEW r \in Request, NEW v, reqs' = [reqs EXCEPT ![r] = v]
    PROVE  /\ reqs'[r] = v /\ reqs' = [q \in Request |-> reqs'[q]]
           /\ \A q \in Request \ {r} : reqs'[q] = reqs[q]
  BY DEF ReqsOK

\* rehydrate_job finds a row frozen.
LEMMA RehydrateJobKeeps ==
    ASSUME PassInv, TaskInv, NEW r \in Request, NEW j \in jobs, Freezer!RehydrateJob(r, j)
    PROVE  TaskInv'
<1> DEFINE v == [st |-> "flip", id |-> Freezer!Id(j), saw |-> j.st, buf |-> {}]
<1>1. /\ reqs[r] = Freezer!Idle /\ j.st = "frozen" /\ reqs' = [reqs EXCEPT ![r] = v]
      /\ UNCHANGED <<target, jobs, raced, partial, short>>
  BY DEF Freezer!RehydrateJob, Freezer!MayRehydrate, Freezer!history
<1>2. /\ reqs'[r] = v /\ reqs' = [q \in Request |-> reqs'[q]]
      /\ \A q \in Request \ {r} : reqs'[q] = reqs[q]
  BY <1>1, OtherReqs DEF TaskInv
<1>3. j.key
  BY <1>1 DEF PassInv, JobsOK, Copied
<1>4. reqs'[r].st = "flip" /\ reqs'[r].id = Freezer!Id(j) /\ reqs'[r].saw = "frozen" /\ ~Post(r)'
  BY <1>1, <1>2 DEF Post
<1>5. \A q \in Request \ {r} : Post(q)' = Post(q)
  BY <1>2 DEF Post
<1>6. ReqsOK'
  <2>1. ASSUME NEW q \in Request \ {r}, reqs[q] # Freezer!Idle
        PROVE  /\ reqs'[q] = [st |-> reqs'[q].st, id |-> reqs'[q].id, saw |-> reqs'[q].saw, buf |-> reqs'[q].buf]
               /\ reqs'[q].st = "flip" \/ Post(q)'
               /\ reqs'[q].saw = "frozen"
               /\ \E l \in jobs' : l.key /\ Freezer!Id(l) = reqs'[q].id
               /\ Fetched(q)'
    BY <1>1, <1>2, <1>5, <2>1 DEF TaskInv, ReqsOK, Fetched, Full
  <2>2. reqs'[r] = [st |-> reqs'[r].st, id |-> reqs'[r].id, saw |-> reqs'[r].saw, buf |-> reqs'[r].buf]
    BY <1>1, <1>2
  <2> QED
    BY <1>1, <1>2, <1>3, <1>4, <2>1, <2>2 DEF ReqsOK, Fetched
<1>7. OneTask'
  BY <1>1, <1>2, <1>4, <1>5 DEF TaskInv, OneTask
<1>8. TasksServe' /\ Freezer!RehydratedServes'
  BY <1>1, <1>2, <1>4 DEF TaskInv, TasksServe, Freezer!RehydratedServes, Served
<1> QED
  BY <1>6, <1>7, <1>8 DEF TaskInv

\* A request as it stands, with another status and buffer.
At(r, st, buf) == [st |-> st, id |-> reqs[r].id, saw |-> reqs[r].saw, buf |-> buf]

\* What a step of task r may do to the indices: only its own is touched.
OnlyIndex(i) == \A k \in Index : k # i => target'[k] = target[k]

\* A task of a row takes its next step: a row that is not raced has no other, so
\* what it does to the index is seen by nobody.
LEMMA TaskAdvances ==
    ASSUME PassInv, TaskInv, NEW r \in Request, Post(r),
           NEW st \in {"fetch", "recreate", "bulk", "finish"}, NEW buf,
           reqs' = [reqs EXCEPT ![r] = At(r, st, buf)],
           jobs' = jobs, UNCHANGED <<raced, short>>, partial \subseteq partial', OnlyIndex(reqs[r].id.index),
           st \in {"recreate", "bulk"} => Full(buf, reqs[r].id.index),
           st = "finish" => Served(reqs[r].id)'
    PROVE  TaskInv'
<1>1. PICK i : i = reqs[r].id
  OBVIOUS
<1>2. PICK j \in jobs : j.key /\ Freezer!Id(j) = i /\ i.index = j.index /\ j.index \in Index
  BY <1>1, ReqInFlight DEF Post
<1>3. reqs[r].saw = "frozen"
  BY ReqInFlight DEF Post
<1>4. /\ reqs'[r] = At(r, st, buf) /\ reqs' = [q \in Request |-> reqs'[q]]
      /\ \A q \in Request \ {r} : reqs'[q] = reqs[q]
  BY OtherReqs DEF TaskInv
<1>5. reqs'[r].st = st /\ reqs'[r].id = i /\ reqs'[r].saw = "frozen" /\ reqs'[r].buf = buf
  BY <1>1, <1>3, <1>4 DEF At
<1>6. Post(r)' /\ \A q \in Request \ {r} : Post(q)' = Post(q)
  BY <1>4, <1>5 DEF Post
<1>7. \A q \in Request : (Post(q)' <=> Post(q)) /\ (Post(q) => reqs'[q].id = reqs[q].id)
  BY <1>1, <1>4, <1>5, <1>6
<1>8. ReqsOK'
  <2>1. ASSUME NEW q \in Request \ {r}, reqs[q] # Freezer!Idle
        PROVE  /\ reqs'[q] = [st |-> reqs'[q].st, id |-> reqs'[q].id, saw |-> reqs'[q].saw, buf |-> reqs'[q].buf]
               /\ reqs'[q].st = "flip" \/ Post(q)'
               /\ reqs'[q].saw = "frozen"
               /\ \E l \in jobs' : l.key /\ Freezer!Id(l) = reqs'[q].id
               /\ Fetched(q)'
    BY <1>4, <1>6, <2>1 DEF TaskInv, ReqsOK, Fetched, Full
  <2>2. reqs'[r] = [st |-> reqs'[r].st, id |-> reqs'[r].id, saw |-> reqs'[r].saw, buf |-> reqs'[r].buf]
    BY <1>4, <1>5 DEF At
  <2>3. Fetched(r)'
    BY <1>1, <1>5 DEF Fetched, Full
  <2> QED
    BY <1>2, <1>4, <1>5, <1>6, <2>1, <2>2, <2>3 DEF ReqsOK
<1>9. OneTask'
  BY <1>7 DEF TaskInv, OneTask
<1>10. TasksServe'
  <2> SUFFICES ASSUME NEW q \in Request, reqs'[q].st = "finish" PROVE Served(reqs[q].id)'
    BY DEF TasksServe
  <2>1. CASE q = r
    BY <1>1, <1>5, <2>1 DEF Served
  <2>2. CASE q # r
    <3>1. reqs'[q] = reqs[q] /\ reqs[q].st = "finish" /\ Post(q) /\ Served(reqs[q].id)
      BY <1>4, <2>2 DEF Post, TaskInv, TasksServe
    <3>2. PICK k \in jobs : /\ k.key /\ Freezer!Id(k) = reqs[q].id /\ reqs[q].id.index = k.index
                            /\ k.index \in Index
      BY <3>1, ReqInFlight
    <3>3. CASE k = j
      <4>1. reqs[q].id \in raced
        BY <1>1, <1>2, <2>2, <3>1, <3>2, <3>3 DEF TaskInv, OneTask
      <4> QED
        BY <3>1, <4>1 DEF Served
    <3>4. CASE k # j
      <4>1. target'[k.index] = target[k.index]
        BY <1>1, <1>2, <3>2, <3>4, OneRow DEF OnlyIndex
      <4> QED
        BY <3>1, <3>2, <4>1 DEF Served
    <3> QED
      BY <3>3, <3>4
  <2> QED
    BY <2>1, <2>2
<1>11. Freezer!RehydratedServes'
  <2> SUFFICES ASSUME NEW k \in jobs, k.st = "rehydrated"
               PROVE  target'[k.index] = Freezer!Docs(k.index) \/ k.index \in short' \cup partial' \/ Freezer!Id(k) \in raced
    BY DEF Freezer!RehydratedServes
  <2>1. k.key /\ k.index \in Index
    BY DEF PassInv, JobsOK, Copied, IsJob
  <2>2. CASE k = j
    BY <1>1, <1>2, <2>2 DEF TaskInv, OneTask
  <2>3. CASE k # j
    <3>1. target'[k.index] = target[k.index]
      BY <1>1, <1>2, <2>1, <2>3, OneRow DEF OnlyIndex
    <3> QED
      BY <3>1 DEF TaskInv, Freezer!RehydratedServes
  <2> QED
    BY <2>2, <2>3
<1> QED
  BY <1>8, <1>9, <1>10, <1>11 DEF TaskInv

\* A task is over: its row gets a last status, and nobody else is at work on it
\* unless it is raced.
LEMMA TaskEnds ==
    ASSUME PassInv, TaskInv, NEW r \in Request, Post(r), reqs' = [reqs EXCEPT ![r] = Freezer!Idle],
           NEW st \in {"rehydrated", "failed"}, Freezer!SetJob(Freezer!Current(reqs[r].id), st),
           UNCHANGED <<raced, partial, short>>, OnlyIndex(reqs[r].id.index),
           st = "rehydrated" => reqs[r].st = "finish" /\ UNCHANGED target
    PROVE  TaskInv'
<1>1. PICK i : i = reqs[r].id
  OBVIOUS
<1>2. PICK j \in jobs : /\ j.key /\ Freezer!Id(j) = i /\ i.index = j.index /\ j.index \in Index
                        /\ IsJob(j) /\ Freezer!Current(i) = j
  BY <1>1, ReqInFlight DEF Post
<1>3. PICK k : /\ k = [j EXCEPT !.st = st] /\ IsJob(k) /\ Freezer!Id(k) = Freezer!Id(j)
               /\ k.n = j.n /\ k.index = j.index /\ k.key = j.key /\ k.st = st
  <2>1. IsJob(j)
    BY <1>2
  <2>2. \A s : \E l : /\ l = [j EXCEPT !.st = s] /\ IsJob(l) /\ Freezer!Id(l) = Freezer!Id(j)
                      /\ l.n = j.n /\ l.index = j.index /\ l.key = j.key /\ l.st = s
    BY <2>1, JobRelabels
  <2> QED
    BY <2>2
<1>4. jobs' = (jobs \ {j}) \cup {k}
  BY <1>1, <1>2, <1>3 DEF Freezer!SetJob
<1>5. /\ reqs'[r] = Freezer!Idle /\ reqs' = [q \in Request |-> reqs'[q]]
      /\ \A q \in Request \ {r} : reqs'[q] = reqs[q]
  BY OtherReqs DEF TaskInv
<1>6. reqs'[r].st = "idle" /\ ~Post(r)' /\ \A q \in Request \ {r} : Post(q)' = Post(q)
  BY <1>5 DEF Post, Freezer!Idle
<1>7. ASSUME NEW q \in Request \ {r}, Post(q), reqs[q].id = i PROVE i \in raced
  BY <1>1, <1>7 DEF TaskInv, OneTask
<1>8. ReqsOK'
  <2>1. ASSUME NEW q \in Request \ {r}, reqs[q] # Freezer!Idle
        PROVE  /\ reqs'[q] = [st |-> reqs'[q].st, id |-> reqs'[q].id, saw |-> reqs'[q].saw, buf |-> reqs'[q].buf]
               /\ reqs'[q].st = "flip" \/ Post(q)'
               /\ reqs'[q].saw = "frozen"
               /\ \E l \in jobs' : l.key /\ Freezer!Id(l) = reqs'[q].id
               /\ Fetched(q)'
    <3>1. PICK l \in jobs : l.key /\ Freezer!Id(l) = reqs[q].id
      BY <2>1 DEF TaskInv, ReqsOK
    <3>2. \E m \in jobs' : m.key /\ Freezer!Id(m) = reqs[q].id
      BY <1>3, <1>4, <3>1
    <3> QED
      BY <1>5, <1>6, <2>1, <3>2 DEF TaskInv, ReqsOK, Fetched, Full
  <2> QED
    BY <1>5, <2>1 DEF ReqsOK
<1>9. OneTask'
  <2>1. ASSUME NEW q \in Request, NEW l \in jobs', Post(q)', reqs'[q].id = Freezer!Id(l)
        PROVE  l.st = "rehydrating" \/ Freezer!Id(l) \in raced
    <3>1. q # r /\ Post(q) /\ reqs[q].id = Freezer!Id(l)
      BY <1>5, <1>6, <2>1
    <3>2. CASE l = k
      BY <1>2, <1>3, <1>7, <3>1, <3>2
    <3>3. CASE l \in jobs
      BY <3>1, <3>3 DEF TaskInv, OneTask
    <3> QED
      BY <1>4, <3>2, <3>3
  <2>2. ASSUME NEW p \in Request, NEW q \in Request, Post(p)', Post(q)', reqs'[p].id = reqs'[q].id
        PROVE  p = q \/ reqs'[p].id \in raced
    BY <1>5, <1>6, <2>2 DEF TaskInv, OneTask
  <2> QED
    BY <2>1, <2>2 DEF OneTask
<1>10. TasksServe'
  <2> SUFFICES ASSUME NEW q \in Request, reqs'[q].st = "finish" PROVE Served(reqs[q].id)'
    BY DEF TasksServe
  <2>1. q # r /\ reqs'[q] = reqs[q] /\ reqs[q].st = "finish" /\ Post(q) /\ Served(reqs[q].id)
    BY <1>5, <1>6 DEF Post, TaskInv, TasksServe
  <2>2. PICK l \in jobs : /\ l.key /\ Freezer!Id(l) = reqs[q].id /\ reqs[q].id.index = l.index
                          /\ l.index \in Index
    BY <2>1, ReqInFlight
  <2>3. CASE l = j
    BY <1>2, <1>7, <2>1, <2>2, <2>3 DEF Served
  <2>4. CASE l # j
    <3>1. target'[l.index] = target[l.index]
      BY <1>1, <1>2, <2>2, <2>4, OneRow DEF OnlyIndex
    <3> QED
      BY <2>1, <2>2, <3>1 DEF Served
  <2> QED
    BY <2>3, <2>4
<1>11. Freezer!RehydratedServes'
  <2> SUFFICES ASSUME NEW l \in jobs', l.st = "rehydrated"
               PROVE  target'[l.index] = Freezer!Docs(l.index) \/ l.index \in short \cup partial \/ Freezer!Id(l) \in raced
    BY DEF Freezer!RehydratedServes, Freezer!Id
  <2>1. CASE l = k
    <3>1. reqs[r].st = "finish" /\ UNCHANGED target
      BY <1>3, <2>1
    <3>2. Served(i)
      BY <1>1, <3>1 DEF TaskInv, TasksServe
    <3> QED
      BY <1>2, <1>3, <2>1, <3>1, <3>2 DEF Served
  <2>2. CASE l \in jobs /\ l # j
    <3>1. l.key /\ l.index \in Index
      BY <2>2 DEF PassInv, JobsOK, Copied, IsJob
    <3>2. target'[l.index] = target[l.index]
      BY <1>1, <1>2, <2>2, <3>1, OneRow DEF OnlyIndex
    <3> QED
      BY <2>2, <3>2 DEF TaskInv, Freezer!RehydratedServes
  <2> QED
    BY <1>4, <2>1, <2>2
<1> QED
  BY <1>8, <1>9, <1>10, <1>11 DEF TaskInv

\* The row says rehydrating; a second request that found it frozen makes it raced.
LEMMA FlipJobKeeps == ASSUME PassInv, TaskInv, NEW r \in Request, Freezer!FlipJob(r) PROVE TaskInv'
<1>1. PICK i : i = reqs[r].id
  OBVIOUS
<1>2. /\ reqs[r].st = "flip" /\ Freezer!SetJob(Freezer!Current(i), "rehydrating")
      /\ reqs' = [reqs EXCEPT ![r].st = "queued"]
      /\ raced' = IF Freezer!Current(i).st = reqs[r].saw THEN raced ELSE raced \cup {i}
      /\ UNCHANGED <<target, partial, short>>
  BY <1>1 DEF Freezer!FlipJob
<1>3. PICK j \in jobs : /\ j.key /\ Freezer!Id(j) = i /\ i.index = j.index /\ j.index \in Index
                        /\ IsJob(j) /\ Freezer!Current(i) = j
  BY <1>1, <1>2, ReqInFlight
<1>4. PICK k : /\ k = [j EXCEPT !.st = "rehydrating"] /\ IsJob(k) /\ Freezer!Id(k) = Freezer!Id(j)
               /\ k.n = j.n /\ k.index = j.index /\ k.key = j.key /\ k.st = "rehydrating"
  <2>1. IsJob(j)
    BY <1>3
  <2>2. PICK st : st = "rehydrating"
    OBVIOUS
  <2>3. PICK k : /\ k = [j EXCEPT !.st = st] /\ IsJob(k) /\ Freezer!Id(k) = Freezer!Id(j)
                 /\ k.n = j.n /\ k.index = j.index /\ k.key = j.key /\ k.st = st
    BY <2>1, JobRelabelled
  <2> QED
    BY <2>2, <2>3
<1>5. jobs' = (jobs \ {j}) \cup {k}
  BY <1>2, <1>3, <1>4 DEF Freezer!SetJob
<1>6. /\ reqs[r] = [st |-> reqs[r].st, id |-> reqs[r].id, saw |-> reqs[r].saw, buf |-> reqs[r].buf]
      /\ reqs[r].saw = "frozen"
  BY <1>2, ReqInFlight
<1>7. PICK v : v = [reqs[r] EXCEPT !.st = "queued"]
  OBVIOUS
<1>8. v = [st |-> "queued", id |-> i, saw |-> "frozen", buf |-> reqs[r].buf]
  BY <1>1, <1>6, <1>7
<1>9. reqs' = [reqs EXCEPT ![r] = v]
  BY <1>2, <1>7
<1>10. /\ reqs'[r] = v /\ reqs' = [q \in Request |-> reqs'[q]]
       /\ \A q \in Request \ {r} : reqs'[q] = reqs[q]
  BY <1>9, OtherReqs DEF TaskInv
<1>11. /\ reqs'[r].st = "queued" /\ reqs'[r].id = i /\ reqs'[r].saw = "frozen"
       /\ reqs'[r] = [st |-> reqs'[r].st, id |-> reqs'[r].id, saw |-> reqs'[r].saw, buf |-> reqs'[r].buf]
  BY <1>8, <1>10
<1>12. Post(r)' /\ \A q \in Request \ {r} : Post(q)' = Post(q)
  BY <1>10, <1>11 DEF Post
<1>13. raced \subseteq raced' /\ (j.st # "frozen" => i \in raced')
  BY <1>2, <1>3, <1>6
<1>14. ASSUME NEW q \in Request \ {r}, Post(q), reqs[q].id = i PROVE i \in raced'
  <2>1. j.st = "rehydrating" \/ i \in raced
    BY <1>3, <1>14 DEF TaskInv, OneTask
  <2> QED
    BY <1>13, <2>1
<1>15. ReqsOK'
  <2>1. ASSUME NEW q \in Request \ {r}, reqs[q] # Freezer!Idle
        PROVE  /\ reqs'[q] = [st |-> reqs'[q].st, id |-> reqs'[q].id, saw |-> reqs'[q].saw, buf |-> reqs'[q].buf]
               /\ reqs'[q].st = "flip" \/ Post(q)'
               /\ reqs'[q].saw = "frozen"
               /\ \E l \in jobs' : l.key /\ Freezer!Id(l) = reqs'[q].id
               /\ Fetched(q)'
    <3>1. PICK l \in jobs : l.key /\ Freezer!Id(l) = reqs[q].id
      BY <2>1 DEF TaskInv, ReqsOK
    <3>2. \E m \in jobs' : m.key /\ Freezer!Id(m) = reqs[q].id
      BY <1>4, <1>5, <3>1
    <3> QED
      BY <1>2, <1>10, <1>12, <2>1, <3>2 DEF TaskInv, ReqsOK, Fetched, Full
  <2>2. \E l \in jobs' : l.key /\ Freezer!Id(l) = reqs'[r].id
    BY <1>3, <1>4, <1>5, <1>11
  <2> QED
    BY <1>10, <1>11, <1>12, <2>1, <2>2 DEF ReqsOK, Fetched
<1>16. OneTask'
  <2>1. ASSUME NEW q \in Request, NEW l \in jobs', Post(q)', reqs'[q].id = Freezer!Id(l)
        PROVE  l.st = "rehydrating" \/ Freezer!Id(l) \in raced'
    <3>1. CASE l = k
      BY <1>4, <3>1
    <3>2. CASE l \in jobs /\ l # j
      <4>1. Freezer!Id(l) # i
        BY <1>3, <3>2 DEF PassInv, JobsOK
      <4>2. q # r /\ Post(q) /\ reqs[q].id = Freezer!Id(l)
        BY <1>10, <1>11, <1>12, <2>1, <4>1
      <4> QED
        BY <1>13, <3>2, <4>2 DEF TaskInv, OneTask
    <3> QED
      BY <1>5, <3>1, <3>2
  <2>2. ASSUME NEW p \in Request, NEW q \in Request, Post(p)', Post(q)', reqs'[p].id = reqs'[q].id,
               p # q
        PROVE  reqs'[p].id \in raced'
    <3>1. CASE p # r /\ q # r
      BY <1>10, <1>12, <1>13, <2>2, <3>1 DEF TaskInv, OneTask
    <3>2. CASE p = r
      BY <1>10, <1>11, <1>12, <1>14, <2>2, <3>2
    <3>3. CASE q = r
      BY <1>10, <1>11, <1>12, <1>14, <2>2, <3>3
    <3> QED
      BY <3>1, <3>2, <3>3
  <2> QED
    BY <2>1, <2>2 DEF OneTask
<1>17. TasksServe'
  BY <1>2, <1>10, <1>11, <1>13 DEF TaskInv, TasksServe, Served
<1>18. Freezer!RehydratedServes'
  BY <1>2, <1>4, <1>5, <1>13 DEF TaskInv, Freezer!RehydratedServes, Freezer!Id
<1> QED
  BY <1>15, <1>16, <1>17, <1>18 DEF TaskInv

\* A request's next status is the request with that status.
LEMMA StepIs ==
    ASSUME PassInv, TaskInv, NEW r \in Request, reqs[r].st # "idle", NEW st, Freezer!Step(r, st)
    PROVE  reqs' = [reqs EXCEPT ![r] = At(r, st, reqs[r].buf)]
<1>1. reqs[r] = [st |-> reqs[r].st, id |-> reqs[r].id, saw |-> reqs[r].saw, buf |-> reqs[r].buf]
  BY ReqInFlight
<1>2. PICK v : v = [reqs[r] EXCEPT !.st = st]
  OBVIOUS
<1>3. v = At(r, st, reqs[r].buf)
  BY <1>1, <1>2 DEF At
<1>4. reqs' = [reqs EXCEPT ![r] = v]
  BY <1>2 DEF Freezer!Step
<1> QED
  BY <1>3, <1>4

\* The task takes the row.
LEMMA DoRehydrateKeeps ==
    ASSUME PassInv, TaskInv, NEW r \in Request, Freezer!DoRehydrate(r)
    PROVE  PassInv' /\ TaskInv'
<1>1. /\ reqs[r].st = "queued" /\ Freezer!Step(r, "fetch")
      /\ UNCHANGED <<index, blob, target, jobs, pass, npass, nreq, faults, orphans, raced, partial, short>>
  BY DEF Freezer!DoRehydrate, Freezer!history
<1>2. reqs' = [reqs EXCEPT ![r] = At(r, "fetch", reqs[r].buf)]
  BY <1>1, StepIs
<1>3. TaskInv'
  BY <1>1, <1>2, TaskAdvances DEF Post, OnlyIndex
<1>4. Counters' /\ Stores'
  BY <1>1 DEF PassInv, Counters, Stores
<1> QED
  BY <1>1, <1>3, <1>4, TasksLeavePass

\* It reads the copy, which is whole unless listed as short.
LEMMA FetchArchiveKeeps ==
    ASSUME PassInv, TaskInv, NEW r \in Request, Freezer!FetchArchive(r)
    PROVE  PassInv' /\ TaskInv'
<1>1. /\ reqs[r].st = "fetch"
      /\ reqs' = [reqs EXCEPT ![r].st = "recreate", ![r].buf = blob[reqs[r].id.index]]
      /\ UNCHANGED <<index, blob, target, jobs, pass, npass, nreq, faults, orphans, raced, partial, short>>
  BY DEF Freezer!FetchArchive, Freezer!history
<1>2. PICK j \in jobs : j.key /\ reqs[r].id.index = j.index
  BY <1>1, ReqInFlight
<1>3. Full(blob[reqs[r].id.index], reqs[r].id.index)
  BY <1>2 DEF PassInv, JobsOK, IsJob, Copied, Stores, Full, Freezer!Whole
<1>4. reqs' = [reqs EXCEPT ![r] = At(r, "recreate", blob[reqs[r].id.index])]
  <2>1. reqs[r] = [st |-> reqs[r].st, id |-> reqs[r].id, saw |-> reqs[r].saw, buf |-> reqs[r].buf]
    BY <1>1, ReqInFlight
  <2>2. PICK u : u = [reqs[r] EXCEPT !.st = "recreate"]
    OBVIOUS
  <2>3. u = [st |-> "recreate", id |-> reqs[r].id, saw |-> reqs[r].saw, buf |-> reqs[r].buf]
    BY <2>1, <2>2
  <2>4. PICK v : v = [u EXCEPT !.buf = blob[reqs[r].id.index]]
    OBVIOUS
  <2>5. v = At(r, "recreate", blob[reqs[r].id.index])
    BY <2>3, <2>4 DEF At
  <2>6. reqs = [q \in Request |-> reqs[q]]
    BY DEF TaskInv, ReqsOK
  <2>7. PICK f : f = [reqs EXCEPT ![r].st = "recreate"]
    OBVIOUS
  <2>8. f = [reqs EXCEPT ![r] = u]
    BY <2>2, <2>7
  <2>9. reqs' = [f EXCEPT ![r].buf = blob[reqs[r].id.index]]
    BY <1>1, <2>7
  <2>10. f[r] = u
    BY <2>6, <2>8
  <2>11. reqs' = [f EXCEPT ![r] = v]
    BY <2>4, <2>9, <2>10
  <2> QED
    BY <2>5, <2>6, <2>8, <2>11
<1>5. TaskInv'
  BY <1>1, <1>3, <1>4, TaskAdvances DEF Post, OnlyIndex
<1>6. Counters' /\ Stores'
  BY <1>1 DEF PassInv, Counters, Stores
<1> QED
  BY <1>1, <1>5, <1>6, TasksLeavePass

\* A step on one target index leaves the stores sound.
LEMMA TargetSet ==
    ASSUME PassInv, UNCHANGED <<index, blob>>, NEW i \in Index, NEW S \in SUBSET Freezer!Docs(i),
           target' = [target EXCEPT ![i] = S]
    PROVE  Stores' /\ OnlyIndex(i) /\ target'[i] = S
  BY DEF PassInv, Stores, OnlyIndex

\* It makes the index anew, empty.
LEMMA RecreateKeeps ==
    ASSUME PassInv, TaskInv, NEW r \in Request, Freezer!Recreate(r)
    PROVE  PassInv' /\ TaskInv'
<1>1. /\ reqs[r].st = "recreate" /\ Freezer!Step(r, "bulk")
      /\ target' = [target EXCEPT ![reqs[r].id.index] = {}]
      /\ UNCHANGED <<index, blob, jobs, pass, npass, nreq, faults, orphans, raced, partial, short>>
  BY DEF Freezer!Recreate, Freezer!history
<1>2. reqs[r].id.index \in Index /\ Full(reqs[r].buf, reqs[r].id.index)
  BY <1>1, ReqInFlight DEF Fetched
<1>3. reqs' = [reqs EXCEPT ![r] = At(r, "bulk", reqs[r].buf)]
  BY <1>1, StepIs
<1>4. Stores' /\ OnlyIndex(reqs[r].id.index)
  <2>1. PICK i \in Index : i = reqs[r].id.index
    BY <1>2
  <2>2. PICK S \in SUBSET Freezer!Docs(i) : S = {}
    OBVIOUS
  <2>3. target' = [target EXCEPT ![i] = S]
    BY <1>1, <2>1, <2>2
  <2>4. Stores' /\ OnlyIndex(i)
    BY <1>1, <2>3, TargetSet
  <2> QED
    BY <2>1, <2>4
<1>5. TaskInv'
  BY <1>1, <1>2, <1>3, <1>4, TaskAdvances DEF Post
<1>6. Counters'
  BY <1>1 DEF PassInv, Counters
<1> QED
  BY <1>1, <1>4, <1>5, <1>6, TasksLeavePass

\* It writes the documents; the index lacks some only if it is listed as short or partial.
LEMMA BulkKeeps ==
    ASSUME ArchiveConstants, PassInv, TaskInv, NEW r \in Request, Freezer!Bulk(r)
    PROVE  PassInv' /\ TaskInv'
<1>1. PICK i : i = reqs[r].id.index
  OBVIOUS
<1>2. /\ reqs[r].st = "bulk" /\ Freezer!Step(r, "finish")
      /\ \/ /\ target' = [target EXCEPT ![i] = reqs[r].buf] /\ UNCHANGED <<faults, partial, short>>
         \/ /\ Freezer!Fault /\ \E S \in SUBSET reqs[r].buf : target' = [target EXCEPT ![i] = S]
            /\ partial' = partial \cup {i}
      /\ UNCHANGED <<index, blob, jobs, pass, npass, nreq, orphans, raced, short>>
  BY <1>1 DEF Freezer!Bulk
<1>3. i \in Index /\ Full(reqs[r].buf, i)
  BY <1>1, <1>2, ReqInFlight DEF Fetched
<1>4. reqs' = [reqs EXCEPT ![r] = At(r, "finish", reqs[r].buf)]
  BY <1>2, StepIs
<1>5. PICK S \in SUBSET Freezer!Docs(i) : /\ target' = [target EXCEPT ![i] = S]
                                          /\ S = Freezer!Docs(i) \/ i \in short' \cup partial'
  BY <1>2, <1>3 DEF Full
<1>6. Stores' /\ OnlyIndex(i) /\ target'[i] = S
  BY <1>2, <1>3, <1>5, TargetSet
<1>7. reqs'[r].id = reqs[r].id
  <2>1. reqs'[r] = At(r, "finish", reqs[r].buf)
    BY <1>4 DEF TaskInv, ReqsOK
  <2> QED
    BY <2>1 DEF At
<1>8. Served(reqs[r].id)'
  BY <1>1, <1>5, <1>6, <1>7 DEF Served
<1>9. partial \subseteq partial'
  BY <1>2
<1>10. TaskInv'
  BY <1>1, <1>2, <1>4, <1>6, <1>8, <1>9, TaskAdvances DEF Post
<1>11. Counters'
  BY <1>2, FaultCounts DEF PassInv, Counters
<1> QED
  BY <1>2, <1>6, <1>10, <1>11, TasksLeavePass

\* The row says rehydrated.
LEMMA RehydratedKeeps ==
    ASSUME PassInv, TaskInv, NEW r \in Request, Freezer!Rehydrated(r)
    PROVE  PassInv' /\ TaskInv'
<1>1. /\ reqs[r].st = "finish" /\ Freezer!SetJob(Freezer!Current(reqs[r].id), "rehydrated")
      /\ reqs' = [reqs EXCEPT ![r] = Freezer!Idle]
      /\ UNCHANGED <<index, blob, target, pass, npass, nreq, faults, orphans, raced, partial, short>>
  BY DEF Freezer!Rehydrated, Freezer!history
<1>2. PICK j \in jobs : j.key /\ Freezer!Current(reqs[r].id) = j
  BY <1>1, ReqInFlight
<1>3. Post(r) /\ OnlyIndex(reqs[r].id.index)
  BY <1>1 DEF Post, OnlyIndex
<1>4. TaskInv'
  BY <1>1, <1>3, TaskEnds
<1>5. Counters' /\ Stores'
  BY <1>1 DEF PassInv, Counters, Stores
<1> QED
  BY <1>1, <1>2, <1>4, <1>5, TasksLeavePass

\* Or it says failed, and the index may be gone.
LEMMA RehydrateFailsKeeps ==
    ASSUME ArchiveConstants, PassInv, TaskInv, NEW r \in Request, Freezer!RehydrateFails(r)
    PROVE  PassInv' /\ TaskInv'
<1>1. /\ reqs[r].st \in {"fetch", "recreate", "bulk"} /\ Freezer!Fault
      /\ Freezer!SetJob(Freezer!Current(reqs[r].id), "failed") /\ reqs' = [reqs EXCEPT ![r] = Freezer!Idle]
      /\ UNCHANGED target \/ target' = [target EXCEPT ![reqs[r].id.index] = {}]
      /\ UNCHANGED <<index, blob, pass, npass, nreq, orphans, raced, partial, short>>
  BY DEF Freezer!RehydrateFails, Freezer!history
<1>2. PICK j \in jobs : j.key /\ Freezer!Current(reqs[r].id) = j
  BY <1>1, ReqInFlight
<1>3. PICK i \in Index : i = reqs[r].id.index
  BY <1>1, ReqInFlight
<1>4. Stores' /\ OnlyIndex(i)
  <2>1. CASE UNCHANGED target
    BY <1>1, <2>1 DEF PassInv, Stores, OnlyIndex
  <2>2. CASE target' = [target EXCEPT ![i] = {}]
    <3>1. PICK S \in SUBSET Freezer!Docs(i) : S = {}
      OBVIOUS
    <3>2. target' = [target EXCEPT ![i] = S]
      BY <2>2, <3>1
    <3> QED
      BY <1>1, <3>2, TargetSet
  <2> QED
    BY <1>1, <1>3, <2>1, <2>2
<1>5. Post(r)
  BY <1>1 DEF Post
<1>6. TaskInv'
  BY <1>1, <1>3, <1>4, <1>5, TaskEnds
<1>7. Counters'
  BY <1>1, FaultCounts DEF PassInv, Counters
<1> QED
  BY <1>1, <1>2, <1>4, <1>6, <1>7, TasksLeavePass

\* Requests that have no task yet leave the worker's half alone too.
LEMMA RequestsLeavePass ==
    ASSUME ArchiveConstants, PassInv, TaskInv, NEW r \in Request,
           Freezer!FlipJob(r) \/ \E j \in jobs : Freezer!RehydrateJob(r, j)
    PROVE  PassInv'
<1>1. CASE Freezer!FlipJob(r)
  <2>1. /\ reqs[r].st = "flip" /\ Freezer!SetJob(Freezer!Current(reqs[r].id), "rehydrating")
        /\ UNCHANGED <<index, blob, target, pass, npass, nreq, faults, orphans, short>>
    BY <1>1 DEF Freezer!FlipJob
  <2>2. PICK j \in jobs : j.key /\ Freezer!Current(reqs[r].id) = j
    BY <2>1, ReqInFlight
  <2>3. Counters' /\ Stores'
    BY <2>1 DEF PassInv, Counters, Stores
  <2> QED
    BY <2>1, <2>2, <2>3, TasksLeavePass
<1>2. CASE \E j \in jobs : Freezer!RehydrateJob(r, j)
  <2>1. /\ nreq < MaxRequest /\ nreq' = nreq + 1
        /\ UNCHANGED <<index, blob, target, jobs, pass, npass, faults, orphans, short>>
    BY <1>2 DEF Freezer!RehydrateJob, Freezer!history
  <2>2. nreq \in Nat /\ MaxRequest \in Nat
    BY DEF ArchiveConstants, PassInv, Counters
  <2>3. nreq' \in 0 .. MaxRequest
    BY <2>1, <2>2
  <2>4. Counters' /\ Stores'
    BY <2>1, <2>3 DEF PassInv, Counters, Stores
  <2> QED
    BY <2>1, <2>4, TasksLeavePass
<1> QED
  BY <1>1, <1>2

\* Retention deletes a rehydrated index, which is listed as partial.
LEMMA ExpireRehydratedKeeps ==
    ASSUME ArchiveConstants, PassInv, TaskInv, NEW i \in Index, Freezer!ExpireRehydrated(i)
    PROVE  PassInv' /\ TaskInv'
<1>1. /\ Freezer!Fault /\ target' = [target EXCEPT ![i] = {}] /\ partial' = partial \cup {i}
      /\ UNCHANGED <<index, blob, jobs, pass, reqs, npass, nreq, orphans, raced, short>>
  BY DEF Freezer!ExpireRehydrated
<1>2. Stores' /\ OnlyIndex(i)
  <2>1. PICK S \in SUBSET Freezer!Docs(i) : S = {}
    OBVIOUS
  <2>2. target' = [target EXCEPT ![i] = S]
    BY <1>1, <2>1
  <2> QED
    BY <1>1, <2>2, TargetSet
<1>3. Counters'
  BY <1>1, FaultCounts DEF PassInv, Counters
<1>4. PassInv'
  BY <1>1, <1>2, <1>3, TasksLeavePass
<1>5. ReqsOK' /\ OneTask'
  BY <1>1 DEF TaskInv, ReqsOK, OneTask, Post, Fetched, Full
<1>6. TasksServe'
  <2> SUFFICES ASSUME NEW r \in Request, reqs[r].st = "finish" PROVE Served(reqs[r].id)'
    BY <1>1 DEF TasksServe
  <2>1. reqs[r].id.index \in Index /\ Served(reqs[r].id)
    BY ReqInFlight DEF TaskInv, TasksServe
  <2> QED
    BY <1>1, <1>2, <2>1 DEF Served, OnlyIndex
<1>7. Freezer!RehydratedServes'
  <2>1. \A j \in jobs : j.index \in Index
    BY DEF PassInv, JobsOK, IsJob
  <2> QED
    BY <1>1, <1>2, <2>1 DEF TaskInv, Freezer!RehydratedServes, OnlyIndex
<1> QED
  BY <1>4, <1>5, <1>6, <1>7 DEF TaskInv

\* A crash leaves no task, and an index with the documents it had.
LEMMA CrashKeepsTasks == ASSUME TaskInv, Freezer!Crash PROVE TaskInv'
<1>1. /\ reqs' = [r \in Request |-> Freezer!Idle] /\ UNCHANGED <<target, jobs, raced, partial, short>>
  BY DEF Freezer!Crash
<1>2. \A r \in Request : reqs'[r] = Freezer!Idle /\ reqs'[r].st = "idle" /\ ~Post(r)'
  BY <1>1 DEF Freezer!Idle, Post
<1>3. ReqsOK' /\ OneTask' /\ TasksServe'
  BY <1>1, <1>2 DEF ReqsOK, OneTask, TasksServe
<1> QED
  BY <1>1, <1>3 DEF TaskInv, Freezer!RehydratedServes
-----------------------------------------------------------------------------
(* The theorems.                                                           *)

\* Nothing is archived at first.
LEMMA ArchiveInitially == ASSUME ArchiveConstants, Freezer!Init PROVE ArchiveInv
<1>1. pass.st = "idle" /\ pass = Freezer!Idle /\ PassRows = {} /\ jobs = {}
  BY DEF Freezer!Init, Freezer!Idle, PassRows
<1>2. \A r \in Request : reqs[r] = Freezer!Idle /\ reqs[r].st = "idle" /\ ~Post(r)
  BY DEF Freezer!Init, Freezer!Idle, Post
<1>3. Counters /\ Stores /\ Freezer!ClosedIsListed
  BY DEF ArchiveConstants, Freezer!Init, Counters, Stores, Freezer!ClosedIsListed
<1>4. JobsOK /\ PassOK /\ OneCopy
  BY <1>1 DEF JobsOK, PassOK, OneCopy
<1>5. ReqsOK /\ OneTask /\ TasksServe /\ Freezer!RehydratedServes
  BY <1>1, <1>2 DEF Freezer!Init, ReqsOK, OneTask, TasksServe, Freezer!RehydratedServes
<1> QED
  BY <1>3, <1>4, <1>5 DEF ArchiveInv, PassInv, TaskInv

\* Every step keeps both halves.
LEMMA ArchiveStep == ASSUME ArchiveConstants, ArchiveInv, [Freezer!Next]_(Freezer!vars) PROVE ArchiveInv'
<1> USE DEF ArchiveInv
<1>1. CASE Freezer!RunOnce \/ Freezer!Scroll \/ Freezer!PutArchive \/ Freezer!CloseIndex \/ Freezer!FreezeFails
  <2>1. PassInv'
    BY <1>1, RunOnceKeeps, ScrollKeeps, PutArchiveKeeps, CloseIndexKeeps, FreezeFailsKeeps
  <2>2. UNCHANGED <<target, reqs, jobs, raced, partial>> /\ short \subseteq short'
    BY <1>1 DEF Freezer!RunOnce, Freezer!Scroll, Freezer!PutArchive, Freezer!CloseIndex, Freezer!FreezeFails, Freezer!history
  <2> QED
    BY <2>1, <2>2, TasksUntouched
<1>2. CASE Freezer!CommitPass
  <2>1. pass.st # "idle" /\ jobs' = jobs \cup pass.rows /\ UNCHANGED <<target, reqs, raced, partial, short>>
    BY <1>2 DEF Freezer!CommitPass, Freezer!history
  <2> QED
    BY <1>2, <2>1, CommitPassKeeps, TasksUntouched
<1>3. CASE Freezer!Crash
  BY <1>3, CrashKeepsPass, CrashKeepsTasks
<1>4. ASSUME NEW i \in Index, Freezer!Expire(i) \/ Freezer!Skip(i) \/ Freezer!StartFreeze(i)
      PROVE  ArchiveInv'
  <2>1. PassInv'
    BY <1>4, ExpireKeeps, SkipKeeps, StartFreezeKeeps
  <2>2. UNCHANGED <<target, reqs, jobs, raced, partial, short>>
    BY <1>4 DEF Freezer!Expire, Freezer!Skip, Freezer!StartFreeze, Freezer!history
  <2> QED
    BY <2>1, <2>2, TasksUntouched
<1>5. ASSUME NEW i \in Index, Freezer!ExpireRehydrated(i) PROVE ArchiveInv'
  BY <1>5, ExpireRehydratedKeeps
<1>6. ASSUME NEW r \in Request, NEW j \in jobs, Freezer!RehydrateJob(r, j)
      PROVE  ArchiveInv'
  BY <1>6, RequestsLeavePass, RehydrateJobKeeps
<1>7. ASSUME NEW r \in Request, Freezer!FlipJob(r)
      PROVE  ArchiveInv'
  BY <1>7, RequestsLeavePass, FlipJobKeeps
<1>8. ASSUME NEW r \in Request,
             Freezer!DoRehydrate(r) \/ Freezer!FetchArchive(r) \/ Freezer!Recreate(r) \/ Freezer!Bulk(r) \/ Freezer!Rehydrated(r) \/ Freezer!RehydrateFails(r)
      PROVE  ArchiveInv'
  BY <1>8, DoRehydrateKeeps, FetchArchiveKeeps, RecreateKeeps, BulkKeeps, RehydratedKeeps,
     RehydrateFailsKeeps
<1>9. CASE UNCHANGED Freezer!vars
  <2>1. /\ UNCHANGED <<index, blob, target, jobs, pass, reqs, npass, nreq>>
        /\ UNCHANGED <<faults, orphans, raced, partial, short>>
    BY <1>9 DEF Freezer!vars
  <2>2. TaskInv'
    BY <2>1, TasksUntouched
  <2>3. Counters' /\ Stores'
    BY <2>1 DEF PassInv, Counters, Stores
  <2> QED
    BY <2>1, <2>2, <2>3, TasksLeavePass
<1> QED
  BY <1>1, <1>2, <1>3, <1>4, <1>5, <1>6, <1>7, <1>8, <1>9 DEF Freezer!Next

\* The invariant holds of the archive, whatever the bounds.
LEMMA ArchiveInvariant == ASSUME ArchiveConstants PROVE Freezer!Spec => []ArchiveInv
<1>1. Freezer!Init => ArchiveInv
  BY ArchiveInitially
<1>2. ArchiveInv /\ [Freezer!Next]_(Freezer!vars) => ArchiveInv'
  BY ArchiveStep
<1> QED
  BY <1>1, <1>2, PTL DEF Freezer!Spec

\* Nothing is stored but documents of its index, every row is about an index, and the
\* counters keep their bounds (archive.py, archive_worker.py).
THEOREM ArchiveTypes == ASSUME ArchiveConstants PROVE Freezer!Spec => []Freezer!TypeOK
<1>1. ArchiveInv => Freezer!TypeOK
  <2> SUFFICES ASSUME ArchiveInv PROVE Freezer!TypeOK
    OBVIOUS
  <2>1. pass.st \in {"idle", "next", "scroll", "put", "close"}
    BY DEF ArchiveInv, PassInv, PassOK, PassFields, Freezer!Idle
  <2>2. \A j \in jobs : j.index \in Index /\ j.st \in {"frozen", "rehydrating", "rehydrated", "failed"}
    BY DEF ArchiveInv, PassInv, JobsOK, IsJob
  <2>3. \A i \in Index : blob[i] \subseteq Freezer!Docs(i) /\ target[i] \subseteq Freezer!Docs(i)
    BY DEF ArchiveInv, PassInv, Stores
  <2> QED
    BY <2>1, <2>2, <2>3 DEF ArchiveInv, PassInv, Counters, Stores, Freezer!TypeOK
<1> QED
  BY <1>1, ArchiveInvariant, PTL

\* Whatever fails or crashes between the scroll, the upload, the close and the commit
\* (freeze_index, _run_once), a row that is not failed has its whole copy in the blob store,
\* unless a scroll of its index was answered in part.
THEOREM FrozenAlwaysHasBlob == ASSUME ArchiveConstants PROVE Freezer!Spec => []Freezer!FrozenHasBlob
<1>1. ArchiveInv => Freezer!FrozenHasBlob
  BY DEF ArchiveInv, PassInv, JobsOK, IsJob, Copied, Freezer!FrozenHasBlob
<1> QED
  BY <1>1, ArchiveInvariant, PTL

\* An index that freeze_index closed has such a copy, and a row that says so unless the
\* pass never committed or was not told of the close.
THEOREM ClosedAlwaysListed == ASSUME ArchiveConstants PROVE Freezer!Spec => []Freezer!ClosedIsListed
<1>1. ArchiveInv => Freezer!ClosedIsListed
  BY DEF ArchiveInv, PassInv
<1> QED
  BY <1>1, ArchiveInvariant, PTL

\* What _do_rehydrate reports as rehydrated is all there, unless the copy was short, the
\* cluster refused documents, retention deleted the index or two requests had found the
\* row frozen.
THEOREM RehydratedAlwaysServes == ASSUME ArchiveConstants PROVE Freezer!Spec => []Freezer!RehydratedServes
<1>1. ArchiveInv => Freezer!RehydratedServes
  BY DEF ArchiveInv, TaskInv
<1> QED
  BY <1>1, ArchiveInvariant, PTL
(***************************************************************************)
(* Proofs about users, tenants and provisioning (Accounts).                *)
(*                                                                         *)
(* A request decides on rows as it loaded them and writes them later, so   *)
(* what counts is what stays true of a request that waits: the id it was   *)
(* given is not taken by anybody else, a user it will change is, if it is  *)
(* still there, of the tenant it acts in, the groups it will give are of   *)
(* that tenant, and if it will take an enabled administrator away it has   *)
(* counted another one.                                                    *)
(***************************************************************************)
\* What the proofs assume of the constants: the mark of an absent row is no tenant, and
\* the installation starts with an administrator of the default tenant.
AccountConstants == "none" \notin Tenant /\ DefaultTenant \in Tenant /\ "admin" \in Role /\ RootEmail \in Email

\* What a request of an actor of tenant t may ask for.
IsInsert(w, t) == w.do = "insert" /\ w.uid \in Uid /\ w.is \in Directory!User /\ w.is.tenant = t /\ w.is.groups = {}
IsUpdate(w, t) ==
    /\ w.do = "update" /\ w.uid \in Uid /\ w.was \in Directory!User /\ w.is \in Directory!User /\ w.is.tenant = w.was.tenant
    /\ \A g \in w.is.groups : GroupTenant[g] = t
IsDelete(w) == w.do = "delete" /\ w.uid \in Uid
IsDrop(w) == w.do = "drop" /\ w.uid \in Tenant

IsEnabledAdmin(x) == x.role = "admin" /\ ~x.disabled

\* A console request that takes an enabled administrator away has counted another one.
Guarded(q) ==
    q.actor.uid # "scim" /\ q.what.do \in {"update", "delete"} /\ IsEnabledAdmin(q.what.was) =>
        \/ q.what.do = "update" /\ q.what.is.role = q.what.was.role /\ q.what.is.disabled = q.what.was.disabled
        \/ \E v \in q.saw : v # q.what.uid

IsHeld(q) ==
    /\ q.st = "held" /\ Guarded(q)
    /\ \/ IsInsert(q.what, q.actor.tenant) \/ IsUpdate(q.what, q.actor.tenant)
       \/ IsDelete(q.what) \/ IsDrop(q.what)

Requests == req = [p \in Request |-> req[p]] /\ \A p \in Request : req[p] = Directory!Idle \/ IsHeld(req[p])

\* A request about a user: of its tenant, and the only one about it if it makes it.
About(p, u) == req[p] # Directory!Idle /\ req[p].what.do # "drop" /\ req[p].what.uid = u

Reserved ==
    \A p \in Request, u \in Uid : About(p, u) /\ req[p].what.do = "insert" =>
        users[u] = Directory!Absent /\ \A r \in Request : r # p => ~About(r, u)

OwnTenant ==
    \A p \in Request, u \in Uid : About(p, u) /\ users[u] # Directory!Absent => users[u].tenant = req[p].actor.tenant

OwnGroups ==
    \A u \in Uid : users[u] # Directory!Absent => \A g \in users[u].groups : GroupTenant[g] = users[u].tenant

AccountInv == Directory!TypeOK /\ Requests /\ Reserved /\ OwnTenant /\ OwnGroups

-----------------------------------------------------------------------------
(* Rows.                                                                   *)

\* A row that exists is of a tenant.
LEMMA RowOfTenant ==
    ASSUME AccountConstants, NEW x \in Directory!User PROVE x # Directory!Absent /\ x.tenant \in Tenant
<1>1. x.tenant \in Tenant
  BY DEF Directory!User
<1>2. Directory!Absent.tenant = "none"
  BY DEF Directory!Absent
<1> QED
  BY <1>1, <1>2 DEF AccountConstants

\* The columns that changed are written over the row as it is.
LEMMA MergeIs ==
    ASSUME NEW x \in Directory!User, NEW w, w.is \in Directory!User, w.was \in Directory!User
    PROVE  \E m : /\ m = Directory!Merge(x, w) /\ m \in Directory!User
                  /\ m.tenant = IF w.is.tenant # w.was.tenant THEN w.is.tenant ELSE x.tenant
                  /\ m.role = IF w.is.role # w.was.role THEN w.is.role ELSE x.role
                  /\ m.disabled = IF w.is.disabled # w.was.disabled THEN w.is.disabled ELSE x.disabled
                  /\ m.groups = IF w.is.groups # w.was.groups THEN w.is.groups ELSE x.groups
<1>1. PICK a, b : a = w.is /\ b = w.was
  OBVIOUS
<1>2. a \in Directory!User /\ b \in Directory!User
  BY <1>1
<1>3. PICK m : m = [f \in DOMAIN x |-> IF a[f] # b[f] THEN a[f] ELSE x[f]]
  OBVIOUS
<1>4. DOMAIN x = {"tenant", "email", "role", "disabled", "super", "ext", "groups"}
  BY DEF Directory!User
<1>5. m = [tenant |-> IF a.tenant # b.tenant THEN a.tenant ELSE x.tenant,
           email |-> IF a.email # b.email THEN a.email ELSE x.email,
           role |-> IF a.role # b.role THEN a.role ELSE x.role,
           disabled |-> IF a.disabled # b.disabled THEN a.disabled ELSE x.disabled,
           super |-> IF a.super # b.super THEN a.super ELSE x.super,
           ext |-> IF a.ext # b.ext THEN a.ext ELSE x.ext,
           groups |-> IF a.groups # b.groups THEN a.groups ELSE x.groups]
  BY <1>3, <1>4
<1>6. /\ m.tenant = IF a.tenant # b.tenant THEN a.tenant ELSE x.tenant
      /\ m.role = IF a.role # b.role THEN a.role ELSE x.role
      /\ m.disabled = IF a.disabled # b.disabled THEN a.disabled ELSE x.disabled
      /\ m.groups = IF a.groups # b.groups THEN a.groups ELSE x.groups
  BY <1>5
<1>7. m \in Directory!User
  BY <1>2, <1>5 DEF Directory!User
<1>8. m = Directory!Merge(x, w)
  BY <1>1, <1>3 DEF Directory!Merge
<1> QED
  BY <1>1, <1>6, <1>7, <1>8

-----------------------------------------------------------------------------
(* Requests are made.                                                      *)

\* What a new request is about: a new id, or a user of the actor's tenant.
Fits(a, w) ==
    /\ w.do = "insert" => users[w.uid] = Directory!Absent /\ \A r \in Request : req[r] # Directory!Idle => req[r].what.uid # w.uid
    /\ w.do \in {"update", "delete"} => users[w.uid] # Directory!Absent /\ users[w.uid].tenant = a.tenant

\* The request as it waits.
Waits(p, q, a, w, saw) ==
    /\ q = [st |-> "held", actor |-> a, what |-> w, saw |-> saw]
    /\ IsHeld(q) /\ Fits(a, w) /\ Directory!Submit(p, a, w, saw)

\* A request that fits what is in the tables keeps the invariant when it is submitted.
LEMMA SubmitKeeps ==
    ASSUME AccountInv, NEW p \in Request, NEW q, NEW a, NEW w, NEW saw, Waits(p, q, a, w, saw)
    PROVE  AccountInv'
<1>1. q.st = "held" /\ q.actor = a /\ q.what = w /\ q.saw = saw /\ q # Directory!Idle /\ IsHeld(q)
  <2>1. q.st = "held" /\ q.actor = a /\ q.what = w /\ q.saw = saw /\ IsHeld(q)
    BY DEF Waits
  <2> QED
    BY <2>1 DEF Directory!Idle
<1>2. /\ req' = [req EXCEPT ![p] = q] /\ users' = users /\ tenants' = tenants /\ scim' = scim /\ apiTokens' = apiTokens
  BY DEF Waits, Directory!Submit, Directory!tables
<1>3. req' = [r \in Request |-> req'[r]] /\ req'[p] = q /\ \A r \in Request : r # p => req'[r] = req[r]
  BY <1>2 DEF AccountInv, Requests
<1>4. Directory!TypeOK' /\ OwnGroups'
  BY <1>2 DEF AccountInv, Directory!TypeOK, OwnGroups
<1>5. Requests'
  <2>1. \A r \in Request : req'[r] = Directory!Idle \/ IsHeld(req'[r])
    BY <1>1, <1>3 DEF AccountInv, Requests
  <2> QED
    BY <1>3, <2>1 DEF Requests
<1>6. \A r \in Request : \A u : r # p => (About(r, u)' <=> About(r, u))
  BY <1>3 DEF About
<1>7. \A u : About(p, u)' <=> w.do # "drop" /\ w.uid = u
  BY <1>1, <1>3 DEF About
<1>8. w.do \in {"insert", "update", "delete", "drop"}
  BY <1>1 DEF IsHeld, IsInsert, IsUpdate, IsDelete, IsDrop
<1>9. ASSUME NEW r \in Request, NEW u \in Uid, About(r, u)', req'[r].what.do = "insert"
      PROVE  users[u] = Directory!Absent /\ \A s \in Request : s # r => ~About(s, u)'
  <2>1. CASE r = p
    <3>1. w.do = "insert" /\ w.uid = u
      BY <1>1, <1>3, <1>7, <1>9, <2>1
    <3>2. users[u] = Directory!Absent /\ \A s \in Request : req[s] # Directory!Idle => req[s].what.uid # u
      BY <3>1 DEF Waits, Fits
    <3> QED
      BY <1>6, <2>1, <3>2 DEF About
  <2>2. CASE r # p
    <3>1. About(r, u) /\ req[r].what.do = "insert"
      BY <1>3, <1>6, <1>9, <2>2
    <3>2. users[u] = Directory!Absent /\ \A s \in Request : s # r => ~About(s, u)
      BY <3>1 DEF AccountInv, Reserved
    <3>3. ~(w.do # "drop" /\ w.uid = u)
      <4>1. w.do = "insert" => w.uid # u
        BY <3>1 DEF Waits, Fits, About
      <4>2. w.do \in {"update", "delete"} => w.uid # u
        BY <3>2 DEF Waits, Fits
      <4> QED
        BY <1>8, <4>1, <4>2
    <3> QED
      BY <1>6, <1>7, <3>2, <3>3
  <2> QED
    BY <2>1, <2>2
<1>10. ASSUME NEW r \in Request, NEW u \in Uid, About(r, u)', users[u] # Directory!Absent
       PROVE  users[u].tenant = req'[r].actor.tenant
  <2>1. CASE r = p
    <3>1. w.do \in {"update", "delete"} /\ w.uid = u
      BY <1>7, <1>8, <1>10, <2>1 DEF Waits, Fits
    <3> QED
      BY <1>1, <1>3, <2>1, <3>1 DEF Waits, Fits
  <2>2. CASE r # p
    BY <1>3, <1>6, <1>10, <2>2 DEF AccountInv, OwnTenant
  <2> QED
    BY <2>1, <2>2
<1>11. Reserved' /\ OwnTenant'
  <2>1. Reserved'
    BY <1>2, <1>9 DEF Reserved
  <2>2. OwnTenant'
    BY <1>2, <1>10 DEF OwnTenant
  <2> QED
    BY <2>1, <2>2
<1> QED
  BY <1>4, <1>5, <1>11 DEF AccountInv

\* A user of the actor's tenant, its row and its groups.
LEMMA LoadedRow ==
    ASSUME AccountConstants, AccountInv, NEW t \in Tenant, NEW u \in Directory!Rows(t)
    PROVE  /\ u \in Uid /\ users[u] \in Directory!User /\ users[u] # Directory!Absent /\ users[u].tenant = t
           /\ \A g \in users[u].groups : GroupTenant[g] = t
<1>1. u \in Uid /\ users[u].tenant = t /\ users[u] \in Directory!User \cup {Directory!Absent}
  BY DEF Directory!Rows, AccountInv, Directory!TypeOK
<1>2. Directory!Absent.tenant = "none"
  BY DEF Directory!Absent
<1>3. users[u] # Directory!Absent
  BY <1>1, <1>2 DEF AccountConstants
<1> QED
  BY <1>1, <1>3 DEF AccountInv, OwnGroups

\* A request that will update a user.
Updates(p, a, u, row, saw) ==
    /\ a.tenant \in Tenant /\ u \in Directory!Rows(a.tenant) /\ Directory!Submit(p, a, Directory!Change("update", u, row), saw)
    /\ row \in Directory!User /\ row.tenant = users[u].tenant /\ \A g \in row.groups : GroupTenant[g] = a.tenant
    /\ a.uid # "scim" /\ IsEnabledAdmin(users[u]) =>
         (row.role = users[u].role /\ row.disabled = users[u].disabled) \/ \E v \in saw : v # u

\* Submitting it keeps the invariant.
LEMMA UpdateKeeps ==
    ASSUME AccountConstants, AccountInv, NEW p \in Request, NEW a, NEW u, NEW row, NEW saw, Updates(p, a, u, row, saw)
    PROVE  AccountInv'
<1>1. PICK w, q : w = Directory!Change("update", u, row) /\ q = [st |-> "held", actor |-> a, what |-> w, saw |-> saw]
  OBVIOUS
<1>2. w.do = "update" /\ w.uid = u /\ w.was = users[u] /\ w.is = row
  BY <1>1 DEF Directory!Change
<1>3. q.st = "held" /\ q.actor = a /\ q.what = w /\ q.saw = saw
  BY <1>1
<1>4. u \in Uid /\ users[u] \in Directory!User /\ users[u] # Directory!Absent /\ users[u].tenant = a.tenant
  BY LoadedRow DEF Updates
<1>5. IsUpdate(w, a.tenant)
  BY <1>2, <1>4 DEF IsUpdate, Updates
<1>6. Guarded(q)
  BY <1>2, <1>3 DEF Guarded, Updates
<1>7. IsHeld(q)
  BY <1>3, <1>5, <1>6 DEF IsHeld
<1>8. Fits(a, w)
  BY <1>2, <1>4 DEF Fits
<1>9. Waits(p, q, a, w, saw)
  BY <1>1, <1>7, <1>8 DEF Waits, Updates
<1> QED
  BY <1>9, SubmitKeeps

\* A request that will delete a user.
Deletes(p, a, u, saw) ==
    /\ a.tenant \in Tenant /\ u \in Directory!Rows(a.tenant) /\ Directory!Submit(p, a, Directory!Change("delete", u, users[u]), saw)
    /\ a.uid # "scim" /\ IsEnabledAdmin(users[u]) => \E v \in saw : v # u

\* Submitting it keeps the invariant.
LEMMA DeleteKeeps ==
    ASSUME AccountConstants, AccountInv, NEW p \in Request, NEW a, NEW u, NEW saw, Deletes(p, a, u, saw)
    PROVE  AccountInv'
<1>1. PICK w, q : w = Directory!Change("delete", u, users[u]) /\ q = [st |-> "held", actor |-> a, what |-> w, saw |-> saw]
  OBVIOUS
<1>2. w.do = "delete" /\ w.uid = u /\ w.was = users[u]
  BY <1>1 DEF Directory!Change
<1>3. q.st = "held" /\ q.actor = a /\ q.what = w /\ q.saw = saw
  BY <1>1
<1>4. u \in Uid /\ users[u] # Directory!Absent /\ users[u].tenant = a.tenant
  BY LoadedRow DEF Deletes
<1>5. IsDelete(w) /\ Guarded(q)
  BY <1>2, <1>3, <1>4 DEF IsDelete, Guarded, Deletes
<1>6. IsHeld(q) /\ Fits(a, w)
  BY <1>2, <1>3, <1>4, <1>5 DEF IsHeld, Fits
<1>7. Waits(p, q, a, w, saw)
  BY <1>1, <1>6 DEF Waits, Deletes
<1> QED
  BY <1>7, SubmitKeeps

\* A request that will create a user, with an id of its own.
Inserts(p, a, u, row) ==
    /\ u \in Uid /\ ~Directory!Exists(u) /\ \A r \in Request : req[r] # Directory!Idle => req[r].what.uid # u
    /\ row \in Directory!User /\ row.tenant = a.tenant /\ row.groups = {}
    /\ Directory!Submit(p, a, Directory!Change("insert", u, row), {})

\* Submitting it keeps the invariant.
LEMMA InsertKeeps ==
    ASSUME AccountInv, NEW p \in Request, NEW a, NEW u, NEW row, Inserts(p, a, u, row) PROVE AccountInv'
<1>1. PICK w, q : w = Directory!Change("insert", u, row) /\ q = [st |-> "held", actor |-> a, what |-> w, saw |-> {}]
  OBVIOUS
<1>2. w.do = "insert" /\ w.uid = u /\ w.is = row
  BY <1>1 DEF Directory!Change
<1>3. q.st = "held" /\ q.actor = a /\ q.what = w
  BY <1>1
<1>4. IsInsert(w, a.tenant) /\ Guarded(q) /\ Fits(a, w)
  BY <1>2, <1>3 DEF IsInsert, Guarded, Fits, Inserts, Directory!Exists
<1>5. IsHeld(q)
  BY <1>3, <1>4 DEF IsHeld
<1>6. Waits(p, q, a, w, {})
  BY <1>1, <1>4, <1>5 DEF Waits, Inserts
<1> QED
  BY <1>6, SubmitKeeps

-----------------------------------------------------------------------------
(* The requests of the console and of identity providers.                  *)

\* One column of a row is replaced.
SameOwner(x, y) == y \in Directory!User /\ y.tenant = x.tenant /\ y.groups = x.groups

\* The row stays with its tenant and its groups.
LEMMA RowWith ==
    ASSUME NEW x \in Directory!User
    PROVE  /\ \A r \in Role : \E y : y = [x EXCEPT !.role = r] /\ SameOwner(x, y) /\ y.role = r /\ y.disabled = x.disabled
           /\ \A d \in BOOLEAN : \E y : y = [x EXCEPT !.disabled = d] /\ SameOwner(x, y) /\ y.role = x.role /\ y.disabled = d
           /\ \A e \in Email : \E y : y = [x EXCEPT !.email = e] /\ SameOwner(x, y)
           /\ \A z \in Ext \cup {"null"} : \E y : y = [x EXCEPT !.ext = z] /\ SameOwner(x, y)
<1>1. ASSUME NEW r \in Role
      PROVE  \E y : y = [x EXCEPT !.role = r] /\ SameOwner(x, y) /\ y.role = r /\ y.disabled = x.disabled
  <2>1. PICK y : y = [x EXCEPT !.role = r]
    OBVIOUS
  <2>2. SameOwner(x, y) /\ y.role = r /\ y.disabled = x.disabled
    BY <2>1 DEF Directory!User, SameOwner
  <2> QED
    BY <2>1, <2>2
<1>2. ASSUME NEW d \in BOOLEAN
      PROVE  \E y : y = [x EXCEPT !.disabled = d] /\ SameOwner(x, y) /\ y.role = x.role /\ y.disabled = d
  <2>1. PICK y : y = [x EXCEPT !.disabled = d]
    OBVIOUS
  <2>2. SameOwner(x, y) /\ y.role = x.role /\ y.disabled = d
    BY <2>1 DEF Directory!User, SameOwner
  <2> QED
    BY <2>1, <2>2
<1>3. ASSUME NEW e \in Email PROVE \E y : y = [x EXCEPT !.email = e] /\ SameOwner(x, y)
  <2>1. PICK y : y = [x EXCEPT !.email = e]
    OBVIOUS
  <2>2. SameOwner(x, y)
    BY <2>1 DEF Directory!User, SameOwner
  <2> QED
    BY <2>1, <2>2
<1>4. ASSUME NEW z \in Ext \cup {"null"} PROVE \E y : y = [x EXCEPT !.ext = z] /\ SameOwner(x, y)
  <2>1. PICK y : y = [x EXCEPT !.ext = z]
    OBVIOUS
  <2>2. SameOwner(x, y)
    BY <2>1 DEF Directory!User, SameOwner
  <2> QED
    BY <2>1, <2>2
<1> QED
  BY <1>1, <1>2, <1>3, <1>4

\* Actors act in tenants.
LEMMA ActorTenant ==
    /\ \A a \in Directory!RequireAdmin : a.tenant \in Tenant
    /\ \A a \in Directory!ScimActor : a.tenant \in Tenant /\ a.uid = "scim"
BY DEF Directory!RequireAdmin, Directory!RequireRole, Directory!CurrentActor, Directory!Actors, Directory!ScimActor

\* create_user
LEMMA CreateUserKeeps ==
    ASSUME AccountConstants, AccountInv, NEW p \in Request, Directory!CreateUser(p) PROVE AccountInv'
<1>1. PICK a \in Directory!RequireAdmin, u \in Uid, e \in Email, r \in Role :
        /\ ~Directory!Exists(u) /\ \A q \in Request : req[q] # Directory!Idle => req[q].what.uid # u
        /\ Directory!Submit(p, a, Directory!Change("insert", u,
             [tenant |-> a.tenant, email |-> e, role |-> r, disabled |-> FALSE,
              super |-> FALSE, ext |-> "null", groups |-> {}]), {})
  BY DEF Directory!CreateUser
<1>2. a.tenant \in Tenant
  BY ActorTenant
<1>3. PICK row : row = [tenant |-> a.tenant, email |-> e, role |-> r, disabled |-> FALSE,
                        super |-> FALSE, ext |-> "null", groups |-> {}]
  OBVIOUS
<1>4. row \in Directory!User /\ row.tenant = a.tenant /\ row.groups = {}
  BY <1>2, <1>3 DEF Directory!User
<1>5. Inserts(p, a, u, row)
  BY <1>1, <1>3, <1>4 DEF Inserts
<1> QED
  BY <1>5, InsertKeeps

\* Another enabled administrator was counted unless the user is no enabled administrator.
LEMMA OtherCounted ==
    ASSUME NEW u \in Uid, IsEnabledAdmin(users[u]), ~Directory!LastEnabledAdmin(u) PROVE \E v \in Directory!Others(u) : v # u
<1>1. u \in Directory!EnabledAdmins(users[u].tenant)
  BY DEF Directory!EnabledAdmins, Directory!Rows, IsEnabledAdmin
<1> QED
  BY <1>1 DEF Directory!LastEnabledAdmin, Directory!Others

\* update_user
LEMMA UpdateUserKeeps ==
    ASSUME AccountConstants, AccountInv, NEW p \in Request, Directory!UpdateUser(p) PROVE AccountInv'
<1>1. PICK a \in Directory!RequireAdmin : \E u \in Directory!Rows(a.tenant), r \in Role, d \in BOOLEAN :
        /\ r # "admin" \/ d => ~Directory!LastEnabledAdmin(u)
        /\ Directory!Submit(p, a, Directory!Change("update", u, [users[u] EXCEPT !.role = r, !.disabled = d]), Directory!Others(u))
  BY DEF Directory!UpdateUser, Directory!LoadInTenant
<1>2. PICK u \in Directory!Rows(a.tenant), r \in Role, d \in BOOLEAN :
        /\ r # "admin" \/ d => ~Directory!LastEnabledAdmin(u)
        /\ Directory!Submit(p, a, Directory!Change("update", u, [users[u] EXCEPT !.role = r, !.disabled = d]), Directory!Others(u))
  BY <1>1
<1>3. a.tenant \in Tenant
  BY ActorTenant
<1>4. /\ u \in Uid /\ users[u] \in Directory!User /\ users[u].tenant = a.tenant
      /\ \A g \in users[u].groups : GroupTenant[g] = a.tenant
  BY <1>3, LoadedRow
<1>5. PICK x : x = users[u]
  OBVIOUS
<1>6. PICK y : y = [x EXCEPT !.role = r] /\ SameOwner(x, y) /\ y.role = r /\ y.disabled = x.disabled
  BY <1>4, <1>5, RowWith
<1>7. PICK row : row = [y EXCEPT !.disabled = d] /\ SameOwner(y, row) /\ row.role = y.role /\ row.disabled = d
  <2>1. y \in Directory!User
    BY <1>6 DEF SameOwner
  <2> QED
    BY <2>1, RowWith
<1>8. row = [users[u] EXCEPT !.role = r, !.disabled = d]
  BY <1>5, <1>6, <1>7
<1>9. ASSUME IsEnabledAdmin(users[u])
      PROVE  (row.role = users[u].role /\ row.disabled = users[u].disabled) \/ \E v \in Directory!Others(u) : v # u
  <2>1. CASE r # "admin" \/ d
    BY <1>2, <1>4, <1>9, <2>1, OtherCounted
  <2>2. CASE ~(r # "admin" \/ d)
    <3>1. users[u].disabled \in BOOLEAN
      BY <1>4 DEF Directory!User
    <3>2. row.role = "admin" /\ row.disabled = FALSE
      BY <1>6, <1>7, <2>2
    <3> QED
      BY <1>9, <3>1, <3>2 DEF IsEnabledAdmin
  <2> QED
    BY <2>1, <2>2
<1>10. Updates(p, a, u, row, Directory!Others(u))
  BY <1>2, <1>3, <1>4, <1>5, <1>6, <1>7, <1>8, <1>9 DEF Updates, SameOwner
<1> QED
  BY <1>10, UpdateKeeps

\* delete_user and its SCIM counterpart
LEMMA DeleteUserKeeps ==
    ASSUME AccountConstants, AccountInv, NEW p \in Request, Directory!DeleteUser(p) \/ Directory!ScimDeleteUser(p) PROVE AccountInv'
<1>1. ASSUME Directory!DeleteUser(p) PROVE AccountInv'
  <2>1. PICK a \in Directory!RequireAdmin : \E u \in Directory!Rows(a.tenant) :
          ~Directory!LastEnabledAdmin(u) /\ Directory!Submit(p, a, Directory!Change("delete", u, users[u]), Directory!Others(u))
    BY <1>1 DEF Directory!DeleteUser, Directory!LoadInTenant
  <2>2. PICK u \in Directory!Rows(a.tenant) : ~Directory!LastEnabledAdmin(u) /\ Directory!Submit(p, a, Directory!Change("delete", u, users[u]), Directory!Others(u))
    BY <2>1
  <2>3. a.tenant \in Tenant /\ u \in Uid
    BY ActorTenant DEF Directory!Rows
  <2>4. IsEnabledAdmin(users[u]) => \E v \in Directory!Others(u) : v # u
    BY <2>2, <2>3, OtherCounted
  <2>5. Deletes(p, a, u, Directory!Others(u))
    BY <2>2, <2>3, <2>4 DEF Deletes
  <2> QED
    BY <2>5, DeleteKeeps
<1>2. ASSUME Directory!ScimDeleteUser(p) PROVE AccountInv'
  <2>1. PICK a \in Directory!ScimActor : \E u \in Directory!Rows(a.tenant) : Directory!Submit(p, a, Directory!Change("delete", u, users[u]), {})
    BY <1>2 DEF Directory!ScimDeleteUser
  <2>2. PICK u \in Directory!Rows(a.tenant) : Directory!Submit(p, a, Directory!Change("delete", u, users[u]), {})
    BY <2>1
  <2>3. Deletes(p, a, u, {})
    BY <2>2, ActorTenant DEF Deletes
  <2> QED
    BY <2>3, DeleteKeeps
<1> QED
  BY <1>1, <1>2

\* replace_user_groups
LEMMA ReplaceGroupsKeeps ==
    ASSUME AccountConstants, AccountInv, NEW p \in Request, Directory!ReplaceUserGroups(p) PROVE AccountInv'
<1>1. PICK a \in Directory!RequireAdmin : \E u \in Directory!Rows(a.tenant), gs \in SUBSET Group :
        Directory!Submit(p, a, Directory!Change("update", u, [users[u] EXCEPT !.groups = Directory!ValidGroups(a, gs)]), {})
  BY DEF Directory!ReplaceUserGroups, Directory!LoadInTenant
<1>2. PICK u \in Directory!Rows(a.tenant), gs \in SUBSET Group :
        Directory!Submit(p, a, Directory!Change("update", u, [users[u] EXCEPT !.groups = Directory!ValidGroups(a, gs)]), {})
  BY <1>1
<1>3. a.tenant \in Tenant
  BY ActorTenant
<1>4. users[u] \in Directory!User
  BY <1>3, LoadedRow
<1>5. PICK x, vs : x = users[u] /\ vs = Directory!ValidGroups(a, gs)
  OBVIOUS
<1>6. vs \in SUBSET Group /\ \A g \in vs : GroupTenant[g] = a.tenant
  BY <1>5 DEF Directory!ValidGroups
<1>7. PICK row : row = [x EXCEPT !.groups = vs]
  OBVIOUS
<1>8. row \in Directory!User /\ row.tenant = x.tenant /\ row.groups = vs /\ row.role = x.role /\ row.disabled = x.disabled
  BY <1>4, <1>5, <1>6, <1>7 DEF Directory!User
<1>9. Updates(p, a, u, row, {})
  BY <1>2, <1>3, <1>5, <1>6, <1>7, <1>8 DEF Updates
<1> QED
  BY <1>9, UpdateKeeps

\* What an identity provider sends leaves the tenant and the groups of a row.
LEMMA ScimRow ==
    ASSUME NEW x \in Directory!User, NEW e \in Email, NEW z \in Ext \cup {"null"}, NEW r \in Role, NEW d \in BOOLEAN
    PROVE  \E y : y = Directory!ApplyScimUserFields(x, e, z, r, d) /\ SameOwner(x, y)
<1>1. PICK y : y = Directory!ApplyScimUserFields(x, e, z, r, d)
  OBVIOUS
<1>2. PICK x1 : x1 = [x EXCEPT !.email = e] /\ SameOwner(x, x1)
  BY RowWith
<1>3. x1 \in Directory!User
  BY <1>2 DEF SameOwner
<1>4. PICK k : k = IF z = "null" THEN x1.ext ELSE z
  OBVIOUS
<1>5. k \in Ext \cup {"null"} /\ x.ext = x1.ext
  BY <1>2, <1>3, <1>4 DEF Directory!User
<1>6. PICK x2 : x2 = [x1 EXCEPT !.ext = k] /\ SameOwner(x1, x2)
  BY <1>3, <1>5, RowWith
<1>7. x2 \in Directory!User
  BY <1>6 DEF SameOwner
<1>8. PICK x3 : x3 = [x2 EXCEPT !.role = r] /\ SameOwner(x2, x3)
  BY <1>7, RowWith
<1>9. x3 \in Directory!User
  BY <1>8 DEF SameOwner
<1>10. PICK x4 : x4 = [x3 EXCEPT !.disabled = d] /\ SameOwner(x3, x4)
  BY <1>9, RowWith
<1>11. y = x4
  <2>1. Directory!ApplyScimUserFields(x, e, z, r, d)
          = [x EXCEPT !.email = e, !.ext = IF z = "null" THEN x.ext ELSE z, !.role = r, !.disabled = d]
    BY DEF Directory!ApplyScimUserFields
  <2>2. k = IF z = "null" THEN x.ext ELSE z
    BY <1>4, <1>5
  <2>3. y = [x EXCEPT !.email = e, !.ext = k, !.role = r, !.disabled = d]
    BY <1>1, <2>1, <2>2
  <2>4. [x EXCEPT !.email = e, !.ext = k, !.role = r, !.disabled = d] = x4
    BY <1>2, <1>6, <1>8, <1>10
  <2> QED
    BY <2>3, <2>4
<1>12. SameOwner(x, x4)
  BY <1>2, <1>6, <1>8, <1>10 DEF SameOwner
<1> QED
  BY <1>1, <1>11, <1>12

\* A request of an identity provider that will update a user of its tenant.
LEMMA ScimUpdateKeeps ==
    ASSUME AccountConstants, AccountInv, NEW p \in Request, NEW a \in Directory!ScimActor, NEW u \in Directory!Rows(a.tenant),
           NEW row, SameOwner(users[u], row), Directory!Submit(p, a, Directory!Change("update", u, row), {})
    PROVE  AccountInv'
<1>1. a.tenant \in Tenant /\ a.uid = "scim"
  BY ActorTenant
<1>2. users[u].tenant = a.tenant /\ \A g \in users[u].groups : GroupTenant[g] = a.tenant
  BY <1>1, LoadedRow
<1>3. Updates(p, a, u, row, {})
  BY <1>1, <1>2 DEF Updates, SameOwner
<1> QED
  BY <1>3, UpdateKeeps

\* scim_replace_user and scim_patch_user
LEMMA ScimReplaceKeeps ==
    ASSUME AccountConstants, AccountInv, NEW p \in Request, Directory!ScimReplaceUser(p) \/ Directory!ScimPatchUser(p) PROVE AccountInv'
<1>1. ASSUME Directory!ScimReplaceUser(p) PROVE AccountInv'
  <2>1. PICK a \in Directory!ScimActor :
          \E u \in Directory!Rows(a.tenant), e \in Email, x \in Ext \cup {"null"}, r \in Role, d \in BOOLEAN :
            Directory!Submit(p, a, Directory!Change("update", u, Directory!ApplyScimUserFields(users[u], e, x, r, d)), {})
    BY <1>1 DEF Directory!ScimReplaceUser
  <2>2. PICK u \in Directory!Rows(a.tenant), e \in Email, x \in Ext \cup {"null"}, r \in Role, d \in BOOLEAN :
          Directory!Submit(p, a, Directory!Change("update", u, Directory!ApplyScimUserFields(users[u], e, x, r, d)), {})
    BY <2>1
  <2>3. users[u] \in Directory!User
    BY ActorTenant, LoadedRow
  <2>4. PICK row : row = Directory!ApplyScimUserFields(users[u], e, x, r, d) /\ SameOwner(users[u], row)
    BY <2>3, ScimRow
  <2> QED
    BY <2>2, <2>4, ScimUpdateKeeps
<1>2. ASSUME Directory!ScimPatchUser(p) PROVE AccountInv'
  <2>1. PICK a \in Directory!ScimActor : \E u \in Directory!Rows(a.tenant) : \E row \in Directory!ScimPatch(users[u]) :
          Directory!Submit(p, a, Directory!Change("update", u, row), {})
    BY <1>2 DEF Directory!ScimPatchUser
  <2>2. PICK u \in Directory!Rows(a.tenant) : \E row \in Directory!ScimPatch(users[u]) : Directory!Submit(p, a, Directory!Change("update", u, row), {})
    BY <2>1
  <2>3. PICK row \in Directory!ScimPatch(users[u]) : Directory!Submit(p, a, Directory!Change("update", u, row), {})
    BY <2>2
  <2>4. users[u] \in Directory!User
    BY ActorTenant, LoadedRow
  <2>5. SameOwner(users[u], row)
    <3>1. PICK x : x = users[u]
      OBVIOUS
    <3>2. \/ \E d \in BOOLEAN : row = [x EXCEPT !.disabled = d]
          \/ \E e \in Email : row = [x EXCEPT !.email = e]
          \/ \E z \in Ext \cup {"null"} : row = [x EXCEPT !.ext = z]
          \/ \E r \in Role : row = [x EXCEPT !.role = r]
      BY <2>3, <3>1 DEF Directory!ScimPatch
    <3>3. SameOwner(x, row)
      BY <2>4, <3>1, <3>2, RowWith
    <3> QED
      BY <3>1, <3>3
  <2> QED
    BY <2>3, <2>5, ScimUpdateKeeps
<1> QED
  BY <1>1, <1>2

\* The user a SCIM POST finds is of the tenant of the token.
LEMMA ExistingInTenant ==
    ASSUME NEW t \in Tenant, NEW e, NEW x, ~Directory!Existing(t, e, x).conflict PROVE Directory!Existing(t, e, x).rows \subseteq Directory!Rows(t)
<1> DEFINE byExt == {u \in Directory!Rows(t) : x # "null" /\ users[u].ext = x}
           byEmail == {u \in Uid : Directory!Exists(u) /\ users[u].email = e}
<1>1. /\ Directory!Existing(t, e, x).rows = IF byExt # {} THEN byExt ELSE byEmail
      /\ Directory!Existing(t, e, x).conflict = (byExt = {} /\ \E u \in byEmail : users[u].ext = "null" \/ users[u].tenant # t)
  BY DEF Directory!Existing
<1>2. CASE byExt # {}
  BY <1>1, <1>2
<1>3. CASE byExt = {}
  <2>1. \A u \in byEmail : u \in Uid /\ users[u].tenant = t
    BY <1>1, <1>3
  <2>2. Directory!Existing(t, e, x).rows = byEmail
    BY <1>1, <1>3
  <2> HIDE DEF byEmail, byExt
  <2> QED
    BY <2>1, <2>2 DEF Directory!Rows
<1> QED
  BY <1>2, <1>3

\* scim_create_user
LEMMA ScimCreateKeeps ==
    ASSUME AccountConstants, AccountInv, NEW p \in Request, Directory!ScimCreateUser(p) PROVE AccountInv'
<1>1. PICK a \in Directory!ScimActor, e \in Email, x \in Ext \cup {"null"}, r \in Role, d \in BOOLEAN :
        LET ex == Directory!Existing(a.tenant, e, x)
        IN  /\ ~ex.conflict
            /\ \/ \E u \in ex.rows :
                    Directory!Submit(p, a, Directory!Change("update", u, Directory!ApplyScimUserFields(users[u], e, x, r, d)), {})
               \/ /\ ex.rows = {}
                  /\ \E u \in Uid :
                       /\ ~Directory!Exists(u)
                       /\ \A q \in Request : req[q] # Directory!Idle => req[q].what.uid # u
                       /\ Directory!Submit(p, a, Directory!Change("insert", u,
                            [tenant |-> a.tenant, email |-> e, role |-> r, disabled |-> d,
                             super |-> FALSE, ext |-> x, groups |-> {}]), {})
  BY Zenon DEF Directory!ScimCreateUser
<1>2. a.tenant \in Tenant
  BY ActorTenant
<1>3. ASSUME NEW u \in Directory!Existing(a.tenant, e, x).rows,
             Directory!Submit(p, a, Directory!Change("update", u, Directory!ApplyScimUserFields(users[u], e, x, r, d)), {})
      PROVE  AccountInv'
  <2>1. u \in Directory!Rows(a.tenant)
    BY <1>1, <1>2, ExistingInTenant
  <2>2. users[u] \in Directory!User
    BY <1>2, <2>1, LoadedRow
  <2>3. PICK row : row = Directory!ApplyScimUserFields(users[u], e, x, r, d) /\ SameOwner(users[u], row)
    BY <2>2, ScimRow
  <2> QED
    BY <1>3, <2>1, <2>3, ScimUpdateKeeps
<1>4. ASSUME NEW u \in Uid, ~Directory!Exists(u), \A q \in Request : req[q] # Directory!Idle => req[q].what.uid # u,
             Directory!Submit(p, a, Directory!Change("insert", u,
                     [tenant |-> a.tenant, email |-> e, role |-> r, disabled |-> d,
                      super |-> FALSE, ext |-> x, groups |-> {}]), {})
      PROVE  AccountInv'
  <2>1. PICK row : row = [tenant |-> a.tenant, email |-> e, role |-> r, disabled |-> d,
                          super |-> FALSE, ext |-> x, groups |-> {}]
    OBVIOUS
  <2>2. row \in Directory!User /\ row.tenant = a.tenant /\ row.groups = {}
    BY <1>2, <2>1 DEF Directory!User
  <2>3. Inserts(p, a, u, row)
    BY <1>4, <2>1, <2>2 DEF Inserts
  <2> QED
    BY <2>3, InsertKeeps
<1> QED
  BY <1>1, <1>3, <1>4

\* delete_tenant
LEMMA DeleteTenantKeeps == ASSUME AccountInv, NEW p \in Request, Directory!DeleteTenant(p) PROVE AccountInv'
<1>1. PICK a \in Directory!RequireSuperAdmin, t \in Tenant \ {DefaultTenant} :
        Directory!Submit(p, a, [do |-> "drop", uid |-> t, was |-> Directory!Absent, is |-> Directory!Absent], {})
  BY DEF Directory!DeleteTenant
<1>2. PICK w, q : /\ w = [do |-> "drop", uid |-> t, was |-> Directory!Absent, is |-> Directory!Absent]
                  /\ q = [st |-> "held", actor |-> a, what |-> w, saw |-> {}]
  OBVIOUS
<1>3. w.do = "drop" /\ w.uid = t
  BY <1>2
<1>4. q.st = "held" /\ q.what = w
  BY <1>2
<1>5. IsHeld(q) /\ Fits(a, w)
  BY <1>3, <1>4 DEF IsHeld, IsDrop, Guarded, Fits
<1>6. Waits(p, q, a, w, {})
  BY <1>1, <1>2, <1>5 DEF Waits
<1> QED
  BY <1>6, SubmitKeeps

-----------------------------------------------------------------------------
(* Requests are committed.                                                 *)

\* What the commit of request q does to the users.
Lands(q) ==
    LET w == q.what IN
    \/ IsInsert(w, q.actor.tenant) /\ users' = [users EXCEPT ![w.uid] = w.is]
    \/ /\ IsUpdate(w, q.actor.tenant) /\ users[w.uid] \in Directory!User
       /\ \E m \in Directory!User :
            /\ users' = [users EXCEPT ![w.uid] = m] /\ m.tenant = users[w.uid].tenant
            /\ m.groups = w.is.groups \/ m.groups = users[w.uid].groups
            /\ w.is.role = w.was.role /\ w.is.disabled = w.was.disabled =>
                 m.role = users[w.uid].role /\ m.disabled = users[w.uid].disabled
    \/ IsDelete(w) /\ users' = [users EXCEPT ![w.uid] = Directory!Absent]
    \/ IsDrop(w) /\ users' = users

\* A commit does what the request was submitted for, or nothing.
LEMMA CommitLands == ASSUME AccountInv, NEW p \in Request, Directory!Commit(p), NEW q, q = req[p] PROVE IsHeld(q) /\ Lands(q)
<1>1. IsHeld(q)
  BY DEF Directory!Commit, AccountInv, Requests
<1>2. PICK w, t : w = q.what /\ t = q.actor.tenant
  OBVIOUS
<1>3. users' \in Directory!Applied(q)
  BY DEF Directory!Commit, Directory!Outcomes
<1>4. CASE IsInsert(w, t)
  <2>1. users' = [users EXCEPT ![w.uid] = w.is]
    BY <1>2, <1>3, <1>4 DEF Directory!Applied, IsInsert
  <2> QED
    BY <1>1, <1>2, <1>4, <2>1 DEF Lands
<1>5. CASE IsUpdate(w, t)
  <2>1. Directory!Exists(w.uid) /\ users' = [users EXCEPT ![w.uid] = Directory!Merge(users[w.uid], w)]
    BY <1>2, <1>3, <1>5 DEF Directory!Applied, IsUpdate
  <2>2. PICK x : x = users[w.uid]
    OBVIOUS
  <2>3. x \in Directory!User
    BY <1>5, <2>1, <2>2 DEF Directory!Exists, AccountInv, Directory!TypeOK, IsUpdate
  <2>4. PICK m : /\ m = Directory!Merge(x, w) /\ m \in Directory!User
                 /\ m.tenant = IF w.is.tenant # w.was.tenant THEN w.is.tenant ELSE x.tenant
                 /\ m.role = IF w.is.role # w.was.role THEN w.is.role ELSE x.role
                 /\ m.disabled = IF w.is.disabled # w.was.disabled THEN w.is.disabled ELSE x.disabled
                 /\ m.groups = IF w.is.groups # w.was.groups THEN w.is.groups ELSE x.groups
    <3>1. w.is \in Directory!User /\ w.was \in Directory!User
      BY <1>5 DEF IsUpdate
    <3> QED
      BY <2>3, <3>1, MergeIs
  <2>5. users' = [users EXCEPT ![w.uid] = m]
    BY <2>1, <2>2, <2>4
  <2>6. m.tenant = x.tenant /\ (m.groups = w.is.groups \/ m.groups = x.groups)
    BY <1>5, <2>4 DEF IsUpdate
  <2>7. w.is.role = w.was.role /\ w.is.disabled = w.was.disabled => m.role = x.role /\ m.disabled = x.disabled
    BY <2>4
  <2> QED
    BY <1>1, <1>2, <1>5, <2>2, <2>3, <2>4, <2>5, <2>6, <2>7 DEF Lands
<1>6. CASE IsDelete(w)
  <2>1. users' = [users EXCEPT ![w.uid] = Directory!Absent]
    BY <1>2, <1>3, <1>6 DEF Directory!Applied, IsDelete
  <2> QED
    BY <1>1, <1>2, <1>6, <2>1 DEF Lands
<1>7. CASE IsDrop(w)
  <2>1. users' = users
    BY <1>2, <1>3, <1>7 DEF Directory!Applied, IsDrop
  <2> QED
    BY <1>1, <1>2, <1>7, <2>1 DEF Lands
<1> QED
  BY <1>1, <1>2, <1>4, <1>5, <1>6, <1>7 DEF IsHeld

\* One user at most changes: the one the request is about.
LEMMA OneUserChanges ==
    ASSUME AccountConstants, AccountInv, NEW p \in Request, req[p] # Directory!Idle, Lands(req[p])
    PROVE  /\ users' = [u \in Uid |-> users'[u]]
           /\ \A u \in Uid : users'[u] # users[u] =>
                /\ users[u] # Directory!Absent => users[u].tenant = req[p].actor.tenant
                /\ About(p, u)
                /\ users'[u] # Directory!Absent =>
                     /\ users'[u] \in Directory!User /\ users'[u].tenant = req[p].actor.tenant
                     /\ \A g \in users'[u].groups : GroupTenant[g] = req[p].actor.tenant
                     /\ req[p].what.do = "insert" \/ users[u] # Directory!Absent
<1>1. PICK q, w, t : q = req[p] /\ w = q.what /\ t = q.actor.tenant
  OBVIOUS
<1>2. users = [u \in Uid |-> users[u]] /\ \A u \in Uid : users[u] \in Directory!User \cup {Directory!Absent}
  BY DEF AccountInv, Directory!TypeOK
<1>3. CASE IsInsert(w, t) /\ users' = [users EXCEPT ![w.uid] = w.is]
  <2>1. /\ users' = [u \in Uid |-> users'[u]] /\ w.uid \in Uid /\ users'[w.uid] = w.is
        /\ \A u \in Uid : u # w.uid => users'[u] = users[u]
    BY <1>2, <1>3 DEF IsInsert
  <2>2. About(p, w.uid) /\ w.do = "insert" /\ w.is \in Directory!User /\ w.is.tenant = t /\ w.is.groups = {}
    BY <1>1, <1>3 DEF IsInsert, About
  <2>3. users[w.uid] = Directory!Absent
    BY <1>1, <2>1, <2>2 DEF AccountInv, Reserved
  <2> QED
    BY <1>1, <2>1, <2>2, <2>3
<1>4. ASSUME IsUpdate(w, t), users[w.uid] \in Directory!User, NEW m \in Directory!User, users' = [users EXCEPT ![w.uid] = m],
             m.tenant = users[w.uid].tenant, m.groups = w.is.groups \/ m.groups = users[w.uid].groups
      PROVE  /\ users' = [u \in Uid |-> users'[u]]
             /\ \A u \in Uid : users'[u] # users[u] =>
                  /\ About(p, u) /\ users[u] # Directory!Absent /\ users[u].tenant = t
                  /\ users'[u] \in Directory!User /\ users'[u].tenant = t
                  /\ \A g \in users'[u].groups : GroupTenant[g] = t
  <2>1. /\ users' = [u \in Uid |-> users'[u]] /\ w.uid \in Uid /\ users'[w.uid] = m
        /\ \A u \in Uid : u # w.uid => users'[u] = users[u]
    BY <1>2, <1>4 DEF IsUpdate
  <2>2. About(p, w.uid) /\ \A g \in w.is.groups : GroupTenant[g] = t
    BY <1>1, <1>4 DEF IsUpdate, About
  <2>3. users[w.uid] # Directory!Absent
    BY <1>4, RowOfTenant
  <2>4. users[w.uid].tenant = t
    BY <1>1, <2>1, <2>2, <2>3 DEF AccountInv, OwnTenant
  <2>5. \A g \in users[w.uid].groups : GroupTenant[g] = t
    BY <2>1, <2>3, <2>4 DEF AccountInv, OwnGroups
  <2> QED
    BY <1>4, <2>1, <2>2, <2>3, <2>4, <2>5
<1>5. CASE IsDelete(w) /\ users' = [users EXCEPT ![w.uid] = Directory!Absent]
  <2>1. /\ users' = [u \in Uid |-> users'[u]] /\ w.uid \in Uid /\ users'[w.uid] = Directory!Absent
        /\ \A u \in Uid : u # w.uid => users'[u] = users[u]
    BY <1>2, <1>5 DEF IsDelete
  <2>2. About(p, w.uid)
    BY <1>1, <1>5 DEF IsDelete, About
  <2>3. users[w.uid] # Directory!Absent => users[w.uid].tenant = t
    BY <1>1, <2>1, <2>2 DEF AccountInv, OwnTenant
  <2> QED
    BY <1>1, <2>1, <2>2, <2>3
<1>6. CASE IsDrop(w) /\ users' = users
  BY <1>2, <1>6
<1> QED
  BY <1>1, <1>3, <1>4, <1>5, <1>6 DEF Lands

\* The request is over, and the others are as they were.
Over(p) == req[p] # Directory!Idle /\ req' = [req EXCEPT ![p] = Directory!Idle]

\* The requests that are left are what they were.
LEMMA OverKeeps ==
    ASSUME Requests, NEW p \in Request, Over(p)
    PROVE  /\ Requests' /\ req'[p] = Directory!Idle /\ \A r \in Request : r # p => req'[r] = req[r]
           /\ \A u : ~About(p, u)' /\ \A r \in Request \ {p} : About(r, u)' <=> About(r, u)
<1>1. req' = [r \in Request |-> req'[r]] /\ req'[p] = Directory!Idle /\ \A r \in Request : r # p => req'[r] = req[r]
  BY DEF Requests, Over
<1>2. \A r \in Request : req'[r] = Directory!Idle \/ IsHeld(req'[r])
  BY <1>1 DEF Requests
<1> QED
  BY <1>1, <1>2 DEF Requests, About

\* A commit.
LEMMA CommitKeeps == ASSUME AccountConstants, AccountInv, NEW p \in Request, Directory!Commit(p) PROVE AccountInv'
<1>1. Over(p) /\ scim' = scim
  BY DEF Directory!Commit, Over
<1>2. PICK q : q = req[p]
  OBVIOUS
<1>3. IsHeld(q) /\ Lands(req[p]) /\ req[p] # Directory!Idle
  BY <1>1, <1>2, CommitLands DEF Over
<1>4. /\ users' = [u \in Uid |-> users'[u]]
      /\ \A u \in Uid : users'[u] # users[u] =>
           /\ users[u] # Directory!Absent => users[u].tenant = req[p].actor.tenant
           /\ About(p, u)
           /\ users'[u] # Directory!Absent =>
                /\ users'[u] \in Directory!User /\ users'[u].tenant = req[p].actor.tenant
                /\ \A g \in users'[u].groups : GroupTenant[g] = req[p].actor.tenant
                /\ req[p].what.do = "insert" \/ users[u] # Directory!Absent
  BY <1>3, OneUserChanges
<1>5. /\ Requests' /\ \A r \in Request : r # p => req'[r] = req[r]
      /\ \A u : ~About(p, u)' /\ \A r \in Request \ {p} : About(r, u)' <=> About(r, u)
  BY <1>1, OverKeeps DEF AccountInv
<1>6. Directory!TypeOK'
  <2>1. users' \in [Uid -> Directory!User \cup {Directory!Absent}]
    BY <1>4 DEF AccountInv, Directory!TypeOK
  <2>2. tenants' \in [Tenant -> Directory!TenantState]
    <3>1. tenants \in [Tenant -> Directory!TenantState] /\ "absent" \in Directory!TenantState
      BY DEF AccountInv, Directory!TypeOK, Directory!TenantState
    <3>2. tenants' = tenants \/ tenants' = [tenants EXCEPT ![q.what.uid] = "absent"]
      BY <1>2 DEF Directory!Commit
    <3> QED
      BY <3>1, <3>2
  <2>3. apiTokens' \in [Uid -> Directory!ApiTokenState]
    <3>1. apiTokens' = [u \in Uid |-> IF users'[u] = Directory!Absent THEN "none" ELSE apiTokens[u]]
      BY DEF Directory!Commit
    <3> QED
      BY <3>1 DEF AccountInv, Directory!TypeOK, Directory!ApiTokenState
  <2> QED
    BY <1>1, <2>1, <2>2, <2>3 DEF AccountInv, Directory!TypeOK
<1>7. OwnGroups'
  <2>1. ASSUME NEW u \in Uid, users'[u] # Directory!Absent PROVE \A g \in users'[u].groups : GroupTenant[g] = users'[u].tenant
    <3>1. CASE users'[u] = users[u]
      BY <2>1, <3>1 DEF AccountInv, OwnGroups
    <3>2. CASE users'[u] # users[u]
      BY <1>4, <2>1, <3>2
    <3> QED
      BY <3>1, <3>2
  <2> QED
    BY <2>1 DEF OwnGroups, Directory!Absent
<1>8. Reserved'
  <2>1. ASSUME NEW r \in Request, NEW u \in Uid, About(r, u)', req'[r].what.do = "insert"
        PROVE  users'[u] = Directory!Absent /\ \A s \in Request : s # r => ~About(s, u)'
    <3>1. r # p
      BY <1>5, <2>1
    <3>2. About(r, u) /\ req[r].what.do = "insert"
      BY <1>5, <2>1, <3>1
    <3>3. users[u] = Directory!Absent /\ \A s \in Request : s # r => ~About(s, u)
      BY <3>2 DEF AccountInv, Reserved
    <3>4. users'[u] = users[u]
      BY <1>4, <3>1, <3>3
    <3> QED
      BY <1>5, <3>3, <3>4
  <2> QED
    BY <2>1 DEF Reserved, Directory!Absent
<1>9. OwnTenant'
  <2>1. ASSUME NEW r \in Request, NEW u \in Uid, About(r, u)', users'[u] # Directory!Absent
        PROVE  users'[u].tenant = req'[r].actor.tenant
    <3>1. r # p /\ About(r, u) /\ req'[r] = req[r]
      BY <1>5, <2>1
    <3>2. CASE users'[u] = users[u]
      BY <2>1, <3>1, <3>2 DEF AccountInv, OwnTenant
    <3>3. CASE users'[u] # users[u]
      <4>1. About(p, u) /\ users'[u].tenant = req[p].actor.tenant /\ (req[p].what.do = "insert" \/ users[u] # Directory!Absent)
        BY <1>4, <2>1, <3>3
      <4>2. req[p].what.do # "insert"
        BY <3>1, <4>1 DEF AccountInv, Reserved
      <4>3. users[u] # Directory!Absent /\ users[u].tenant = req[p].actor.tenant
        BY <1>4, <3>3, <4>1, <4>2
      <4>4. users[u].tenant = req[r].actor.tenant
        BY <3>1, <4>3 DEF AccountInv, OwnTenant
      <4> QED
        BY <3>1, <4>1, <4>3, <4>4
    <3> QED
      BY <3>2, <3>3
  <2> QED
    BY <2>1 DEF OwnTenant, Directory!Absent
<1> QED
  BY <1>5, <1>6, <1>7, <1>8, <1>9 DEF AccountInv

\* A request is rolled back.
LEMMA RollbackKeeps == ASSUME AccountInv, NEW p \in Request, Directory!Rollback(p) PROVE AccountInv'
<1>1. Over(p) /\ users' = users /\ tenants' = tenants /\ scim' = scim /\ apiTokens' = apiTokens
  BY DEF Directory!Rollback, Over, Directory!tables
<1>2. /\ Requests' /\ \A r \in Request : r # p => req'[r] = req[r]
      /\ \A u : ~About(p, u)' /\ \A r \in Request \ {p} : About(r, u)' <=> About(r, u)
  BY <1>1, OverKeeps DEF AccountInv
<1>3. Directory!TypeOK' /\ OwnGroups'
  BY <1>1 DEF AccountInv, Directory!TypeOK, OwnGroups
<1>4. Reserved' /\ OwnTenant'
  <2>1. ASSUME NEW r \in Request, NEW u \in Uid, About(r, u)' PROVE About(r, u) /\ req'[r] = req[r] /\ r # p
    BY <1>2, <2>1
  <2>2. ASSUME NEW r \in Request, NEW u \in Uid, About(r, u)', req'[r].what.do = "insert"
        PROVE  users[u] = Directory!Absent /\ \A s \in Request : s # r => ~About(s, u)'
    BY <1>2, <2>1, <2>2 DEF AccountInv, Reserved
  <2>3. ASSUME NEW r \in Request, NEW u \in Uid, About(r, u)', users[u] # Directory!Absent
        PROVE  users[u].tenant = req'[r].actor.tenant
    BY <2>1, <2>3 DEF AccountInv, OwnTenant
  <2>4. Reserved'
    BY <1>1, <2>2 DEF Reserved
  <2>5. OwnTenant'
    BY <1>1, <2>3 DEF OwnTenant
  <2> QED
    BY <2>4, <2>5
<1> QED
  BY <1>2, <1>3, <1>4 DEF AccountInv

\* Tokens and tenants are written.
LEMMA WriteKeeps ==
    ASSUME AccountInv,
           \/ \E to \in Directory!ScimTokenState : Directory!ScimToken(to)
           \/ Directory!CreateToken \/ Directory!RevokeToken \/ Directory!CreateTenant \/ Directory!UpdateTenant \/ UNCHANGED Directory!vars
    PROVE  AccountInv'
<1>1. users' = users /\ req' = req
  BY DEF Directory!ScimToken, Directory!CreateToken, Directory!RevokeToken, Directory!CreateTenant, Directory!UpdateTenant, Directory!Write, Directory!vars
<1>2. /\ tenants \in [Tenant -> Directory!TenantState] /\ apiTokens \in [Uid -> Directory!ApiTokenState] /\ scim \in [Tenant -> Directory!ScimTokenState]
      /\ {"enabled", "disabled"} \subseteq Directory!TenantState /\ {"live", "revoked"} \subseteq Directory!ApiTokenState
  BY DEF AccountInv, Directory!TypeOK, Directory!TenantState, Directory!ApiTokenState
<1>3. tenants' \in [Tenant -> Directory!TenantState] /\ apiTokens' \in [Uid -> Directory!ApiTokenState] /\ scim' \in [Tenant -> Directory!ScimTokenState]
  <2>1. CASE \E to \in Directory!ScimTokenState : Directory!ScimToken(to)
    <3>1. \E to \in Directory!ScimTokenState : \E t : scim' = [scim EXCEPT ![t] = to] /\ tenants' = tenants /\ apiTokens' = apiTokens
      BY <2>1 DEF Directory!ScimToken
    <3> QED
      BY <1>2, <3>1
  <2>2. CASE Directory!CreateToken \/ Directory!RevokeToken
    <3>1. \E u : \E to \in {"live", "revoked"} :
            apiTokens' = [apiTokens EXCEPT ![u] = to] /\ tenants' = tenants /\ scim' = scim
      BY <2>2 DEF Directory!CreateToken, Directory!RevokeToken
    <3> QED
      BY <1>2, <3>1
  <2>3. CASE Directory!CreateTenant \/ Directory!UpdateTenant
    <3>1. \E t : \E to \in {"enabled", "disabled"} :
            tenants' = [tenants EXCEPT ![t] = to] /\ apiTokens' = apiTokens /\ scim' = scim
      BY <2>3 DEF Directory!CreateTenant, Directory!UpdateTenant
    <3> QED
      BY <1>2, <3>1
  <2>4. CASE UNCHANGED Directory!vars
    BY <1>2, <2>4 DEF Directory!vars
  <2> QED
    BY <2>1, <2>2, <2>3, <2>4
<1>4. \A r, u : About(r, u)' <=> About(r, u)
  BY <1>1 DEF About
<1> QED
  BY <1>1, <1>3, <1>4 DEF AccountInv, Directory!TypeOK, Requests, Reserved, OwnTenant, OwnGroups

-----------------------------------------------------------------------------
(* The invariant.                                                          *)

\* The installation's first state.
LEMMA AccountInit == ASSUME AccountConstants, Directory!Init PROVE AccountInv
<1> DEFINE root == [tenant |-> DefaultTenant, email |-> RootEmail, role |-> "admin", disabled |-> FALSE,
                    super |-> TRUE, ext |-> "null", groups |-> {}]
<1>1. root \in Directory!User /\ root.groups = {}
  BY DEF AccountConstants, Directory!User
<1>2. users = [u \in Uid |-> IF u = Root THEN root ELSE Directory!Absent]
  BY DEF Directory!Init
<1> HIDE DEF root
<1>3. users \in [Uid -> Directory!User \cup {Directory!Absent}] /\ \A u \in Uid : users[u] # Directory!Absent => users[u].groups = {}
  BY <1>1, <1>2
<1>4. /\ tenants \in [Tenant -> Directory!TenantState] /\ apiTokens \in [Uid -> Directory!ApiTokenState] /\ scim \in [Tenant -> Directory!ScimTokenState]
  BY DEF Directory!Init, Directory!TenantState, Directory!ApiTokenState, Directory!ScimTokenState
<1>5. req = [p \in Request |-> req[p]] /\ \A p \in Request : req[p] = Directory!Idle
  BY DEF Directory!Init
<1>6. \A p \in Request : \A u : ~About(p, u)
  BY <1>5 DEF About
<1> QED
  BY <1>3, <1>4, <1>5, <1>6 DEF AccountInv, Directory!TypeOK, Requests, Reserved, OwnTenant, OwnGroups

\* Every step keeps the invariant.
LEMMA AccountStep == ASSUME AccountConstants, AccountInv, [Directory!Next]_(Directory!vars) PROVE AccountInv'
<1>1. ASSUME NEW p \in Request,
             \/ Directory!CreateUser(p) \/ Directory!UpdateUser(p) \/ Directory!DeleteUser(p) \/ Directory!ReplaceUserGroups(p)
             \/ Directory!ScimCreateUser(p) \/ Directory!ScimReplaceUser(p) \/ Directory!ScimPatchUser(p) \/ Directory!ScimDeleteUser(p)
             \/ Directory!DeleteTenant(p)
      PROVE  AccountInv'
  BY <1>1, CreateUserKeeps, UpdateUserKeeps, DeleteUserKeeps, ReplaceGroupsKeeps, ScimCreateKeeps,
     ScimReplaceKeeps, DeleteTenantKeeps
<1>2. ASSUME NEW p \in Request, Directory!Commit(p) \/ Directory!Rollback(p) PROVE AccountInv'
  BY <1>2, CommitKeeps, RollbackKeeps
<1>3. ASSUME \/ \E to \in Directory!ScimTokenState : Directory!ScimToken(to)
             \/ Directory!CreateToken \/ Directory!RevokeToken \/ Directory!CreateTenant \/ Directory!UpdateTenant \/ UNCHANGED Directory!vars
      PROVE  AccountInv'
  BY <1>3, WriteKeeps
<1> QED
  BY <1>1, <1>2, <1>3, Zenon DEF Directory!Next

\* The invariant holds in every state.
LEMMA AccountInvariant == ASSUME AccountConstants PROVE Directory!Spec => []AccountInv
<1>1. Directory!Init => AccountInv
  BY AccountInit
<1>2. AccountInv /\ [Directory!Next]_(Directory!vars) => AccountInv'
  BY AccountStep
<1> QED
  BY <1>1, <1>2, PTL DEF Directory!Spec

\* THEOREM: rows, tokens and tenants keep their types: what a request writes over a row
\* that others have written since it loaded it is still a row.
THEOREM AccountsTypes == ASSUME AccountConstants PROVE Directory!Spec => []Directory!TypeOK
<1>1. AccountInv => Directory!TypeOK
  BY DEF AccountInv
<1> QED
  BY <1>1, AccountInvariant, PTL

-----------------------------------------------------------------------------
(* Tenants are isolated; administrators vanish only by a race.             *)

\* Only a commit changes users.
LEMMA OnlyCommits == ASSUME [Directory!Next]_(Directory!vars) PROVE users' = users \/ \E p \in Request : Directory!Commit(p)
<1>1. ASSUME NEW p \in Request,
             \/ Directory!CreateUser(p) \/ Directory!UpdateUser(p) \/ Directory!DeleteUser(p) \/ Directory!ReplaceUserGroups(p)
             \/ Directory!ScimCreateUser(p) \/ Directory!ScimReplaceUser(p) \/ Directory!ScimPatchUser(p) \/ Directory!ScimDeleteUser(p)
             \/ Directory!DeleteTenant(p)
      PROVE  users' = users
  <2>1. CASE Directory!CreateUser(p) \/ Directory!UpdateUser(p) \/ Directory!DeleteUser(p) \/ Directory!ReplaceUserGroups(p)
    BY <2>1 DEF Directory!CreateUser, Directory!UpdateUser, Directory!DeleteUser, Directory!ReplaceUserGroups, Directory!Submit, Directory!tables
  <2>2. CASE Directory!ScimCreateUser(p)
    BY <2>2 DEF Directory!ScimCreateUser, Directory!Submit, Directory!tables
  <2>3. CASE Directory!ScimReplaceUser(p) \/ Directory!ScimPatchUser(p) \/ Directory!ScimDeleteUser(p) \/ Directory!DeleteTenant(p)
    BY <2>3 DEF Directory!ScimReplaceUser, Directory!ScimPatchUser, Directory!ScimDeleteUser, Directory!DeleteTenant, Directory!Submit, Directory!tables
  <2> QED
    BY <1>1, <2>1, <2>2, <2>3
<1>2. ASSUME NEW p \in Request, Directory!Rollback(p) PROVE users' = users
  BY <1>2 DEF Directory!Rollback, Directory!tables
<1>3. ASSUME \/ \E to \in Directory!ScimTokenState : Directory!ScimToken(to)
             \/ Directory!CreateToken \/ Directory!RevokeToken \/ Directory!CreateTenant \/ Directory!UpdateTenant \/ UNCHANGED Directory!vars
      PROVE  users' = users
  BY <1>3 DEF Directory!ScimToken, Directory!CreateToken, Directory!RevokeToken, Directory!CreateTenant, Directory!UpdateTenant, Directory!Write, Directory!vars
<1> QED
  BY <1>1, <1>2, <1>3, Zenon DEF Directory!Next

\* A request that is over is the one that committed, if one did.
LEMMA TheCommitted ==
    ASSUME AccountInv, NEW p \in Request, Directory!Commit(p), NEW r \in Request, req[r] # Directory!Idle, req'[r] = Directory!Idle
    PROVE  r = p
  BY DEF Directory!Commit, AccountInv, Requests

\* A commit stays in its tenant.
LEMMA CommitIsolated == ASSUME AccountConstants, AccountInv, NEW p \in Request, Directory!Commit(p) PROVE Directory!TenantIsolation
<1>1. req[p] # Directory!Idle /\ Lands(req[p])
  BY CommitLands DEF Directory!Commit
<1>2. \A u \in Uid : users'[u] # users[u] =>
        /\ users[u] # Directory!Absent => users[u].tenant = req[p].actor.tenant
        /\ users'[u] # Directory!Absent => /\ users'[u].tenant = req[p].actor.tenant
                                           /\ \A g \in users'[u].groups : GroupTenant[g] = req[p].actor.tenant
  BY <1>1, OneUserChanges
<1>3. ASSUME NEW r \in Request, NEW u \in Uid, req[r] # Directory!Idle, req'[r] = Directory!Idle, users'[u] # users[u]
      PROVE  /\ users[u] # Directory!Absent => users[u].tenant = req[r].actor.tenant
             /\ users'[u] # Directory!Absent => /\ users'[u].tenant = req[r].actor.tenant
                                                /\ \A g \in users'[u].groups : GroupTenant[g] = users'[u].tenant
  <2>1. r = p
    BY <1>3, TheCommitted
  <2> QED
    BY <1>2, <1>3, <2>1
<1> QED
  BY <1>3 DEF Directory!TenantIsolation, Directory!Exists

\* THEOREM: whoever makes a request, an administrator, a super-admin acting abroad or an identity
\* provider, it changes no user of another tenant than the one it acts in and gives no user a
\* group of another tenant, whatever others commit between its load and its commit.
THEOREM TenantsIsolated == ASSUME AccountConstants PROVE Directory!Spec => [][Directory!TenantIsolation]_(Directory!vars)
<1>1. AccountInv /\ [Directory!Next]_(Directory!vars) => [Directory!TenantIsolation]_(Directory!vars)
  <2> SUFFICES ASSUME AccountInv, [Directory!Next]_(Directory!vars) PROVE Directory!TenantIsolation
    OBVIOUS
  <2>1. CASE users' = users
    BY <2>1 DEF Directory!TenantIsolation
  <2>2. CASE \E p \in Request : Directory!Commit(p)
    BY <2>2, CommitIsolated
  <2> QED
    BY <2>1, <2>2, OnlyCommits
<1> QED
  BY <1>1, AccountInvariant, PTL DEF Directory!Spec

\* An enabled administrator whose row is as it was, in what counts, still is one.
LEMMA StaysAdmin ==
    ASSUME NEW t \in Tenant, NEW v \in Directory!EnabledAdmins(t),
           users'[v].tenant = users[v].tenant, users'[v].role = users[v].role, users'[v].disabled = users[v].disabled
    PROVE  Directory!EnabledAdmins(t)' # {}
<1>1. v \in Uid /\ users'[v].tenant = t /\ users'[v].role = "admin" /\ ~users'[v].disabled
  BY DEF Directory!EnabledAdmins, Directory!Rows
<1>2. v \in Directory!EnabledAdmins(t)'
  BY <1>1 DEF Directory!EnabledAdmins, Directory!Rows
<1> QED
  BY <1>2

\* A commit takes the last administrator of a tenant away only by a race.
LEMMA CommitByRace == ASSUME AccountConstants, AccountInv, NEW p \in Request, Directory!Commit(p) PROVE Directory!AdminsVanishByRace
<1>1. PICK q : q = req[p]
  OBVIOUS
<1>2. q # Directory!Idle /\ IsHeld(q) /\ Lands(q)
  BY <1>1, CommitLands DEF Directory!Commit
<1>3. users = [u \in Uid |-> users[u]]
  BY DEF AccountInv, Directory!TypeOK
<1>4. ASSUME NEW t \in Tenant, NEW v \in Directory!EnabledAdmins(t), q.actor.uid # "scim",
             \A s \in q.saw : s \in Directory!EnabledAdmins(t), IsEnabledAdmin(q.what.was)
      PROVE  Directory!EnabledAdmins(t)' # {}
  <2>1. PICK w : w = q.what
    OBVIOUS
  <2>2. ASSUME NEW s \in Directory!EnabledAdmins(t), NEW m, users' = [users EXCEPT ![w.uid] = m], s # w.uid PROVE Directory!EnabledAdmins(t)' # {}
    <3>1. users'[s] = users[s]
      BY <1>3, <2>2 DEF Directory!EnabledAdmins, Directory!Rows
    <3> QED
      BY <3>1, <2>2, StaysAdmin
  <2>3. CASE IsInsert(w, q.actor.tenant) /\ users' = [users EXCEPT ![w.uid] = w.is]
    <3>1. users[w.uid] = Directory!Absent
      BY <1>1, <1>2, <2>1, <2>3 DEF AccountInv, Reserved, About, IsInsert
    <3>2. users[v].tenant = t /\ Directory!Absent.tenant = "none"
      BY DEF Directory!EnabledAdmins, Directory!Rows, Directory!Absent
    <3>3. v # w.uid
      BY <3>1, <3>2 DEF AccountConstants
    <3> QED
      BY <2>2, <2>3, <3>3
  <2>4. CASE w.do \in {"update", "delete"} /\ \E s \in q.saw : s # w.uid
    <3>1. PICK s \in q.saw : s # w.uid
      BY <2>4
    <3>2. \E m : users' = [users EXCEPT ![w.uid] = m]
      BY <1>2, <2>1, <2>4 DEF Lands, IsInsert, IsDrop
    <3> QED
      BY <1>4, <2>2, <3>1, <3>2
  <2>5. CASE w.do = "update" /\ w.is.role = w.was.role /\ w.is.disabled = w.was.disabled
    <3>1. PICK m : /\ users' = [users EXCEPT ![w.uid] = m] /\ m.tenant = users[w.uid].tenant
                   /\ m.role = users[w.uid].role /\ m.disabled = users[w.uid].disabled
      BY <1>2, <2>1, <2>5 DEF Lands, IsInsert, IsDrop, IsDelete
    <3>2. CASE v # w.uid
      BY <2>2, <3>1, <3>2
    <3>3. CASE v = w.uid
      <4>1. users'[v] = m
        BY <1>3, <3>1, <3>3 DEF Directory!EnabledAdmins, Directory!Rows
      <4> QED
        BY <3>1, <3>3, <4>1, StaysAdmin
    <3> QED
      BY <3>2, <3>3
  <2>6. CASE IsDrop(w) /\ users' = users
    BY <2>6, StaysAdmin
  <2> QED
    BY <1>2, <1>4, <2>1, <2>3, <2>4, <2>5, <2>6 DEF Lands, IsHeld, Guarded, IsUpdate, IsDelete
<1>5. ASSUME NEW r \in Request, NEW t \in Tenant, req[r] # Directory!Idle, req'[r] = Directory!Idle, req[r].actor.uid # "scim",
             Directory!EnabledAdmins(t) # {}, Directory!EnabledAdmins(t)' = {}
      PROVE  \/ \E v \in req[r].saw : v \notin Directory!EnabledAdmins(t)
             \/ req[r].what.was.role # "admin" \/ req[r].what.was.disabled
  <2>1. r = p
    BY <1>5, TheCommitted
  <2> QED
    BY <1>1, <1>4, <1>5, <2>1 DEF IsEnabledAdmin
<1> QED
  BY <1>5 DEF Directory!AdminsVanishByRace

\* THEOREM: a console request that leaves a tenant without an enabled administrator has passed the
\* guard by a race: it had counted another one that is none any more, or had loaded a user that
\* was none.
THEOREM LastAdminByRaceOnly == ASSUME AccountConstants PROVE Directory!Spec => [][Directory!AdminsVanishByRace]_(Directory!vars)
<1>1. AccountInv /\ [Directory!Next]_(Directory!vars) => [Directory!AdminsVanishByRace]_(Directory!vars)
  <2> SUFFICES ASSUME AccountInv, [Directory!Next]_(Directory!vars) PROVE Directory!AdminsVanishByRace
    OBVIOUS
  <2>1. CASE users' = users
    <3>1. \A t : Directory!EnabledAdmins(t)' = Directory!EnabledAdmins(t)
      BY <2>1 DEF Directory!EnabledAdmins, Directory!Rows
    <3> QED
      BY <3>1 DEF Directory!AdminsVanishByRace
  <2>2. CASE \E p \in Request : Directory!Commit(p)
    BY <2>2, CommitByRace
  <2> QED
    BY <2>1, <2>2, OnlyCommits
<1> QED
  BY <1>1, AccountInvariant, PTL DEF Directory!Spec
(***************************************************************************)
(* Proofs about saved hunts (Hunts).                                       *)
(*                                                                         *)
(* That no minute is skipped is a statement about the past; what carries   *)
(* it is Caught: every minute before the one in which the scheduler is     *)
(* working, or will next wake, has been dealt with, unless a pass was      *)
(* slow.  A pass that is not slow puts the next wake at most a minute      *)
(* after it began, so no minute lies in between.  That no minute is run    *)
(* twice is last_run_at: no completed run is later than it (RunRows), and  *)
(* nobody else writes it while a pass works on the row (PassOk).           *)
(*                                                                         *)
(* Who may do what rests on the requests in flight: an update that waits   *)
(* has passed the gate on the row it loaded (Reqs), and if the row is      *)
(* still that row, on the row it writes.                                   *)
(***************************************************************************)
\* What the proofs assume of the constants: no hunt, tenant or host has the name of a mark,
\* and time is counted in natural numbers.
HuntConstants ==
    /\ Schedule!None \notin Hunt /\ "*" \notin Host /\ \A u \in User : TenantOf[u] # Schedule!None
    /\ PerMinute \in Nat \ {0} /\ Interval \in Nat /\ MaxTime \in Nat

\* A row of saved_hunt.
HuntRow(x) ==
    /\ x = [st |-> x.st, tenant |-> x.tenant, owner |-> x.owner, query |-> x.query, cron |-> x.cron,
            alert |-> x.alert, scope |-> x.scope, rule |-> x.rule, last |-> x.last]
    /\ x.last \in Nat

Clocks ==
    /\ now \in Nat /\ now <= MaxTime /\ wake \in Nat /\ wake <= MaxTime + Interval
    /\ pass = Schedule!Idle => now <= wake

HuntRows ==
    /\ hunts = [h \in Hunt |-> hunts[h]] /\ hosts \subseteq Host /\ index \subseteq Event
    /\ \A h \in Hunt : /\ HuntRow(hunts[h]) /\ hunts[h].st \in {"none", "saved", "deleted"} /\ hunts[h].last <= now + 1
                       /\ hunts[h].st = "none" => hunts[h].last = 0
                       /\ hunts[h].st = "saved" => hunts[h].tenant # Schedule!None

\* The row a pass works on: as it is in what the pass relies on, and not run in its minute.
Loaded(h) ==
    /\ hunts[h].st # "none" /\ pass.row[h].tenant = hunts[h].tenant /\ hunts[h].tenant # Schedule!None
    /\ pass.row[h].last = hunts[h].last /\ hunts[h].last <= pass.at + 1
    /\ hunts[h].last = 0 \/ Schedule!Minute(hunts[h].last - 1) # Schedule!Minute(pass.at)

CronRun(h, t, ok) == [hunt |-> h, at |-> t, by |-> "cron", ok |-> ok]

Backed(new, row, at, ran) ==
    \A x \in new : \E h \in DOMAIN row, ok \in BOOLEAN : x = CronRun(h, at, ok) /\ (ok => h \in ran)
RunsOf(p) ==
    /\ Backed(p.runs, p.row, p.at, p.ran) /\ \A h \in p.ran : CronRun(h, p.at, TRUE) \in p.runs
    /\ \A h \in DOMAIN p.row : h \in p.todo \/ h = p.cur \/ \E x \in p.runs : x.hunt = h
PassRuns == RunsOf(pass)

\* An alert of a hunt, on a host of its tenant.
AlertOk(a) ==
    /\ a.hunt \in Hunt /\ a.event \in Event /\ HostOf[a.event] \in hosts /\ a.tenant = DefaultTenant
    /\ hunts[a.hunt].st # "none" /\ TenantOf[HostOf[a.event]] = hunts[a.hunt].tenant

PassOk ==
    \/ pass = Schedule!Idle
    \/ /\ pass = [st |-> "run", at |-> pass.at, row |-> pass.row, todo |-> pass.todo, cur |-> pass.cur,
                  begun |-> pass.begun, ran |-> pass.ran, rule |-> pass.rule, runs |-> pass.runs, alerts |-> pass.alerts]
       /\ pass.at \in Nat /\ pass.at <= now
       /\ DOMAIN pass.row \subseteq Hunt /\ pass.todo \subseteq DOMAIN pass.row /\ pass.ran \subseteq DOMAIN pass.row
       /\ pass.cur \in DOMAIN pass.row \cup {Schedule!None}
       /\ \A h \in DOMAIN pass.row : Loaded(h)
       /\ PassRuns /\ \A a \in pass.alerts : AlertOk(a)

RunRows ==
    /\ \A x \in runs : /\ x = [hunt |-> x.hunt, at |-> x.at, by |-> x.by, ok |-> x.ok]
                       /\ x.hunt \in Hunt /\ x.at \in Nat /\ x.ok \in BOOLEAN
                       /\ x.by = "cron" /\ x.ok => x.at < hunts[x.hunt].last
    /\ \A h \in Hunt : hunts[h].st = "saved" /\ hunts[h].last # 0 =>
          \E x \in runs : x.hunt = h /\ x.by = "cron" /\ x.at = hunts[h].last - 1

\* A request in flight, and the answer to one.
Shows(q) == q.user # Schedule!None /\ q.user \notin Super =>
    \A e \in q.hits : /\ TenantOf[HostOf[e]] = TenantOf[q.user]
                      /\ q.user \in Admin \/ HostOf[e] \in Groups[q.user]
Updating(q) == q.user \in User /\ q.hunt \in Hunt /\ HuntRow(q.row) /\ q.patch \in Schedule!Patches /\ Schedule!GateOnEffect(q.user, q.patch, q.row)
Searching(q) ==
    /\ q.user \in User /\ q.hunt \in Hunt \cup {Schedule!None} /\ q.tenant \in Schedule!EffTenants(q.user)
    /\ q.user \in Admin \/ (q.filter \subseteq Groups[q.user] /\ q.filter # Schedule!AllHosts)

ReqOk(q) ==
    \/ q.st = "free" /\ Shows(q)
    \/ q.st = "update" /\ Updating(q)
    \/ q.st = "delete" /\ q.hunt \in Hunt
    \/ q.st = "search" /\ Searching(q)

Reqs == reqs = [r \in Request |-> reqs[r]] /\ \A r \in Request : ReqOk(reqs[r])

Times ==
    /\ since = [h \in Hunt |-> since[h]] /\ seen = [h \in Hunt |-> seen[h]]
    /\ \A h \in Hunt : since[h] \in Nat /\ since[h] <= now

\* Minute m of hunt h is dealt with.
Wants(h, m) ==
    hunts[h].st = "saved" /\ hunts[h].cron # Schedule!None /\ Schedule!CronMatches(hunts[h].cron, m) /\ since[h] < m * PerMinute
Fired(h, m) == \E x \in runs : x.hunt = h /\ x.by = "cron" /\ Schedule!Minute(x.at) = m

Frontier == IF pass = Schedule!Idle THEN Schedule!Minute(wake) ELSE Schedule!Minute(pass.at)

Caught ==
    /\ slow \/ pass # Schedule!Idle \/ Schedule!Minute(wake) <= Schedule!Minute(now) + 1
    /\ slow \/ \A h \in Hunt, m \in Nat : m < Frontier /\ Wants(h, m) => Fired(h, m) \/ m \in lost
    /\ pass # Schedule!Idle => \A h \in Hunt : Wants(h, Schedule!Minute(pass.at)) => h \in DOMAIN pass.row \/ Fired(h, Schedule!Minute(pass.at))

HuntInv ==
    /\ Clocks /\ HuntRows /\ PassOk /\ RunRows /\ Schedule!OncePerMinute /\ (\A a \in alerts : AlertOk(a))
    /\ Reqs /\ Times /\ Schedule!SideEffectsApproved /\ Caught

-----------------------------------------------------------------------------
(* Minutes and rows.                                                       *)

\* What a minute is, without the division.
LEMMA MinuteIs ==
    ASSUME HuntConstants, NEW t \in Nat
    PROVE  Schedule!Minute(t) \in Nat /\ Schedule!Minute(t) * PerMinute <= t /\ t < (Schedule!Minute(t) + 1) * PerMinute
<1>1. PerMinute \in Nat /\ PerMinute > 0
  BY DEF HuntConstants
<1>2. PICK d : d = t \div PerMinute
  OBVIOUS
<1>3. d \in Nat /\ d * PerMinute <= t /\ t < (d + 1) * PerMinute
  BY <1>1, <1>2
<1> QED
  BY <1>2, <1>3 DEF Schedule!Minute

\* Products are in the order of their factors.
LEMMA TimesOrder ==
    ASSUME HuntConstants, NEW a \in Nat, NEW b \in Nat, a < b PROVE (a + 1) * PerMinute <= b * PerMinute
<1>1. PerMinute \in Nat /\ a + 1 <= b
  BY DEF HuntConstants
<1> QED
  BY <1>1

\* A later time is in no earlier minute.
LEMMA MinuteOrder ==
    ASSUME HuntConstants, NEW s \in Nat, NEW t \in Nat, s <= t PROVE Schedule!Minute(s) <= Schedule!Minute(t)
<1>1. PICK a, b : a = Schedule!Minute(s) /\ b = Schedule!Minute(t)
  OBVIOUS
<1>2. a \in Nat /\ b \in Nat /\ a * PerMinute <= s /\ t < (b + 1) * PerMinute
  BY <1>1, MinuteIs
<1>3. ASSUME b < a PROVE FALSE
  <2>1. (b + 1) * PerMinute <= a * PerMinute
    BY <1>2, <1>3, TimesOrder
  <2>2. PICK x, y : x = (b + 1) * PerMinute /\ y = a * PerMinute
    OBVIOUS
  <2>3. x \in Nat /\ y \in Nat
    BY <1>2, <2>2 DEF HuntConstants
  <2> QED
    BY <1>2, <2>1, <2>2, <2>3
<1> QED
  BY <1>1, <1>2, <1>3

\* Less than a minute later is at most one minute on; a minute that begins after s is not its own.
LEMMA MinuteNext ==
    ASSUME HuntConstants, NEW s \in Nat, NEW t \in Nat, t <= s + PerMinute PROVE Schedule!Minute(t) <= Schedule!Minute(s) + 1
<1>1. PICK a, b : a = Schedule!Minute(s) /\ b = Schedule!Minute(t)
  OBVIOUS
<1>2. a \in Nat /\ b \in Nat /\ b * PerMinute <= t /\ s < (a + 1) * PerMinute
  BY <1>1, MinuteIs
<1>3. ASSUME a + 1 < b PROVE FALSE
  <2>1. (a + 1 + 1) * PerMinute <= b * PerMinute
    BY <1>2, <1>3, TimesOrder
  <2>2. PICK p, x, y : p = PerMinute /\ x = (a + 1) * PerMinute /\ y = b * PerMinute
    OBVIOUS
  <2>3. p \in Nat /\ x \in Nat /\ y \in Nat /\ (a + 1 + 1) * PerMinute = x + p
    BY <1>2, <2>2 DEF HuntConstants
  <2> QED
    BY <1>2, <2>1, <2>2, <2>3
<1> QED
  BY <1>1, <1>2, <1>3

\* A pass that is still at work when a later minute than its own has gone by is late.
LEMMA LateAfter ==
    ASSUME HuntConstants, NEW s \in Nat, NEW t \in Nat, NEW m \in Nat, Schedule!Minute(s) < m, m < Schedule!Minute(t)
    PROVE  t - s > PerMinute - Interval
<1>1. PICK a, b : a = Schedule!Minute(s) /\ b = Schedule!Minute(t)
  OBVIOUS
<1>2. a \in Nat /\ b \in Nat /\ b * PerMinute <= t /\ s < (a + 1) * PerMinute
  BY <1>1, MinuteIs
<1>3. (a + 1) * PerMinute <= m * PerMinute /\ (m + 1) * PerMinute <= b * PerMinute
  BY <1>1, <1>2, TimesOrder
<1>4. PICK p, x, y, z : p = PerMinute /\ x = (a + 1) * PerMinute /\ y = m * PerMinute /\ z = b * PerMinute
  OBVIOUS
<1>5. p \in Nat /\ x \in Nat /\ y \in Nat /\ z \in Nat /\ (m + 1) * PerMinute = y + p /\ Interval \in Nat
  BY <1>2, <1>4 DEF HuntConstants
<1>6. s < x /\ x <= y /\ y + p <= z /\ z <= t
  BY <1>2, <1>3, <1>4, <1>5
<1> QED
  BY <1>4, <1>5, <1>6

\* A row with one column changed.
LEMMA PatchedIs ==
    ASSUME NEW x, HuntRow(x), NEW p \in Schedule!Patches
    PROVE  \E y : /\ y = Schedule!Patched(p, x) /\ HuntRow(y) /\ y.st = x.st /\ y.tenant = x.tenant /\ y.last = x.last
                  /\ y.query = (IF p.column = "query" THEN p.value ELSE x.query)
                  /\ y.cron = (IF p.column = "cron" THEN p.value ELSE x.cron)
                  /\ y.alert = (IF p.column = "alert" THEN p.value ELSE x.alert)
<1> DEFINE v == p.value
<1>1. PICK y : y = [x EXCEPT ![p.column] = v]
  OBVIOUS
<1>2. p.column \in {"query", "cron", "alert", "scope"}
  BY DEF Schedule!Patches
<1>3. y = Schedule!Patched(p, x)
  BY <1>1 DEF Schedule!Patched
<1> HIDE DEF v
<1>4. y = [st |-> x.st, tenant |-> x.tenant, owner |-> x.owner,
           query |-> IF p.column = "query" THEN v ELSE x.query, cron |-> IF p.column = "cron" THEN v ELSE x.cron,
           alert |-> IF p.column = "alert" THEN v ELSE x.alert, scope |-> IF p.column = "scope" THEN v ELSE x.scope,
           rule |-> x.rule, last |-> x.last]
  <2>1. CASE p.column = "query"
    BY <1>1, <2>1 DEF HuntRow
  <2>2. CASE p.column = "cron"
    BY <1>1, <2>2 DEF HuntRow
  <2>3. CASE p.column = "alert"
    BY <1>1, <2>3 DEF HuntRow
  <2>4. CASE p.column = "scope"
    BY <1>1, <2>4 DEF HuntRow
  <2> QED
    BY <1>2, <2>1, <2>2, <2>3, <2>4
<1>5. /\ y.st = x.st /\ y.tenant = x.tenant /\ y.owner = x.owner /\ y.rule = x.rule /\ y.last = x.last
      /\ y.query = (IF p.column = "query" THEN v ELSE x.query) /\ y.cron = (IF p.column = "cron" THEN v ELSE x.cron)
      /\ y.alert = (IF p.column = "alert" THEN v ELSE x.alert) /\ y.scope = (IF p.column = "scope" THEN v ELSE x.scope)
  BY <1>4
<1>6. HuntRow(y)
  BY <1>4, <1>5 DEF HuntRow
<1> QED
  BY <1>3, <1>5, <1>6 DEF v

\* Rows with the same content differ in the columns of the scheduler alone.
LEMMA ContentSame ==
    ASSUME NEW x, NEW y, HuntRow(x), HuntRow(y), Schedule!Content(x) = Schedule!Content(y)
    PROVE  x.query = y.query /\ x.cron = y.cron /\ x.alert = y.alert
<1>1. ASSUME NEW z, HuntRow(z) PROVE Schedule!Content(z).query = z.query /\ Schedule!Content(z).cron = z.cron /\ Schedule!Content(z).alert = z.alert
  BY <1>1 DEF HuntRow, Schedule!Content
<1> QED
  BY <1>1

-----------------------------------------------------------------------------
(* Steps that leave most of the state alone.                               *)

\* What a part of the invariant does not depend on does not disturb it.
LEMMA Frames ==
    ASSUME HuntInv
    PROVE  /\ (now' \in Nat /\ now <= now' /\ UNCHANGED <<hunts, hosts, index>>) => HuntRows'
           /\ (now' \in Nat /\ now <= now' /\ UNCHANGED <<hunts, hosts, pass>>) => PassOk'
           /\ UNCHANGED <<hunts, runs>> => RunRows' /\ Schedule!OncePerMinute'
           /\ UNCHANGED <<hunts, hosts, alerts>> => (\A a \in alerts : AlertOk(a))'
           /\ UNCHANGED reqs => Reqs'
           /\ (now' \in Nat /\ now <= now' /\ UNCHANGED <<since, seen>>) => Times'
           /\ UNCHANGED <<hunts, seen, raced>> => Schedule!SideEffectsApproved'
<1>1. ASSUME now' \in Nat, now <= now', UNCHANGED <<hunts, hosts, index>> PROVE HuntRows'
  <2>1. hunts' = hunts /\ hosts' = hosts /\ index' = index /\ now \in Nat
    BY <1>1 DEF HuntInv, Clocks
  <2>2. \A h \in Hunt : hunts[h].last \in Nat
    BY DEF HuntInv, HuntRows, HuntRow
  <2> QED
    BY <1>1, <2>1, <2>2 DEF HuntInv, HuntRows
<1>2. ASSUME now' \in Nat, now <= now', UNCHANGED <<hunts, hosts, pass>> PROVE PassOk'
  <2>1. hunts' = hunts /\ hosts' = hosts /\ pass' = pass /\ now \in Nat
    BY <1>2 DEF HuntInv, Clocks
  <2>2. CASE pass = Schedule!Idle
    BY <2>1, <2>2 DEF PassOk
  <2>3. CASE pass # Schedule!Idle
    <3>1. (\A h \in DOMAIN pass.row : Loaded(h)') /\ PassRuns' /\ \A a \in pass.alerts : AlertOk(a)'
      BY <2>1, <2>3 DEF HuntInv, PassOk, Loaded, PassRuns, AlertOk
    <3>2. pass.at \in Nat /\ pass.at <= now'
      BY <1>2, <2>1, <2>3 DEF HuntInv, PassOk
    <3> QED
      BY <2>1, <2>3, <3>1, <3>2 DEF HuntInv, PassOk
  <2> QED
    BY <2>2, <2>3
<1>3. ASSUME UNCHANGED <<hunts, runs>> PROVE RunRows' /\ Schedule!OncePerMinute'
  BY <1>3 DEF HuntInv, RunRows, Schedule!OncePerMinute
<1>4. ASSUME UNCHANGED <<hunts, hosts, alerts>> PROVE \A a \in alerts' : AlertOk(a)'
  BY <1>4 DEF HuntInv, AlertOk
<1>5. ASSUME UNCHANGED reqs PROVE Reqs'
  BY <1>5 DEF HuntInv, Reqs
<1>6. ASSUME now' \in Nat, now <= now', UNCHANGED <<since, seen>> PROVE Times'
  BY <1>6 DEF HuntInv, Times, Clocks
<1>7. ASSUME UNCHANGED <<hunts, seen, raced>> PROVE Schedule!SideEffectsApproved'
  BY <1>7 DEF HuntInv, Schedule!SideEffectsApproved
<1> QED
  BY <1>1, <1>2, <1>3, <1>4, <1>5, <1>6, <1>7

\* The schedule as far as it depends on the hunts and the runs.
LEMMA SameDemand ==
    ASSUME UNCHANGED <<hunts, since, runs>>
    PROVE  \A h, m : (Wants(h, m)' <=> Wants(h, m)) /\ (Fired(h, m)' <=> Fired(h, m))
  BY DEF Wants, Fired, Schedule!Minute, Schedule!CronMatches

\* Nothing but requests.
LEMMA RequestKeeps ==
    ASSUME HuntInv, Reqs', UNCHANGED <<now, wake, hunts, hosts, index, pass, runs, alerts, since, seen, raced, lost, slow>>
    PROVE  HuntInv'
<1>1. now' \in Nat /\ now <= now' /\ Clocks'
  BY DEF HuntInv, Clocks
<1>2. Caught'
  <2>1. \A h, m : (Wants(h, m)' <=> Wants(h, m)) /\ (Fired(h, m)' <=> Fired(h, m))
    BY SameDemand
  <2> QED
    BY <2>1 DEF HuntInv, Caught, Frontier, Schedule!Minute
<1> QED
  BY <1>1, <1>2, Frames DEF HuntInv

\* A request is loaded.
LEMMA LoadKeeps ==
    ASSUME HuntInv, NEW r \in Request, NEW q, ReqOk(q), Schedule!Load(r, q) PROVE HuntInv'
<1>1. reqs' = [reqs EXCEPT ![r] = q]
  BY DEF Schedule!Load
<1>2. Reqs'
  BY <1>1 DEF HuntInv, Reqs
<1> QED
  BY <1>2, RequestKeeps DEF Schedule!Load, Schedule!clock, Schedule!rows, Schedule!history

\* An update that has passed the gate, and a deletion.
LEMMA WriteLoadKeeps ==
    ASSUME HuntInv, NEW r \in Request, NEW u \in User, NEW h \in Hunt, Schedule!UpdateSaved(r, u, h) \/ Schedule!DeleteSaved(r, u, h)
    PROVE  HuntInv'
<1>1. CASE Schedule!UpdateSaved(r, u, h)
  <2>1. PICK p \in Schedule!Patches : /\ Schedule!GateOnEffect(u, p, hunts[h])
                                      /\ Schedule!Load(r, [st |-> "update", user |-> u, hunt |-> h, row |-> hunts[h], patch |-> p])
    BY <1>1 DEF Schedule!UpdateSaved
  <2>2. PICK q : q = [st |-> "update", user |-> u, hunt |-> h, row |-> hunts[h], patch |-> p]
    OBVIOUS
  <2>3. HuntRow(hunts[h])
    BY DEF HuntInv, HuntRows
  <2>4. q.st = "update" /\ q.user = u /\ q.hunt = h /\ q.row = hunts[h] /\ q.patch = p
    BY <2>2
  <2>5. ReqOk(q)
    BY <2>1, <2>3, <2>4 DEF ReqOk, Updating
  <2> QED
    BY <2>1, <2>2, <2>5, LoadKeeps
<1>2. CASE Schedule!DeleteSaved(r, u, h)
  <2>1. PICK q : q = [st |-> "delete", user |-> u, hunt |-> h]
    OBVIOUS
  <2>2. ReqOk(q) /\ Schedule!Load(r, q)
    BY <1>2, <2>1 DEF ReqOk, Schedule!DeleteSaved
  <2> QED
    BY <2>2, LoadKeeps
<1> QED
  BY <1>1, <1>2

\* What an analyst who is no administrator may search.
LEMMA FilterOk ==
    ASSUME HuntConstants, HuntInv, NEW u \in User, NEW scope, u \notin Admin
    PROVE  /\ Schedule!VisibleHostIds(u) \subseteq Groups[u] /\ Schedule!VisibleHostIds(u) # Schedule!AllHosts
           /\ Schedule!HostFilter(Schedule!VisibleHostIds(u), scope) \subseteq Groups[u] /\ Schedule!HostFilter(Schedule!VisibleHostIds(u), scope) # Schedule!AllHosts
<1>1. PICK v : v = Schedule!VisibleHostIds(u)
  OBVIOUS
<1>2. v \subseteq Groups[u] /\ v \subseteq Host
  BY <1>1 DEF Schedule!VisibleHostIds, HuntInv, HuntRows
<1>3. \A x : x \subseteq Host => x # Schedule!AllHosts
  BY DEF Schedule!AllHosts, HuntConstants
<1>4. Schedule!HostFilter(v, scope) = v \/ Schedule!HostFilter(v, scope) = scope \cap v
  <2>1. CASE scope = Schedule!AllHosts
    BY <1>2, <1>3, <2>1 DEF Schedule!HostFilter
  <2>2. CASE scope # Schedule!AllHosts
    BY <1>2, <1>3, <2>2 DEF Schedule!HostFilter
  <2> QED
    BY <2>1, <2>2
<1> QED
  BY <1>1, <1>2, <1>3, <1>4

\* A search is asked for.
LEMMA SearchLoadKeeps ==
    ASSUME HuntConstants, HuntInv, NEW r \in Request, NEW u \in User, Schedule!RunAdhoc(r, u) \/ \E h \in Hunt : Schedule!RunSaved(r, u, h)
    PROVE  HuntInv'
<1>1. PICK q : /\ q.st = "search" /\ q.user = u /\ q.hunt \in Hunt \cup {Schedule!None} /\ q.tenant \in Schedule!EffTenants(u)
               /\ q.filter = Schedule!VisibleHostIds(u) \/ \E scope : q.filter = Schedule!HostFilter(Schedule!VisibleHostIds(u), scope)
               /\ Schedule!Load(r, q)
  <2>1. CASE Schedule!RunAdhoc(r, u)
    <3>1. PICK x \in DOMAIN Matches, t \in Schedule!EffTenants(u) :
            Schedule!Load(r, [st |-> "search", user |-> u, hunt |-> Schedule!None, query |-> x, tenant |-> t,
                     filter |-> Schedule!VisibleHostIds(u)])
      BY <2>1 DEF Schedule!RunAdhoc
    <3>2. PICK q : q = [st |-> "search", user |-> u, hunt |-> Schedule!None, query |-> x, tenant |-> t,
                        filter |-> Schedule!VisibleHostIds(u)]
      OBVIOUS
    <3>3. q.st = "search" /\ q.user = u /\ q.hunt = Schedule!None /\ q.tenant = t /\ q.filter = Schedule!VisibleHostIds(u) /\ Schedule!Load(r, q)
      BY <3>1, <3>2
    <3> QED
      BY <3>3
  <2>2. ASSUME NEW h \in Hunt, Schedule!RunSaved(r, u, h)
        PROVE  \E q : /\ q.st = "search" /\ q.user = u /\ q.hunt \in Hunt \cup {Schedule!None} /\ q.tenant \in Schedule!EffTenants(u)
                      /\ q.filter = Schedule!VisibleHostIds(u) \/ \E scope : q.filter = Schedule!HostFilter(Schedule!VisibleHostIds(u), scope)
                      /\ Schedule!Load(r, q)
    <3>1. PICK t \in Schedule!EffTenants(u) :
            Schedule!Load(r, [st |-> "search", user |-> u, hunt |-> h, query |-> hunts[h].query, tenant |-> t,
                     filter |-> Schedule!HostFilter(Schedule!VisibleHostIds(u), hunts[h].scope)])
      BY <2>2 DEF Schedule!RunSaved
    <3>2. PICK q : q = [st |-> "search", user |-> u, hunt |-> h, query |-> hunts[h].query, tenant |-> t,
                        filter |-> Schedule!HostFilter(Schedule!VisibleHostIds(u), hunts[h].scope)]
      OBVIOUS
    <3>3. /\ q.st = "search" /\ q.user = u /\ q.hunt = h /\ q.tenant = t
          /\ q.filter = Schedule!HostFilter(Schedule!VisibleHostIds(u), hunts[h].scope) /\ Schedule!Load(r, q)
      BY <3>1, <3>2
    <3> QED
      BY <3>3
  <2> QED
    BY <2>1, <2>2
<1>2. q.user \in Admin \/ (q.filter \subseteq Groups[q.user] /\ q.filter # Schedule!AllHosts)
  <2>1. CASE u \in Admin
    BY <1>1, <2>1
  <2>2. CASE u \notin Admin
    BY <1>1, <2>2, FilterOk
  <2> QED
    BY <2>1, <2>2
<1>3. ReqOk(q)
  BY <1>1, <1>2 DEF ReqOk, Searching
<1> QED
  BY <1>1, <1>3, LoadKeeps

\* A search finds documents of the tenant and of the hosts it is confined to.
LEMMA SearchShows ==
    ASSUME HuntConstants, NEW q, Searching(q), NEW a, a.user = q.user,
           a.hits = {} \/ a.hits = Schedule!Search(q.query, q.filter, q.tenant)
    PROVE  Shows(a)
<1>1. ASSUME q.user \notin Super, NEW e \in a.hits
      PROVE  /\ TenantOf[HostOf[e]] = TenantOf[q.user]
             /\ q.user \in Admin \/ HostOf[e] \in Groups[q.user]
  <2>1. q.tenant = TenantOf[q.user] /\ q.tenant # Schedule!None
    BY <1>1 DEF Searching, Schedule!EffTenants, HuntConstants
  <2>2. e \in Schedule!Search(q.query, q.filter, q.tenant)
    BY <1>1
  <2>3. TenantOf[HostOf[e]] = q.tenant /\ (q.filter = Schedule!AllHosts \/ HostOf[e] \in q.filter)
    BY <2>1, <2>2 DEF Schedule!Search
  <2> QED
    BY <2>1, <2>3 DEF Searching
<1> QED
  BY <1>1 DEF Shows

\* A search is answered: with what was found and a run on record, or not at all.
AnswerOf(q, a) ==
    \/ a = Schedule!Free
    \/ \E hits : /\ a = [Schedule!Free EXCEPT !.user = q.user, !.hits = hits]
                 /\ hits = {} \/ hits = Schedule!Search(q.query, q.filter, q.tenant)
ByHand(q, new) == \A x \in new : q.hunt \in Hunt /\ x = [hunt |-> q.hunt, at |-> now, by |-> "user", ok |-> TRUE]
Answers(r, q, a, new) ==
    reqs' = [reqs EXCEPT ![r] = a] /\ runs' = runs \cup new /\ AnswerOf(q, a) /\ ByHand(q, new)

\* An answer shows what the request may show, and a run by hand is nobody's cron run.
LEMMA AnswerKeeps == ASSUME HuntConstants, HuntInv, NEW r \in Request, Schedule!AnswerSearch(r) PROVE HuntInv'
<1>1. PICK q : q = reqs[r]
  OBVIOUS
<1>2. q.st = "search" /\ Searching(q) /\ Schedule!Free.st = "free" /\ Schedule!Free.user = Schedule!None /\ ReqOk(Schedule!Free)
  <2>1. Schedule!Free.st = "free" /\ Schedule!Free.user = Schedule!None
    BY DEF Schedule!Free
  <2> QED
    BY <1>1, <2>1 DEF Schedule!AnswerSearch, HuntInv, Reqs, ReqOk, Shows
<1>3. PICK a, new : Answers(r, q, a, new)
  <2> DEFINE hits == IF q.filter = {} THEN {} ELSE Schedule!Search(q.query, q.filter, q.tenant)
  <2>1. IF q.hunt # Schedule!None /\ hunts[q.hunt].st # "saved"
        THEN reqs' = [reqs EXCEPT ![r] = Schedule!Free] /\ runs' = runs
        ELSE /\ reqs' = [reqs EXCEPT ![r] = [Schedule!Free EXCEPT !.user = q.user, !.hits = hits]]
             /\ runs' = IF q.hunt = Schedule!None THEN runs
                        ELSE runs \cup {[hunt |-> q.hunt, at |-> now, by |-> "user", ok |-> TRUE]}
    BY <1>1 DEF Schedule!AnswerSearch
  <2>2. hits = {} \/ hits = Schedule!Search(q.query, q.filter, q.tenant)
    OBVIOUS
  <2> HIDE DEF hits
  <2>3. CASE q.hunt # Schedule!None /\ hunts[q.hunt].st # "saved"
    <3>1. Answers(r, q, Schedule!Free, {})
      BY <2>1, <2>3 DEF Answers, AnswerOf, ByHand
    <3> QED
      BY <3>1
  <2>4. PICK a : a = [Schedule!Free EXCEPT !.user = q.user, !.hits = hits]
    OBVIOUS
  <2>5. AnswerOf(q, a)
    BY <2>2, <2>4 DEF AnswerOf
  <2>6. CASE q.hunt = Schedule!None
    <3>1. Answers(r, q, a, {})
      BY <2>1, <2>4, <2>5, <2>6 DEF Answers, ByHand
    <3> QED
      BY <3>1
  <2>7. CASE q.hunt # Schedule!None /\ hunts[q.hunt].st = "saved"
    <3>1. PICK x : x = [hunt |-> q.hunt, at |-> now, by |-> "user", ok |-> TRUE]
      OBVIOUS
    <3>2. q.hunt \in Hunt
      BY <1>2, <2>7 DEF Searching
    <3>3. Answers(r, q, a, {x})
      BY <2>1, <2>4, <2>5, <2>7, <3>1, <3>2 DEF Answers, ByHand
    <3> QED
      BY <3>3
  <2> QED
    BY <2>3, <2>6, <2>7
<1>4. ReqOk(a)
  <2>1. CASE a = Schedule!Free
    BY <1>2, <2>1
  <2>2. ASSUME NEW hits, a = [Schedule!Free EXCEPT !.user = q.user, !.hits = hits],
               hits = {} \/ hits = Schedule!Search(q.query, q.filter, q.tenant)
        PROVE  ReqOk(a)
    <3>1. a.st = "free" /\ a.user = q.user /\ a.hits = hits
      BY <2>2 DEF Schedule!Free
    <3>2. Shows(a)
      BY <1>2, <2>2, <3>1, SearchShows
    <3> QED
      BY <3>1, <3>2 DEF ReqOk
  <2> QED
    BY <1>3, <2>1, <2>2 DEF Answers, AnswerOf
<1>5. Reqs' /\ runs' = runs \cup new
  <2>1. reqs' = [reqs EXCEPT ![r] = a]
    BY <1>3 DEF Answers
  <2>2. reqs = [x \in Request |-> reqs[x]] /\ \A x \in Request : ReqOk(reqs[x])
    BY DEF HuntInv, Reqs
  <2>3. reqs' = [x \in Request |-> reqs'[x]] /\ \A x \in Request : reqs'[x] = IF x = r THEN a ELSE reqs[x]
    BY <2>1, <2>2
  <2>4. \A x \in Request : ReqOk(reqs'[x])
    BY <1>4, <2>2, <2>3
  <2> QED
    BY <1>3, <2>3, <2>4 DEF Reqs, Answers
<1>6. /\ now' = now /\ wake' = wake /\ hunts' = hunts /\ hosts' = hosts /\ index' = index /\ pass' = pass /\ alerts' = alerts
      /\ since' = since /\ seen' = seen /\ raced' = raced /\ lost' = lost /\ slow' = slow
  BY DEF Schedule!AnswerSearch, Schedule!clock, Schedule!history
<1>7. now' \in Nat /\ now <= now' /\ Clocks'
  BY <1>6 DEF HuntInv, Clocks
<1>8. RunRows' /\ Schedule!OncePerMinute'
  <2>1. \A x \in new : /\ x = [hunt |-> x.hunt, at |-> x.at, by |-> x.by, ok |-> x.ok]
                       /\ x.hunt \in Hunt /\ x.at \in Nat /\ x.ok \in BOOLEAN /\ x.by # "cron"
    <3>1. ASSUME NEW x \in new
          PROVE  /\ x = [hunt |-> x.hunt, at |-> x.at, by |-> x.by, ok |-> x.ok]
                 /\ x.hunt \in Hunt /\ x.at \in Nat /\ x.ok \in BOOLEAN /\ x.by # "cron"
      <4>1. q.hunt \in Hunt /\ x = [hunt |-> q.hunt, at |-> now, by |-> "user", ok |-> TRUE] /\ now \in Nat
        BY <1>3, <3>1 DEF Answers, ByHand, HuntInv, Clocks
      <4>2. x.hunt = q.hunt /\ x.at = now /\ x.by = "user" /\ x.ok = TRUE
        BY <4>1
      <4> QED
        BY <4>1, <4>2
    <3> QED
      BY <3>1
  <2>2. RunRows'
    BY <1>5, <1>6, <2>1 DEF HuntInv, RunRows
  <2>3. ASSUME NEW x \in runs', NEW y \in runs', {x.by, y.by} = {"cron"} PROVE x \in runs /\ y \in runs
    BY <1>5, <2>1, <2>3
  <2>4. Schedule!OncePerMinute'
    BY <2>3 DEF HuntInv, Schedule!OncePerMinute, Schedule!Minute
  <2> QED
    BY <2>2, <2>4
<1>9. Caught'
  <2>1. \A h, m : Wants(h, m)' <=> Wants(h, m)
    BY <1>6 DEF Wants, Schedule!CronMatches
  <2>2. \A h, m : Fired(h, m) => Fired(h, m)'
    BY <1>5 DEF Fired, Schedule!Minute
  <2>3. Frontier' = Frontier
    BY <1>6 DEF Frontier, Schedule!Minute
  <2> QED
    BY <1>6, <2>1, <2>2, <2>3 DEF HuntInv, Caught, Schedule!Minute
<1> QED
  BY <1>5, <1>6, <1>7, <1>8, <1>9, Frames DEF HuntInv

-----------------------------------------------------------------------------
(* Time, documents and hosts.                                              *)

\* Time passes.
LEMMA TickKeeps == ASSUME HuntConstants, HuntInv, Schedule!Tick PROVE HuntInv'
<1>1. /\ now' = now + 1 /\ now < MaxTime /\ (pass = Schedule!Idle => now < wake)
      /\ wake' = wake /\ pass' = pass /\ hunts' = hunts /\ hosts' = hosts /\ index' = index /\ runs' = runs /\ alerts' = alerts
      /\ reqs' = reqs /\ since' = since /\ seen' = seen /\ raced' = raced /\ lost' = lost /\ slow' = slow
  BY DEF Schedule!Tick, Schedule!rows, Schedule!history
<1>2. now \in Nat /\ now' \in Nat /\ now <= now'
  BY <1>1 DEF HuntInv, Clocks
<1>3. Clocks'
  BY <1>1, <1>2 DEF HuntInv, Clocks, HuntConstants
<1>4. Schedule!Minute(now) <= Schedule!Minute(now') /\ Schedule!Minute(now) \in Nat /\ Schedule!Minute(now') \in Nat /\ Schedule!Minute(wake) \in Nat
  BY <1>2, MinuteOrder, MinuteIs DEF HuntInv, Clocks
<1>5. Caught'
  <2>1. \A h, m : (Wants(h, m)' <=> Wants(h, m)) /\ (Fired(h, m)' <=> Fired(h, m))
    BY <1>1, SameDemand
  <2>2. Frontier' = Frontier
    BY <1>1 DEF Frontier, Schedule!Minute
  <2>3. slow \/ pass # Schedule!Idle \/ Schedule!Minute(wake) <= Schedule!Minute(now') + 1
    BY <1>4 DEF HuntInv, Caught
  <2>4. slow' \/ pass' # Schedule!Idle \/ Schedule!Minute(wake)' <= Schedule!Minute(now)' + 1
    BY <1>1, <2>3 DEF Schedule!Minute
  <2> QED
    BY <1>1, <2>1, <2>2, <2>4 DEF HuntInv, Caught, Schedule!Minute
<1> QED
  BY <1>1, <1>2, <1>3, <1>5, Frames DEF HuntInv

\* An agent's event is indexed; a host is deleted with its alerts.
LEMMA TelemetryKeeps ==
    ASSUME HuntInv, (\E e \in Event : Schedule!IndexEvent(e)) \/ (\E x \in Host : Schedule!DeleteHost(x)) PROVE HuntInv'
<1>1. /\ now' = now /\ wake' = wake /\ pass' = pass /\ hunts' = hunts /\ runs' = runs
      /\ reqs' = reqs /\ since' = since /\ seen' = seen /\ raced' = raced /\ lost' = lost /\ slow' = slow
  BY DEF Schedule!IndexEvent, Schedule!DeleteHost, Schedule!clock, Schedule!rows, Schedule!history
<1>2. now' \in Nat /\ now <= now' /\ Clocks'
  BY <1>1 DEF HuntInv, Clocks
<1>3. /\ hosts' \subseteq Host /\ index' \subseteq Event
      /\ \A a \in alerts' : a \in alerts /\ HostOf[a.event] \in hosts'
      /\ pass # Schedule!Idle => \A a \in pass.alerts : HostOf[a.event] \in hosts'
  <2>1. CASE \E e \in Event : Schedule!IndexEvent(e)
    BY <2>1 DEF Schedule!IndexEvent, Schedule!clock, Schedule!rows, HuntInv, HuntRows, AlertOk, PassOk
  <2>2. ASSUME NEW x \in Host, Schedule!DeleteHost(x)
        PROVE  /\ hosts' \subseteq Host /\ index' \subseteq Event
               /\ \A a \in alerts' : a \in alerts /\ HostOf[a.event] \in hosts'
               /\ pass # Schedule!Idle => \A a \in pass.alerts : HostOf[a.event] \in hosts'
    BY <2>2 DEF Schedule!DeleteHost, HuntInv, HuntRows, AlertOk, PassOk
  <2> QED
    BY <2>1, <2>2
<1>4. HuntRows'
  BY <1>1, <1>3 DEF HuntInv, HuntRows
<1>5. \A a : AlertOk(a) /\ HostOf[a.event] \in hosts' => AlertOk(a)'
  BY <1>1 DEF AlertOk
<1>6. PassOk'
  <2>1. CASE pass = Schedule!Idle
    BY <1>1, <2>1 DEF PassOk
  <2>2. CASE pass # Schedule!Idle
    <3>1. (\A h \in DOMAIN pass.row : Loaded(h)') /\ PassRuns'
      BY <1>1, <2>2 DEF HuntInv, PassOk, Loaded, PassRuns, Schedule!Minute
    <3>2. \A a \in pass.alerts : AlertOk(a)'
      BY <1>3, <1>5, <2>2 DEF HuntInv, PassOk
    <3> QED
      BY <1>1, <2>2, <3>1, <3>2 DEF HuntInv, PassOk
  <2> QED
    BY <2>1, <2>2
<1>7. \A a \in alerts' : AlertOk(a)'
  BY <1>3, <1>5 DEF HuntInv
<1>8. Caught'
  <2>1. \A h, m : (Wants(h, m)' <=> Wants(h, m)) /\ (Fired(h, m)' <=> Fired(h, m))
    BY <1>1, SameDemand
  <2>2. Frontier' = Frontier
    BY <1>1 DEF Frontier, Schedule!Minute
  <2> QED
    BY <1>1, <2>1, <2>2 DEF HuntInv, Caught, Schedule!Minute
<1> QED
  BY <1>1, <1>2, <1>4, <1>6, <1>7, <1>8, Frames DEF HuntInv

-----------------------------------------------------------------------------
(* The scheduler at work.                                                  *)

\* What is left alone while the scheduler works.
Still ==
    /\ now' = now /\ hunts' = hunts /\ hosts' = hosts /\ index' = index /\ runs' = runs /\ alerts' = alerts
    /\ reqs' = reqs /\ since' = since /\ seen' = seen /\ raced' = raced

\* A pass is given up.
Gone ==
    /\ pass # Schedule!Idle /\ pass' = Schedule!Idle /\ lost' = lost \cup {Schedule!Minute(pass.at)} /\ slow' = (slow \/ Schedule!Late(pass))
    /\ wake' = now + Interval \/ wake' = now

\* A pass that is not late, and the time the next begins.
LEMMA NextWake ==
    ASSUME HuntConstants, HuntInv, pass # Schedule!Idle, ~Schedule!Late(pass), NEW t, t = now + Interval \/ t = now
    PROVE  t \in Nat /\ Schedule!Minute(t) <= Schedule!Minute(pass.at) + 1 /\ Schedule!Minute(pass.at) <= Schedule!Minute(now)
<1>1. /\ now \in Nat /\ pass.at \in Nat /\ pass.at <= now /\ Interval \in Nat /\ PerMinute \in Nat
      /\ ~(now - pass.at > PerMinute - Interval)
  BY DEF HuntInv, Clocks, PassOk, HuntConstants, Schedule!Late
<1>2. t \in Nat /\ t <= pass.at + PerMinute
  BY <1>1
<1> QED
  BY <1>1, <1>2, MinuteNext, MinuteOrder

\* Losing a pass costs its minute, which is recorded, and nothing else.
LEMMA GoneKeeps == ASSUME HuntConstants, HuntInv, Still, Gone PROVE HuntInv'
<1>1. now \in Nat /\ now' = now /\ now' \in Nat /\ now <= now' /\ now <= MaxTime /\ Interval \in Nat /\ MaxTime \in Nat
  BY DEF HuntInv, Clocks, Still, HuntConstants
<1>2. wake' \in Nat /\ now <= wake' /\ wake' <= MaxTime + Interval
  BY <1>1 DEF Gone
<1>3. Clocks'
  BY <1>1, <1>2 DEF Clocks
<1>4. PassOk'
  BY DEF Gone, PassOk
<1>5. Caught'
  <2>1. \A h, m : (Wants(h, m)' <=> Wants(h, m)) /\ (Fired(h, m)' <=> Fired(h, m))
    BY SameDemand DEF Still
  <2>2. CASE slow \/ Schedule!Late(pass)
    <3>1. slow' /\ pass' = Schedule!Idle
      BY <2>2 DEF Gone
    <3> QED
      BY <3>1 DEF Caught
  <2>3. CASE ~slow /\ ~Schedule!Late(pass)
    <3>1. PICK t, a, b, c : t = wake' /\ a = Schedule!Minute(pass.at) /\ b = Schedule!Minute(t) /\ c = Schedule!Minute(now)
      OBVIOUS
    <3>2. b <= a + 1 /\ a <= c
      BY <2>3, <3>1, NextWake DEF Gone
    <3>3. a \in Nat /\ b \in Nat /\ c \in Nat
      BY <1>1, <1>2, <3>1, MinuteIs DEF HuntInv, PassOk, Gone
    <3>4. Schedule!Minute(wake)' = b /\ Schedule!Minute(now)' = c /\ Frontier' = b
      BY <1>1, <3>1 DEF Gone, Frontier, Schedule!Minute
    <3>5. \A h \in Hunt, m \in Nat : m < a /\ Wants(h, m) => Fired(h, m) \/ m \in lost
      BY <2>3, <3>1 DEF HuntInv, Caught, Frontier, Gone
    <3>6. \A h \in Hunt, m \in Nat : m < b /\ Wants(h, m)' => Fired(h, m)' \/ m \in lost'
      BY <2>1, <3>1, <3>2, <3>3, <3>5 DEF Gone
    <3>7. Schedule!Minute(wake)' <= Schedule!Minute(now)' + 1
      BY <3>2, <3>3, <3>4
    <3> QED
      BY <3>4, <3>6, <3>7 DEF Caught, Gone
  <2> QED
    BY <2>2, <2>3
<1> QED
  BY <1>1, <1>3, <1>4, <1>5, Frames DEF HuntInv, Still

\* A restart in the middle of a pass.
LEMMA RestartKeeps == ASSUME HuntConstants, HuntInv, Schedule!Restart PROVE HuntInv'
<1>1. Still /\ Gone
  BY DEF Schedule!Restart, Still, Gone, Schedule!rows, Schedule!history
<1> QED
  BY <1>1, GoneKeeps

\* A pass begins with the hunts that are due.
LEMMA RunHuntsKeeps == ASSUME HuntConstants, HuntInv, Schedule!RunOnce PROVE HuntInv'
<1> DEFINE due == {h \in Hunt : hunts[h].st = "saved" /\ Schedule!IsDue(hunts[h], now)}
<1>1. PICK p : p = [st |-> "run", at |-> now, row |-> [h \in due |-> hunts[h]], todo |-> due, cur |-> Schedule!None,
                    begun |-> {}, ran |-> {}, rule |-> {}, runs |-> {}, alerts |-> {}]
  OBVIOUS
<1>2. /\ pass = Schedule!Idle /\ now = wake /\ pass' = p
      /\ Still /\ wake' = wake /\ lost' = lost /\ slow' = slow
  BY <1>1 DEF Schedule!RunOnce, Still, Schedule!rows, Schedule!history
<1>3. /\ p.st = "run" /\ p.at = now /\ p.row = [h \in due |-> hunts[h]] /\ p.todo = due /\ p.cur = Schedule!None
      /\ p.ran = {} /\ p.runs = {} /\ p.alerts = {} /\ p.begun = {} /\ p.rule = {}
  BY <1>1
<1>4. p # Schedule!Idle
  BY <1>3 DEF Schedule!Idle
<1>5. now \in Nat /\ now' = now /\ now' \in Nat /\ now <= now'
  BY <1>2 DEF HuntInv, Clocks, Still
<1>6. Clocks'
  BY <1>2, <1>4, <1>5 DEF HuntInv, Clocks
<1>7. due \subseteq Hunt /\ DOMAIN p.row = due /\ \A h \in due : p.row[h] = hunts[h]
  BY <1>3
<1>8. \A h \in due : Loaded(h)'
  <2>1. ASSUME NEW h \in due
        PROVE  /\ hunts[h].st = "saved" /\ hunts[h].tenant # Schedule!None /\ hunts[h].last <= now + 1
               /\ hunts[h].last = 0 \/ Schedule!Minute(hunts[h].last - 1) # Schedule!Minute(now)
    BY DEF HuntInv, HuntRows, Schedule!IsDue, Schedule!SameMinute
  <2> QED
    BY <1>2, <1>3, <1>7, <2>1 DEF Loaded, Still, Schedule!Minute
<1>9. PassRuns'
  BY <1>2, <1>3, <1>7 DEF PassRuns, RunsOf, Backed
<1>10. PassOk'
  <2>1. pass' = [st |-> "run", at |-> p.at, row |-> p.row, todo |-> p.todo, cur |-> p.cur,
                 begun |-> p.begun, ran |-> p.ran, rule |-> p.rule, runs |-> p.runs, alerts |-> p.alerts]
    BY <1>1, <1>2, <1>3
  <2>2. \A a \in p.alerts : AlertOk(a)'
    BY <1>3
  <2> QED
    BY <1>2, <1>3, <1>5, <1>7, <1>8, <1>9, <2>1, <2>2 DEF PassOk
<1>11. Caught'
  <2>1. \A h, m : (Wants(h, m)' <=> Wants(h, m)) /\ (Fired(h, m)' <=> Fired(h, m))
    BY <1>2, SameDemand DEF Still
  <2>2. Frontier = Schedule!Minute(now) /\ Frontier' = Schedule!Minute(now) /\ Schedule!Minute(pass.at)' = Schedule!Minute(now) /\ pass' # Schedule!Idle
    BY <1>2, <1>3, <1>4 DEF Frontier, Schedule!Minute
  <2>3. ASSUME NEW h \in Hunt, Wants(h, Schedule!Minute(now)), h \notin due PROVE Fired(h, Schedule!Minute(now))
    <3>1. hunts[h].st = "saved" /\ hunts[h].last # 0 /\ Schedule!Minute(hunts[h].last - 1) = Schedule!Minute(now)
      BY <2>3 DEF Wants, Schedule!IsDue, Schedule!SameMinute
    <3>2. PICK x \in runs : x.hunt = h /\ x.by = "cron" /\ x.at = hunts[h].last - 1
      BY <3>1 DEF HuntInv, RunRows
    <3> QED
      BY <3>1, <3>2 DEF Fired
  <2> HIDE DEF due
  <2>4. \A h \in Hunt : Wants(h, Schedule!Minute(now))' => h \in DOMAIN p.row \/ Fired(h, Schedule!Minute(now))'
    <3>1. PICK m : m = Schedule!Minute(now)
      OBVIOUS
    <3>2. \A h \in Hunt : Wants(h, m)' => h \in DOMAIN p.row \/ Fired(h, m)'
      BY <1>7, <2>1, <2>3, <3>1
    <3>3. Schedule!Minute(now)' = m
      BY <1>5, <3>1 DEF Schedule!Minute
    <3> QED
      BY <3>2, <3>3 DEF Wants, Fired
  <2> QED
    BY <1>2, <1>5, <2>1, <2>2, <2>4 DEF HuntInv, Caught, Schedule!Minute
<1> QED
  BY <1>2, <1>5, <1>6, <1>10, <1>11, Frames DEF HuntInv, Still

\* A pass goes on: the record changes, the time and the rows it works on do not.
Working(q) ==
    /\ pass # Schedule!Idle /\ pass' = q /\ Still /\ wake' = wake /\ lost' = lost /\ slow' = slow
    /\ q.st = "run" /\ q.at = pass.at /\ q.row = pass.row
    /\ q = [st |-> "run", at |-> q.at, row |-> q.row, todo |-> q.todo, cur |-> q.cur, begun |-> q.begun,
            ran |-> q.ran, rule |-> q.rule, runs |-> q.runs, alerts |-> q.alerts]
    /\ q.todo \subseteq pass.todo /\ q.cur \in DOMAIN pass.row \cup {Schedule!None} /\ q.ran \subseteq DOMAIN pass.row

\* A pass that stays sound keeps the invariant.
LEMMA WorkKeeps ==
    ASSUME HuntConstants, HuntInv, NEW q, Working(q), PassRuns', \A a \in q.alerts : AlertOk(a) PROVE HuntInv'
<1>1. /\ pass' = q /\ pass # Schedule!Idle /\ now' = now /\ hunts' = hunts /\ hosts' = hosts /\ wake' = wake
      /\ lost' = lost /\ slow' = slow /\ q.at = pass.at /\ q.row = pass.row
  BY DEF Working, Still
<1>2. now \in Nat /\ now' \in Nat /\ now <= now' /\ q # Schedule!Idle
  <2>1. q.st = "run"
    BY DEF Working
  <2> QED
    BY <1>1, <2>1 DEF HuntInv, Clocks, Schedule!Idle
<1>3. Clocks'
  BY <1>1, <1>2 DEF HuntInv, Clocks
<1>4. PassOk'
  <2>1. \A h \in DOMAIN q.row : Loaded(h)'
    BY <1>1 DEF HuntInv, PassOk, Loaded, Schedule!Minute
  <2>2. \A a \in q.alerts : AlertOk(a)'
    BY <1>1 DEF AlertOk
  <2>3. q.at \in Nat /\ q.at <= now' /\ DOMAIN q.row \subseteq Hunt /\ pass.todo \subseteq DOMAIN q.row
    BY <1>1 DEF HuntInv, PassOk
  <2> QED
    BY <1>1, <2>1, <2>2, <2>3 DEF PassOk, Working
<1>5. Caught'
  <2>1. \A h, m : (Wants(h, m)' <=> Wants(h, m)) /\ (Fired(h, m)' <=> Fired(h, m))
    BY SameDemand DEF Working, Still
  <2>2. Frontier' = Frontier /\ Schedule!Minute(pass.at)' = Schedule!Minute(pass.at) /\ pass' # Schedule!Idle
    BY <1>1, <1>2 DEF Frontier, Schedule!Minute
  <2>3. \A h \in Hunt : Wants(h, Schedule!Minute(pass.at))' => h \in DOMAIN q.row \/ Fired(h, Schedule!Minute(pass.at))'
    <3>1. PICK m : m = Schedule!Minute(pass.at)
      OBVIOUS
    <3>2. \A h \in Hunt : Wants(h, m)' => h \in DOMAIN q.row \/ Fired(h, m)'
      BY <1>1, <2>1, <3>1 DEF HuntInv, Caught
    <3> QED
      BY <2>2, <3>1, <3>2 DEF Wants, Fired
  <2> QED
    BY <1>1, <2>1, <2>2, <2>3 DEF HuntInv, Caught
<1> QED
  BY <1>1, <1>2, <1>3, <1>4, <1>5, Frames DEF HuntInv, Working, Still

\* A pass at work is a record of its columns.
PassRecord ==
    pass = [st |-> "run", at |-> pass.at, row |-> pass.row, todo |-> pass.todo, cur |-> pass.cur, begun |-> pass.begun,
            ran |-> pass.ran, rule |-> pass.rule, runs |-> pass.runs, alerts |-> pass.alerts]

\* What is known of a pass that is at work.
LEMMA AtWork ==
    ASSUME HuntInv, pass # Schedule!Idle
    PROVE  /\ PassRecord
           /\ DOMAIN pass.row \subseteq Hunt /\ pass.todo \subseteq DOMAIN pass.row /\ pass.ran \subseteq DOMAIN pass.row
           /\ pass.cur \in DOMAIN pass.row \cup {Schedule!None} /\ PassRuns /\ \A a \in pass.alerts : AlertOk(a)
  BY DEF HuntInv, PassOk, PassRecord

\* A column of a pass is set.
Pass(p, at, row, todo, cur, begun, ran, rule, new, found) ==
    p = [st |-> "run", at |-> at, row |-> row, todo |-> todo, cur |-> cur, begun |-> begun,
         ran |-> ran, rule |-> rule, runs |-> new, alerts |-> found]

\* One column of the pass is replaced.
LEMMA Columns ==
    ASSUME NEW p, NEW a, NEW r, NEW t, NEW c, NEW b, NEW n, NEW l, NEW u, NEW f, Pass(p, a, r, t, c, b, n, l, u, f), NEW v
    PROVE  /\ Pass([p EXCEPT !.todo = v], a, r, v, c, b, n, l, u, f)
           /\ Pass([p EXCEPT !.cur = v], a, r, t, v, b, n, l, u, f)
           /\ Pass([p EXCEPT !.begun = v], a, r, t, c, v, n, l, u, f)
           /\ Pass([p EXCEPT !.ran = v], a, r, t, c, b, v, l, u, f)
           /\ Pass([p EXCEPT !.rule = v], a, r, t, c, b, n, v, u, f)
           /\ Pass([p EXCEPT !.runs = v], a, r, t, c, b, n, l, v, f)
           /\ Pass([p EXCEPT !.alerts = v], a, r, t, c, b, n, l, u, v)
<1>1. Pass([p EXCEPT !.todo = v], a, r, v, c, b, n, l, u, f)
  BY DEF Pass
<1>2. Pass([p EXCEPT !.cur = v], a, r, t, v, b, n, l, u, f)
  BY DEF Pass
<1>3. Pass([p EXCEPT !.begun = v], a, r, t, c, v, n, l, u, f)
  BY DEF Pass
<1>4. Pass([p EXCEPT !.ran = v], a, r, t, c, b, v, l, u, f)
  BY DEF Pass
<1>5. Pass([p EXCEPT !.rule = v], a, r, t, c, b, n, v, u, f)
  BY DEF Pass
<1>6. Pass([p EXCEPT !.runs = v], a, r, t, c, b, n, l, v, f)
  BY DEF Pass
<1>7. Pass([p EXCEPT !.alerts = v], a, r, t, c, b, n, l, u, v)
  BY DEF Pass
<1> QED
  BY <1>1, <1>2, <1>3, <1>4, <1>5, <1>6, <1>7

\* A run begins, or finds its hunt gone and the pass is lost.
LEMMA StartRunKeeps == ASSUME HuntConstants, HuntInv, NEW h \in Hunt, Schedule!StartRun(h) PROVE HuntInv'
<1>1. pass # Schedule!Idle /\ pass.cur = Schedule!None /\ h \in pass.todo /\ Still
  BY DEF Schedule!StartRun, Still, Schedule!rows, Schedule!history
<1>2. CASE hunts[h].st = "saved"
  <2>1. PICK q : q = [pass EXCEPT !.cur = h, !.todo = @ \ {h}, !.begun = @ \cup {h}]
    OBVIOUS
  <2>2. pass' = q /\ wake' = wake /\ lost' = lost /\ slow' = slow
    BY <1>2, <2>1 DEF Schedule!StartRun
  <2>3. q = [st |-> "run", at |-> pass.at, row |-> pass.row, todo |-> pass.todo \ {h}, cur |-> h,
             begun |-> pass.begun \cup {h}, ran |-> pass.ran, rule |-> pass.rule, runs |-> pass.runs, alerts |-> pass.alerts]
    <3>1. Pass(pass, pass.at, pass.row, pass.todo, pass.cur, pass.begun, pass.ran, pass.rule, pass.runs, pass.alerts)
      BY <1>1, AtWork DEF PassRecord, Pass
    <3>2. PICK p, r, todo, begun : /\ p = [pass EXCEPT !.cur = h] /\ r = [p EXCEPT !.todo = todo] /\ q = [r EXCEPT !.begun = begun]
                                   /\ todo = pass.todo \ {h} /\ begun = pass.begun \cup {h}
      BY <2>1
    <3>3. Pass(p, pass.at, pass.row, pass.todo, h, pass.begun, pass.ran, pass.rule, pass.runs, pass.alerts)
      BY <3>1, <3>2, Columns
    <3>4. Pass(r, pass.at, pass.row, todo, h, pass.begun, pass.ran, pass.rule, pass.runs, pass.alerts)
      BY <3>2, <3>3, Columns
    <3>5. Pass(q, pass.at, pass.row, todo, h, begun, pass.ran, pass.rule, pass.runs, pass.alerts)
      BY <3>2, <3>4, Columns
    <3> QED
      BY <3>2, <3>5 DEF Pass
  <2>4. /\ q.st = "run" /\ q.at = pass.at /\ q.row = pass.row /\ q.todo = pass.todo \ {h} /\ q.cur = h
        /\ q.ran = pass.ran /\ q.runs = pass.runs /\ q.alerts = pass.alerts
        /\ q = [st |-> "run", at |-> q.at, row |-> q.row, todo |-> q.todo, cur |-> q.cur, begun |-> q.begun,
                ran |-> q.ran, rule |-> q.rule, runs |-> q.runs, alerts |-> q.alerts]
    BY <2>3
  <2>5. Working(q)
    BY <1>1, <2>2, <2>4, AtWork DEF Working
  <2>6. \A x \in DOMAIN pass.row : x # Schedule!None
    BY <1>1, AtWork DEF HuntConstants
  <2>7. PassRuns'
    <3>1. RunsOf(pass) /\ pass.cur = Schedule!None
      BY <1>1, AtWork DEF PassRuns
    <3>2. \A x \in DOMAIN pass.row : x \in pass.todo \/ \E y \in pass.runs : y.hunt = x
      BY <2>6, <3>1 DEF RunsOf
    <3>3. q.row = pass.row /\ q.at = pass.at /\ q.ran = pass.ran /\ q.runs = pass.runs
      BY <2>4
    <3>4. \A x \in DOMAIN q.row : x \in q.todo \/ x = q.cur \/ \E y \in q.runs : y.hunt = x
      BY <2>4, <3>2
    <3>5. RunsOf(q)
      BY <3>1, <3>3, <3>4 DEF RunsOf
    <3> QED
      BY <2>2, <3>5 DEF PassRuns
  <2> QED
    BY <1>1, <2>4, <2>5, <2>7, AtWork, WorkKeeps
<1>3. CASE hunts[h].st # "saved"
  <2>1. Gone
    BY <1>1, <1>3 DEF Schedule!StartRun, Schedule!PassLost, Gone
  <2> QED
    BY <1>1, <2>1, GoneKeeps
<1> QED
  BY <1>2, <1>3

\* A run ends: the record of it joins the pass.
Ended(q, h, ok, more) ==
    /\ q.st = "run" /\ q.at = pass.at /\ q.row = pass.row /\ q.todo = pass.todo /\ q.cur = Schedule!None
    /\ q = [st |-> "run", at |-> q.at, row |-> q.row, todo |-> q.todo, cur |-> q.cur, begun |-> q.begun,
            ran |-> q.ran, rule |-> q.rule, runs |-> q.runs, alerts |-> q.alerts]
    /\ q.runs = pass.runs \cup {CronRun(h, pass.at, ok)} /\ q.ran = IF ok THEN pass.ran \cup {h} ELSE pass.ran
    /\ q.alerts = pass.alerts \cup more

\* The end of a run, with or without success, keeps the invariant.
LEMMA EndedKeeps ==
    ASSUME HuntConstants, HuntInv, pass # Schedule!Idle, pass.cur # Schedule!None, NEW q, NEW ok \in BOOLEAN, NEW more,
           Ended(q, pass.cur, ok, more), \A a \in more : AlertOk(a),
           pass' = q, Still, wake' = wake, lost' = lost, slow' = slow
    PROVE  HuntInv'
<1>1. PICK h, t, r, x : h = pass.cur /\ t = pass.at /\ r = pass.row /\ x = CronRun(h, t, ok)
  OBVIOUS
<1>2. h \in DOMAIN r /\ x.hunt = h
  BY <1>1, AtWork DEF CronRun
<1>3. /\ q.at = t /\ q.row = r /\ q.todo = pass.todo /\ q.cur = Schedule!None
      /\ q.runs = pass.runs \cup {x} /\ q.ran = (IF ok THEN pass.ran \cup {h} ELSE pass.ran)
  BY <1>1 DEF Ended
<1>4. /\ \A y \in pass.runs : \E g \in DOMAIN r, b \in BOOLEAN : y = CronRun(g, t, b) /\ (b => g \in pass.ran)
      /\ \A g \in pass.ran : CronRun(g, t, TRUE) \in pass.runs
      /\ \A g \in DOMAIN r : g \in pass.todo \/ g = h \/ \E y \in pass.runs : y.hunt = g
  BY <1>1, AtWork DEF PassRuns, RunsOf, Backed
<1>5. \A y \in q.runs : \E g \in DOMAIN r, b \in BOOLEAN : y = CronRun(g, t, b) /\ (b => g \in q.ran)
  <2>1. pass.ran \subseteq q.ran /\ (ok => h \in q.ran)
    BY <1>3
  <2>2. ASSUME NEW y \in pass.runs PROVE \E g \in DOMAIN r, b \in BOOLEAN : y = CronRun(g, t, b) /\ (b => g \in q.ran)
    BY <1>4, <2>1
  <2>3. \E g \in DOMAIN r, b \in BOOLEAN : x = CronRun(g, t, b) /\ (b => g \in q.ran)
    BY <1>1, <1>2, <2>1
  <2> QED
    BY <1>3, <2>2, <2>3
<1>6. \A g \in q.ran : CronRun(g, t, TRUE) \in q.runs
  <2>1. CASE ok = TRUE
    <3>1. x = CronRun(h, t, TRUE) /\ x \in q.runs /\ q.ran = pass.ran \cup {h}
      BY <1>1, <1>3, <2>1
    <3>2. \A g \in pass.ran : CronRun(g, t, TRUE) \in q.runs
      BY <1>3, <1>4
    <3> QED
      BY <3>1, <3>2
  <2>2. CASE ok = FALSE
    BY <1>3, <1>4, <2>2
  <2> QED
    BY <2>1, <2>2
<1>7. \A g \in DOMAIN r : g \in q.todo \/ g = q.cur \/ \E y \in q.runs : y.hunt = g
  BY <1>2, <1>3, <1>4
<1>8. RunsOf(q) /\ PassRuns'
  <2>1. Backed(q.runs, r, t, q.ran)
    BY <1>5 DEF Backed
  <2>2. RunsOf(q)
    BY <1>3, <1>6, <1>7, <2>1 DEF RunsOf
  <2> QED
    BY <2>2 DEF PassRuns
<1>9. Working(q)
  <2>1. q.ran \subseteq DOMAIN r /\ q.cur \in DOMAIN r \cup {Schedule!None} /\ q.todo \subseteq pass.todo
    BY <1>1, <1>2, <1>3, AtWork
  <2> QED
    BY <1>1, <2>1 DEF Working, Ended
<1>10. \A a \in q.alerts : AlertOk(a)
  BY AtWork DEF Ended
<1> QED
  BY <1>8, <1>9, <1>10, WorkKeeps

\* The search fails.
LEMMA FailRunKeeps == ASSUME HuntConstants, HuntInv, Schedule!FailRun PROVE HuntInv'
<1>1. PICK x : x = CronRun(pass.cur, pass.at, FALSE)
  OBVIOUS
<1>2. PICK q : q = [pass EXCEPT !.cur = Schedule!None, !.runs = @ \cup {x}]
  OBVIOUS
<1>3. pass # Schedule!Idle /\ pass.cur # Schedule!None /\ pass' = q /\ Still /\ wake' = wake /\ lost' = lost /\ slow' = slow
  BY <1>1, <1>2 DEF Schedule!FailRun, Still, Schedule!rows, Schedule!history, CronRun
<1>4. q = [st |-> "run", at |-> pass.at, row |-> pass.row, todo |-> pass.todo, cur |-> Schedule!None, begun |-> pass.begun,
           ran |-> pass.ran, rule |-> pass.rule, runs |-> pass.runs \cup {x}, alerts |-> pass.alerts]
  <2>1. Pass(pass, pass.at, pass.row, pass.todo, pass.cur, pass.begun, pass.ran, pass.rule, pass.runs, pass.alerts)
    BY <1>3, AtWork DEF PassRecord, Pass
  <2>2. PICK p, new : p = [pass EXCEPT !.cur = Schedule!None] /\ q = [p EXCEPT !.runs = new] /\ new = pass.runs \cup {x}
    BY <1>2
  <2>3. Pass(p, pass.at, pass.row, pass.todo, Schedule!None, pass.begun, pass.ran, pass.rule, pass.runs, pass.alerts)
    BY <2>1, <2>2, Columns
  <2>4. Pass(q, pass.at, pass.row, pass.todo, Schedule!None, pass.begun, pass.ran, pass.rule, new, pass.alerts)
    BY <2>2, <2>3, Columns
  <2> QED
    BY <2>2, <2>4 DEF Pass
<1>5. PICK more : more = {}
  OBVIOUS
<1>6. Ended(q, pass.cur, FALSE, more)
  BY <1>1, <1>4, <1>5 DEF Ended
<1>7. \A a \in more : AlertOk(a)
  BY <1>5
<1> QED
  BY <1>3, <1>6, <1>7, EndedKeeps

\* The alerts of a run are about its tenant's hosts.
LEMMA EmitOk ==
    ASSUME HuntConstants, HuntInv, pass # Schedule!Idle, NEW h \in DOMAIN pass.row, NEW e \in Schedule!EmitFor(h), HostOf[e] \in hosts,
           NEW a, a.hunt = h, a.event = e, a.tenant = DefaultTenant
    PROVE  AlertOk(a)
<1>1. Loaded(h) /\ h \in Hunt
  BY DEF HuntInv, PassOk
<1>2. e \in Schedule!Hits(h)
  BY DEF Schedule!EmitFor
<1>3. e \in index /\ TenantOf[HostOf[e]] = hunts[h].tenant
  BY <1>1, <1>2 DEF Schedule!Hits, Schedule!Search, Loaded
<1> QED
  BY <1>1, <1>3 DEF AlertOk, Loaded, HuntInv, HuntRows

\* The search answers; an alert about a host that is gone loses the pass.
LEMMA FinishRunKeeps == ASSUME HuntConstants, HuntInv, Schedule!FinishRun PROVE HuntInv'
<1>1. PICK h, emit : h = pass.cur /\ emit = Schedule!EmitFor(h)
  OBVIOUS
<1>2. pass # Schedule!Idle /\ h # Schedule!None /\ Still
  BY <1>1 DEF Schedule!FinishRun, Still, Schedule!rows, Schedule!history
<1>3. h \in DOMAIN pass.row
  BY <1>1, <1>2, AtWork
<1>4. CASE \A e \in emit : HostOf[e] \in hosts
  <2>1. PICK x, more, rule : /\ x = CronRun(h, pass.at, TRUE)
                             /\ more = {[hunt |-> h, event |-> e, tenant |-> DefaultTenant, at |-> pass.at] : e \in emit}
                             /\ rule = IF pass.row[h].alert /\ Schedule!Hits(h) # {} THEN pass.rule \cup {h} ELSE pass.rule
    OBVIOUS
  <2>2. PICK q : q = [pass EXCEPT !.cur = Schedule!None, !.ran = @ \cup {h}, !.rule = rule, !.runs = @ \cup {x},
                                  !.alerts = @ \cup more]
    OBVIOUS
  <2>3. pass' = q /\ wake' = wake /\ lost' = lost /\ slow' = slow
    BY <1>1, <1>4, <2>1, <2>2 DEF Schedule!FinishRun, CronRun
  <2>4. q = [st |-> "run", at |-> pass.at, row |-> pass.row, todo |-> pass.todo, cur |-> Schedule!None, begun |-> pass.begun,
             ran |-> pass.ran \cup {h}, rule |-> rule, runs |-> pass.runs \cup {x}, alerts |-> pass.alerts \cup more]
    <3>1. Pass(pass, pass.at, pass.row, pass.todo, pass.cur, pass.begun, pass.ran, pass.rule, pass.runs, pass.alerts)
      BY <1>2, AtWork DEF PassRecord, Pass
    <3>2. PICK p1, p2, p3, p4, ran, new, found :
            /\ p1 = [pass EXCEPT !.cur = Schedule!None] /\ p2 = [p1 EXCEPT !.ran = ran] /\ p3 = [p2 EXCEPT !.rule = rule]
            /\ p4 = [p3 EXCEPT !.runs = new] /\ q = [p4 EXCEPT !.alerts = found]
            /\ ran = pass.ran \cup {h} /\ new = pass.runs \cup {x} /\ found = pass.alerts \cup more
      BY <2>2
    <3>3. Pass(p1, pass.at, pass.row, pass.todo, Schedule!None, pass.begun, pass.ran, pass.rule, pass.runs, pass.alerts)
      BY <3>1, <3>2, Columns
    <3>4. Pass(p2, pass.at, pass.row, pass.todo, Schedule!None, pass.begun, ran, pass.rule, pass.runs, pass.alerts)
      BY <3>2, <3>3, Columns
    <3>5. Pass(p3, pass.at, pass.row, pass.todo, Schedule!None, pass.begun, ran, rule, pass.runs, pass.alerts)
      BY <3>2, <3>4, Columns
    <3>6. Pass(p4, pass.at, pass.row, pass.todo, Schedule!None, pass.begun, ran, rule, new, pass.alerts)
      BY <3>2, <3>5, Columns
    <3>7. Pass(q, pass.at, pass.row, pass.todo, Schedule!None, pass.begun, ran, rule, new, found)
      BY <3>2, <3>6, Columns
    <3> QED
      BY <3>2, <3>7 DEF Pass
  <2>5. Ended(q, pass.cur, TRUE, more)
    BY <1>1, <2>1, <2>4 DEF Ended
  <2>6. ASSUME NEW a \in more PROVE AlertOk(a)
    <3>1. PICK e \in emit : a = [hunt |-> h, event |-> e, tenant |-> DefaultTenant, at |-> pass.at]
      BY <2>1, <2>6
    <3>2. a.hunt = h /\ a.event = e /\ a.tenant = DefaultTenant
      BY <3>1
    <3> QED
      BY <1>1, <1>2, <1>3, <1>4, <3>1, <3>2, EmitOk
  <2> QED
    BY <1>1, <1>2, <2>3, <2>5, <2>6, EndedKeeps
<1>5. CASE ~(\A e \in emit : HostOf[e] \in hosts)
  <2>1. Gone
    BY <1>1, <1>2, <1>5 DEF Schedule!FinishRun, Schedule!PassLost, Gone
  <2> QED
    BY <1>2, <2>1, GoneKeeps
<1> QED
  BY <1>4, <1>5

-----------------------------------------------------------------------------
(* The commits.                                                            *)

\* A row as far as requests and the schedule see it.
SameHunt(x, y) ==
    HuntRow(y) /\ y.st = x.st /\ y.tenant = x.tenant /\ y.query = x.query /\ y.cron = x.cron /\ y.alert = x.alert

\* The scheduler's two columns are set.
LEMMA RanRow ==
    ASSUME NEW x, HuntRow(x), NEW v \in Nat, NEW b
    PROVE  \E y : y = [x EXCEPT !.last = v, !.rule = b] /\ SameHunt(x, y) /\ y.last = v
<1>1. PICK z, y : z = [x EXCEPT !.last = v] /\ y = [z EXCEPT !.rule = b]
  OBVIOUS
<1>2. z = [st |-> x.st, tenant |-> x.tenant, owner |-> x.owner, query |-> x.query, cron |-> x.cron,
           alert |-> x.alert, scope |-> x.scope, rule |-> x.rule, last |-> v]
  BY <1>1 DEF HuntRow
<1>3. y = [st |-> x.st, tenant |-> x.tenant, owner |-> x.owner, query |-> x.query, cron |-> x.cron,
           alert |-> x.alert, scope |-> x.scope, rule |-> b, last |-> v]
  BY <1>1, <1>2
<1>4. /\ y.st = x.st /\ y.tenant = x.tenant /\ y.owner = x.owner /\ y.query = x.query /\ y.cron = x.cron
      /\ y.alert = x.alert /\ y.scope = x.scope /\ y.rule = b /\ y.last = v
  BY <1>3
<1>5. y = [x EXCEPT !.last = v, !.rule = b]
  BY <1>1
<1> QED
  BY <1>3, <1>4, <1>5 DEF SameHunt, HuntRow

\* What a pass commits.
Committed(p) ==
    /\ p = pass /\ p # Schedule!Idle /\ pass' = Schedule!Idle /\ p.todo = {} /\ p.cur = Schedule!None
    /\ hunts' = [h \in Hunt |-> hunts'[h]]
    /\ \A h \in Hunt : SameHunt(hunts[h], hunts'[h]) /\ hunts'[h].last = IF h \in p.ran THEN p.at + 1 ELSE hunts[h].last
    /\ runs' = runs \cup p.runs /\ alerts' = alerts \cup p.alerts /\ slow' = (slow \/ Schedule!Late(p)) /\ wake' = now + Interval
    /\ now' = now /\ lost' = lost /\ hosts' = hosts /\ index' = index /\ reqs' = reqs
    /\ since' = since /\ seen' = seen /\ raced' = raced

\* This is what the commit of a pass does.
LEMMA PassCommits == ASSUME HuntInv, Schedule!CommitPass PROVE Committed(pass)
<1>1. /\ pass # Schedule!Idle /\ pass' = Schedule!Idle /\ pass.todo = {} /\ pass.cur = Schedule!None
      /\ runs' = runs \cup pass.runs /\ alerts' = alerts \cup pass.alerts /\ slow' = (slow \/ Schedule!Late(pass)) /\ wake' = now + Interval
      /\ now' = now /\ lost' = lost /\ hosts' = hosts /\ index' = index /\ reqs' = reqs
      /\ since' = since /\ seen' = seen /\ raced' = raced
  BY DEF Schedule!CommitPass, Schedule!history
<1> DEFINE marked(h) == hunts[h].rule \/ h \in pass.rule
<1>2. hunts' = [h \in Hunt |-> IF h \notin pass.ran THEN hunts[h] ELSE [hunts[h] EXCEPT !.last = pass.at + 1, !.rule = marked(h)]]
  BY Zenon DEF Schedule!CommitPass
<1> HIDE DEF marked
<1>3. pass.at + 1 \in Nat
  BY <1>1 DEF HuntInv, PassOk
<1>4. ASSUME NEW h \in Hunt
      PROVE  SameHunt(hunts[h], hunts'[h]) /\ hunts'[h].last = IF h \in pass.ran THEN pass.at + 1 ELSE hunts[h].last
  <2>1. HuntRow(hunts[h])
    BY DEF HuntInv, HuntRows
  <2>2. CASE h \notin pass.ran
    <3>1. hunts'[h] = hunts[h]
      BY <1>2, <2>2
    <3> QED
      BY <2>1, <2>2, <3>1 DEF SameHunt
  <2>3. CASE h \in pass.ran
    <3>1. PICK x, v, b : x = hunts[h] /\ v = pass.at + 1 /\ b = marked(h)
      OBVIOUS
    <3>2. hunts'[h] = [x EXCEPT !.last = v, !.rule = b]
      BY <1>2, <2>3, <3>1
    <3>3. HuntRow(x) /\ v \in Nat
      BY <1>3, <2>1, <3>1
    <3>4. PICK y : y = [x EXCEPT !.last = v, !.rule = b] /\ SameHunt(x, y) /\ y.last = v
      BY <3>3, RanRow, Zenon
    <3> QED
      BY <2>3, <3>1, <3>2, <3>4
  <2> QED
    BY <2>2, <2>3
<1>5. hunts' = [h \in Hunt |-> hunts'[h]]
  BY <1>2
<1> QED
  BY <1>1, <1>4, <1>5 DEF Committed

\* The facts about the pass that its commit needs.
LEMMA PassFacts ==
    ASSUME HuntConstants, HuntInv, NEW p, Committed(p)
    PROVE  /\ p.at \in Nat /\ p.at <= now /\ DOMAIN p.row \subseteq Hunt /\ p.ran \subseteq DOMAIN p.row
           /\ \A h \in DOMAIN p.row : /\ hunts[h].st # "none" /\ hunts[h].last <= p.at + 1
                                      /\ hunts[h].last = 0 \/ Schedule!Minute(hunts[h].last - 1) # Schedule!Minute(p.at)
           /\ \A x \in p.runs : /\ x.hunt \in DOMAIN p.row /\ x.at = p.at /\ x.by = "cron" /\ x.ok \in BOOLEAN
                                /\ x = CronRun(x.hunt, p.at, x.ok) /\ (x.ok => x.hunt \in p.ran)
           /\ \A h \in p.ran : CronRun(h, p.at, TRUE) \in p.runs
           /\ \A h \in DOMAIN p.row : \E x \in p.runs : x.hunt = h
           /\ \A a \in p.alerts : AlertOk(a)
<1>1. p = pass /\ pass # Schedule!Idle /\ p.todo = {} /\ p.cur = Schedule!None
  BY DEF Committed
<1>2. /\ p.at \in Nat /\ p.at <= now /\ DOMAIN p.row \subseteq Hunt /\ p.ran \subseteq DOMAIN p.row
      /\ \A a \in p.alerts : AlertOk(a)
  BY <1>1 DEF HuntInv, PassOk
<1>3. \A h \in DOMAIN p.row : /\ hunts[h].st # "none" /\ hunts[h].last <= p.at + 1
                              /\ hunts[h].last = 0 \/ Schedule!Minute(hunts[h].last - 1) # Schedule!Minute(p.at)
  BY <1>1 DEF HuntInv, PassOk, Loaded
<1>4. RunsOf(p)
  BY <1>1 DEF HuntInv, PassOk, PassRuns
<1>5. ASSUME NEW x \in p.runs
      PROVE  /\ x.hunt \in DOMAIN p.row /\ x.at = p.at /\ x.by = "cron" /\ x.ok \in BOOLEAN
             /\ x = CronRun(x.hunt, p.at, x.ok) /\ (x.ok => x.hunt \in p.ran)
  <2>1. PICK h \in DOMAIN p.row, ok \in BOOLEAN : x = CronRun(h, p.at, ok) /\ (ok => h \in p.ran)
    BY <1>4 DEF RunsOf, Backed
  <2>2. x.hunt = h /\ x.at = p.at /\ x.by = "cron" /\ x.ok = ok
    BY <2>1 DEF CronRun
  <2> QED
    BY <2>1, <2>2
<1>6. (\A h \in p.ran : CronRun(h, p.at, TRUE) \in p.runs) /\ \A h \in DOMAIN p.row : h = Schedule!None \/ \E x \in p.runs : x.hunt = h
  BY <1>1, <1>4 DEF RunsOf
<1> QED
  BY <1>2, <1>3, <1>5, <1>6 DEF HuntConstants

\* A completed run is in no minute in which the hunt was completed before.
LEMMA OnceInPass ==
    ASSUME HuntConstants, HuntInv, NEW p, Committed(p), NEW x \in runs, NEW h \in p.ran,
           x.hunt = h, x.by = "cron", x.ok
    PROVE  Schedule!Minute(x.at) # Schedule!Minute(p.at)
<1>1. h \in DOMAIN p.row /\ h \in Hunt /\ p.at \in Nat
  BY PassFacts
<1>2. PICK l : l = hunts[h].last
  OBVIOUS
<1>3. x.at \in Nat /\ x.at < l /\ l \in Nat
  <2>1. x.at \in Nat /\ x.at < hunts[x.hunt].last
    BY DEF HuntInv, RunRows
  <2> QED
    BY <1>1, <1>2, <2>1 DEF HuntInv, HuntRows, HuntRow
<1>4. l <= p.at + 1 /\ Schedule!Minute(l - 1) # Schedule!Minute(p.at)
  <2>1. hunts[h].last <= p.at + 1 /\ (hunts[h].last = 0 \/ Schedule!Minute(hunts[h].last - 1) # Schedule!Minute(p.at))
    BY <1>1, PassFacts
  <2>2. l # 0
    BY <1>3
  <2> QED
    BY <1>2, <2>1, <2>2
<1>5. l - 1 \in Nat /\ x.at <= l - 1 /\ l - 1 <= p.at
  BY <1>1, <1>3, <1>4
<1>6. Schedule!Minute(x.at) <= Schedule!Minute(l - 1) /\ Schedule!Minute(l - 1) <= Schedule!Minute(p.at)
  BY <1>1, <1>3, <1>5, MinuteOrder
<1>7. Schedule!Minute(x.at) \in Nat /\ Schedule!Minute(l - 1) \in Nat /\ Schedule!Minute(p.at) \in Nat
  BY <1>1, <1>3, <1>5, MinuteIs
<1> QED
  BY <1>4, <1>6, <1>7

\* The runs after the commit of a pass.
LEMMA CommitRuns == ASSUME HuntConstants, HuntInv, NEW p, Committed(p) PROVE RunRows' /\ Schedule!OncePerMinute'
<1>1. /\ runs' = runs \cup p.runs
      /\ \A h \in Hunt : /\ hunts'[h].st = hunts[h].st /\ hunts'[h].last = IF h \in p.ran THEN p.at + 1 ELSE hunts[h].last
  BY DEF Committed, SameHunt
<1>2. \A h \in Hunt : hunts[h].last \in Nat
  BY DEF HuntInv, HuntRows, HuntRow
<1>3. p.at \in Nat /\ p.ran \subseteq Hunt /\ \A h \in p.ran : hunts[h].last <= p.at + 1
  BY PassFacts
<1>4. ASSUME NEW x \in runs'
      PROVE  /\ x = [hunt |-> x.hunt, at |-> x.at, by |-> x.by, ok |-> x.ok]
             /\ x.hunt \in Hunt /\ x.at \in Nat /\ x.ok \in BOOLEAN
             /\ x.by = "cron" /\ x.ok => x.at < hunts'[x.hunt].last
  <2>1. CASE x \in runs
    <3>1. /\ x = [hunt |-> x.hunt, at |-> x.at, by |-> x.by, ok |-> x.ok]
          /\ x.hunt \in Hunt /\ x.at \in Nat /\ x.ok \in BOOLEAN
          /\ x.by = "cron" /\ x.ok => x.at < hunts[x.hunt].last
      BY <2>1 DEF HuntInv, RunRows
    <3> QED
      BY <1>1, <1>2, <1>3, <3>1
  <2>2. CASE x \in p.runs
    <3>1. /\ x.hunt \in Hunt /\ x.at = p.at /\ x.by = "cron" /\ x.ok \in BOOLEAN
          /\ x = CronRun(x.hunt, p.at, x.ok) /\ (x.ok => x.hunt \in p.ran)
      BY <2>2, PassFacts
    <3>2. x = [hunt |-> x.hunt, at |-> x.at, by |-> x.by, ok |-> x.ok]
      BY <3>1 DEF CronRun
    <3>3. x.ok => x.at < hunts'[x.hunt].last
      BY <1>1, <1>3, <3>1
    <3> QED
      BY <1>3, <3>1, <3>2, <3>3
  <2> QED
    BY <1>1, <2>1, <2>2
<1>5. ASSUME NEW h \in Hunt, hunts'[h].st = "saved", hunts'[h].last # 0
      PROVE  \E x \in runs' : x.hunt = h /\ x.by = "cron" /\ x.at = hunts'[h].last - 1
  <2>1. CASE h \in p.ran
    <3>1. PICK x : x = CronRun(h, p.at, TRUE)
      OBVIOUS
    <3>2. x \in runs' /\ x.hunt = h /\ x.by = "cron" /\ x.at = p.at
      BY <1>1, <2>1, <3>1, PassFacts DEF CronRun
    <3>3. p.at = hunts'[h].last - 1
      BY <1>1, <1>3, <2>1
    <3> QED
      BY <3>2, <3>3
  <2>2. CASE h \notin p.ran
    <3>1. PICK x \in runs : x.hunt = h /\ x.by = "cron" /\ x.at = hunts[h].last - 1
      BY <1>1, <1>5, <2>2 DEF HuntInv, RunRows
    <3> QED
      BY <1>1, <2>2, <3>1
  <2> QED
    BY <2>1, <2>2
<1>6. ASSUME NEW x \in runs', NEW y \in runs', x.hunt = y.hunt, {x.by, y.by} = {"cron"}, x.ok, y.ok, Schedule!Minute(x.at) = Schedule!Minute(y.at)
      PROVE  x = y
  <2>1. x.by = "cron" /\ y.by = "cron"
    BY <1>6
  <2>2. CASE x \in runs /\ y \in runs
    BY <1>6, <2>2 DEF HuntInv, Schedule!OncePerMinute
  <2>3. CASE x \in p.runs /\ y \in p.runs
    <3>1. x = CronRun(x.hunt, p.at, x.ok) /\ y = CronRun(y.hunt, p.at, y.ok) /\ x.ok = TRUE /\ y.ok = TRUE
      BY <1>4, <1>6, <2>3, PassFacts
    <3> QED
      BY <1>6, <3>1
  <2>4. CASE x \in runs /\ y \in p.runs
    <3>1. y.at = p.at /\ y.hunt \in p.ran
      BY <1>6, <2>4, PassFacts
    <3> QED
      BY <1>6, <2>1, <2>4, <3>1, OnceInPass
  <2>5. CASE x \in p.runs /\ y \in runs
    <3>1. x.at = p.at /\ x.hunt \in p.ran
      BY <1>6, <2>5, PassFacts
    <3> QED
      BY <1>6, <2>1, <2>5, <3>1, OnceInPass
  <2> QED
    BY <1>1, <1>6, <2>2, <2>3, <2>4, <2>5
<1>7. RunRows'
  BY <1>4, <1>5 DEF RunRows
<1>8. Schedule!OncePerMinute'
  BY <1>6 DEF Schedule!OncePerMinute, Schedule!Minute
<1> QED
  BY <1>7, <1>8

\* The schedule after the commit of a pass.
LEMMA CommitCaught == ASSUME HuntConstants, HuntInv, NEW p, Committed(p) PROVE Caught'
<1>1. /\ pass' = Schedule!Idle /\ pass = p /\ p # Schedule!Idle /\ now' = now /\ lost' = lost /\ since' = since
      /\ runs' = runs \cup p.runs /\ wake' = now + Interval
  BY DEF Committed
<1>2. CASE slow \/ Schedule!Late(p)
  <2>1. slow'
    BY <1>2 DEF Committed
  <2> QED
    BY <1>1, <2>1 DEF Caught
<1>3. CASE ~slow /\ ~Schedule!Late(p)
  <2>1. PICK t, a, b, c : t = wake' /\ a = Schedule!Minute(p.at) /\ b = Schedule!Minute(t) /\ c = Schedule!Minute(now)
    OBVIOUS
  <2>2. b <= a + 1 /\ a <= c /\ t \in Nat
    BY <1>1, <1>3, <2>1, NextWake
  <2>3. a \in Nat /\ b \in Nat /\ c \in Nat
    BY <2>1, <2>2, MinuteIs, PassFacts DEF HuntInv, Clocks
  <2>4. Schedule!Minute(wake)' = b /\ Schedule!Minute(now)' = c /\ Frontier' = b
    BY <1>1, <2>1 DEF Frontier, Schedule!Minute
  <2>5. \A h \in Hunt : \A m : (Wants(h, m)' <=> Wants(h, m)) /\ (Fired(h, m) => Fired(h, m)')
    <3>1. \A h \in Hunt : hunts'[h].st = hunts[h].st /\ hunts'[h].cron = hunts[h].cron
      BY DEF Committed, SameHunt
    <3> QED
      BY <1>1, <3>1 DEF Wants, Fired, Schedule!CronMatches, Schedule!Minute
  <2>6. \A h \in Hunt, m \in Nat : m < a /\ Wants(h, m) => Fired(h, m) \/ m \in lost
    BY <1>1, <1>3, <2>1 DEF HuntInv, Caught, Frontier
  <2>7. \A h \in Hunt : Wants(h, a) => Fired(h, a)'
    <3>1. \A h \in Hunt : Wants(h, a) => h \in DOMAIN p.row \/ Fired(h, a)
      BY <1>1, <2>1 DEF HuntInv, Caught
    <3>2. ASSUME NEW h \in DOMAIN p.row PROVE Fired(h, a)'
      <4>1. PICK x \in p.runs : x.hunt = h
        BY PassFacts
      <4>2. x \in runs' /\ x.by = "cron" /\ x.at = p.at
        BY <1>1, PassFacts
      <4> QED
        BY <2>1, <4>1, <4>2 DEF Fired, Schedule!Minute
    <3>3. \A h \in Hunt : Fired(h, a) => Fired(h, a)'
      BY <2>5
    <3> QED
      BY <3>1, <3>2, <3>3
  <2>8. ASSUME NEW h \in Hunt, NEW m \in Nat, m < b, Wants(h, m)' PROVE Fired(h, m)' \/ m \in lost'
    <3>1. Wants(h, m)
      BY <2>5, <2>8
    <3>2. CASE m < a
      BY <1>1, <2>5, <2>6, <3>1, <3>2
    <3>3. CASE m = a
      BY <2>7, <3>1, <3>3
    <3> QED
      BY <2>2, <2>3, <2>8, <3>2, <3>3
  <2>9. Schedule!Minute(wake)' <= Schedule!Minute(now)' + 1
    BY <2>2, <2>3, <2>4
  <2> QED
    BY <1>1, <2>4, <2>8, <2>9 DEF Caught
<1> QED
  BY <1>2, <1>3

\* A pass commits.
LEMMA CommitHuntPassKeeps == ASSUME HuntConstants, HuntInv, Schedule!CommitPass PROVE HuntInv'
<1>1. PICK p : p = pass /\ Committed(p)
  BY PassCommits
<1>2. /\ pass' = Schedule!Idle /\ pass # Schedule!Idle /\ now' = now /\ hosts' = hosts /\ index' = index /\ reqs' = reqs /\ since' = since
      /\ seen' = seen /\ raced' = raced /\ alerts' = alerts \cup p.alerts /\ wake' = now + Interval
      /\ hunts' = [h \in Hunt |-> hunts'[h]]
  BY <1>1 DEF Committed
<1>3. \A h \in Hunt : SameHunt(hunts[h], hunts'[h]) /\ hunts'[h].last = IF h \in p.ran THEN p.at + 1 ELSE hunts[h].last
  BY <1>1 DEF Committed
<1>4. now \in Nat /\ now' \in Nat /\ now <= now' /\ now <= MaxTime /\ Interval \in Nat /\ MaxTime \in Nat
  BY <1>2 DEF HuntInv, Clocks, HuntConstants
<1>5. Clocks' /\ PassOk'
  BY <1>2, <1>4 DEF Clocks, PassOk
<1>6. HuntRows'
  <2>1. ASSUME NEW h \in Hunt
        PROVE  /\ HuntRow(hunts'[h]) /\ hunts'[h].st \in {"none", "saved", "deleted"} /\ hunts'[h].last <= now' + 1
               /\ hunts'[h].st = "none" => hunts'[h].last = 0
               /\ hunts'[h].st = "saved" => hunts'[h].tenant # Schedule!None
    <3>1. /\ hunts[h].st \in {"none", "saved", "deleted"} /\ hunts[h].last <= now + 1
          /\ hunts[h].st = "none" => hunts[h].last = 0
          /\ hunts[h].st = "saved" => hunts[h].tenant # Schedule!None
      BY DEF HuntInv, HuntRows
    <3>2. p.at \in Nat /\ p.at <= now /\ (h \in p.ran => hunts[h].st # "none")
      BY <1>1, PassFacts
    <3> QED
      BY <1>2, <1>3, <1>4, <3>1, <3>2 DEF SameHunt
  <2> QED
    BY <1>2, <2>1 DEF HuntRows, HuntInv
<1>7. \A a \in alerts' : AlertOk(a)'
  <2>1. \A a \in alerts' : AlertOk(a)
    BY <1>1, <1>2, PassFacts DEF HuntInv
  <2> QED
    BY <1>2, <1>3, <2>1 DEF AlertOk, SameHunt
<1>8. Schedule!SideEffectsApproved'
  BY <1>2, <1>3 DEF HuntInv, Schedule!SideEffectsApproved, SameHunt
<1> QED
  BY <1>1, <1>2, <1>4, <1>5, <1>6, <1>7, <1>8, CommitRuns, CommitCaught, Frames DEF HuntInv

\* A minute the scheduler is done with, or works in, has begun.
LEMMA PastMinute ==
    ASSUME HuntConstants, HuntInv, NEW m \in Nat, (~slow /\ m < Frontier) \/ (pass # Schedule!Idle /\ m = Schedule!Minute(pass.at))
    PROVE  ~(now < m * PerMinute)
<1>1. now \in Nat /\ Schedule!Minute(now) \in Nat /\ Schedule!Minute(now) * PerMinute <= now
  BY MinuteIs DEF HuntInv, Clocks
<1>2. m <= Schedule!Minute(now)
  <2>1. CASE pass # Schedule!Idle
    <3>1. pass.at \in Nat /\ pass.at <= now
      BY <2>1 DEF HuntInv, PassOk
    <3>2. Schedule!Minute(pass.at) \in Nat /\ Schedule!Minute(pass.at) <= Schedule!Minute(now)
      BY <1>1, <3>1, MinuteIs, MinuteOrder
    <3> QED
      BY <1>1, <2>1, <3>2 DEF Frontier
  <2>2. CASE pass = Schedule!Idle
    <3>1. Schedule!Minute(wake) \in Nat
      BY MinuteIs DEF HuntInv, Clocks
    <3>2. m < Schedule!Minute(wake) /\ Schedule!Minute(wake) <= Schedule!Minute(now) + 1
      BY <2>2 DEF HuntInv, Caught, Frontier
    <3> QED
      BY <1>1, <3>1, <3>2
  <2> QED
    BY <2>1, <2>2
<1>3. PICK n, x, y : n = Schedule!Minute(now) /\ x = m * PerMinute /\ y = n * PerMinute
  OBVIOUS
<1>4. x \in Nat /\ y \in Nat /\ x <= y
  <2>1. PerMinute \in Nat /\ n \in Nat /\ m <= n
    BY <1>1, <1>2, <1>3 DEF HuntConstants
  <2>2. x \in Nat /\ y \in Nat
    BY <1>3, <2>1
  <2>3. CASE m = n
    BY <1>3, <2>2, <2>3
  <2>4. CASE m < n
    <3>1. (m + 1) * PerMinute <= n * PerMinute
      BY <2>1, <2>4, TimesOrder
    <3>2. (m + 1) * PerMinute = x + PerMinute
      BY <1>3, <2>1
    <3> QED
      BY <1>3, <2>1, <2>2, <3>1, <3>2
  <2> QED
    BY <2>1, <2>3, <2>4
<1> QED
  BY <1>1, <1>3, <1>4

\* A request changes row h: the row is new, or differs in columns a request may write.
Edited(h, row) ==
    /\ hunts' = [hunts EXCEPT ![h] = row] /\ HuntRow(row) /\ row.st \in {"saved", "deleted"}
    /\ row.st = "saved" => row.tenant # Schedule!None
    /\ IF hunts[h].st = "none" THEN row.last = 0 ELSE row.last = hunts[h].last /\ row.tenant = hunts[h].tenant
    /\ now' = now /\ wake' = wake /\ pass' = pass /\ lost' = lost /\ slow' = slow /\ hosts' = hosts /\ index' = index
    /\ alerts' = alerts

\* Either the schedule of h begins now, or it is not wanted any more, or it is what it was.
Rescheduled(h, row) ==
    /\ since' = [since EXCEPT ![h] = since'[h]] /\ seen' = [g \in Hunt |-> seen'[g]]
    /\ \/ since'[h] = now
       \/ since'[h] = since[h] /\ (row.st = "saved" => hunts[h].st = "saved" /\ row.cron = hunts[h].cron)

\* The rows after an edit, one by one.
LEMMA EditedOthers ==
    ASSUME HuntInv, NEW h \in Hunt, NEW row, Edited(h, row)
    PROVE  hunts' = [g \in Hunt |-> hunts'[g]] /\ hunts'[h] = row /\ \A g \in Hunt : g # h => hunts'[g] = hunts[g]
<1>1. hunts' = [hunts EXCEPT ![h] = row] /\ hunts = [g \in Hunt |-> hunts[g]]
  BY DEF Edited, HuntInv, HuntRows
<1> QED
  BY <1>1

\* Rows, pass and alerts after an edit.
LEMMA EditedRows ==
    ASSUME HuntConstants, HuntInv, NEW h \in Hunt, NEW row, Edited(h, row)
    PROVE  Clocks' /\ HuntRows' /\ PassOk' /\ \A a \in alerts' : AlertOk(a)'
<1>1. hunts' = [g \in Hunt |-> hunts'[g]] /\ hunts'[h] = row /\ \A g \in Hunt : g # h => hunts'[g] = hunts[g]
  BY EditedOthers
<1>2. now' = now /\ wake' = wake /\ pass' = pass /\ hosts' = hosts /\ index' = index /\ alerts' = alerts /\ now \in Nat
  BY DEF Edited, HuntInv, Clocks
<1>3. Clocks'
  BY <1>2 DEF HuntInv, Clocks
<1>4. HuntRows'
  <2>1. ASSUME NEW g \in Hunt
        PROVE  /\ HuntRow(hunts'[g]) /\ hunts'[g].st \in {"none", "saved", "deleted"} /\ hunts'[g].last <= now' + 1
               /\ hunts'[g].st = "none" => hunts'[g].last = 0
               /\ hunts'[g].st = "saved" => hunts'[g].tenant # Schedule!None
    <3>1. CASE g # h
      BY <1>1, <1>2, <3>1 DEF HuntInv, HuntRows
    <3>2. CASE g = h
      <4>1. row.last <= now + 1
        BY <1>2 DEF Edited, HuntInv, HuntRows
      <4> QED
        BY <1>1, <1>2, <3>2, <4>1 DEF Edited
    <3> QED
      BY <3>1, <3>2
  <2> QED
    BY <1>1, <1>2, <2>1 DEF HuntInv, HuntRows
<1>5. \A g \in Hunt : hunts[g].st # "none" =>
        hunts'[g].st # "none" /\ hunts'[g].tenant = hunts[g].tenant /\ hunts'[g].last = hunts[g].last
  BY <1>1 DEF Edited
<1>6. \A a : AlertOk(a) => AlertOk(a)'
  BY <1>2, <1>5 DEF AlertOk
<1>7. PassOk'
  <2>1. CASE pass = Schedule!Idle
    BY <1>2, <2>1 DEF PassOk
  <2>2. CASE pass # Schedule!Idle
    <3>1. \A g \in DOMAIN pass.row : Loaded(g)'
      <4>1. \A g \in DOMAIN pass.row : g \in Hunt /\ Loaded(g)
        BY <2>2 DEF HuntInv, PassOk
      <4> QED
        BY <1>2, <1>5, <4>1 DEF Loaded, Schedule!Minute
    <3>2. PassRuns' /\ \A a \in pass.alerts : AlertOk(a)'
      BY <1>2, <1>6, <2>2 DEF HuntInv, PassOk, PassRuns
    <3> QED
      BY <1>2, <2>2, <3>1, <3>2 DEF HuntInv, PassOk
  <2> QED
    BY <2>1, <2>2
<1> QED
  BY <1>2, <1>3, <1>4, <1>6, <1>7 DEF HuntInv

\* The schedule after an edit.
LEMMA EditedCaught ==
    ASSUME HuntConstants, HuntInv, NEW h \in Hunt, NEW row, Edited(h, row), Rescheduled(h, row),
           \A g \in Hunt, x \in runs : x.hunt = g /\ (g = h => row.st = "saved") => x \in runs'
    PROVE  Times' /\ Caught'
<1>1. hunts' = [g \in Hunt |-> hunts'[g]] /\ hunts'[h] = row /\ \A g \in Hunt : g # h => hunts'[g] = hunts[g]
  BY EditedOthers
<1>2. now' = now /\ wake' = wake /\ pass' = pass /\ lost' = lost /\ slow' = slow /\ now \in Nat
  BY DEF Edited, HuntInv, Clocks
<1>3. since' = [g \in Hunt |-> since'[g]] /\ \A g \in Hunt : g # h => since'[g] = since[g]
  BY DEF Rescheduled, HuntInv, Times
<1>4. \A g \in Hunt : since'[g] \in Nat /\ since'[g] <= now
  BY <1>2, <1>3 DEF Rescheduled, HuntInv, Times
<1>5. Times'
  BY <1>2, <1>3, <1>4 DEF Times, Rescheduled
<1>6. Frontier' = Frontier /\ Schedule!Minute(now)' = Schedule!Minute(now) /\ Schedule!Minute(wake)' = Schedule!Minute(wake) /\ Schedule!Minute(pass.at)' = Schedule!Minute(pass.at)
  BY <1>2 DEF Frontier, Schedule!Minute
<1>7. ASSUME NEW g \in Hunt, NEW m, Fired(g, m), g = h => row.st = "saved" PROVE Fired(g, m)'
  <2>1. PICK x \in runs : x.hunt = g /\ x.by = "cron" /\ Schedule!Minute(x.at) = m
    BY <1>7 DEF Fired
  <2>2. x \in runs'
    BY <1>7, <2>1
  <2> QED
    BY <2>1, <2>2 DEF Fired, Schedule!Minute
<1>8. ASSUME NEW g \in Hunt, NEW m \in Nat, (~slow /\ m < Frontier) \/ (pass # Schedule!Idle /\ m = Schedule!Minute(pass.at)), Wants(g, m)'
      PROVE  Wants(g, m) /\ (Fired(g, m) => Fired(g, m)')
  <2>1. ~(now < m * PerMinute)
    BY <1>8, PastMinute
  <2>2. CASE g # h
    BY <1>1, <1>3, <1>7, <1>8, <2>2 DEF Wants, Schedule!CronMatches
  <2>3. CASE g = h
    <3>1. row.st = "saved" /\ row.cron # Schedule!None /\ Schedule!CronMatches(row.cron, m) /\ since'[h] < m * PerMinute
      BY <1>1, <1>8, <2>3 DEF Wants, Schedule!CronMatches
    <3>2. since'[h] = since[h] /\ hunts[h].st = "saved" /\ row.cron = hunts[h].cron
      BY <2>1, <3>1 DEF Rescheduled
    <3> QED
      BY <1>7, <2>3, <3>1, <3>2 DEF Wants
  <2> QED
    BY <2>2, <2>3
<1>9. slow' \/ \A g \in Hunt, m \in Nat : m < Frontier' /\ Wants(g, m)' => Fired(g, m)' \/ m \in lost'
  BY <1>2, <1>6, <1>8 DEF HuntInv, Caught
<1>10. pass' # Schedule!Idle => \A g \in Hunt : Wants(g, Schedule!Minute(pass.at))' => g \in DOMAIN pass'.row \/ Fired(g, Schedule!Minute(pass.at))'
  <2> SUFFICES ASSUME pass # Schedule!Idle, NEW g \in Hunt, Wants(g, Schedule!Minute(pass.at))', g \notin DOMAIN pass.row
               PROVE  Fired(g, Schedule!Minute(pass.at))'
    BY <1>2
  <2>1. PICK m : m = Schedule!Minute(pass.at)
    OBVIOUS
  <2>2. m \in Nat
    BY <2>1, MinuteIs DEF HuntInv, PassOk
  <2>3. Wants(g, m)'
    BY <1>6, <2>1 DEF Wants
  <2>4. Wants(g, m) /\ (Fired(g, m) => Fired(g, m)')
    BY <1>8, <2>1, <2>2, <2>3
  <2>5. Fired(g, m)'
    BY <2>1, <2>4 DEF HuntInv, Caught
  <2> QED
    BY <1>6, <2>1, <2>5 DEF Fired
<1> QED
  BY <1>2, <1>5, <1>6, <1>9, <1>10 DEF HuntInv, Caught

\* The runs after an edit.
LEMMA EditedRuns ==
    ASSUME HuntInv, NEW h \in Hunt, NEW row, Edited(h, row), runs' \subseteq runs,
           row.st = "saved" => hunts[h].st \in {"none", "saved"},
           \A g \in Hunt, x \in runs : x.hunt = g /\ (g = h => row.st = "saved") => x \in runs'
    PROVE  RunRows' /\ Schedule!OncePerMinute'
<1>1. hunts'[h] = row /\ \A g \in Hunt : g # h => hunts'[g] = hunts[g]
  BY EditedOthers
<1>2. \A x \in runs' : /\ x = [hunt |-> x.hunt, at |-> x.at, by |-> x.by, ok |-> x.ok]
                       /\ x.hunt \in Hunt /\ x.at \in Nat /\ x.ok \in BOOLEAN
                       /\ x.by = "cron" /\ x.ok => x.at < hunts[x.hunt].last
  BY DEF HuntInv, RunRows
<1>3. ASSUME NEW x \in runs', x.by = "cron", x.ok PROVE x.at < hunts'[x.hunt].last
  <2>1. x.hunt \in Hunt /\ x.at \in Nat /\ x.at < hunts[x.hunt].last
    BY <1>2, <1>3
  <2>2. CASE x.hunt # h
    BY <1>1, <2>1, <2>2
  <2>3. CASE x.hunt = h
    <3>1. hunts[h].st # "none"
      BY <2>1, <2>3 DEF HuntInv, HuntRows
    <3> QED
      BY <1>1, <2>1, <2>3, <3>1 DEF Edited
  <2> QED
    BY <2>2, <2>3
<1>4. ASSUME NEW g \in Hunt, hunts'[g].st = "saved", hunts'[g].last # 0
      PROVE  \E x \in runs' : x.hunt = g /\ x.by = "cron" /\ x.at = hunts'[g].last - 1
  <2>1. hunts[g].st = "saved" /\ hunts[g].last = hunts'[g].last /\ (g = h => row.st = "saved")
    BY <1>1, <1>4 DEF Edited
  <2>2. PICK x \in runs : x.hunt = g /\ x.by = "cron" /\ x.at = hunts[g].last - 1
    BY <1>4, <2>1 DEF HuntInv, RunRows
  <2> QED
    BY <2>1, <2>2
<1>5. RunRows'
  BY <1>2, <1>3, <1>4 DEF RunRows
<1>6. Schedule!OncePerMinute'
  BY DEF HuntInv, Schedule!OncePerMinute, Schedule!Minute
<1> QED
  BY <1>5, <1>6

\* create_saved: the row is new, and an administrator's where it has side effects.
LEMMA CreateSavedKeeps ==
    ASSUME HuntConstants, HuntInv, NEW u \in User, NEW h \in Hunt, Schedule!CreateSaved(u, h) PROVE HuntInv'
<1>1. PICK q \in DOMAIN Matches, c \in DOMAIN Cron \cup {Schedule!None}, a \in BOOLEAN :
        /\ Schedule!Gate(u, a, c) /\ (c # Schedule!None => Schedule!ValidCron(c))
        /\ hunts' = [hunts EXCEPT ![h] = [Schedule!Absent EXCEPT !.st = "saved", !.tenant = TenantOf[u], !.owner = u,
                                                        !.query = q, !.cron = c, !.alert = a]]
        /\ seen' = [seen EXCEPT ![h] = IF u \in Admin THEN {q} ELSE {}]
  BY Zenon DEF Schedule!CreateSaved
<1>2. PICK t : t = TenantOf[u]
  OBVIOUS
<1>3. PICK row : row = [Schedule!Absent EXCEPT !.st = "saved", !.tenant = t, !.owner = u, !.query = q, !.cron = c, !.alert = a]
  OBVIOUS
<1>4. row = [st |-> "saved", tenant |-> t, owner |-> u, query |-> q, cron |-> c, alert |-> a,
             scope |-> Schedule!AllHosts, rule |-> FALSE, last |-> 0]
  BY <1>3 DEF Schedule!Absent
<1>5. hunts' = [hunts EXCEPT ![h] = row] /\ seen' = [seen EXCEPT ![h] = IF u \in Admin THEN {q} ELSE {}]
  BY <1>1, <1>2, <1>3
<1>6. /\ row.st = "saved" /\ row.tenant = t /\ row.query = q /\ row.cron = c /\ row.alert = a /\ row.last = 0
      /\ t # Schedule!None /\ HuntRow(row)
  BY <1>2, <1>4 DEF HuntRow, HuntConstants
<1>7. /\ hunts[h].st = "none" /\ since' = [since EXCEPT ![h] = now] /\ runs' = runs /\ reqs' = reqs /\ raced' = raced
      /\ now' = now /\ wake' = wake /\ pass' = pass /\ lost' = lost /\ slow' = slow /\ hosts' = hosts /\ index' = index
      /\ alerts' = alerts
  BY DEF Schedule!CreateSaved, Schedule!clock
<1>8. Edited(h, row)
  BY <1>5, <1>6, <1>7 DEF Edited
<1>9. Rescheduled(h, row)
  <2>1. since'[h] = now /\ since' = [since EXCEPT ![h] = since'[h]]
    BY <1>7 DEF HuntInv, Times
  <2>2. seen' = [g \in Hunt |-> seen'[g]]
    BY <1>5 DEF HuntInv, Times
  <2> QED
    BY <2>1, <2>2 DEF Rescheduled
<1>10. Schedule!SideEffectsApproved'
  <2>1. hunts'[h] = row /\ \A g \in Hunt : g # h => hunts'[g] = hunts[g]
    BY <1>8, EditedOthers
  <2>2. \A g \in Hunt : g # h => seen'[g] = seen[g]
    BY <1>5 DEF HuntInv, Times
  <2>3. (a \/ c # Schedule!None) => q \in seen'[h]
    BY <1>1, <1>5 DEF HuntInv, Times, Schedule!Gate
  <2> QED
    BY <1>6, <1>7, <2>1, <2>2, <2>3 DEF HuntInv, Schedule!SideEffectsApproved
<1>11. Clocks' /\ HuntRows' /\ PassOk' /\ \A x \in alerts' : AlertOk(x)'
  BY <1>8, EditedRows
<1>12. RunRows' /\ Schedule!OncePerMinute'
  BY <1>6, <1>7, <1>8, EditedRuns
<1>13. Times' /\ Caught'
  BY <1>7, <1>8, <1>9, EditedCaught
<1>14. Reqs'
  BY <1>7, Frames
<1> QED
  BY <1>10, <1>11, <1>12, <1>13, <1>14 DEF HuntInv

\* delete_saved: the row and its runs go, at no cost to the others.
LEMMA CommitDeleteKeeps ==
    ASSUME HuntConstants, HuntInv, NEW r \in Request, Schedule!CommitDelete(r) PROVE HuntInv'
<1>1. PICK h : h = reqs[r].hunt
  OBVIOUS
<1>2. h \in Hunt /\ reqs[r].st = "delete"
  BY <1>1 DEF Schedule!CommitDelete, HuntInv, Reqs, ReqOk
<1>3. PICK old : old = hunts[h]
  OBVIOUS
<1>4. HuntRow(old) /\ (old.st = "none" => old.last = 0)
  BY <1>2, <1>3 DEF HuntInv, HuntRows
<1>5. PICK row : row = [old EXCEPT !.st = "deleted"]
  OBVIOUS
<1>6. hunts' = [hunts EXCEPT ![h] = row] /\ runs' = {x \in runs : x.hunt # h}
  BY <1>1, <1>3, <1>5, Zenon DEF Schedule!CommitDelete
<1>7. row = [st |-> "deleted", tenant |-> old.tenant, owner |-> old.owner, query |-> old.query, cron |-> old.cron,
             alert |-> old.alert, scope |-> old.scope, rule |-> old.rule, last |-> old.last]
  BY <1>4, <1>5 DEF HuntRow
<1>8. HuntRow(row) /\ row.st = "deleted" /\ row.tenant = old.tenant /\ row.last = old.last
  BY <1>4, <1>7 DEF HuntRow
<1>9. /\ now' = now /\ wake' = wake /\ pass' = pass /\ lost' = lost /\ slow' = slow /\ hosts' = hosts /\ index' = index
      /\ alerts' = alerts /\ since' = since /\ seen' = seen /\ raced' = raced /\ reqs' = [reqs EXCEPT ![r] = Schedule!Free]
  BY DEF Schedule!CommitDelete, Schedule!clock, Schedule!history
<1>10. Edited(h, row)
  BY <1>3, <1>4, <1>6, <1>8, <1>9 DEF Edited
<1>11. Rescheduled(h, row)
  <2>1. since' = [since EXCEPT ![h] = since'[h]] /\ seen' = [g \in Hunt |-> seen'[g]]
    BY <1>2, <1>9 DEF HuntInv, Times
  <2> QED
    BY <1>8, <1>9, <2>1 DEF Rescheduled
<1>12. Schedule!SideEffectsApproved'
  <2>1. hunts'[h] = row /\ \A g \in Hunt : g # h => hunts'[g] = hunts[g]
    BY <1>2, <1>10, EditedOthers
  <2> QED
    BY <1>8, <1>9, <2>1 DEF HuntInv, Schedule!SideEffectsApproved
<1>13. Reqs'
  <2>1. ReqOk(Schedule!Free)
    BY DEF ReqOk, Shows, Schedule!Free
  <2> QED
    BY <1>9, <2>1 DEF HuntInv, Reqs
<1>14. Clocks' /\ HuntRows' /\ PassOk' /\ \A x \in alerts' : AlertOk(x)'
  BY <1>2, <1>10, EditedRows
<1>15. RunRows' /\ Schedule!OncePerMinute'
  BY <1>2, <1>6, <1>8, <1>10, EditedRuns
<1>16. Times' /\ Caught'
  BY <1>2, <1>6, <1>8, <1>10, <1>11, EditedCaught
<1> QED
  BY <1>12, <1>13, <1>14, <1>15, <1>16 DEF HuntInv

\* The columns a flush leaves in the row: those of the row it finds, except the patched one.
Flushed(q, old, new) ==
    /\ HuntRow(new) /\ new.st = old.st /\ new.tenant = old.tenant /\ new.last = old.last
    /\ Schedule!Content(old) = Schedule!Content(q.row) =>
         /\ new.query = Schedule!Patched(q.patch, q.row).query
         /\ new.cron = Schedule!Patched(q.patch, q.row).cron /\ new.alert = Schedule!Patched(q.patch, q.row).alert

\* This is what update_saved leaves.
LEMMA FlushIs ==
    ASSUME NEW q, NEW old, HuntRow(q.row), HuntRow(old), q.patch \in Schedule!Patches,
           NEW new, new = IF Schedule!Patched(q.patch, q.row) = q.row THEN old ELSE Schedule!Patched(q.patch, old)
    PROVE  Flushed(q, old, new)
<1>1. PICK p, x : p = q.patch /\ x = q.row
  OBVIOUS
<1>2. PICK y : /\ y = Schedule!Patched(p, x) /\ HuntRow(y)
               /\ y.query = (IF p.column = "query" THEN p.value ELSE x.query)
               /\ y.cron = (IF p.column = "cron" THEN p.value ELSE x.cron)
               /\ y.alert = (IF p.column = "alert" THEN p.value ELSE x.alert)
  BY <1>1, PatchedIs
<1>3. PICK z : /\ z = Schedule!Patched(p, old) /\ HuntRow(z) /\ z.st = old.st /\ z.tenant = old.tenant /\ z.last = old.last
               /\ z.query = (IF p.column = "query" THEN p.value ELSE old.query)
               /\ z.cron = (IF p.column = "cron" THEN p.value ELSE old.cron)
               /\ z.alert = (IF p.column = "alert" THEN p.value ELSE old.alert)
  BY <1>1, PatchedIs
<1>4. ASSUME Schedule!Content(old) = Schedule!Content(x) PROVE old.query = x.query /\ old.cron = x.cron /\ old.alert = x.alert
  BY <1>1, <1>4, ContentSame
<1>5. CASE y = x
  <2>1. new = old
    BY <1>1, <1>2, <1>5
  <2> QED
    BY <1>1, <1>2, <1>4, <1>5, <2>1 DEF Flushed
<1>6. CASE y # x
  <2>1. new = z
    BY <1>1, <1>2, <1>3, <1>6
  <2>2. ASSUME Schedule!Content(old) = Schedule!Content(x) PROVE z.query = y.query /\ z.cron = y.cron /\ z.alert = y.alert
    BY <1>2, <1>3, <1>4, <2>2
  <2> QED
    BY <1>1, <1>2, <1>3, <2>1, <2>2 DEF Flushed
<1> QED
  BY <1>5, <1>6

\* update_saved, at its flush.
LEMMA CommitUpdateKeeps ==
    ASSUME HuntConstants, HuntInv, NEW r \in Request, Schedule!CommitUpdate(r) PROVE HuntInv'
<1>1. PICK q : q = reqs[r]
  OBVIOUS
<1>2. PICK h : h = q.hunt
  OBVIOUS
<1>3. h \in Hunt /\ q.st = "update" /\ Updating(q)
  BY <1>1, <1>2 DEF Schedule!CommitUpdate, HuntInv, Reqs, ReqOk, Updating
<1>4. PICK old, y : old = hunts[h] /\ y = Schedule!Patched(q.patch, q.row)
  OBVIOUS
<1>5. PICK new : new = IF y = q.row THEN old ELSE Schedule!Patched(q.patch, old)
  OBVIOUS
<1>6. IF old.st = "saved"
      THEN /\ hunts' = [hunts EXCEPT ![h] = new]
           /\ since' = IF new.cron = old.cron THEN since ELSE [since EXCEPT ![h] = now]
           /\ seen' = IF q.user \in Admin THEN [seen EXCEPT ![h] = @ \cup {y.query}] ELSE seen
           /\ raced' = IF Schedule!Content(old) = Schedule!Content(q.row) THEN raced ELSE raced \cup {h}
      ELSE UNCHANGED <<hunts, Schedule!history>>
  BY <1>1, <1>2, <1>4, <1>5, Zenon DEF Schedule!CommitUpdate
<1>7. /\ now' = now /\ wake' = wake /\ pass' = pass /\ lost' = lost /\ slow' = slow /\ hosts' = hosts /\ index' = index
      /\ alerts' = alerts /\ runs' = runs /\ reqs' = [reqs EXCEPT ![r] = Schedule!Free]
  BY DEF Schedule!CommitUpdate, Schedule!clock
<1>8. Reqs'
  <2>1. ReqOk(Schedule!Free)
    BY DEF ReqOk, Shows, Schedule!Free
  <2> QED
    BY <1>7, <2>1 DEF HuntInv, Reqs
<1>9. CASE old.st # "saved"
  BY <1>6, <1>7, <1>8, <1>9, RequestKeeps DEF Schedule!history
<1>10. CASE old.st = "saved"
  <2>1. HuntRow(old) /\ old.tenant # Schedule!None
    BY <1>3, <1>4, <1>10 DEF HuntInv, HuntRows
  <2>2. Flushed(q, old, new)
    BY <1>3, <1>4, <1>5, <2>1, FlushIs DEF Updating
  <2>3. Edited(h, new)
    BY <1>4, <1>6, <1>7, <1>10, <2>1, <2>2 DEF Edited, Flushed
  <2>4. Rescheduled(h, new)
    <3>1. seen' = [g \in Hunt |-> seen'[g]]
      BY <1>6, <1>10 DEF HuntInv, Times
    <3>2. since' = [since EXCEPT ![h] = since'[h]] /\ (since'[h] = now \/ (since'[h] = since[h] /\ new.cron = old.cron))
      BY <1>3, <1>6, <1>10 DEF HuntInv, Times
    <3> QED
      BY <1>4, <1>10, <3>1, <3>2 DEF Rescheduled
  <2>5. Schedule!SideEffectsApproved'
    <3>1. hunts'[h] = new /\ \A g \in Hunt : g # h => hunts'[g] = hunts[g]
      BY <1>3, <2>3, EditedOthers
    <3>2. (\A g \in Hunt : seen[g] \subseteq seen'[g]) /\ raced \subseteq raced'
      BY <1>3, <1>6, <1>10 DEF HuntInv, Times
    <3>3. ASSUME new.alert \/ new.cron # Schedule!None, h \notin raced' PROVE new.query \in seen'[h]
      <4>1. Schedule!Content(old) = Schedule!Content(q.row)
        BY <1>6, <1>10, <3>3
      <4>2. new.query = y.query /\ new.cron = y.cron /\ new.alert = y.alert
        BY <1>4, <2>2, <4>1 DEF Flushed
      <4>3. y.alert \/ y.cron # Schedule!None
        BY <3>3, <4>2
      <4>4. q.user \in Admin
        BY <1>3, <1>4, <4>3 DEF Updating, Schedule!GateOnEffect, Schedule!Gate
      <4> QED
        BY <1>3, <1>6, <1>10, <4>2, <4>4 DEF HuntInv, Times
    <3> QED
      BY <3>1, <3>2, <3>3 DEF HuntInv, Schedule!SideEffectsApproved
  <2>6. Clocks' /\ HuntRows' /\ PassOk' /\ \A x \in alerts' : AlertOk(x)'
    BY <1>3, <2>3, EditedRows
  <2>7. RunRows' /\ Schedule!OncePerMinute'
    BY <1>3, <1>4, <1>7, <1>10, <2>3, EditedRuns
  <2>8. Times' /\ Caught'
    BY <1>3, <1>7, <2>3, <2>4, EditedCaught
  <2> QED
    BY <1>8, <2>5, <2>6, <2>7, <2>8 DEF HuntInv
<1> QED
  BY <1>9, <1>10

-----------------------------------------------------------------------------
(* The invariant, and what it says.                                        *)

\* It holds of the empty tables.
LEMMA HuntInit == ASSUME HuntConstants, Schedule!Init PROVE HuntInv
<1>1. now = 0 /\ wake = 0 /\ pass = Schedule!Idle /\ hosts = Host /\ index = {} /\ runs = {} /\ alerts = {} /\ slow = FALSE
  BY DEF Schedule!Init
<1>2. hunts = [h \in Hunt |-> Schedule!Absent] /\ reqs = [r \in Request |-> Schedule!Free]
  BY DEF Schedule!Init
<1>3. HuntRow(Schedule!Absent) /\ Schedule!Absent.st = "none" /\ Schedule!Absent.last = 0
  BY DEF HuntRow, Schedule!Absent
<1>4. Clocks /\ HuntRows /\ PassOk
  BY <1>1, <1>2, <1>3 DEF Clocks, HuntRows, PassOk, HuntConstants
<1>5. RunRows /\ Schedule!OncePerMinute /\ (\A a \in alerts : AlertOk(a)) /\ Schedule!SideEffectsApproved
  BY <1>1, <1>2, <1>3 DEF RunRows, Schedule!OncePerMinute, Schedule!SideEffectsApproved
<1>6. Reqs
  <2>1. ReqOk(Schedule!Free)
    BY DEF ReqOk, Shows, Schedule!Free
  <2> QED
    BY <1>2, <2>1 DEF Reqs
<1>7. Times
  BY <1>1 DEF Schedule!Init, Times
<1>8. Caught
  <2>1. Schedule!Minute(0) \in Nat
    BY MinuteIs
  <2>2. \A h \in Hunt : \A m : ~Wants(h, m)
    BY <1>2, <1>3 DEF Wants
  <2> QED
    BY <1>1, <2>1, <2>2 DEF Caught
<1> QED
  BY <1>4, <1>5, <1>6, <1>7, <1>8 DEF HuntInv

\* Every step keeps it.
LEMMA HuntStep == ASSUME HuntConstants, HuntInv, [Schedule!Next]_(Schedule!vars) PROVE HuntInv'
<1>1. CASE Schedule!Tick \/ Schedule!RunOnce \/ Schedule!FinishRun \/ Schedule!FailRun \/ Schedule!CommitPass \/ Schedule!Restart
  BY <1>1, TickKeeps, RunHuntsKeeps, FinishRunKeeps, FailRunKeeps, CommitHuntPassKeeps, RestartKeeps
<1>2. CASE (\E e \in Event : Schedule!IndexEvent(e)) \/ (\E x \in Host : Schedule!DeleteHost(x))
  BY <1>2, TelemetryKeeps
<1>3. ASSUME NEW h \in Hunt, Schedule!StartRun(h) PROVE HuntInv'
  BY <1>3, StartRunKeeps
<1>4. ASSUME NEW u \in User, NEW h \in Hunt, Schedule!CreateSaved(u, h) PROVE HuntInv'
  BY <1>4, CreateSavedKeeps
<1>5. ASSUME NEW r \in Request, NEW u \in User, NEW h \in Hunt, Schedule!UpdateSaved(r, u, h) \/ Schedule!DeleteSaved(r, u, h) PROVE HuntInv'
  BY <1>5, WriteLoadKeeps
<1>6. ASSUME NEW r \in Request, NEW u \in User, Schedule!RunAdhoc(r, u) \/ \E h \in Hunt : Schedule!RunSaved(r, u, h) PROVE HuntInv'
  BY <1>6, SearchLoadKeeps
<1>7. ASSUME NEW r \in Request, Schedule!CommitUpdate(r) PROVE HuntInv'
  BY <1>7, CommitUpdateKeeps
<1>8. ASSUME NEW r \in Request, Schedule!CommitDelete(r) PROVE HuntInv'
  BY <1>8, CommitDeleteKeeps
<1>9. ASSUME NEW r \in Request, Schedule!AnswerSearch(r) PROVE HuntInv'
  BY <1>9, AnswerKeeps
<1>10. CASE UNCHANGED Schedule!vars
  <2>1. UNCHANGED <<now, wake, hunts, hosts, index, pass, runs, alerts, reqs, since, seen, raced, lost, slow>>
    BY <1>10 DEF Schedule!vars
  <2>2. Reqs'
    BY <2>1, Frames
  <2> QED
    BY <2>1, <2>2, RequestKeeps
<1> QED
  BY <1>1, <1>2, <1>3, <1>4, <1>5, <1>6, <1>7, <1>8, <1>9, <1>10, Zenon DEF Schedule!Next

\* So it is invariant.
LEMMA HuntInvariant == ASSUME HuntConstants PROVE Schedule!Spec => []HuntInv
<1>1. Schedule!Init => HuntInv
  BY HuntInit
<1>2. HuntInv /\ [Schedule!Next]_(Schedule!vars) => HuntInv'
  BY HuntStep
<1> QED
  BY <1>1, <1>2, PTL DEF Schedule!Spec

\* The clocks, rows and requests of hunts are what their types say.
THEOREM HuntsTypes == ASSUME HuntConstants PROVE Schedule!Spec => []Schedule!TypeOK
<1>1. HuntInv => Schedule!TypeOK
  <2> SUFFICES ASSUME HuntInv PROVE Schedule!TypeOK
    OBVIOUS
  <2>1. now \in 0..MaxTime /\ wake \in 0..(MaxTime + Interval)
    BY DEF HuntInv, Clocks, HuntConstants
  <2>2. \A h \in Hunt : hunts[h].st \in {"none", "saved", "deleted"} /\ hunts[h].last \in 0..(MaxTime + 1)
    <3> TAKE h \in Hunt
    <3>1. hunts[h].last \in Nat /\ hunts[h].last <= now + 1
      BY DEF HuntInv, HuntRows, HuntRow
    <3> QED
      BY <2>1, <3>1 DEF HuntInv, HuntRows, HuntConstants
  <2>3. \A a \in alerts : a.hunt \in Hunt /\ a.event \in Event
    BY DEF HuntInv, AlertOk
  <2>4. \A r \in Request : reqs[r].st \in {"free", "update", "delete", "search"}
    BY DEF HuntInv, Reqs, ReqOk
  <2> QED
    BY <2>1, <2>2, <2>3, <2>4 DEF Schedule!TypeOK, HuntInv, HuntRows
<1> QED
  BY <1>1, HuntInvariant, PTL

\* No hunt completes two scheduled runs in one minute, however often the scheduler wakes in it,
\* restarts, or is left with a row it read before a request wrote it (_is_due, run_hunt).
THEOREM OnceAMinute == ASSUME HuntConstants PROVE Schedule!Spec => []Schedule!OncePerMinute
<1>1. HuntInv => Schedule!OncePerMinute
  BY DEF HuntInv
<1> QED
  BY <1>1, HuntInvariant, PTL

\* Every minute a hunt's cron names, from the first after it was scheduled, has a run of it, unless
\* a pass of that minute was lost or some pass was slow (run_forever, run_once).
THEOREM NoMinuteSkipped == ASSUME HuntConstants PROVE Schedule!Spec => []Schedule!MinuteFired
<1>1. HuntInv => Schedule!MinuteFired
  <2> SUFFICES ASSUME HuntInv, NEW h \in Hunt, NEW m \in 0..MaxTime, m < Schedule!Minute(now), Wants(h, m),
                      m \notin lost, ~slow, pass # Schedule!Idle => Schedule!Minute(pass.at) # m /\ ~Schedule!Late(pass)
               PROVE  Fired(h, m)
    BY Zenon DEF Schedule!MinuteFired, Wants, Fired
  <2>1. m \in Nat /\ now \in Nat /\ wake \in Nat /\ Schedule!Minute(now) \in Nat
    BY MinuteIs DEF HuntInv, Clocks, HuntConstants
  <2>2. m < Frontier
    <3>1. CASE pass = Schedule!Idle
      <4>1. now <= wake
        BY <3>1 DEF HuntInv, Clocks
      <4>2. Schedule!Minute(now) <= Schedule!Minute(wake) /\ Schedule!Minute(wake) \in Nat
        BY <2>1, <4>1, MinuteOrder, MinuteIs
      <4> QED
        BY <2>1, <3>1, <4>2 DEF Frontier
    <3>2. CASE pass # Schedule!Idle
      <4>1. pass.at \in Nat /\ Schedule!Minute(pass.at) \in Nat
        BY <3>2, MinuteIs DEF HuntInv, PassOk
      <4>2. ~(Schedule!Minute(pass.at) < m)
        BY <2>1, <3>2, <4>1, LateAfter DEF Schedule!Late
      <4> QED
        BY <2>1, <3>2, <4>1, <4>2 DEF Frontier
    <3> QED
      BY <3>1, <3>2
  <2> QED
    BY <2>1, <2>2 DEF HuntInv, Caught
<1> QED
  BY <1>1, HuntInvariant, PTL

\* A hunt with side effects runs a query an administrator wrote or let stand, unless two requests
\* for it raced (_require_admin_for_side_effects, update_saved).
THEOREM SideEffectsAlwaysApproved == ASSUME HuntConstants PROVE Schedule!Spec => []Schedule!SideEffectsApproved
<1>1. HuntInv => Schedule!SideEffectsApproved
  BY DEF HuntInv
<1> QED
  BY <1>1, HuntInvariant, PTL

\* What a search answers lies in the tenant and the groups of its actor, and what a hunt alerts on
\* in its own tenant and on a host that exists; the alert itself is filed with that tenant or
\* the default one and no third (build_search_body, visible_host_ids, _emit_alerts_for_hits).
THEOREM ResultsAlwaysConfined == ASSUME HuntConstants PROVE Schedule!Spec => []Schedule!ResultsConfined
<1>1. HuntInv => Schedule!ResultsConfined
  <2> SUFFICES ASSUME HuntInv PROVE Schedule!ResultsConfined
    OBVIOUS
  <2>1. \A r \in Request : reqs[r].st = "free" => Shows(reqs[r])
    BY DEF HuntInv, Reqs, ReqOk
  <2>2. \A a \in alerts : /\ HostOf[a.event] \in hosts /\ TenantOf[HostOf[a.event]] = hunts[a.hunt].tenant
                         /\ a.tenant \in {hunts[a.hunt].tenant, DefaultTenant}
    BY DEF HuntInv, AlertOk
  <2> QED
    BY <2>1, <2>2, Zenon DEF Schedule!ResultsConfined, Shows
<1> QED
  BY <1>1, HuntInvariant, PTL

(***************************************************************************)
(* Proofs about signing in (Login).                                        *)
(*                                                                         *)
(* A request writes back, column by column, what it changed of the row it  *)
(* loaded, and rows loaded by several requests are written over each       *)
(* other.  EnabledHasSecret survives that because the two columns change   *)
(* together: the flag is set exactly when there is a secret, in the row,   *)
(* in what each request loaded and in what it will write (Paired), so a    *)
(* request that changes one of them changes both.                          *)
(***************************************************************************)
\* What the proof assumes of the constants: the mark of an empty column is no secret.
LoginConstants == "null" \notin Secret

\* The columns, and the flag set exactly when there is a secret.
LoginColumns(u) ==
    u = [disabled |-> u.disabled, totp_enabled |-> u.totp_enabled, secret |-> u.secret,
         pending |-> u.pending, codes |-> u.codes, sso |-> u.sso]

Typed(u) ==
    /\ u.disabled \in BOOLEAN /\ u.totp_enabled \in BOOLEAN /\ u.sso \in BOOLEAN
    /\ u.pending \in Secret \cup {"null"} /\ u.codes \subseteq Code

Paired(u) ==
    /\ u.secret \in Secret \cup {"null"}
    /\ u.totp_enabled => u.secret # "null"
    /\ ~u.totp_enabled => u.secret = "null"

Good(u) == LoginColumns(u) /\ Typed(u) /\ Paired(u)

\* A request in flight; one that holds the row writes the secret only with the flag.
Held(q) ==
    /\ Good(q.was) /\ Good(q.is)
    /\ q.is.secret # q.was.secret => q.is.totp_enabled # q.was.totp_enabled

LoginInv ==
    /\ Good(user)
    /\ req = [p \in Request |-> req[p]]
    /\ \A p \in Request : req[p].st = "held" => Held(req[p])

\* A request that loads the row holds it as loaded.
LEMMA HoldKeeps ==
  ASSUME LoginInv, NEW p \in Request, NEW u, NEW then, SignIn!Hold(p, u, then), Good(u),
         u.secret # user.secret => u.totp_enabled # user.totp_enabled
  PROVE  LoginInv'
<1> DEFINE r == [st |-> "held", was |-> user, is |-> u, then |-> then]
<1>1. user' = user /\ req' = [req EXCEPT ![p] = r]
  BY DEF SignIn!Hold, SignIn!Become
<1>2. Held(r)
  BY DEF Held, LoginInv
<1> HIDE DEF r
<1>3. req' = [q \in Request |-> req'[q]] /\ \A q \in Request : req'[q] = IF q = p THEN r ELSE req[q]
  BY <1>1 DEF LoginInv
<1>4. \A q \in Request : req'[q].st = "held" => Held(req'[q])
  BY <1>2, <1>3 DEF LoginInv
<1> QED
  BY <1>1, <1>3, <1>4 DEF LoginInv

\* A request that ends, or that does not hold the row, keeps the others.
LEMMA BecomeKeeps ==
  ASSUME LoginInv, NEW p \in Request, NEW r, SignIn!Become(p, r), r.st # "held", Good(user')
  PROVE  LoginInv'
<1>1. req' = [q \in Request |-> req'[q]] /\ \A q \in Request : req'[q] = IF q = p THEN r ELSE req[q]
  BY DEF LoginInv, SignIn!Become
<1>2. ASSUME NEW q \in Request, req'[q].st = "held" PROVE Held(req'[q])
  BY <1>1, <1>2 DEF LoginInv
<1> QED
  BY <1>1, <1>2 DEF LoginInv

\* What the requests write of the row they loaded.
LEMMA EditsGood ==
  ASSUME LoginConstants, NEW u, Good(u)
  PROVE  /\ \A c \in SUBSET Code : Good([u EXCEPT !.codes = c]) /\ [u EXCEPT !.codes = c].secret = u.secret
         /\ \A s \in Secret : Good([u EXCEPT !.pending = s]) /\ [u EXCEPT !.pending = s].secret = u.secret
         /\ \A d \in BOOLEAN : Good([u EXCEPT !.disabled = d]) /\ [u EXCEPT !.disabled = d].secret = u.secret
         /\ \A d \in BOOLEAN : Good([u EXCEPT !.sso = d]) /\ [u EXCEPT !.sso = d].secret = u.secret
<1>1. u = [disabled |-> u.disabled, totp_enabled |-> u.totp_enabled, secret |-> u.secret,
           pending |-> u.pending, codes |-> u.codes, sso |-> u.sso]
  BY DEF Good, LoginColumns
<1>2. Typed(u) /\ Paired(u)
  BY DEF Good
<1>3. ASSUME NEW c \in SUBSET Code
      PROVE  Good([u EXCEPT !.codes = c]) /\ [u EXCEPT !.codes = c].secret = u.secret
  <2>1. [u EXCEPT !.codes = c] = [disabled |-> u.disabled, totp_enabled |-> u.totp_enabled, secret |-> u.secret,
                                  pending |-> u.pending, codes |-> c, sso |-> u.sso]
    BY <1>1
  <2> QED
    BY <1>2, <2>1 DEF Good, LoginColumns, Typed, Paired
<1>4. ASSUME NEW s \in Secret
      PROVE  Good([u EXCEPT !.pending = s]) /\ [u EXCEPT !.pending = s].secret = u.secret
  <2>1. [u EXCEPT !.pending = s] = [disabled |-> u.disabled, totp_enabled |-> u.totp_enabled, secret |-> u.secret,
                                    pending |-> s, codes |-> u.codes, sso |-> u.sso]
    BY <1>1
  <2> QED
    BY <1>2, <2>1 DEF Good, LoginColumns, Typed, Paired
<1>5. ASSUME NEW d \in BOOLEAN
      PROVE  Good([u EXCEPT !.disabled = d]) /\ [u EXCEPT !.disabled = d].secret = u.secret
  <2>1. [u EXCEPT !.disabled = d] = [disabled |-> d, totp_enabled |-> u.totp_enabled, secret |-> u.secret,
                                     pending |-> u.pending, codes |-> u.codes, sso |-> u.sso]
    BY <1>1
  <2> QED
    BY <1>2, <2>1 DEF Good, LoginColumns, Typed, Paired
<1>6. ASSUME NEW d \in BOOLEAN
      PROVE  Good([u EXCEPT !.sso = d]) /\ [u EXCEPT !.sso = d].secret = u.secret
  <2>1. [u EXCEPT !.sso = d] = [disabled |-> u.disabled, totp_enabled |-> u.totp_enabled, secret |-> u.secret,
                                pending |-> u.pending, codes |-> u.codes, sso |-> d]
    BY <1>1
  <2> QED
    BY <1>2, <2>1 DEF Good, LoginColumns, Typed, Paired
<1> QED
  BY <1>3, <1>4, <1>5, <1>6

\* Four columns written one after the other.
LEMMA FourColumns ==
  ASSUME NEW u, LoginColumns(u), NEW e, NEW s, NEW w, NEW c
  PROVE  [u EXCEPT !.totp_enabled = e, !.secret = s, !.pending = w, !.codes = c]
           = [disabled |-> u.disabled, totp_enabled |-> e, secret |-> s, pending |-> w, codes |-> c, sso |-> u.sso]
<1>1. PICK u1 : u1 = [u EXCEPT !.totp_enabled = e]
  OBVIOUS
<1>2. u1 = [disabled |-> u.disabled, totp_enabled |-> e, secret |-> u.secret, pending |-> u.pending,
            codes |-> u.codes, sso |-> u.sso]
  BY <1>1 DEF LoginColumns
<1>3. PICK u2 : u2 = [u1 EXCEPT !.secret = s]
  OBVIOUS
<1>4. u2 = [disabled |-> u.disabled, totp_enabled |-> e, secret |-> s, pending |-> u.pending,
            codes |-> u.codes, sso |-> u.sso]
  BY <1>2, <1>3
<1>5. PICK u3 : u3 = [u2 EXCEPT !.pending = w]
  OBVIOUS
<1>6. u3 = [disabled |-> u.disabled, totp_enabled |-> e, secret |-> s, pending |-> w, codes |-> u.codes, sso |-> u.sso]
  BY <1>4, <1>5
<1>7. [u3 EXCEPT !.codes = c]
        = [disabled |-> u.disabled, totp_enabled |-> e, secret |-> s, pending |-> w, codes |-> c, sso |-> u.sso]
  BY <1>6
<1>8. [u EXCEPT !.totp_enabled = e, !.secret = s, !.pending = w, !.codes = c] = [u3 EXCEPT !.codes = c]
  BY <1>1, <1>3, <1>5
<1> QED
  BY <1>7, <1>8

\* A row with these columns pairs flag and secret.
LEMMA SwitchedGood ==
  ASSUME NEW u, Good(u), NEW e \in BOOLEAN, NEW s \in Secret \cup {"null"}, NEW c \in SUBSET Code, NEW w,
         e => s # "null", ~e => s = "null",
         w = [disabled |-> u.disabled, totp_enabled |-> e, secret |-> s, pending |-> "null", codes |-> c, sso |-> u.sso]
  PROVE  Good(w)
<1>1. /\ w.disabled = u.disabled /\ w.totp_enabled = e /\ w.secret = s /\ w.pending = "null"
      /\ w.codes = c /\ w.sso = u.sso
  OBVIOUS
<1>2. LoginColumns(w)
  BY <1>1 DEF LoginColumns
<1>3. Typed(u)
  BY DEF Good
<1>4. Typed(w)
  BY <1>1, <1>3 DEF Typed
<1>5. Paired(w)
  BY <1>1 DEF Paired
<1> QED
  BY <1>2, <1>4, <1>5 DEF Good

\* Switching the second factor off empties both columns, ...
LEMMA SwitchedOff ==
  ASSUME LoginConstants, NEW u, Good(u)
  PROVE  Good(SignIn!Clear2fa(u)) /\ (SignIn!Clear2fa(u).secret # u.secret => SignIn!Clear2fa(u).totp_enabled # u.totp_enabled)
<1>0. PICK w : w = [u EXCEPT !.totp_enabled = FALSE, !.secret = "null", !.pending = "null", !.codes = {}]
  OBVIOUS
<1>1. LoginColumns(u) /\ SignIn!Clear2fa(u) = w
  BY <1>0 DEF Good, SignIn!Clear2fa
<1>2. w = [disabled |-> u.disabled, totp_enabled |-> FALSE, secret |-> "null", pending |-> "null",
                     codes |-> {}, sso |-> u.sso]
  BY <1>0, <1>1, FourColumns, Zenon
<1>3. FALSE \in BOOLEAN /\ "null" \in Secret \cup {"null"} /\ {} \in SUBSET Code
  OBVIOUS
<1>4. Good(w)
  BY <1>2, <1>3, SwitchedGood, Zenon
<1>5. w.secret = "null" /\ w.totp_enabled = FALSE
  BY <1>2
<1>6. u.totp_enabled => w.totp_enabled # u.totp_enabled
  BY <1>5, Zenon
<1>7. ~u.totp_enabled => w.secret = u.secret
  BY <1>5 DEF Good, Paired
<1> QED
  BY <1>1, <1>4, <1>6, <1>7, Zenon

\* ... and switching it on fills both.
LEMMA SwitchedOn ==
  ASSUME LoginConstants, NEW u, Good(u), ~u.totp_enabled, u.pending # "null", NEW w,
         w = [u EXCEPT !.secret = u.pending, !.pending = "null", !.totp_enabled = TRUE, !.codes = Code]
  PROVE  Good(w) /\ w.totp_enabled # u.totp_enabled
<1>1. LoginColumns(u)
  BY DEF Good
<1>2. PICK s \in Secret : s = u.pending
  BY DEF Good, Typed
<1>3. ASSUME NEW e
      PROVE  [u EXCEPT !.secret = s, !.pending = "null", !.totp_enabled = e, !.codes = Code]
               = [u EXCEPT !.totp_enabled = e, !.secret = s, !.pending = "null", !.codes = Code]
  <2>1. PICK u1 : u1 = [u EXCEPT !.totp_enabled = e]
    OBVIOUS
  <2>2. [u1 EXCEPT !.secret = s, !.pending = "null"] = [u EXCEPT !.secret = s, !.pending = "null", !.totp_enabled = e]
    BY <1>1, <2>1 DEF LoginColumns
  <2> QED
    BY <2>1, <2>2
<1>4. w = [u EXCEPT !.totp_enabled = TRUE, !.secret = s, !.pending = "null", !.codes = Code]
  BY <1>2, <1>3, Zenon
<1>5. w = [disabled |-> u.disabled, totp_enabled |-> TRUE, secret |-> s, pending |-> "null", codes |-> Code, sso |-> u.sso]
  BY <1>1, <1>4, FourColumns, Zenon
<1>6. s # "null" /\ TRUE \in BOOLEAN /\ s \in Secret \cup {"null"} /\ Code \in SUBSET Code
  BY <1>2 DEF LoginConstants
<1>7. Good(w)
  BY <1>5, <1>6, SwitchedGood, Zenon
<1>8. w.totp_enabled = TRUE
  BY <1>5
<1> QED
  BY <1>7, <1>8, Zenon

\* The commit writes the columns the request changed over whatever the row is by then.
LEMMA CommitGood ==
  ASSUME LoginInv, NEW p \in Request, SignIn!CommitRequest(p)
  PROVE  Good(user')
<1> DEFINE q == req[p]
<1>1. Held(q) /\ Good(user)
  BY DEF LoginInv, SignIn!CommitRequest
<1>2. user' = [f \in DOMAIN user |-> IF q.is[f] # q.was[f] THEN q.is[f] ELSE user[f]]
  BY Zenon DEF SignIn!CommitRequest
<1> HIDE DEF q
<1>3. PICK w, v : w = q.is /\ v = q.was
  OBVIOUS
<1>4. /\ LoginColumns(w) /\ LoginColumns(v) /\ LoginColumns(user)
      /\ Typed(w) /\ Typed(v) /\ Typed(user) /\ Paired(w) /\ Paired(v) /\ Paired(user)
      /\ w.secret # v.secret => w.totp_enabled # v.totp_enabled
  BY <1>1, <1>3 DEF Held, Good
<1>5. DOMAIN user = {"disabled", "totp_enabled", "secret", "pending", "codes", "sso"}
  BY <1>4 DEF LoginColumns
<1>6. user' = [disabled |-> user'.disabled, totp_enabled |-> user'.totp_enabled, secret |-> user'.secret,
               pending |-> user'.pending, codes |-> user'.codes, sso |-> user'.sso]
  BY <1>2, <1>5
<1>7. /\ user'.disabled = IF w.disabled # v.disabled THEN w.disabled ELSE user.disabled
      /\ user'.totp_enabled = IF w.totp_enabled # v.totp_enabled THEN w.totp_enabled ELSE user.totp_enabled
      /\ user'.secret = IF w.secret # v.secret THEN w.secret ELSE user.secret
      /\ user'.pending = IF w.pending # v.pending THEN w.pending ELSE user.pending
      /\ user'.codes = IF w.codes # v.codes THEN w.codes ELSE user.codes
      /\ user'.sso = IF w.sso # v.sso THEN w.sso ELSE user.sso
  BY <1>2, <1>3, <1>5
<1>8. Typed(user)'
  BY <1>4, <1>7 DEF Typed
<1>9. Paired(user)'
  <2>1. CASE w.totp_enabled # v.totp_enabled
    <3>1. (w.totp_enabled /\ ~v.totp_enabled) \/ (~w.totp_enabled /\ v.totp_enabled)
      BY <1>4, <2>1, Zenon DEF Typed
    <3>2. w.secret # v.secret
      BY <1>4, <3>1 DEF Paired
    <3> QED
      BY <1>4, <1>7, <2>1, <3>2 DEF Paired
  <2>2. CASE w.totp_enabled = v.totp_enabled
    <3>1. w.secret = v.secret
      BY <1>4, <2>2
    <3> QED
      BY <1>4, <1>7, <2>2, <3>1 DEF Paired
  <2> QED
    BY <2>1, <2>2
<1> QED
  BY <1>6, <1>8, <1>9 DEF Good, LoginColumns

\* Every step keeps the invariant.
LEMMA LoginInvariant == ASSUME LoginConstants PROVE SignIn!Spec => []LoginInv
<1>1. SignIn!Init => LoginInv
  <2> SUFFICES ASSUME SignIn!Init PROVE LoginInv
    OBVIOUS
  <2>1. user = [disabled |-> FALSE, totp_enabled |-> FALSE, secret |-> "null", pending |-> "null",
                codes |-> {}, sso |-> FALSE]
    BY Zenon DEF SignIn!Init
  <2>2. LoginColumns(user) /\ Typed(user) /\ Paired(user)
    BY <2>1 DEF LoginColumns, Typed, Paired
  <2>3. req = [p \in Request |-> req[p]] /\ \A p \in Request : req[p].st # "held"
    BY DEF SignIn!Init, SignIn!Idle
  <2> QED
    BY <2>2, <2>3 DEF LoginInv, Good
<1>2. LoginInv /\ [SignIn!Next]_(SignIn!vars) => LoginInv'
  <2> SUFFICES ASSUME LoginInv, [SignIn!Next]_(SignIn!vars) PROVE LoginInv'
    OBVIOUS
  <2>0. Good(user)
    BY DEF LoginInv
  <2>1. CASE SignIn!Tick
    BY <2>1 DEF SignIn!Tick, LoginInv
  <2>2. ASSUME NEW p \in Request, SignIn!LoginArrives(p) PROVE LoginInv'
    <3>1. user' = user /\ SignIn!Become(p, IF SignIn!IsLoginBlocked THEN SignIn!Idle ELSE [st |-> "password"])
      BY <2>2 DEF SignIn!LoginArrives
    <3>2. PICK r : r = IF SignIn!IsLoginBlocked THEN SignIn!Idle ELSE [st |-> "password"]
      OBVIOUS
    <3>3. r.st # "held"
      BY <3>2 DEF SignIn!Idle
    <3> QED
      BY <2>0, <3>1, <3>2, <3>3, BecomeKeeps
  <2>3. ASSUME NEW p \in Request, SignIn!AuthenticateFails(p) PROVE LoginInv'
    <3>1. user' = user /\ SignIn!Become(p, [st |-> "failed"])
      BY <2>3 DEF SignIn!AuthenticateFails
    <3> QED
      BY <2>0, <3>1, BecomeKeeps
  <2>4. ASSUME NEW p \in Request, SignIn!RecordLoginFailure(p) \/ SignIn!AuthenticateSucceeds(p) PROVE LoginInv'
    <3>1. user' = user /\ SignIn!Become(p, SignIn!Idle)
      BY <2>4 DEF SignIn!RecordLoginFailure, SignIn!AuthenticateSucceeds
    <3> QED
      BY <2>0, <3>1, BecomeKeeps DEF SignIn!Idle
  <2>5. ASSUME NEW p \in Request, SignIn!Login2fa(p) PROVE LoginInv'
    <3>1. PICK left \in SignIn!Consume2faCode : SignIn!Hold(p, [user EXCEPT !.codes = left], "session")
      BY <2>5 DEF SignIn!Login2fa
    <3>2. left \in SUBSET Code
      BY <2>0, <3>1 DEF SignIn!Consume2faCode, Good, Typed
    <3> QED
      BY <2>0, <3>1, <3>2, EditsGood, HoldKeeps
  <2>6. ASSUME NEW p \in Request, SignIn!Login2faFails(p) PROVE LoginInv'
    BY <2>6 DEF SignIn!Login2faFails, LoginInv
  <2>7. ASSUME NEW p \in Request, SignIn!TotpSetup(p) PROVE LoginInv'
    <3>1. PICK s \in Secret : SignIn!Hold(p, [user EXCEPT !.pending = s], "nothing")
      BY <2>7 DEF SignIn!TotpSetup
    <3> QED
      BY <2>0, <3>1, EditsGood, HoldKeeps
  <2>8. ASSUME NEW p \in Request, SignIn!TotpVerifySetup(p) PROVE LoginInv'
    <3>1. PICK w : w = [user EXCEPT !.secret = user.pending, !.pending = "null",
                                    !.totp_enabled = TRUE, !.codes = Code]
      OBVIOUS
    <3>2. ~user.totp_enabled /\ user.pending # "null" /\ SignIn!Hold(p, w, "nothing")
      BY <2>8, <3>1, Zenon DEF SignIn!TotpVerifySetup
    <3>3. Good(w) /\ w.totp_enabled # user.totp_enabled
      BY <2>0, <3>1, <3>2, SwitchedOn, Zenon
    <3> QED
      BY <3>2, <3>3, HoldKeeps
  <2>9. ASSUME NEW p \in Request, SignIn!TotpDisable(p) \/ SignIn!AdminDisable2fa(p) PROVE LoginInv'
    <3>1. SignIn!Hold(p, SignIn!Clear2fa(user), "nothing")
      BY <2>9 DEF SignIn!TotpDisable, SignIn!AdminDisable2fa
    <3> QED
      BY <2>0, <3>1, SwitchedOff, HoldKeeps
  <2>10. ASSUME NEW p \in Request, SignIn!UpdateUser(p) PROVE LoginInv'
    <3>1. PICK d \in BOOLEAN : SignIn!Hold(p, [user EXCEPT !.disabled = d], "nothing")
      BY <2>10 DEF SignIn!UpdateUser
    <3> QED
      BY <2>0, <3>1, EditsGood, HoldKeeps
  <2>11. ASSUME NEW p \in Request, SignIn!OidcCallback(p) PROVE LoginInv'
    <3>1. PICK then : SignIn!Hold(p, [user EXCEPT !.sso = TRUE], then)
      BY <2>11, Zenon DEF SignIn!OidcCallback
    <3>2. PICK w : w = [user EXCEPT !.sso = TRUE]
      OBVIOUS
    <3>3. Good(w) /\ w.secret = user.secret
      BY <2>0, <3>2, EditsGood, Zenon
    <3>4. SignIn!Hold(p, w, then)
      BY <3>1, <3>2, Zenon
    <3> QED
      BY <3>3, <3>4, HoldKeeps
  <2>12. ASSUME NEW p \in Request, SignIn!CommitRequest(p) PROVE LoginInv'
    <3>1. SignIn!Become(p, SignIn!Idle)
      BY <2>12 DEF SignIn!CommitRequest
    <3> QED
      BY <2>12, <3>1, CommitGood, BecomeKeeps DEF SignIn!Idle
  <2>13. CASE UNCHANGED SignIn!vars
    BY <2>13 DEF SignIn!vars, LoginInv
  <2> QED
    BY <2>1, <2>2, <2>3, <2>4, <2>5, <2>6, <2>7, <2>8, <2>9, <2>10, <2>11, <2>12, <2>13 DEF SignIn!Next
<1> QED
  BY <1>1, <1>2, PTL DEF SignIn!Spec

\* However enrollment, disabling, the administrator's reset, sign-on and sign-in interleave,
\* for any number of requests, an account that asks for a second factor has the secret to
\* check it with (api/auth.py): stale rows are written over each other, and never so that
\* the flag stays and the secret goes.
THEOREM SecretAlwaysThere == ASSUME LoginConstants PROVE SignIn!Spec => []SignIn!EnabledHasSecret
<1>1. LoginInv => SignIn!EnabledHasSecret
  BY DEF LoginInv, Good, Paired, SignIn!EnabledHasSecret
<1> QED
  BY <1>1, LoginInvariant, PTL
=============================================================================
