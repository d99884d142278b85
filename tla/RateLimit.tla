------------------------------ MODULE RateLimit ------------------------------
(***************************************************************************)
(* The per-identity limit on API requests (core/rate_limit.py): a sliding  *)
(* window in the memory of one manager, or counters per wall minute in     *)
(* Redis that several managers share.                                      *)
(*                                                                         *)
(* The store in memory answers within one step of the event loop.  A call  *)
(* to Redis reads the manager's clock first and counts when Redis gets to  *)
(* it; that clock may lead that of Redis, and one that lags looks like a   *)
(* slow call.  The clock of one manager does not go back.  Paths that are  *)
(* exempt touch nothing.                                                   *)
(***************************************************************************)
EXTENDS Naturals, Sequences, SequencesExt, FiniteSetsExt

CONSTANTS
    Caller,     \* [bearer, role, sub, ip]; bearer "none", "api", "jwt" or "bad" (does not decode)
    Limits,     \* LIMITS, by role
    Window,     \* WINDOW_S
    GcInterval,
    Call,       \* calls to Redis that may be under way at once
    Lead,       \* how far a manager's clock may be ahead of Redis
    MaxTime, MaxRequest

VARIABLES
    now, store, \* store: "memory" or "redis", chosen when the manager starts
    buckets,    \* InMemoryStore._buckets: hits by key
    lastGc,
    counters,   \* keys of Redis: counters[<<key, minute>>] = [n, ends]
    calls,      \* calls[i]: a call to Redis, or Free
    served,     \* history: the requests that were answered: [key, at, ok]
    made,
    stray       \* history: counters made before their minute or after it

vars == <<now, store, buckets, lastGc, counters, calls, served, made, stray>>

Free == [st |-> "free"]
Start == GcInterval + 1     \* the clock is past the time the first gc compares with

Init ==
    /\ now = Start /\ store \in {"memory", "redis"}
    /\ buckets = << >> /\ lastGc = 0 /\ counters = << >> /\ calls = [i \in Call |-> Free]
    /\ served = << >> /\ made = 0 /\ stray = {}

Tick == now < Start + MaxTime /\ now' = now + 1 /\ UNCHANGED <<store, buckets, lastGc, counters, calls, served, made, stray>>

Request == made < MaxRequest /\ made' = made + 1
Without(f, D) == [x \in DOMAIN f \ D |-> f[x]]
With(f, k, v) == [x \in DOMAIN f \cup {k} |-> IF x = k THEN v ELSE f[x]]

\* _classify: a user is one bucket per role, whatever tokens it uses; who cannot be told
\* is its address.
Classify(c) ==
    CASE c.bearer = "api" -> [role |-> "api_token", key |-> <<c.sub, "api_token">>]
      [] c.bearer = "jwt" /\ c.role \in DOMAIN Limits -> [role |-> c.role, key |-> <<c.sub, c.role>>]
      [] OTHER -> [role |-> "anon", key |-> <<c.ip, "anon">>]

Serve(key, at, ok) == served' = Append(served, [key |-> key, at |-> at, ok |-> ok])

-----------------------------------------------------------------------------
(* InMemoryStore.                                                          *)

\* gc drops the buckets whose last hit has left the window.
DeadByFirst(hits, cutoff) == hits = << >> \/ Head(hits) < cutoff
Dead(hits, cutoff) == hits = << >> \/ Last(hits) < cutoff

GcDue == now - lastGc > GcInterval
Collected == IF GcDue THEN Without(buckets, {k \in DOMAIN buckets : Dead(buckets[k], now - Window)}) ELSE buckets

\* _SlidingWindow.admit drops what is older than the window, not what is as old.
LiveWithin(hits, cutoff) == SelectSeq(hits, LAMBDA h : h > cutoff)
Live(hits, cutoff) == SelectSeq(hits, LAMBDA h : h >= cutoff)

\* dispatch
AdmitInMemory(c) ==
    /\ store = "memory" /\ Request
    /\ LET id == Classify(c)
           hits == Live(IF id.key \in DOMAIN Collected THEN Collected[id.key] ELSE << >>, now - Window)
           ok == Len(hits) < Limits[id.role]
       IN  /\ buckets' = With(Collected, id.key, IF ok THEN Append(hits, now) ELSE hits)
           /\ Serve(id.key, now, ok)
    /\ lastGc' = IF GcDue THEN now ELSE lastGc
    /\ UNCHANGED <<now, store, counters, calls, stray>>

-----------------------------------------------------------------------------
(* RedisStore.                                                             *)

MinuteOf(t) == t \div Window

Dispatch(i, c) ==
    /\ store = "redis" /\ calls[i] = Free /\ Request
    /\ \E t \in now..(now + Lead) :
        calls' = [calls EXCEPT ![i] = [st |-> "sent", id |-> Classify(c), at |-> t]]
    /\ UNCHANGED <<now, store, buckets, lastGc, counters, served, stray>>

\* The script counts and sets the expiry of a counter it makes; Redis drops it in time.
\* A later manager of the same minute finds the counter its first request made.
AliveCounters == {k \in DOMAIN counters : counters[k].ends > now}
Incr(k) == IF k \in AliveCounters THEN [counters[k] EXCEPT !.n = @ + 1] ELSE [n |-> 1, ends |-> now + Window]
OverByOne(n, limit) == n > limit + 1
Over(n, limit) == n > limit

Increment(i) ==
    LET k == <<calls[i].id.key, MinuteOf(calls[i].at)>>
    IN  /\ counters' = With([x \in AliveCounters |-> counters[x]], k, Incr(k))
        /\ stray' = IF k \notin AliveCounters /\ MinuteOf(now) # k[2] THEN stray \cup {k} ELSE stray

Count(i) ==
    /\ calls[i] # Free /\ Increment(i)
    /\ LET id == calls[i].id
       IN  Serve(id.key, calls[i].at, ~Over(Incr(<<id.key, MinuteOf(calls[i].at)>>).n, Limits[id.role]))
    /\ calls' = [calls EXCEPT ![i] = Free]
    /\ UNCHANGED <<now, store, buckets, lastGc, made>>

\* Redis cannot be reached: the request fails, counted or not.
CallFails(i) ==
    /\ calls[i] # Free
    /\ Increment(i) \/ UNCHANGED <<counters, stray>>
    /\ calls' = [calls EXCEPT ![i] = Free]
    /\ UNCHANGED <<now, store, buckets, lastGc, served, made>>

-----------------------------------------------------------------------------
Next ==
    \/ Tick
    \/ \E c \in Caller : AdmitInMemory(c)
    \/ \E i \in Call, c \in Caller : Dispatch(i, c)
    \/ \E i \in Call : Count(i) \/ CallFails(i)

Spec == Init /\ [][Next]_vars

-----------------------------------------------------------------------------
TypeOK ==
    /\ now \in Start..(Start + MaxTime) /\ store \in {"memory", "redis"} /\ lastGc \in 0..now
    /\ \A k \in DOMAIN buckets : \A n \in DOMAIN buckets[k] : buckets[k][n] \in Start..now
    /\ \A k \in DOMAIN counters : counters[k].n \in 1..MaxRequest
    /\ made \in 0..MaxRequest

Keys == {served[n].key : n \in DOMAIN served}
LimitOf(key) == Limits[key[2]]

\* How many of the first n answered requests let key in at a time in T.
Admitted(n, key, T) == Cardinality({i \in 1..n : served[i].key = key /\ served[i].ok /\ served[i].at \in T})

\* The window in memory is exact, whatever buckets were collected in between: no span
\* of its length holds more admitted requests of an identity than its limit, and one
\* is refused only when the span before it holds as many (InMemoryStore.gc,
\* _SlidingWindow.admit).
WindowExact ==
    store = "memory" =>
        /\ \A key \in Keys, t \in Start..now : Admitted(Len(served), key, (t - Window)..t) <= LimitOf(key)
        /\ \A n \in DOMAIN served :
            LET x == served[n]
            IN  ~x.ok => Admitted(n, x.key, (x.at - Window)..x.at) = LimitOf(x.key)

\* In Redis no wall minute admits more, over all managers, so no span of a minute more
\* than twice that; unless its counter was made outside of it, by a call that came after
\* the minute was over or by a manager whose clock leads: such a counter expires within
\* the minute, or is its second (RedisStore.admit).
MinuteBounded ==
    store = "redis" =>
        \A key \in Keys, m \in MinuteOf(Start)..MinuteOf(now + Lead) :
            <<key, m>> \in stray
            \/ Admitted(Len(served), key, (m * Window)..((m + 1) * Window - 1)) <= LimitOf(key)

\* That the bound is "within ±1 request of the in-memory shape over any 60-second span"
\* (rate_limit.py:14) does not hold: around the turn of a minute it is twice the limit.
WithinOne ==
    store = "redis" =>
        \A key \in Keys, t \in Start..now : Admitted(Len(served), key, (t - Window + 1)..t) <= LimitOf(key) + 1
=============================================================================
