---------------------------- MODULE RateLimiter -----------------------------
(***************************************************************************)
(* The fixed-window limiter of POST /chat/messages                         *)
(* (app/redis_cache/rate_limiter.py) on one key: INCR, then EXPIRE by the  *)
(* request that got 1, then the decision.  INCR and EXPIRE are two Redis   *)
(* calls of a process that can stop between them.                          *)
(***************************************************************************)
EXTENDS Naturals, FiniteSets

CONSTANTS Request,      \* the requests that hit the key
          Limit,        \* rate_limit_per_user_per_min
          Window,       \* window_seconds, in ticks of the clock
          MaxTime       \* bound on the clock

\* expires of a counter without a TTL
Never == MaxTime + Window + 1

ASSUME LimiterAssumption ==
    /\ Limit \in Nat \ {0} /\ Window \in Nat \ {0} /\ MaxTime \in Nat
    /\ IsFiniteSet(Request)

VARIABLES
    pc,         \* where each request is; "limited" got 429, "failed" no answer
    current,    \* what its INCR returned
    count,      \* the counter in Redis, 0 when there is none
    expires,    \* when it expires
    now,        \* the clock
    window,     \* history: how many counters were made
    hit         \* history: when, and in which window, each request did its INCR

vars == <<pc, current, count, expires, now, window, hit>>

Init ==
    /\ pc = [r \in Request |-> "incr"]
    /\ current = [r \in Request |-> 0]
    /\ count = 0 /\ expires = Never /\ now = 0
    /\ window = 0
    /\ hit = [r \in Request |-> [time |-> 0, window |-> 0]]

Goto(r, loc) == pc' = [pc EXCEPT ![r] = loc]

\* Bug of Incr: the value before the increment is compared with 1.
IncrThenSecondExpires(r) ==
    /\ pc[r] = "incr"
    /\ count' = count + 1
    /\ current' = [current EXCEPT ![r] = count + 1]
    /\ window' = IF count = 0 THEN window + 1 ELSE window
    /\ hit' = [hit EXCEPT ![r] = [time |-> now, window |-> window']]
    /\ Goto(r, IF count = 1 THEN "expire" ELSE "decide")
    /\ UNCHANGED <<expires, now>>

\* A key that does not exist counts as 0 and is made without a TTL.
Incr(r) ==
    /\ pc[r] = "incr"
    /\ count' = count + 1
    /\ current' = [current EXCEPT ![r] = count + 1]
    /\ window' = IF count = 0 THEN window + 1 ELSE window
    /\ hit' = [hit EXCEPT ![r] = [time |-> now, window |-> window']]
    /\ Goto(r, IF count + 1 = 1 THEN "expire" ELSE "decide")
    /\ UNCHANGED <<expires, now>>

\* Bug of Expire: the TTL is given in milliseconds.
ExpireInMilliseconds(r) ==
    /\ pc[r] = "expire"
    /\ expires' = now + 1000 * Window
    /\ Goto(r, "decide")
    /\ UNCHANGED <<current, count, now, window, hit>>

\* Until this EXPIRE the key cannot go away: it has no TTL.
Expire(r) ==
    /\ pc[r] = "expire"
    /\ expires' = now + Window
    /\ Goto(r, "decide")
    /\ UNCHANGED <<current, count, now, window, hit>>

\* Bug of Admit: one request too many.
AdmitOneMore(r) ==
    /\ pc[r] = "decide"
    /\ current[r] <= Limit + 1
    /\ Goto(r, "admitted")
    /\ UNCHANGED <<current, count, expires, now, window, hit>>

Admit(r) ==
    /\ pc[r] = "decide"
    /\ current[r] <= Limit
    /\ Goto(r, "admitted")
    /\ UNCHANGED <<current, count, expires, now, window, hit>>

Reject(r) ==
    /\ pc[r] = "decide"
    /\ current[r] > Limit
    /\ Goto(r, "limited")
    /\ UNCHANGED <<current, count, expires, now, window, hit>>

\* Redis fails, or the process stops, between INCR and EXPIRE.
Fail(r) ==
    /\ pc[r] = "expire"
    /\ Goto(r, "failed")
    /\ UNCHANGED <<current, count, expires, now, window, hit>>

\* Time passes; Redis drops a counter whose time has come.
Tick ==
    /\ now < MaxTime
    /\ now' = now + 1
    /\ IF expires <= now'
       THEN count' = 0 /\ expires' = Never
       ELSE UNCHANGED <<count, expires>>
    /\ UNCHANGED <<pc, current, window, hit>>

Next ==
    \/ \E r \in Request : Incr(r) \/ Expire(r) \/ Admit(r) \/ Reject(r) \/ Fail(r)
    \/ Tick

Spec == Init /\ [][Next]_vars
-----------------------------------------------------------------------------
\* The counter, its end and the requests are well formed.
TypeOK ==
    /\ pc \in [Request -> {"incr", "expire", "decide", "admitted", "limited", "failed"}]
    /\ current \in [Request -> Nat]
    /\ count \in Nat /\ expires \in 0..Never /\ now \in 0..MaxTime /\ window \in Nat
    /\ hit \in [Request -> [time : 0..MaxTime, window : Nat]]

Admitted == {r \in Request : pc[r] = "admitted"}

\* However the two Redis calls of the requests interleave, and whichever of
\* them fail, one window admits no more than Limit requests, and two minutes'
\* windows can meet in one minute but never three.
WindowsAreLimited ==
    /\ \A w \in 1..window : Cardinality({r \in Admitted : hit[r].window = w}) <= Limit
    /\ \A t \in 0..MaxTime :
          Cardinality({r \in Admitted : hit[r].time \in t..(t + Window - 1)}) <= 2 * Limit

\* rate_limiter.py:7, "Fixed-window rate limiter backed by Redis INCR + TTL":
\* every counter expires within a window, except that of a request that was
\* the first of its window and has not got to its EXPIRE, or never will.  No
\* other request, however it interleaves, leaves a counter without a TTL.
WindowCloses ==
    count > 0 => \/ expires <= now + Window
                 \/ \E r \in Request : /\ hit[r].window = window /\ current[r] = 1
                                       /\ pc[r] \in {"expire", "failed"}
=============================================================================
