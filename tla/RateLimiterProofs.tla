------------------------- MODULE RateLimiterProofs --------------------------
(***************************************************************************)
(* RateLimiter for any number of requests, any limit and any window.  A    *)
(* counter without a TTL has exactly one culprit, the request that made it.*)
(* And a window admits at most Limit requests because INCR gives each its  *)
(* own number; three windows never meet because the one in the middle lasts*)
(* Window from an EXPIRE that is not before its first INCR.                *)
(***************************************************************************)
EXTENDS RateLimiter, FiniteSetTheorems, TLAPS

\* The requests that have done their INCR.
Began == {r \in Request : pc[r] # "incr"}

\* A missing counter has no TTL; one whose EXPIRE is outstanding has none either,
\* is the current one and waits for the request that made it.
CounterInv ==
    /\ count = 0 => expires = Never
    /\ \A r \in Request : pc[r] = "expire" =>
          hit[r].window = window /\ current[r] = 1 /\ expires = Never /\ count > 0

\* A number belongs to one request of the window, and the counter is not below it.
NumberInv ==
    /\ \A r \in Began :
          /\ hit[r].window <= window /\ hit[r].time <= now
          /\ hit[r].window = window /\ count > 0 => current[r] <= count
          /\ current[r] >= 1
    /\ \A q, r \in Began : q # r /\ hit[q].window = hit[r].window => current[q] # current[r]
    /\ \A r \in Admitted : current[r] <= Limit

\* The INCRs of a window are at least Window before those of the window after
\* the next: the counter between them lives until then, or lived until now.
GapInv ==
    /\ \A r \in Began : hit[r].window < window =>
          hit[r].time + Window <= IF count = 0 THEN now ELSE expires
    /\ \A r \in Began : hit[r].window + 1 < window => hit[r].time + Window <= now
    /\ \A q, r \in Began : hit[q].window + 1 < hit[r].window => hit[q].time + Window <= hit[r].time

IInv == TypeOK /\ WindowCloses /\ CounterInv /\ NumberInv /\ GapInv
-----------------------------------------------------------------------------
USE LimiterAssumption

\* With no counter there is none to close.
LEMMA InitIInv == Init => IInv
BY DEF Init, IInv, TypeOK, WindowCloses, CounterInv, NumberInv, GapInv, Began, Admitted, Never

\* What an INCR does; a new window is made where there is no counter.
LEMMA IncrStep ==
  ASSUME IInv, NEW r \in Request, Incr(r)
  PROVE  /\ count' = count + 1 /\ expires' = expires /\ now' = now
         /\ window' = IF count = 0 THEN window + 1 ELSE window
         /\ pc[r] = "incr" /\ pc'[r] = (IF count = 0 THEN "expire" ELSE "decide")
         /\ current'[r] = count + 1 /\ hit'[r] = [time |-> now, window |-> window']
         /\ \A q \in Request \ {r} :
               pc'[q] = pc[q] /\ current'[q] = current[q] /\ hit'[q] = hit[q]
         /\ Began' = Began \cup {r} /\ r \notin Began /\ Admitted' = Admitted
<1>0. (count + 1 = 1) = (count = 0)
  BY DEF IInv, TypeOK
<1>1. /\ count' = count + 1 /\ expires' = expires /\ now' = now
      /\ window' = IF count = 0 THEN window + 1 ELSE window
      /\ pc[r] = "incr"
      /\ current' = [current EXCEPT ![r] = count + 1]
      /\ hit' = [hit EXCEPT ![r] = [time |-> now, window |-> window']]
      /\ pc' = [pc EXCEPT ![r] = IF count = 0 THEN "expire" ELSE "decide"]
  BY <1>0 DEF Incr, Goto
<1>2. \A q \in Request \ {r} : pc'[q] = pc[q] /\ current'[q] = current[q] /\ hit'[q] = hit[q]
  BY <1>1 DEF IInv, TypeOK
<1>3. /\ pc'[r] = (IF count = 0 THEN "expire" ELSE "decide")
      /\ current'[r] = count + 1 /\ hit'[r] = [time |-> now, window |-> window']
  BY <1>1 DEF IInv, TypeOK
<1>4. Began' = Began \cup {r} /\ r \notin Began /\ Admitted' = Admitted
  BY <1>1, <1>2, <1>3 DEF Began, Admitted
<1>5. QED
  BY <1>1, <1>2, <1>3, <1>4

\* The first INCR of a window names the request that has to go on to EXPIRE;
\* that of a later request leaves this one where it is.
LEMMA IncrIInv ==
  ASSUME IInv, NEW r \in Request, Incr(r)
  PROVE  IInv'
<1>0. TypeOK /\ WindowCloses /\ CounterInv /\ NumberInv /\ GapInv /\ Began \subseteq Request
  BY DEF IInv, Began
<1>1. TypeOK'
  BY <1>0 DEF Incr, Goto, TypeOK
<1>2. hit'[r].time = now /\ hit'[r].window = window'
  BY IncrStep
<1>3. \A q \in Began' : \/ q = r
                        \/ q \in Began /\ q # r /\ hit'[q] = hit[q] /\ current'[q] = current[q]
  <2>1. Began' = Began \cup {r} /\ r \notin Began
    BY IncrStep
  <2>2. \A q \in Request \ {r} : hit'[q] = hit[q] /\ current'[q] = current[q]
    BY IncrStep
  <2>3. QED
    BY <1>0, <2>1, <2>2
<1>4. WindowCloses'
  <2>1. CASE count = 0
    BY <1>2, <2>1, IncrStep DEF WindowCloses
  <2>2. CASE count # 0
    BY <1>0, <2>2, IncrStep DEF WindowCloses, TypeOK
  <2>3. QED
    BY <2>1, <2>2
<1>5. CounterInv'
  BY <1>0, <1>2, IncrStep DEF CounterInv, TypeOK
<1>6. NumberInv'
  <2>1. \A q \in Began : hit[q].window \in Nat /\ current[q] \in Nat
    BY <1>0 DEF TypeOK
  <2>2. ASSUME NEW q \in Began
        PROVE  /\ hit'[q].window <= window' /\ hit'[q].time <= now'
               /\ hit'[q].window = window' /\ count' > 0 => current'[q] <= count /\ current'[q] <= count'
               /\ current'[q] >= 1
    BY <1>0, <2>1, IncrStep DEF NumberInv, TypeOK
  <2>3. /\ hit'[r].window <= window' /\ hit'[r].time <= now'
        /\ current'[r] <= count' /\ current'[r] >= 1
    BY <1>0, <1>1, <1>2, IncrStep DEF TypeOK
  <2>4. \A q \in Began : hit'[q].window = window' => current'[q] # current'[r]
    <3>1. current'[r] = count + 1 /\ count' > 0 /\ count \in Nat
      BY <1>0, IncrStep DEF TypeOK
    <3>2. QED
      BY <1>0, <2>1, <2>2, <1>3, <3>1, IncrStep
  <2>5. \A p, q \in Began' : p # q /\ hit'[p].window = hit'[q].window => current'[p] # current'[q]
    BY <1>0, <1>2, <1>3, <2>4 DEF NumberInv
  <2>6. \A q \in Admitted' : current'[q] <= Limit
    BY <1>0, IncrStep DEF NumberInv, Admitted
  <2>7. QED
    BY <2>2, <2>3, <1>3, <2>5, <2>6 DEF NumberInv
<1>7. GapInv'
  <2>1. \A q \in Began : hit[q].window \in Nat /\ hit[q].time \in 0..MaxTime
    BY <1>0 DEF TypeOK
  <2>2. \A q \in Began : hit[q].window < window' =>
             hit[q].time + Window <= IF count' = 0 THEN now' ELSE expires'
    BY <1>0, <2>1, IncrStep DEF CounterInv, GapInv, TypeOK, Never
  <2>3. \A q \in Began : hit[q].window + 1 < window' => hit[q].time + Window <= now
    BY <1>0, <2>1, IncrStep DEF GapInv, TypeOK
  <2>4. \A q \in Began : hit[q].window <= window'
    BY <1>0, <2>1, IncrStep DEF NumberInv, TypeOK
  <2>5. window' \in Nat /\ now' = now
    BY <1>1, IncrStep DEF TypeOK
  <2>6. \A q \in Began' : hit'[q].window < window' =>
             hit'[q].time + Window <= IF count' = 0 THEN now' ELSE expires'
    BY <1>2, <1>3, <2>2, <2>5
  <2>7. \A q \in Began' : hit'[q].window + 1 < window' => hit'[q].time + Window <= now'
    BY <1>2, <1>3, <2>3, <2>5
  <2>8. \A p, q \in Began' : hit'[p].window + 1 < hit'[q].window =>
             hit'[p].time + Window <= hit'[q].time
    BY <1>0, <1>2, <2>1, <1>3, <2>3, <2>4, <2>5 DEF GapInv
  <2>9. QED
    BY <2>6, <2>7, <2>8 DEF GapInv
<1>8. QED
  BY <1>1, <1>4, <1>5, <1>6, <1>7 DEF IInv

\* A request that decides, or fails, does not touch the counter.
LEMMA LocalIInv ==
  ASSUME IInv, NEW r \in Request, Admit(r) \/ Reject(r) \/ Fail(r)
  PROVE  IInv'
<1>0. TypeOK /\ WindowCloses /\ CounterInv /\ NumberInv /\ GapInv
  BY DEF IInv
<1>1. /\ UNCHANGED <<count, expires, now, window, current, hit>>
      /\ \/ pc[r] = "expire" /\ pc' = [pc EXCEPT ![r] = "failed"]
         \/ pc[r] = "decide" /\ current[r] <= Limit /\ pc' = [pc EXCEPT ![r] = "admitted"]
         \/ pc[r] = "decide" /\ pc' = [pc EXCEPT ![r] = "limited"]
  BY DEF Admit, Reject, Fail, Goto
<1>2. TypeOK'
  BY <1>0, <1>1 DEF TypeOK
<1>3. /\ \A q \in Request : pc[q] \in {"expire", "failed"} => pc'[q] \in {"expire", "failed"}
      /\ \A q \in Request : pc'[q] = "expire" => pc[q] = "expire"
      /\ Began' = Began
      /\ \A q \in Admitted' : q \in Admitted \/ current[q] <= Limit
  BY <1>0, <1>1 DEF TypeOK, Began, Admitted
<1>4. WindowCloses' /\ CounterInv' /\ GapInv'
  BY <1>0, <1>1, <1>3 DEF WindowCloses, CounterInv, GapInv, Never
<1>5. NumberInv'
  BY <1>0, <1>1, <1>3 DEF NumberInv
<1>6. QED
  BY <1>2, <1>4, <1>5 DEF IInv

\* EXPIRE gives the counter a TTL, and a window that is not before its INCRs.
LEMMA ExpireIInv ==
  ASSUME IInv, NEW r \in Request, Expire(r)
  PROVE  IInv'
<1>0. TypeOK /\ WindowCloses /\ CounterInv /\ NumberInv /\ GapInv
  BY DEF IInv
<1>1. /\ UNCHANGED <<count, now, window, current, hit>>
      /\ expires' = now + Window /\ count > 0 /\ hit[r].window = window
      /\ pc[r] = "expire" /\ pc' = [pc EXCEPT ![r] = "decide"]
  BY <1>0 DEF Expire, Goto, CounterInv
<1>2. TypeOK'
  BY <1>0, <1>1 DEF TypeOK, Never
<1>3. Began' = Began /\ Admitted' = Admitted
  BY <1>0, <1>1 DEF TypeOK, Began, Admitted
<1>4. WindowCloses'
  BY <1>0, <1>1, <1>2 DEF WindowCloses, TypeOK
<1>5. CounterInv'
  <2>1. ASSUME NEW q \in Request, q # r PROVE pc[q] # "expire"
    BY <1>0, <1>1, <2>1 DEF CounterInv, NumberInv, Began
  <2>2. QED
    BY <1>0, <1>1, <2>1 DEF CounterInv, TypeOK
<1>6. NumberInv'
  BY <1>0, <1>1, <1>3 DEF NumberInv
<1>7. GapInv'
  <2>1. \A q \in Began : hit[q].time + Window <= expires'
    BY <1>0, <1>1 DEF NumberInv, TypeOK, Began
  <2>2. QED
    BY <1>0, <1>1, <1>3, <2>1 DEF GapInv, TypeOK
<1>8. QED
  BY <1>2, <1>4, <1>5, <1>6, <1>7 DEF IInv

\* Redis drops no counter that lacks a TTL.
LEMMA TickIInv ==
  ASSUME IInv, Tick
  PROVE  IInv'
<1>0. TypeOK /\ WindowCloses /\ CounterInv /\ NumberInv /\ GapInv
  BY DEF IInv
<1>1. UNCHANGED <<pc, window, current, hit>> /\ now' = now + 1 /\ now' \in 0..MaxTime
  BY <1>0 DEF Tick, TypeOK
<1>2. \/ expires <= now' /\ count' = 0 /\ expires' = Never /\ expires # Never
      \/ count' = count /\ expires' = expires
  BY <1>0, <1>1 DEF Tick, TypeOK, Never
<1>3. Began' = Began /\ Admitted' = Admitted
  BY <1>1 DEF Began, Admitted
<1>4. TypeOK' /\ CounterInv' /\ WindowCloses'
  BY <1>0, <1>1, <1>2 DEF TypeOK, CounterInv, WindowCloses, Never
<1>5. NumberInv'
  BY <1>0, <1>1, <1>2, <1>3 DEF NumberInv, TypeOK, Began
<1>6. GapInv'
  <2>1. \A q \in Began : hit[q].time \in Nat /\ hit[q].window \in Nat
    BY <1>0 DEF TypeOK, Began
  <2>2. \A q \in Began : hit[q].window < window =>
           hit[q].time + Window <= IF count' = 0 THEN now' ELSE expires'
    BY <1>0, <1>1, <1>2, <2>1 DEF GapInv, TypeOK, CounterInv
  <2>3. \A q \in Began : hit[q].window + 1 < window => hit[q].time + Window <= now'
    BY <1>0, <1>1, <2>1 DEF GapInv, TypeOK
  <2>4. QED
    BY <1>0, <1>1, <1>3, <2>2, <2>3 DEF GapInv
<1>7. QED
  BY <1>4, <1>5, <1>6 DEF IInv

\* Every step keeps the invariant.
LEMMA StepIInv == IInv /\ [Next]_vars => IInv'
<1> SUFFICES ASSUME IInv, [Next]_vars PROVE IInv'
  OBVIOUS
<1>1. CASE UNCHANGED vars
  BY <1>1 DEF vars, IInv, TypeOK, WindowCloses, CounterInv, NumberInv, GapInv, Began, Admitted
<1>2. QED
  BY <1>1, IncrIInv, ExpireIInv, LocalIInv, TickIInv DEF Next
-----------------------------------------------------------------------------
\* The admitted requests of one window: their numbers are theirs alone, and
\* none is over Limit.
LEMMA OneWindow ==
  ASSUME IInv, NEW w, NEW S \in SUBSET Request,
         \A r \in S : r \in Admitted /\ hit[r].window = w
  PROVE  IsFiniteSet(S) /\ Cardinality(S) \in Nat /\ Cardinality(S) <= Limit
<1>1. IsFiniteSet(S)
  BY FS_Subset
<1>2. IsFiniteSet(1..Limit) /\ Cardinality(1..Limit) = Limit
  BY FS_Interval
<1>3. Cardinality(S) \in Nat
  BY <1>1, FS_CardinalityType
<1>4. S \subseteq Began
  BY DEF Began, Admitted
<1>5. SUFFICES ASSUME Cardinality(1..Limit) < Cardinality(S) PROVE FALSE
  BY <1>1, <1>2, <1>3
<1> DEFINE f == [r \in S |-> current[r]]
<1>6. f \in [S -> 1..Limit]
  BY <1>4 DEF IInv, TypeOK, NumberInv
<1>7. \A q, r \in S : q # r => f[q] # f[r]
  BY <1>4 DEF IInv, NumberInv
<1> HIDE DEF f
<1>8. \E q, r \in S : q # r /\ f[q] = f[r]
  BY <1>1, <1>2, <1>5, <1>6, FS_PigeonHole
<1>9. QED
  BY <1>7, <1>8

\* In less than Window there are INCRs of two windows at most.
LEMMA TwoWindows ==
  ASSUME IInv, NEW t \in 0..MaxTime
  PROVE  Cardinality({r \in Admitted : hit[r].time \in t..(t + Window - 1)}) <= 2 * Limit
<1> DEFINE S == {r \in Admitted : hit[r].time \in t..(t + Window - 1)}
           Of(w) == {r \in S : hit[r].window = w}
<1>1. S \subseteq Request /\ S \subseteq Began
  BY DEF Began, Admitted
<1>2. \A r \in S : hit[r].time \in Nat /\ hit[r].window \in Nat
  BY <1>1 DEF IInv, TypeOK
<1>3. \A q, r \in S : ~(hit[q].window + 1 < hit[r].window)
  BY <1>1, <1>2 DEF IInv, GapInv
<1>4. \E w \in Nat : S = Of(w) \cup Of(w + 1)
  <2>1. CASE \E q, r \in S : hit[r].window = hit[q].window + 1
    <3>1. PICK q \in S, r \in S : hit[r].window = hit[q].window + 1
      BY <2>1
    <3>2. \A p \in S : hit[p].window = hit[q].window \/ hit[p].window = hit[q].window + 1
      BY <1>2, <1>3, <3>1
    <3>3. QED
      BY <1>2, <3>2
  <2>2. CASE ~ \E q, r \in S : hit[r].window = hit[q].window + 1
    <3>1. \A q, r \in S : hit[q].window = hit[r].window
      BY <1>2, <1>3, <2>2
    <3>2. CASE S = {}
      BY <3>2
    <3>3. CASE S # {}
      BY <1>2, <3>1, <3>3
    <3>4. QED
      BY <3>2, <3>3
  <2>3. QED
    BY <2>1, <2>2
<1>5. PICK w \in Nat : S = Of(w) \cup Of(w + 1)
  BY <1>4
<1>6. \A v \in {w, w + 1} : /\ IsFiniteSet(Of(v)) /\ Cardinality(Of(v)) \in Nat
                             /\ Cardinality(Of(v)) <= Limit
  <2>1. SUFFICES ASSUME NEW v \in {w, w + 1}
                 PROVE  IsFiniteSet(Of(v)) /\ Cardinality(Of(v)) \in Nat /\ Cardinality(Of(v)) <= Limit
    OBVIOUS
  <2> DEFINE T == Of(v)
  <2>2. T \in SUBSET Request /\ \A r \in T : r \in Admitted /\ hit[r].window = v
    BY <1>1
  <2> HIDE DEF T
  <2>3. IsFiniteSet(T) /\ Cardinality(T) \in Nat /\ Cardinality(T) <= Limit
    BY <2>2, OneWindow
  <2>4. QED
    BY <2>3 DEF T
<1> HIDE DEF S, Of
<1>7. Cardinality(S) = Cardinality(Of(w)) + Cardinality(Of(w + 1)) - Cardinality(Of(w) \cap Of(w + 1))
  BY <1>5, <1>6, FS_Union
<1>8. Cardinality(Of(w) \cap Of(w + 1)) \in Nat
  BY <1>6, FS_Intersection, FS_CardinalityType
<1>9. Cardinality(S) <= 2 * Limit
  BY <1>6, <1>7, <1>8
<1>10. QED
  BY <1>9 DEF S

\* The limiter is well typed for any number of requests, any limit, any window.
THEOREM TypeCorrect == Spec => []TypeOK
<1>1. IInv => TypeOK
  BY DEF IInv
<1>2. QED
  BY InitIInv, StepIInv, <1>1, PTL DEF Spec

\* A counter that exists expires within a window, or its first request is
\* about to set its TTL or failed before it could: the fixed windows of
\* rate_limiter.py close unless the two Redis calls of one request are torn
\* apart, and no other request makes it worse.
THEOREM CountersExpire == Spec => []WindowCloses
<1>1. IInv => WindowCloses
  BY DEF IInv
<1>2. QED
  BY InitIInv, StepIInv, <1>1, PTL DEF Spec

\* A window admits Limit requests at most, and any stretch of Window ticks
\* twice as many, whichever Redis calls fail.
THEOREM WindowsHold == Spec => []WindowsAreLimited
<1>1. IInv => WindowsAreLimited
  <2>1. SUFFICES ASSUME IInv PROVE WindowsAreLimited
    OBVIOUS
  <2>2. ASSUME NEW w \in 1..window
        PROVE  Cardinality({r \in Admitted : hit[r].window = w}) <= Limit
    <3> DEFINE S == {r \in Admitted : hit[r].window = w}
    <3>1. S \in SUBSET Request /\ \A r \in S : r \in Admitted /\ hit[r].window = w
      BY DEF Admitted
    <3> HIDE DEF S
    <3>2. Cardinality(S) <= Limit
      BY <2>1, <3>1, OneWindow
    <3>3. QED
      BY <3>2 DEF S
  <2>3. QED
    BY <2>1, <2>2, TwoWindows DEF WindowsAreLimited
<1>2. QED
  BY InitIInv, StepIInv, <1>1, PTL DEF Spec
=============================================================================
