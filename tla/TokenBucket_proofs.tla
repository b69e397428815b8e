------------------------- MODULE TokenBucket_proofs -------------------------
(***************************************************************************)
(* The rate bound of TokenBucket and its refinement of RateLimit, for any  *)
(* limit, any pauses between the calls and any number of set-backs of the  *)
(* clock.                                                                  *)
(*                                                                         *)
(* RateBound is not inductive: what was granted in a window is bounded     *)
(* only together with what the bucket could still grant at this moment.    *)
(***************************************************************************)
EXTENDS TokenBucket, TLAPS

\* What the window was granted and what a call could still get at this moment.
WindowBound == windowGrants * Token + Refilled(now) <= Capacity + windowTime * Limit

\* Only a set-back takes the clock behind the last call.
SteadyClock == setBacks = 0 => last_refill <= now

IInv == TypeOK /\ WindowBound /\ SteadyClock

-----------------------------------------------------------------------------
(* Lemmas about the refill. *)

\* The parameters and products of them are natural numbers.
LEMMA Naturals ==
    ASSUME TypeOK
    PROVE  /\ Limit \in Nat /\ Token \in Nat \ {0} /\ Capacity \in Nat
           /\ tokens \in Nat /\ tokens <= Capacity /\ now \in Nat /\ last_refill \in Nat
           /\ \A t \in Int : t * Limit \in Int
           /\ \A t \in Nat : t * Limit \in Nat
BY BucketAssumption DEF TypeOK, Token, Capacity

\* The bucket holds at most its capacity, and at least what the last call left.
LEMMA RefilledRange ==
    ASSUME TypeOK, NEW t \in Nat
    PROVE  Refilled(t) \in Nat /\ tokens <= Refilled(t) /\ Refilled(t) <= Capacity
<1>1. CASE t >= last_refill
  <2>1. (t - last_refill) \in Nat /\ (t - last_refill) * Limit \in Nat
    BY <1>1, Naturals
  <2> QED  BY <1>1, <2>1, Naturals DEF Refilled
<1>2. CASE ~(t >= last_refill)
  <2>1. 0 * Limit = 0
    BY Naturals
  <2> QED  BY <1>2, <2>1, Naturals DEF Refilled
<1> QED  BY <1>1, <1>2

\* An earlier time finds no more in the bucket than a later one.
LEMMA RefilledMonotone ==
    ASSUME TypeOK, NEW t \in Nat, NEW d \in Nat
    PROVE  Refilled(t) <= Refilled(t + d) /\ Refilled(t + d) <= Refilled(t) + d * Limit
<1>1. d * Limit \in Nat /\ 0 * Limit = 0
  BY Naturals
<1>2. CASE t >= last_refill
  <2> DEFINE e == t - last_refill
  <2>1. e \in Nat /\ e * Limit \in Nat /\ t + d >= last_refill /\ (t + d) - last_refill = e + d
    BY <1>2, Naturals
  <2>2. (e + d) * Limit = e * Limit + d * Limit
    BY <2>1, Naturals
  <2> HIDE DEF e
  <2>3. Refilled(t) = IF tokens + e * Limit <= Capacity THEN tokens + e * Limit ELSE Capacity
    BY <1>2 DEF Refilled, e
  <2>4. Refilled(t + d) = IF tokens + (e + d) * Limit <= Capacity
                          THEN tokens + (e + d) * Limit ELSE Capacity
    BY <2>1 DEF Refilled
  <2> QED  BY <1>1, <2>1, <2>2, <2>3, <2>4, Naturals
<1>3. CASE ~(t >= last_refill) /\ ~(t + d >= last_refill)
  BY <1>1, <1>3, Naturals DEF Refilled
<1>4. CASE ~(t >= last_refill) /\ t + d >= last_refill
  <2> DEFINE e == (t + d) - last_refill
             rest == d - e
  <2>1. e \in Nat /\ rest \in Nat /\ e * Limit \in Nat /\ rest * Limit \in Nat /\ d = e + rest
    BY <1>4, Naturals
  <2>2. (e + rest) * Limit = e * Limit + rest * Limit
    BY <2>1, Naturals
  <2>3. Refilled(t) = tokens
    BY <1>1, <1>4, Naturals DEF Refilled
  <2>4. Refilled(t + d) = IF tokens + e * Limit <= Capacity THEN tokens + e * Limit ELSE Capacity
    BY <1>4 DEF Refilled
  <2> HIDE DEF e, rest
  <2> QED  BY <2>1, <2>2, <2>3, <2>4, Naturals
<1> QED  BY <1>2, <1>3, <1>4

-----------------------------------------------------------------------------
(* The invariant. *)

\* A full bucket and an empty window satisfy the invariant.
LEMMA InitIInv == Init => IInv
<1> SUFFICES ASSUME Init PROVE IInv
  OBVIOUS
<1>1. TypeOK
  BY BucketAssumption DEF Init, TypeOK, Token, Capacity
<1>2. 0 * Token = 0 /\ 0 * Limit = 0
  BY <1>1, Naturals
<1>3. Refilled(now) \in Nat /\ Refilled(now) <= Capacity
  BY <1>1, RefilledRange DEF TypeOK
<1>4. WindowBound
  BY <1>1, <1>2, <1>3, Naturals DEF Init, WindowBound
<1>5. SteadyClock
  BY DEF Init, SteadyClock
<1> QED  BY <1>1, <1>4, <1>5 DEF IInv

\* The level stays between zero and the capacity: a token is taken only if there.
LEMMA TypeStep == TypeOK /\ [Next]_vars => TypeOK'
<1> SUFFICES ASSUME TypeOK, [Next]_vars PROVE TypeOK'
  OBVIOUS
<1> USE BucketAssumption DEF bucketVars, clockVars, answerVars, windowVars
<1>1. CASE TryAcquire
  <2>1. Refilled(now) \in 0..Capacity
    BY RefilledRange, Naturals DEF TypeOK
  <2>2. tokens' \in 0..Capacity
    BY <1>1, <2>1, Naturals DEF TryAcquire
  <2> QED  BY <1>1, <2>2 DEF TryAcquire, TypeOK, Capacity, Token
<1>2. ASSUME NEW d \in Pauses, Tick(d) \/ SetBack(d) PROVE TypeOK'
  BY <1>2 DEF Tick, SetBack, TypeOK, Capacity, Token
<1>3. CASE OpenWindow
  BY <1>3 DEF OpenWindow, TypeOK, Capacity, Token
<1>4. CASE UNCHANGED vars
  BY <1>4 DEF vars, TypeOK, Capacity, Token
<1> QED  BY <1>1, <1>2, <1>3, <1>4 DEF Next

\* Right after a call the bucket holds what the call left, at the same time.
LEMMA RefilledAfterCall ==
    ASSUME TypeOK, TryAcquire
    PROVE  Refilled(now)' = tokens'
<1>1. tokens' <= Capacity /\ tokens' \in Int
  BY RefilledRange, Naturals DEF TryAcquire, TypeOK
<1>2. last_refill' = now /\ now' = now /\ now \in Nat
  BY DEF TryAcquire, clockVars, TypeOK
<1>3. 0 * Limit = 0 /\ now' - last_refill' = 0 /\ now' >= last_refill'
  BY <1>2, Naturals
<1> QED  BY <1>1, <1>3 DEF Refilled, Capacity, Token

\* A call takes from the bucket what it adds to the window; the clock adds to the
\* bucket no more than to the window's allowance.
LEMMA WindowStep == IInv /\ [Next]_vars => WindowBound'
<1> SUFFICES ASSUME IInv, [Next]_vars PROVE WindowBound'
  OBVIOUS
<1> USE DEF IInv, bucketVars, clockVars, answerVars, windowVars
<1>1. /\ Refilled(now) \in Nat /\ Refilled(now) <= Capacity
      /\ windowGrants \in Nat /\ windowTime \in Nat
      /\ windowGrants * Token \in Nat /\ windowTime * Limit \in Nat
  BY RefilledRange, Naturals DEF TypeOK
<1>2. CASE TryAcquire
  <2>1. Refilled(now)' = tokens'
    BY <1>2, RefilledAfterCall
  <2>2. CASE Refilled(now) >= Token
    <3>1. (windowGrants + 1) * Token = windowGrants * Token + Token
      BY <1>1, Naturals
    <3> QED  BY <1>1, <1>2, <2>1, <2>2, <3>1, Naturals DEF TryAcquire, WindowBound, Capacity, Token
  <2>3. CASE ~(Refilled(now) >= Token)
    BY <1>1, <1>2, <2>1, <2>3, Naturals DEF TryAcquire, WindowBound, Capacity, Token
  <2> QED  BY <2>2, <2>3
<1>3. ASSUME NEW d \in Pauses, Tick(d) PROVE WindowBound'
  <2>1. d \in Nat /\ now \in Nat
    BY BucketAssumption DEF TypeOK
  <2>2. Refilled(now + d) <= Refilled(now) + d * Limit
    BY <2>1, RefilledMonotone
  <2>3. Refilled(now)' = Refilled(now + d)
    BY <1>3 DEF Tick, Refilled, Capacity, Token
  <2>4. (windowTime + d) * Limit = windowTime * Limit + d * Limit /\ d * Limit \in Nat
    BY <1>1, <2>1, Naturals
  <2>5. Refilled(now + d) \in Nat
    BY <2>1, RefilledRange
  <2> QED  BY <1>1, <1>3, <2>2, <2>3, <2>4, <2>5, Naturals DEF Tick, WindowBound, Capacity, Token
<1>4. ASSUME NEW d \in Pauses, SetBack(d) PROVE WindowBound'
  <2> DEFINE t == now - d
  <2>1. d \in Nat /\ t \in Nat /\ t + d = now
    BY <1>4, BucketAssumption DEF SetBack, TypeOK
  <2>2. Refilled(t) <= Refilled(now) /\ Refilled(t) \in Nat
    BY <2>1, RefilledMonotone, RefilledRange
  <2>3. Refilled(now)' = Refilled(t)
    BY <1>4 DEF SetBack, Refilled, Capacity, Token
  <2> QED  BY <1>1, <1>4, <2>2, <2>3, Naturals DEF SetBack, WindowBound, Capacity, Token
<1>5. CASE OpenWindow
  <2>1. 0 * Token = 0 /\ 0 * Limit = 0
    BY Naturals
  <2>2. Refilled(now)' = Refilled(now)
    BY <1>5 DEF OpenWindow, Refilled, Capacity, Token
  <2> QED  BY <1>1, <1>5, <2>1, <2>2, Naturals DEF OpenWindow, WindowBound, Capacity, Token
<1>6. CASE UNCHANGED vars
  BY <1>6 DEF vars, WindowBound, Refilled, Capacity, Token
<1> QED  BY <1>2, <1>3, <1>4, <1>5, <1>6 DEF Next

\* Calls and the passing of time leave last_refill at or behind the clock.
LEMMA SteadyStep == IInv /\ [Next]_vars => SteadyClock'
<1> USE BucketAssumption DEF IInv, TypeOK, SteadyClock, clockVars, bucketVars
<1>1. IInv /\ TryAcquire => SteadyClock'
  BY DEF TryAcquire
<1>2. ASSUME NEW d \in Pauses PROVE IInv /\ (Tick(d) \/ SetBack(d)) => SteadyClock'
  BY DEF Tick, SetBack
<1>3. IInv /\ (OpenWindow \/ UNCHANGED vars) => SteadyClock'
  BY DEF OpenWindow, vars
<1> QED  BY <1>1, <1>2, <1>3 DEF Next

\* The bucket never holds less than nothing or more than its capacity.
THEOREM TypeCorrect == Spec => []TypeOK
<1>1. Init => TypeOK
  BY InitIInv DEF IInv
<1> QED  BY <1>1, TypeStep, PTL DEF Spec

\* In every state what was granted in the window and what is left in the bucket
\* fit into the window's allowance.
THEOREM Inductive == Spec => []IInv
<1>1. IInv /\ [Next]_vars => IInv'
  BY TypeStep, WindowStep, SteadyStep DEF IInv
<1> QED  BY InitIInv, <1>1, PTL DEF Spec

\* In every window of time the grants are bounded by the capacity and what
\* flowed in, for every limit and every sequence of calls and set-backs.
THEOREM RateLimited == Spec => []RateBound
<1>1. IInv => RateBound
  <2> SUFFICES ASSUME IInv PROVE RateBound
    OBVIOUS
  <2>1. Refilled(now) \in Nat /\ windowGrants * Token \in Int /\ windowTime * Limit \in Int
    BY RefilledRange, Naturals DEF IInv, TypeOK
  <2> QED  BY <2>1, Naturals DEF IInv, WindowBound, RateBound
<1> QED  BY Inductive, <1>1, PTL

-----------------------------------------------------------------------------
(* Refinement of the limiter that fills all the time. *)

\* A new bucket is full.
LEMMA InitRefines == Init => Limiter!LimitInit
<1> SUFFICES ASSUME Init PROVE Limiter!LimitInit
  OBVIOUS
<1>1. TypeOK
  BY InitIInv DEF IInv
<1>2. Refilled(now) = Capacity
  BY <1>1, RefilledRange, Naturals DEF Init
<1> QED  BY <1>2 DEF Init, Limiter!LimitInit, Capacity, Token

\* While the clock is steady, two refills in a row are one over both times.
LEMMA RefilledExactly ==
    ASSUME TypeOK, SteadyClock, setBacks = 0, NEW d \in Nat
    PROVE  Refilled(now + d) = Limiter!Filled(d)
<1> DEFINE e == now - last_refill
<1>1. e \in Nat /\ e * Limit \in Nat /\ d * Limit \in Nat /\ now + d >= last_refill
      /\ (now + d) - last_refill = e + d /\ now >= last_refill
  BY Naturals DEF SteadyClock
<1>2. (e + d) * Limit = e * Limit + d * Limit
  BY <1>1, Naturals
<1> HIDE DEF e
<1>3. Refilled(now + d) = IF tokens + (e + d) * Limit <= Capacity
                          THEN tokens + (e + d) * Limit ELSE Capacity
  BY <1>1 DEF Refilled
<1>4. Refilled(now) = IF tokens + e * Limit <= Capacity THEN tokens + e * Limit ELSE Capacity
  BY <1>1 DEF Refilled, e
<1>5. Limiter!Filled(d) = IF Refilled(now) + d * Limit <= Capacity
                          THEN Refilled(now) + d * Limit ELSE Capacity
  BY DEF Limiter!Filled, Capacity, Token
<1> QED  BY <1>1, <1>2, <1>3, <1>4, <1>5, Naturals

\* Every call is answered as the limiter answers it, and time fills both alike.
LEMMA StepRefines == IInv /\ [Next]_vars => [Limiter!LimitNext]_(Limiter!limitVars)
<1> SUFFICES ASSUME IInv, [Next]_vars
             PROVE  Limiter!LimitNext \/ UNCHANGED Limiter!limitVars
  OBVIOUS
<1> USE DEF IInv, bucketVars, clockVars, answerVars, windowVars
<1>1. Refilled(now) \in Nat /\ Refilled(now) <= Capacity /\ Token = Minute
  BY RefilledRange DEF TypeOK, Token
<1>2. CASE TryAcquire
  <2>1. Refilled(now)' = tokens'
    BY <1>2, RefilledAfterCall
  <2>2. CASE Refilled(now) >= Token
    BY <1>1, <1>2, <2>1, <2>2 DEF TryAcquire, Limiter!LimitNext, Limiter!Grant
  <2>3. CASE ~(Refilled(now) >= Token)
    <3>1. Refilled(now) < Minute
      BY <1>1, <2>3, Naturals
    <3> QED  BY <1>1, <1>2, <2>1, <2>3, <3>1 DEF TryAcquire, Limiter!LimitNext, Limiter!Refuse
  <2> QED  BY <2>2, <2>3
<1>3. ASSUME NEW d \in Pauses, Tick(d) PROVE Limiter!LimitNext
  <2>1. d \in Nat /\ now \in Nat
    BY BucketAssumption DEF TypeOK
  <2>2. Refilled(now)' = Refilled(now + d) /\ setBacks' = setBacks
    BY <1>3 DEF Tick, Refilled, Capacity, Token
  <2>3. /\ Refilled(now) <= Refilled(now + d) /\ Refilled(now + d) <= Refilled(now) + d * Limit
        /\ Refilled(now + d) \in Nat /\ Refilled(now + d) <= Capacity /\ d * Limit \in Nat
    <3>1. now + d \in Nat
      BY <2>1
    <3>2. Refilled(now + d) \in Nat /\ Refilled(now + d) <= Capacity
      BY <3>1, RefilledRange
    <3>3. d * Limit \in Nat
      BY <2>1, Naturals
    <3> QED  BY <2>1, <3>2, <3>3, RefilledMonotone
  <2>4. setBacks = 0 => Refilled(now + d) = Limiter!Filled(d)
    BY <2>1, RefilledExactly
  <2>5. Refilled(now + d) \in Refilled(now)..Limiter!Filled(d)
    BY <1>1, <2>3 DEF Limiter!Filled, Capacity, Token
  <2>6. Limiter!Fill(d)
    BY <1>3, <2>2, <2>4, <2>5 DEF Limiter!Fill, Tick
  <2> QED  BY <2>6 DEF Limiter!LimitNext
<1>4. ASSUME NEW d \in Pauses, SetBack(d) PROVE Limiter!LimitNext
  <2> DEFINE t == now - d
  <2>1. d \in Nat /\ t \in Nat /\ t + d = now
    BY <1>4, BucketAssumption DEF SetBack, TypeOK
  <2>2. Refilled(t) <= Refilled(now) /\ Refilled(t) \in Nat
    BY <2>1, RefilledMonotone, RefilledRange
  <2>3. Refilled(now)' = Refilled(t)
    BY <1>4 DEF SetBack, Refilled, Capacity, Token
  <2>4. ~(setBacks' = 0)
    BY <1>4 DEF SetBack, TypeOK
  <2> QED
    BY <1>1, <1>4, <2>2, <2>3, <2>4 DEF SetBack, Limiter!LimitNext, Limiter!Drain
<1>5. CASE OpenWindow
  BY <1>5 DEF OpenWindow, Refilled, Capacity, Token, Limiter!limitVars
<1>6. CASE UNCHANGED vars
  BY <1>6 DEF vars, Refilled, Capacity, Token, Limiter!limitVars
<1> QED  BY <1>2, <1>3, <1>4, <1>5, <1>6 DEF Next

\* Every answer of the bucket is one a limiter that fills all the time gives.
THEOREM RefinesRateLimit == Spec => ImplementsRateLimit
<1> QED
  BY Inductive, InitRefines, StepRefines, PTL
  DEF Spec, ImplementsRateLimit, Limiter!LimitSpec
=============================================================================
