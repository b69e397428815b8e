---------------------------- MODULE TokenBucket ----------------------------
(***************************************************************************)
(* app/delivery/rate_limit.py: the token bucket of one tenant and channel. *)
(* It has no timer: try_acquire adds what flowed in since the last call.   *)
(* Times are whole seconds and tokens are counted in fractions of 1/Minute *)
(* (sixtieths, in the code), so that refill_per_minute / 60.0 per second   *)
(* is exact; the rounding of floats is left out.                           *)
(*                                                                         *)
(* datetime.now() is the wall clock, which an administrator or NTP may set *)
(* back (SetBack); the code's max(0.0, ...) is there for that.             *)
(***************************************************************************)
EXTENDS Integers

CONSTANTS Limit,        \* capacity and refill_per_minute: TokenBucket.full gets one for both
          Minute,       \* seconds in a minute: 60, or fewer for a small instance
          Pauses,       \* the seconds the clock may move at a time
          MaxNow,       \* bound: the seconds the clock shows
          MaxCalls,     \* bound: calls in a behaviour
          MaxSetBacks   \* bound: how often the clock is set back

ASSUME BucketAssumption ==
    /\ Limit \in Nat
    /\ Minute \in Nat \ {0}
    /\ Pauses \subseteq Nat
    /\ MaxNow \in Nat
    /\ MaxCalls \in Nat
    /\ MaxSetBacks \in Nat

VARIABLES
    tokens,       \* the level at the last call, in fractions of a token
    last_refill,  \* the time of the last call
    now,          \* what the clock shows
    setBacks,
    granted,      \* calls that got a token, and calls that did not, since the bucket was made
    refused,
    \* a window of observation, opened at any moment
    windowGrants, \* calls that got a token since it was opened
    windowTime    \* seconds the clock went forward since it was opened

bucketVars == <<tokens, last_refill>>
clockVars == <<now, setBacks>>
answerVars == <<granted, refused>>
windowVars == <<windowGrants, windowTime>>
vars == <<tokens, last_refill, now, setBacks, granted, refused, windowGrants, windowTime>>

Token == Minute   \* one token, in fractions
Capacity == Limit * Token

\* Variant: no min(capacity, ...).
RefilledPastCapacity(t) ==
    IF t <= last_refill THEN tokens ELSE tokens + (t - last_refill) * Limit

\* Variant: no max(0.0, ...).
RefilledBackwards(t) ==
    LET sum == tokens + (t - last_refill) * Limit
    IN  IF sum <= Capacity THEN sum ELSE Capacity

\* The tokens at time t: what was left, and what flowed in since, up to the capacity.
Refilled(t) ==
    LET elapsed == IF t >= last_refill THEN t - last_refill ELSE 0
        sum == tokens + elapsed * Limit
    IN  IF sum <= Capacity THEN sum ELSE Capacity

\* TokenBucket.full
Init ==
    /\ tokens = Capacity
    /\ now = 0
    /\ last_refill = now
    /\ setBacks = 0
    /\ granted = 0 /\ refused = 0
    /\ windowGrants = 0 /\ windowTime = 0

\* Variant: last_refill is not moved.
TryAcquireWithoutTheClock ==
    /\ granted + refused < MaxCalls
    /\ UNCHANGED <<last_refill, clockVars, windowTime>>
    /\ IF Refilled(now) >= Token
       THEN /\ tokens' = Refilled(now) - Token
            /\ granted' = granted + 1
            /\ windowGrants' = windowGrants + 1
            /\ UNCHANGED refused
       ELSE /\ tokens' = Refilled(now)
            /\ refused' = refused + 1
            /\ UNCHANGED <<granted, windowGrants>>

\* try_acquire, one call.
TryAcquire ==
    /\ granted + refused < MaxCalls
    /\ last_refill' = now
    /\ UNCHANGED <<clockVars, windowTime>>
    /\ IF Refilled(now) >= Token
       THEN /\ tokens' = Refilled(now) - Token
            /\ granted' = granted + 1
            /\ windowGrants' = windowGrants + 1
            /\ UNCHANGED refused
       ELSE /\ tokens' = Refilled(now)
            /\ refused' = refused + 1
            /\ UNCHANGED <<granted, windowGrants>>

Tick(d) ==
    /\ now + d <= MaxNow
    /\ now' = now + d
    /\ windowTime' = windowTime + d
    /\ UNCHANGED <<bucketVars, setBacks, answerVars, windowGrants>>

SetBack(d) ==
    /\ setBacks < MaxSetBacks
    /\ d <= now
    /\ now' = now - d
    /\ setBacks' = setBacks + 1
    /\ UNCHANGED <<bucketVars, answerVars, windowVars>>

\* An observer begins to count anew.
OpenWindow ==
    /\ windowGrants' = 0
    /\ windowTime' = 0
    /\ UNCHANGED <<bucketVars, clockVars, answerVars>>

Next ==
    \/ TryAcquire
    \/ \E d \in Pauses : Tick(d) \/ SetBack(d)
    \/ OpenWindow

Spec == Init /\ [][Next]_vars

-----------------------------------------------------------------------------
(* Properties. *)

TypeOK ==
    /\ tokens \in 0..Capacity
    /\ last_refill \in 0..MaxNow
    /\ now \in 0..MaxNow
    /\ setBacks \in 0..MaxSetBacks
    /\ granted \in Nat /\ refused \in Nat
    /\ windowGrants \in Nat /\ windowTime \in Nat

\* In no stretch of time, wherever it begins, are more requests granted than the
\* capacity plus what flows in while the clock goes forward ("burst up to its
\* full per-minute allowance instantly, then refills gradually").
RateBound == windowGrants * Token <= Capacity + windowTime * Limit

\* Computed only when asked, the bucket answers as one that fills all the time.
Limiter == INSTANCE RateLimit WITH
    N <- Limit,
    Token <- Minute,
    Pauses <- Pauses,
    level <- Refilled(now),
    answers <- [granted |-> granted, refused |-> refused],
    steady <- setBacks = 0

ImplementsRateLimit == Limiter!LimitSpec
=============================================================================
