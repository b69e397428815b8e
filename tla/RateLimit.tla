----------------------------- MODULE RateLimit -----------------------------
(***************************************************************************)
(* What a rate limiter of N per minute promises the tenant and the         *)
(* provider: a bucket that holds up to N tokens and fills at N tokens per  *)
(* minute, continuously; a request is granted exactly when a whole token   *)
(* is there.  TokenBucket implements it without a timer.                   *)
(*                                                                         *)
(* The level is counted in such fractions of a token that N of them flow   *)
(* in each second: sixtieths.                                              *)
(***************************************************************************)
EXTENDS Integers

CONSTANTS N,       \* tenants.rate_limit_<channel>
          Token,   \* the fractions in one token: 60
          Pauses   \* how many seconds go by at a time

VARIABLES level,    \* the tokens in the bucket, in fractions
          answers,  \* how many requests were granted, and how many refused
          steady    \* the clock was never set back

limitVars == <<level, answers, steady>>

Filled(d) == IF level + d * N <= N * Token THEN level + d * N ELSE N * Token

LimitInit ==
    /\ level = N * Token
    /\ answers = [granted |-> 0, refused |-> 0]
    /\ steady = TRUE

\* d seconds go by.  A clock that was set back may have to show some of them
\* again before they count.
Fill(d) ==
    /\ IF steady THEN level' = Filled(d) ELSE level' \in level..Filled(d)
    /\ UNCHANGED <<answers, steady>>

\* The clock is set back: some of what flowed in is taken for not yet there.
Drain ==
    /\ level' \in 0..level
    /\ ~steady'
    /\ UNCHANGED answers

Grant ==
    /\ level >= Token
    /\ level' = level - Token
    /\ answers' = [answers EXCEPT !.granted = @ + 1]
    /\ UNCHANGED steady

Refuse ==
    /\ level < Token
    /\ answers' = [answers EXCEPT !.refused = @ + 1]
    /\ UNCHANGED <<level, steady>>

LimitNext == (\E d \in Pauses : Fill(d)) \/ Drain \/ Grant \/ Refuse

LimitSpec == LimitInit /\ [][LimitNext]_limitVars
=============================================================================
