-------------------------- MODULE DeliveryLifecycle --------------------------
(***************************************************************************)
(* What the service promises about one delivery, whatever the number of    *)
(* workers, the interleaving of their database transactions, the errors    *)
(* they meet and the restarts of the process:                              *)
(*                                                                         *)
(*   - an attempt waits, is tried, and is confirmed, given back or buried; *)
(*   - the recipient is reached at most once;                              *)
(*   - an attempt is given back only after a send that did not reach the   *)
(*     recipient, and buried only after MaxAttempts such sends;            *)
(*   - a confirmed or buried attempt never changes again, unless its       *)
(*     recipient is deleted.                                               *)
(*                                                                         *)
(* ClaimAndSend implements this specification.                             *)
(***************************************************************************)
EXTENDS Integers

CONSTANTS DeliveryAttempt,  \* the delivery_attempts rows
          MaxAttempts       \* settings.max_attempts

VARIABLES phase,    \* where each attempt is in its life
          tries,    \* how many of its sends are known to have failed
          reached   \* how many times its recipient got the message

lifecycleVars == <<phase, tries, reached>>

Phase == {"unborn", "waiting", "trying", "confirmed", "buried", "withdrawn"}

LifecycleInit ==
    /\ phase \in [DeliveryAttempt -> {"unborn"}]
    /\ tries \in [DeliveryAttempt -> {0}]
    /\ reached \in [DeliveryAttempt -> {0}]

\* A tenant's notification creates some of the attempts, all at once.
Request(A) ==
    /\ phase' = [a \in DeliveryAttempt |->
                    IF a \in A /\ phase[a] = "unborn" THEN "waiting" ELSE phase[a]]
    /\ UNCHANGED <<tries, reached>>

Try(a) ==
    /\ phase[a] = "waiting"
    /\ phase' = [phase EXCEPT ![a] = "trying"]
    /\ UNCHANGED <<tries, reached>>

\* The provider hands the message over.  A send that had begun when the
\* recipient was deleted still runs to its end.
Reach(a) ==
    /\ phase[a] \in {"trying", "withdrawn"}
    /\ reached[a] = 0
    /\ reached' = [reached EXCEPT ![a] = 1]
    /\ UNCHANGED <<phase, tries>>

Confirm(a) ==
    /\ phase[a] = "trying"
    /\ reached[a] = 1
    /\ phase' = [phase EXCEPT ![a] = "confirmed"]
    /\ UNCHANGED <<tries, reached>>

\* A failed send: another round if tries are left, the dead-letter state if not.
Fail(a) ==
    /\ phase[a] = "trying"
    /\ reached[a] = 0
    /\ tries[a] < MaxAttempts
    /\ tries' = [tries EXCEPT ![a] = @ + 1]
    /\ phase' = [phase EXCEPT
                    ![a] = IF tries[a] + 1 = MaxAttempts THEN "buried" ELSE "waiting"]
    /\ UNCHANGED reached

\* The deletion of a recipient takes its attempts away.
Withdraw(A) ==
    /\ phase' = [a \in DeliveryAttempt |-> IF a \in A THEN "withdrawn" ELSE phase[a]]
    /\ UNCHANGED <<tries, reached>>

LifecycleNext ==
    \/ \E A \in SUBSET DeliveryAttempt : Request(A) \/ Withdraw(A)
    \/ \E a \in DeliveryAttempt : Try(a) \/ Reach(a) \/ Confirm(a) \/ Fail(a)

LifecycleSpec == LifecycleInit /\ [][LifecycleNext]_lifecycleVars
=============================================================================
