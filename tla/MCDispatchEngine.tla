-------------------------- MODULE MCDispatchEngine --------------------------
(* Small instances of DispatchEngine.  The tenant "loud" has a1 and a2 on one *)
(* channel, the tenant "quiet" has a3 on another; all are sent by email.      *)
EXTENDS DispatchEngine, TLC

CONSTANTS a1, a2, a3, c1, c2, r1, r2, loud, quiet, email

MCChannelOf == [a \in DeliveryAttempt |-> IF a = a3 THEN c2 ELSE c1]
MCRecipientOf == [a \in DeliveryAttempt |-> IF a = a2 THEN r2 ELSE r1]
MCTenantOf == [c \in NotificationChannel |-> IF c = c2 THEN quiet ELSE loud]
MCKindOf == [c \in NotificationChannel |-> email]

\* Both tenants may send one message, and one more whenever a token flows in.
OneEach == [k \in Key |-> 1]

\* The loud tenant may send nothing at all.
LoudNone == [k \in Key |-> IF k[1] = loud THEN 0 ELSE 1]

WorkerSymmetry == Permutations(Worker)
=============================================================================
