---------------------------- MODULE RecountAlone ----------------------------
(***************************************************************************)
(* When the recounts of claim_and_send can be trusted.  RollupAgrees does  *)
(* not hold of ClaimAndSend: two workers on one channel can overwrite each *)
(* other's recount, and an error can swallow one.  A history variable      *)
(* keeps the channels that anything of that kind ever happened to.         *)
(***************************************************************************)
EXTENDS ClaimAndSend

VARIABLE disturbed  \* history: the channels that met an overlap, a lost recount or a deletion

aloneVars == <<vars, disturbed>>

\* Worker w is at channel c, at one of the given awaits.
At(w, c, steps) == pc[w] \in steps /\ ChannelOf[item[w]] = c

\* From the load of the channel's status to the write of its new one.
Busy(w, c) == At(w, c, {"send", "settle", "recount", "write"})

Overlap(c) == \E v, w \in Worker : v # w /\ Busy(v, c) /\ Busy(w, c)

\* An attempt of the channel goes away with its recipient.
Withdrawn(c) == \E a \in AttemptsOf(c) : status[a] # "DELETED" /\ status'[a] = "DELETED"

\* A worker's recount is lost to a database error or a restart after its result was committed.
LostRecount(c) ==
    \E w \in Worker : /\ At(w, c, {"recount", "write"})
                      /\ (faults' # faults /\ pc'[w] # pc[w]) \/ restarts' # restarts

AloneInit == Init /\ disturbed = {}

AloneNext ==
    /\ Next
    /\ disturbed' = disturbed \cup
         {c \in NotificationChannel : Overlap(c)' \/ Withdrawn(c) \/ LostRecount(c)}

AloneSpec == AloneInit /\ [][AloneNext]_aloneVars

\* On a channel that no two workers were ever busy with at once, that lost no recount and no
\* attempt, the status is what the rows say as soon as all are settled and counted, however
\* claims, errors before the send's result and restarts fell.
UndisturbedAgrees ==
    \A c \in NotificationChannel \ disturbed :
        (/\ Rows(c) # {}
         /\ \A a \in Rows(c) : status[a] \in Settled
         /\ \A w \in Worker : ~At(w, c, {"recount", "write"}))
        => chanStatus[c] = Rollup(c)
=============================================================================
