------------------------ MODULE RecountAlone_proofs ------------------------
(***************************************************************************)
(* UndisturbedAgrees for any number of attempts, channels and workers.     *)
(*                                                                         *)
(* On an undisturbed channel the one worker that is busy knows the status  *)
(* (seen) and, from its recount on, the rows (tally); Quiet says so, and   *)
(* that a channel nobody is about to write is counted already.             *)
(***************************************************************************)
EXTENDS RecountAlone, ClaimAndSend_proofs

\* All attempts of c are settled and nobody is about to write its status.
Final(c) ==
    /\ Rows(c) # {}
    /\ \A a \in Rows(c) : status[a] \in Settled
    /\ \A w \in Worker : ~At(w, c, {"recount", "write"})

Quiet(c) ==
    /\ ~Overlap(c)
    /\ \A w \in Worker : Busy(w, c) => seen[w] = chanStatus[c]
    /\ \A w \in Worker : At(w, c, {"write"}) => tally[w] = Rollup(c)
    /\ Final(c) => chanStatus[c] = Rollup(c)

QuietUndisturbed == \A c \in NotificationChannel \ disturbed : Quiet(c)

-----------------------------------------------------------------------------

\* The recount of a channel depends on its own attempts only.
LEMMA RollupFrame ==
    ASSUME NEW c \in NotificationChannel, \A a \in AttemptsOf(c) : status'[a] = status[a]
    PROVE  Rows(c)' = Rows(c) /\ Rollup(c)' = Rollup(c)
<1>1. AttemptsOf(c)' = AttemptsOf(c)
  BY DEF AttemptsOf
<1>2. Rows(c)' = Rows(c)
  BY <1>1 DEF Rows
<1>3. {status'[a] : a \in Rows(c)'} = {status[a] : a \in Rows(c)}
  BY <1>2 DEF Rows
<1> QED  BY <1>2, <1>3 DEF Rollup

\* A channel with an attempt under way counts as PROCESSING.
LEMMA RollupInProgress ==
    ASSUME NEW c, NEW a \in Rows(c), status[a] \in InProgress
    PROVE  Rollup(c) = "PROCESSING"
<1>1. status[a] \in {status[b] : b \in Rows(c)} \cap InProgress
  OBVIOUS
<1> QED  BY <1>1 DEF Rollup

\* A step that leaves a channel's rows and status alone, makes nobody busy with it and takes
\* nobody from its recount keeps it quiet.
LEMMA QuietFrame ==
    ASSUME NEW c \in NotificationChannel, Quiet(c), ~Overlap(c)',
           \A a \in AttemptsOf(c) : status'[a] = status[a],
           chanStatus'[c] = chanStatus[c],
           \A w \in Worker :
               /\ Busy(w, c)' => Busy(w, c) /\ seen'[w] = seen[w]
               /\ At(w, c, {"write"})' => At(w, c, {"write"}) /\ tally'[w] = tally[w]
               /\ At(w, c, {"recount", "write"}) => At(w, c, {"recount", "write"})'
    PROVE  Quiet(c)'
<1>1. Rows(c)' = Rows(c) /\ Rollup(c)' = Rollup(c)
  BY RollupFrame
<1>2. Final(c)' => Final(c)
  BY <1>1 DEF Final, Rows
<1> QED  BY <1>1, <1>2 DEF Quiet

\* The same for a worker's step on another channel.
LEMMA QuietElsewhere ==
    ASSUME IInv, NEW c \in NotificationChannel, Quiet(c), ~Overlap(c)',
           NEW v \in Worker, Work(v), ChannelOf[item[v]] # c
    PROVE  Quiet(c)'
<1> USE DEF IInv
<1>1. item' = item /\ item[v] \in DeliveryAttempt /\ ChannelOf[item[v]] \in NotificationChannel
  BY ConstantsAssumption
  DEF Work, ClaimWon, ClaimLost, LoadChannel, Send, SettleSent, SettleFailed, SettleStale, Recount,
      WriteChannel, HolderState, localVars
<1>2. \A a \in AttemptsOf(c) : status'[a] = status[a]
  BY <1>1
  DEF Work, ClaimWon, ClaimLost, LoadChannel, Send, SettleSent, SettleFailed, SettleStale, Recount,
      WriteChannel, TypeOK, AttemptsOf, attemptVars
<1>3. chanStatus'[c] = chanStatus[c]
  BY <1>1
  DEF Work, ClaimWon, ClaimLost, LoadChannel, Send, SettleSent, SettleFailed, SettleStale, Recount,
      WriteChannel, TypeOK
<1>4. \A w \in Worker \ {v} : pc'[w] = pc[w] /\ seen'[w] = seen[w] /\ tally'[w] = tally[w]
  BY DEF Work, ClaimWon, ClaimLost, LoadChannel, Send, SettleSent, SettleFailed, SettleStale, Recount,
         WriteChannel, GoTo, TypeOK, localVars
<1>5. \A w \in Worker : ChannelOf[item[w]] = c => w # v
  OBVIOUS
<1> QED  BY <1>1, <1>2, <1>3, <1>4, <1>5, QuietFrame DEF At, Busy

\* And for the steps that are no worker's work.
LEMMA QuietEnvironment ==
    ASSUME IInv, NEW c \in NotificationChannel, Quiet(c), ~Overlap(c)', ~Withdrawn(c), ~LostRecount(c),
           \/ \E r \in Recipient : DeleteRecipient(r)
           \/ \E a \in DeliveryAttempt : BackoffElapses(a)
           \/ \E w \in Worker, a \in DeliveryAttempt : Take(w, a)
           \/ \E w \in Worker : Release(w)
           \/ \E w \in Worker : DatabaseError(w)
           \/ Restart
           \/ UNCHANGED vars
    PROVE  Quiet(c)'
<1> USE DEF IInv, localVars, attemptVars, providerVars, boundVars
<1>1. \A a \in AttemptsOf(c) : status'[a] = status[a]
  <2>1. ASSUME NEW r \in Recipient, DeleteRecipient(r) PROVE \A a \in AttemptsOf(c) : status'[a] = status[a]
    BY <2>1 DEF DeleteRecipient, Withdrawn, AttemptsOf, TypeOK
  <2>2. CASE UNCHANGED status
    BY <2>2
  <2> QED  BY <2>1, <2>2 DEF BackoffElapses, Take, Release, DatabaseError, Restart, vars
<1>2. chanStatus' = chanStatus
  BY DEF DeleteRecipient, BackoffElapses, Take, Release, DatabaseError, Restart, vars
<1>3. ASSUME NEW w \in Worker
      PROVE  /\ Busy(w, c)' => Busy(w, c) /\ seen'[w] = seen[w]
             /\ At(w, c, {"write"})' => At(w, c, {"write"}) /\ tally'[w] = tally[w]
             /\ At(w, c, {"recount", "write"}) => At(w, c, {"recount", "write"})'
  <2>1. CASE UNCHANGED <<pc, item, seen, tally>>
    BY <2>1 DEF Busy, At
  <2>2. ASSUME NEW v \in Worker, NEW a \in DeliveryAttempt, Take(v, a)
        PROVE  pc[v] = "idle" /\ pc'[v] = "claim" /\ seen' = seen /\ tally' = tally
               /\ \A u \in Worker \ {v} : pc'[u] = pc[u] /\ item'[u] = item[u]
    BY <2>2 DEF Take, GoTo, TypeOK
  <2>3. ASSUME NEW v \in Worker, Release(v)
        PROVE  /\ pc[v] = "close" /\ pc'[v] = "idle"
               /\ \A u \in Worker \ {v} : /\ pc'[u] = pc[u] /\ item'[u] = item[u]
                                          /\ seen'[u] = seen[u] /\ tally'[u] = tally[u]
    BY <2>3 DEF Release, ForgetLocals
  <2>4. ASSUME NEW v \in Worker, DatabaseError(v)
        PROVE  /\ pc'[v] = "close" /\ item' = item /\ seen' = seen /\ tally' = tally
               /\ \A u \in Worker \ {v} : pc'[u] = pc[u]
               /\ ~At(v, c, {"recount", "write"})
    <3>1. /\ pc'[v] = "close" /\ item' = item /\ seen' = seen /\ tally' = tally
          /\ \A u \in Worker \ {v} : pc'[u] = pc[u]
      BY <2>4 DEF DatabaseError, GoTo, TypeOK
    <3>2. faults' # faults
      <4>1. faults \in Nat /\ faults' = faults + 1
        BY <2>4, ConstantsAssumption DEF DatabaseError, TypeOK
      <4> QED  BY <4>1
    <3> QED  BY <3>1, <3>2 DEF LostRecount, At
  <2>5. ASSUME Restart PROVE pc'[w] = "idle" /\ ~At(w, c, {"recount", "write"})
    <3>1. pc'[w] = "idle"
      BY <2>5 DEF Restart, ForgetLocals
    <3>2. restarts \in Nat /\ restarts' = restarts + 1
      BY <2>5, ConstantsAssumption DEF Restart, TypeOK
    <3>3. restarts' # restarts
      BY <3>2
    <3> QED  BY <3>1, <3>3 DEF LostRecount
  <2>6. CASE \E v \in Worker, a \in DeliveryAttempt : Take(v, a)
    BY <2>2, <2>6 DEF Busy, At
  <2>7. CASE \E v \in Worker : Release(v)
    BY <2>3, <2>7 DEF Busy, At
  <2>8. CASE \E v \in Worker : DatabaseError(v)
    BY <2>4, <2>8 DEF Busy, At
  <2>9. CASE Restart
    BY <2>5, <2>9 DEF Busy, At
  <2> QED  BY <2>1, <2>6, <2>7, <2>8, <2>9 DEF DeleteRecipient, BackoffElapses, vars
<1> QED  BY <1>1, <1>2, <1>3, QuietFrame

\* A channel is created with attempts that wait, or with none.
LEMMA QuietCreate ==
    ASSUME IInv, NEW c \in NotificationChannel, Quiet(c), ~Overlap(c)',
           NEW d \in NotificationChannel, Create(d)
    PROVE  Quiet(c)'
<1> USE DEF IInv, localVars
<1>1. UNCHANGED <<pc, item, seen, tally>>
  BY DEF Create
<1>2. CASE d # c
  <2>1. \A a \in AttemptsOf(c) : status'[a] = status[a]
    BY <1>2 DEF Create, AttemptsOf
  <2>2. chanStatus'[c] = chanStatus[c]
    BY <1>2 DEF Create, TypeOK
  <2> QED  BY <1>1, <2>1, <2>2, QuietFrame DEF Busy, At
<1>3. CASE d = c
  <2>1. \A w \in Worker : pc[w] # "idle" => ChannelOf[item[w]] # c
    BY <1>3 DEF Create, HolderState
  <2>2. \A w \in Worker : ~At(w, c, {"send", "settle", "recount", "write"})'
    BY <1>1, <2>1 DEF At
  <2>3. \A a \in Rows(c)' : status'[a] \notin Settled
    BY <1>3 DEF Create, Rows, AttemptsOf, RowsOfCreated, RowStatus, DeliveryStatus, Settled
  <2>4. ~Final(c)'
    BY <2>3 DEF Final
  <2> QED  BY <2>2, <2>4 DEF Quiet, Busy, At
<1> QED  BY <1>2, <1>3

\* What the worker of an undisturbed channel does there keeps it quiet.
LEMMA QuietHere ==
    ASSUME IInv, NEW c \in NotificationChannel, Quiet(c), ~Overlap(c)',
           NEW v \in Worker, Work(v), ChannelOf[item[v]] = c
    PROVE  Quiet(c)'
<1> USE DEF IInv, localVars, attemptVars
<1>1. item' = item /\ item[v] \in AttemptsOf(c)
  BY DEF Work, ClaimWon, ClaimLost, LoadChannel, Send, SettleSent, SettleFailed, SettleStale, Recount,
         WriteChannel, HolderState, AttemptsOf
<1>2. \A w \in Worker \ {v} : pc'[w] = pc[w] /\ seen'[w] = seen[w] /\ tally'[w] = tally[w]
  BY DEF Work, ClaimWon, ClaimLost, LoadChannel, Send, SettleSent, SettleFailed, SettleStale, Recount,
         WriteChannel, GoTo, TypeOK
<1>3. CASE ClaimWon(v)
  <2>1. status[item[v]] \in InProgress /\ status'[item[v]] = "SENDING" /\ pc'[v] = "load"
    BY <1>1, <1>3 DEF ClaimWon, Claimable, InProgress, GoTo, TypeOK, AttemptsOf
  <2>2. item[v] \in Rows(c) /\ item[v] \in Rows(c)'
    BY <1>1, <2>1 DEF Rows, AttemptsOf, RowStatus, DeliveryStatus, InProgress
  <2>3. Rollup(c) = "PROCESSING"
    BY <2>1, <2>2, RollupInProgress
  <2>4. Rollup(c)' = "PROCESSING"
    <3>1. status'[item[v]] \in {status'[b] : b \in Rows(c)'} \cap InProgress
      BY <2>1, <2>2 DEF InProgress
    <3> QED  BY <3>1 DEF Rollup
  <2>5. ~Final(c)'
    BY <2>1, <2>2 DEF Final, Settled
  <2>6. chanStatus' = chanStatus
    BY <1>3 DEF ClaimWon
  <2> QED  BY <1>1, <1>2, <2>1, <2>3, <2>4, <2>5, <2>6 DEF Quiet, Busy, At
<1>4. CASE ClaimLost(v) \/ Send(v) \/ SettleStale(v)
  <2>1. /\ UNCHANGED <<status, chanStatus, seen, tally>>
        /\ pc[v] \in {"claim", "send", "settle"}
        /\ pc'[v] \in {"close", "settle"} /\ (pc'[v] = "settle" => pc[v] = "send")
    BY <1>4 DEF ClaimLost, Send, SettleStale, GoTo, TypeOK
  <2> QED  BY <1>1, <1>2, <2>1, QuietFrame DEF Busy, At
<1>5. CASE LoadChannel(v)
  <2>1. /\ UNCHANGED <<status, chanStatus, tally>>
        /\ pc[v] = "load" /\ pc'[v] = "send" /\ seen'[v] = chanStatus[c]
    BY <1>5 DEF LoadChannel, GoTo, TypeOK
  <2>2. Rows(c)' = Rows(c) /\ Rollup(c)' = Rollup(c)
    BY <2>1, RollupFrame
  <2>3. Final(c)' => Final(c)
    BY <1>1, <1>2, <2>1, <2>2 DEF Final, At, Rows
  <2> QED  BY <1>1, <1>2, <2>1, <2>2, <2>3 DEF Quiet, Busy, At
<1>6. CASE SettleSent(v) \/ SettleFailed(v)
  <2>1. pc[v] = "settle" /\ pc'[v] = "recount" /\ UNCHANGED <<chanStatus, seen>>
    BY <1>6 DEF SettleSent, SettleFailed, GoTo, TypeOK
  <2>2. \A w \in Worker \ {v} : ~Busy(w, c)
    BY <1>1, <2>1 DEF Quiet, Overlap, Busy, At
  <2>3. \A w \in Worker : ~At(w, c, {"write"})'
    BY <1>1, <1>2, <2>1, <2>2 DEF Busy, At
  <2>4. ~Final(c)'
    BY <1>1, <2>1 DEF Final, At
  <2> QED  BY <1>1, <1>2, <2>1, <2>2, <2>3, <2>4 DEF Quiet, Busy, At
<1>7. CASE Recount(v)
  <2>1. /\ UNCHANGED <<status, chanStatus, seen>>
        /\ pc[v] = "recount" /\ pc'[v] \in {"close", "write"}
        /\ Rows(c) = {} => pc'[v] = "close"
        /\ Rows(c) # {} => pc'[v] = "write" /\ tally'[v] = Rollup(c)
    BY <1>7 DEF Recount, GoTo, TypeOK
  <2>2. Rows(c)' = Rows(c) /\ Rollup(c)' = Rollup(c)
    BY <2>1, RollupFrame
  <2>3. ~Final(c)'
    BY <1>1, <2>1, <2>2 DEF Final, At
  <2> QED  BY <1>1, <1>2, <2>1, <2>2, <2>3 DEF Quiet, Busy, At
<1>8. CASE WriteChannel(v)
  <2>1. /\ UNCHANGED <<status, seen, tally>>
        /\ pc[v] = "write" /\ pc'[v] = "close"
        /\ chanStatus'[c] = IF tally[v] = seen[v] THEN chanStatus[c] ELSE tally[v]
    BY <1>8 DEF WriteChannel, GoTo, TypeOK
  <2>2. Rows(c)' = Rows(c) /\ Rollup(c)' = Rollup(c)
    BY <2>1, RollupFrame
  <2>3. chanStatus'[c] = Rollup(c)
    BY <2>1 DEF Quiet, Busy, At
  <2>4. \A w \in Worker \ {v} : ~Busy(w, c)
    BY <2>1 DEF Quiet, Overlap, Busy, At
  <2>5. \A w \in Worker : ~Busy(w, c)'
    BY <1>1, <1>2, <2>1, <2>4 DEF Busy, At
  <2> QED  BY <1>2, <2>2, <2>3, <2>5 DEF Quiet, Busy, At
<1> QED  BY <1>3, <1>4, <1>5, <1>6, <1>7, <1>8 DEF Work

\* Every step keeps the undisturbed channels quiet.
LEMMA QuietStep ==
    IInv /\ QuietUndisturbed /\ [AloneNext]_aloneVars => QuietUndisturbed'
<1> SUFFICES ASSUME IInv, QuietUndisturbed, [AloneNext]_aloneVars,
                    NEW c \in NotificationChannel, c \notin disturbed'
             PROVE  Quiet(c)'
  BY DEF QuietUndisturbed
<1>1. CASE AloneNext
  <2>1. c \notin disturbed /\ Quiet(c) /\ ~Overlap(c)' /\ ~Withdrawn(c) /\ ~LostRecount(c)
    BY <1>1 DEF AloneNext, QuietUndisturbed
  <2>2. Next
    BY <1>1 DEF AloneNext
  <2>3. ASSUME NEW w \in Worker, Work(w) PROVE Quiet(c)'
    BY <2>1, <2>3, QuietHere, QuietElsewhere
  <2>4. ASSUME NEW d \in NotificationChannel, Create(d) PROVE Quiet(c)'
    BY <2>1, <2>4, QuietCreate
  <2> QED  BY <2>1, <2>2, <2>3, <2>4, QuietEnvironment DEF Next, WorkerStep
<1>2. CASE UNCHANGED aloneVars
  <2>1. UNCHANGED vars /\ c \notin disturbed
    BY <1>2 DEF aloneVars
  <2>2. Quiet(c)
    BY <2>1 DEF QuietUndisturbed
  <2>3. ~Overlap(c)' /\ ~Withdrawn(c) /\ ~LostRecount(c)
    BY <2>1, <2>2 DEF vars, Quiet, Overlap, Withdrawn, LostRecount, Busy, At
  <2> QED  BY <2>1, <2>2, <2>3, QuietEnvironment
<1> QED  BY <1>1, <1>2

\* Nothing is created at first.
LEMMA QuietInit == AloneInit => QuietUndisturbed
<1> SUFFICES ASSUME AloneInit, NEW c \in NotificationChannel PROVE Quiet(c)
  BY DEF QuietUndisturbed
<1>1. Rows(c) = {} /\ \A w \in Worker : pc[w] = "idle"
  BY DEF AloneInit, Init, Rows, AttemptsOf, RowStatus, DeliveryStatus
<1> QED  BY <1>1 DEF Quiet, Overlap, Final, Busy, At

\* Without overlap, lost recount or deletion a channel's status is what its settled rows say:
\* the recounts themselves are right, and only their interleaving loses them.
THEOREM UndisturbedChannelsAgree == AloneSpec => []UndisturbedAgrees
<1>1. AloneInit => Init
  BY DEF AloneInit
<1>2. [AloneNext]_aloneVars => [Next]_vars
  BY DEF AloneNext, aloneVars
<1>3. AloneSpec => []IInv
  BY <1>1, <1>2, InitIInv, StepInv, PTL DEF AloneSpec
<1>4. QuietUndisturbed => UndisturbedAgrees
  BY DEF QuietUndisturbed, UndisturbedAgrees, Quiet, Final
<1> QED  BY <1>3, <1>4, QuietInit, QuietStep, PTL DEF AloneSpec
=============================================================================
