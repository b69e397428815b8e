------------------------ MODULE ClaimAndSend_proofs ------------------------
(***************************************************************************)
(* What ClaimAndSend guarantees for any number of attempts, channels,      *)
(* recipients and workers, any MaxAttempts and any number of faults and    *)
(* restarts.                                                               *)
(*                                                                         *)
(* No property of interest is inductive: each depends on what a worker     *)
(* between its claim and its settling commit knows of the row it holds.    *)
(* SenderState says it, and IInv joins it with the properties themselves.  *)
(***************************************************************************)
EXTENDS ClaimAndSend, TLAPS

\* A worker that holds an item holds a row of a channel that was created.
HolderState ==
    \A w \in Worker : pc[w] # "idle" =>
        item[w] \in DeliveryAttempt /\ chanStatus[ChannelOf[item[w]]] # "NONE"

\* Between claim and settling commit the row is the worker's own, or gone; the
\* object the worker loaded is current; and the provider is ahead of the row by
\* the worker's one send at most.
SenderState ==
    \A w \in Worker : Sending(w) =>
        /\ status[item[w]] \in {"SENDING", "DELETED"}
        /\ loaded[w] = attemptCount[item[w]]
        /\ attemptCount[item[w]] < MaxAttempts
        /\ pc[w] # "settle" => sends[item[w]] = loaded[w] /\ delivered[item[w]] = 0
        /\ pc[w] = "settle" => /\ sends[item[w]] = loaded[w] + 1
                               /\ delivered[item[w]] = IF ok[w] THEN 1 ELSE 0

\* A channel is created together with its attempts.
RowsOfCreated ==
    \A a \in DeliveryAttempt :
        chanStatus[ChannelOf[a]] = "NONE" => status[a] \in {"NONE", "DELETED"}

\* What a worker is about to write into its channel is true of the rows.
TallyTruthful ==
    \A w \in Worker : pc[w] = "write" =>
        tally[w] \in ChannelStatus /\ Truthful(ChannelOf[item[w]], tally[w])

IInv ==
    /\ TypeOK
    /\ HolderState
    /\ SenderState
    /\ OneSender
    /\ RowMatchesProvider
    /\ RowsOfCreated
    /\ ChannelTruthful
    /\ TallyTruthful
    /\ AuditChained
-----------------------------------------------------------------------------
(* Lemmas about the operators. *)

\* The recount of a channel is true of its rows when there are any.
LEMMA RollupTruthful ==
    ASSUME NEW c \in NotificationChannel, Rows(c) # {}
    PROVE  Rollup(c) \in ChannelStatus /\ Truthful(c, Rollup(c))
<1> DEFINE statuses == {status[a] : a \in Rows(c)}
<1>1. \A a \in Rows(c) : status[a] \in statuses /\ status[a] \in RowStatus
  BY DEF Rows
<1>2. statuses # {}
  OBVIOUS
<1>3. RowStatus = InProgress \cup Settled
  BY DEF RowStatus, DeliveryStatus, InProgress, Settled
<1>4. CASE statuses \cap InProgress # {}
  BY <1>4 DEF Rollup, Truthful, ChannelStatus
<1>5. CASE statuses \cap InProgress = {}
  <2>1. \A a \in Rows(c) : status[a] \in Settled
    BY <1>1, <1>3, <1>5
  <2>2. CASE statuses = {"SENT"} /\ c \notin Skipped
    BY <1>1, <1>5, <2>2 DEF Rollup, Truthful, ChannelStatus
  <2>3. CASE ~(statuses = {"SENT"} /\ c \notin Skipped) /\ "SENT" \in statuses
    BY <1>5, <2>1, <2>3 DEF Rollup, Truthful, ChannelStatus
  <2>4. CASE ~(statuses = {"SENT"} /\ c \notin Skipped) /\ "SENT" \notin statuses
    <3>1. Rollup(c) = "FAILED"
      BY <1>5, <2>4 DEF Rollup
    <3>2. \A a \in Rows(c) : status[a] = "DEAD_LETTERED"
      BY <1>1, <2>1, <2>4 DEF Settled
    <3> QED  BY <3>1, <3>2 DEF Truthful, ChannelStatus
  <2> QED  BY <2>2, <2>3, <2>4
<1> QED  BY <1>4, <1>5

\* While a row of the channel is not settled, only a status that claims nothing
\* of the rows is true of it.
LEMMA UnsettledNeutral ==
    ASSUME NEW c \in NotificationChannel, NEW s, Truthful(c, s),
           NEW a \in Rows(c), status[a] \notin Settled
    PROVE  s \notin {"COMPLETED", "PARTIALLY_FAILED", "FAILED"}
BY DEF Truthful, Settled

\* A status that claims nothing stays true.
LEMMA TruthfulNeutral ==
    ASSUME NEW c, NEW s, s \notin {"COMPLETED", "PARTIALLY_FAILED", "FAILED"}
    PROVE  Truthful(c, s)'
BY DEF Truthful

\* What is said of some rows stays true of fewer.
LEMMA TruthfulFewer ==
    ASSUME NEW c \in NotificationChannel, NEW s, Truthful(c, s),
           \A a \in DeliveryAttempt : a \in Rows(c)' => a \in Rows(c) /\ status'[a] = status[a]
    PROVE  Truthful(c, s)'
BY DEF Truthful, Rows, AttemptsOf

-----------------------------------------------------------------------------
(* Each part of the invariant is preserved by every step. *)

\* The empty database satisfies the invariant.
LEMMA InitIInv == Init => IInv
<1> SUFFICES ASSUME Init PROVE IInv
  OBVIOUS
<1> USE ConstantsAssumption DEF Init
<1>1. TypeOK
  BY DEF TypeOK
<1>2. HolderState /\ SenderState /\ OneSender /\ TallyTruthful
  BY DEF HolderState, SenderState, OneSender, TallyTruthful, Sending
<1>3. RowMatchesProvider /\ RowsOfCreated
  BY DEF RowMatchesProvider, RowsOfCreated
<1>4. ChannelTruthful
  BY DEF ChannelTruthful, Truthful
<1>5. AuditChained
  BY DEF AuditChained, Chained, RowStatus, DeliveryStatus
<1> QED  BY <1>1, <1>2, <1>3, <1>4, <1>5 DEF IInv

\* No step writes a value outside of its column: a failure is counted only
\* while attempts are left.
LEMMA TypeStep == IInv /\ [Next]_vars => TypeOK'
<1> SUFFICES ASSUME IInv, [Next]_vars PROVE TypeOK'
  OBVIOUS
<1> USE ConstantsAssumption DEF IInv, TypeOK, attemptVars, localVars, providerVars, boundVars, GoTo
<1>1. ASSUME NEW c \in NotificationChannel, Create(c) PROVE TypeOK'
  BY <1>1 DEF Create, RowStatus, DeliveryStatus, ChannelStatus
<1>2. ASSUME NEW r \in Recipient, DeleteRecipient(r) PROVE TypeOK'
  BY <1>2 DEF DeleteRecipient
<1>3. ASSUME NEW a \in DeliveryAttempt, BackoffElapses(a) PROVE TypeOK'
  BY <1>3 DEF BackoffElapses
<1>4. ASSUME NEW w \in Worker, NEW a \in DeliveryAttempt, Take(w, a) PROVE TypeOK'
  BY <1>4 DEF Take
<1>5. ASSUME NEW w \in Worker, ClaimWon(w) PROVE TypeOK'
  <2>1. item[w] \in DeliveryAttempt
    BY <1>5 DEF ClaimWon, HolderState
  <2>2. <<OldState(attemptCount[item[w]]), "SENDING">> \in DeliveryStatus \X DeliveryStatus
    BY DEF OldState, DeliveryStatus
  <2>3. audit' \in [DeliveryAttempt -> Seq(DeliveryStatus \X DeliveryStatus)]
    BY <1>5, <2>1, <2>2 DEF ClaimWon, WriteAudit
  <2> QED  BY <1>5, <2>1, <2>3 DEF ClaimWon, RowStatus, DeliveryStatus
<1>6. ASSUME NEW w \in Worker, SettleSent(w) PROVE TypeOK'
  <2>1. item[w] \in DeliveryAttempt
    BY <1>6 DEF SettleSent, HolderState
  <2>2. audit' \in [DeliveryAttempt -> Seq(DeliveryStatus \X DeliveryStatus)]
    BY <1>6, <2>1 DEF SettleSent, WriteAudit, DeliveryStatus
  <2> QED  BY <1>6, <2>1, <2>2 DEF SettleSent, RowStatus, DeliveryStatus
<1>7. ASSUME NEW w \in Worker, SettleFailed(w) PROVE TypeOK'
  <2> DEFINE new == IF Exhausted(loaded[w] + 1) THEN "DEAD_LETTERED" ELSE "RETRYING"
  <2>1. item[w] \in DeliveryAttempt /\ loaded[w] + 1 \in 0..MaxAttempts
    BY <1>7 DEF SettleFailed, HolderState, SenderState, Sending
  <2>2. << <<"SENDING", "FAILED">>, <<"FAILED", new>> >> \in Seq(DeliveryStatus \X DeliveryStatus)
    BY DEF DeliveryStatus
  <2>3. audit' \in [DeliveryAttempt -> Seq(DeliveryStatus \X DeliveryStatus)]
    BY <1>7, <2>1, <2>2 DEF SettleFailed, WriteAudit
  <2>4. status' \in [DeliveryAttempt -> RowStatus \cup {"NONE", "DELETED"}]
    BY <1>7, <2>1 DEF SettleFailed, RowStatus, DeliveryStatus
  <2>5. nextAt' \in [DeliveryAttempt -> {"null", "future", "past"}]
    BY <1>7, <2>1 DEF SettleFailed
  <2> QED  BY <1>7, <2>1, <2>3, <2>4, <2>5 DEF SettleFailed
<1>8. ASSUME NEW w \in Worker, Send(w) PROVE TypeOK'
  <2>1. item[w] \in DeliveryAttempt
    BY <1>8 DEF Send, HolderState
  <2>2. PICK success \in BOOLEAN :
          /\ ok' = [ok EXCEPT ![w] = success]
          /\ delivered' = [delivered EXCEPT ![item[w]] = IF success THEN @ + 1 ELSE @]
    BY <1>8 DEF Send
  <2>3. ok' \in [Worker -> BOOLEAN]
    BY <2>2
  <2>4. delivered' \in [DeliveryAttempt -> Nat]
    BY <2>1, <2>2
  <2> QED  BY <1>8, <2>1, <2>3, <2>4 DEF Send
<1>9. ASSUME NEW w \in Worker, LoadChannel(w) PROVE TypeOK'
  <2>1. ChannelOf[item[w]] \in NotificationChannel
    BY <1>9 DEF LoadChannel, HolderState
  <2> QED  BY <1>9, <2>1 DEF LoadChannel
<1>10. ASSUME NEW w \in Worker, Recount(w) PROVE TypeOK'
  <2> DEFINE c == ChannelOf[item[w]]
  <2>1. c \in NotificationChannel
    BY <1>10 DEF Recount, HolderState
  <2>2. CASE Rows(c) = {}
    BY <1>10, <2>2 DEF Recount
  <2>3. CASE Rows(c) # {}
    BY <1>10, <2>1, <2>3, RollupTruthful DEF Recount
  <2> QED  BY <2>2, <2>3
<1>11. ASSUME NEW w \in Worker, WriteChannel(w) PROVE TypeOK'
  BY <1>11 DEF WriteChannel
<1>12. ASSUME NEW w \in Worker, ClaimLost(w) \/ SettleStale(w) PROVE TypeOK'
  BY <1>12 DEF ClaimLost, SettleStale
<1>13. ASSUME NEW w \in Worker, DatabaseError(w) PROVE TypeOK'
  BY <1>13 DEF DatabaseError
<1>14. ASSUME NEW W, ForgetLocals(W), UNCHANGED <<attemptVars, chanStatus, providerVars, faults>>,
              restarts' \in 0..MaxRestarts
       PROVE  TypeOK'
  <2>1. pc' \in [Worker -> {"idle", "claim", "load", "send", "settle", "recount", "write", "close"}]
    BY <1>14 DEF ForgetLocals
  <2>2. item' \in [Worker -> DeliveryAttempt \cup {NoItem}] /\ loaded' \in [Worker -> 0..MaxAttempts]
    BY <1>14 DEF ForgetLocals
  <2>3. seen' \in [Worker -> ChannelStatus \cup {"NONE"}] /\ tally' \in [Worker -> ChannelStatus \cup {"NONE"}]
    BY <1>14 DEF ForgetLocals
  <2>4. ok' \in [Worker -> BOOLEAN]
    BY <1>14 DEF ForgetLocals
  <2> QED  BY <1>14, <2>1, <2>2, <2>3, <2>4
<1>15. ASSUME NEW w \in Worker, Release(w) PROVE TypeOK'
  BY <1>14, <1>15 DEF Release
<1>16. ASSUME Restart PROVE TypeOK'
  BY <1>14, <1>16 DEF Restart
<1>17. CASE UNCHANGED vars
  BY <1>17 DEF vars
<1> QED
  BY <1>1, <1>2, <1>3, <1>4, <1>5, <1>6, <1>7, <1>8, <1>9, <1>10, <1>11, <1>12, <1>13, <1>15, <1>16, <1>17
  DEF Next, WorkerStep, Work

\* A worker keeps its item until it releases it, and no channel is uncreated.
LEMMA HolderStep == IInv /\ [Next]_vars => HolderState'
<1> SUFFICES ASSUME IInv, [Next]_vars PROVE HolderState'
  OBVIOUS
<1> USE ConstantsAssumption
    DEF IInv, HolderState, attemptVars, localVars, providerVars, boundVars, GoTo
<1>1. ASSUME NEW c \in NotificationChannel, Create(c) PROVE HolderState'
  BY <1>1 DEF Create, TypeOK
<1>2. ASSUME NEW w \in Worker, NEW a \in DeliveryAttempt, Take(w, a) PROVE HolderState'
  BY <1>2 DEF Take, TypeOK
<1>3. ASSUME NEW w \in Worker, WriteChannel(w) PROVE HolderState'
  <2>1. tally[w] # "NONE"
    BY <1>3 DEF WriteChannel, TallyTruthful, ChannelStatus
  <2>2. pc[w] # "idle" /\ pc' = [pc EXCEPT ![w] = "close"] /\ UNCHANGED item
    BY <1>3 DEF WriteChannel
  <2>3. \A c \in NotificationChannel : chanStatus[c] # "NONE" => chanStatus'[c] # "NONE"
    BY <1>3, <2>1 DEF WriteChannel, TypeOK
  <2> QED  BY <2>2, <2>3 DEF TypeOK
<1>4. ASSUME NEW W, ForgetLocals(W), UNCHANGED chanStatus PROVE HolderState'
  BY <1>4 DEF ForgetLocals
<1>5. ASSUME NEW w \in Worker, NEW label, pc[w] # "idle", GoTo(w, label), UNCHANGED <<item, chanStatus>>
      PROVE  HolderState'
  BY <1>5 DEF TypeOK
<1>6. ASSUME NEW w \in Worker, WorkerStep(w) \/ DatabaseError(w), ~WriteChannel(w) PROVE HolderState'
  <2>1. CASE Release(w)
    BY <1>4, <2>1 DEF Release
  <2>2. CASE ClaimWon(w) \/ ClaimLost(w) \/ LoadChannel(w) \/ Send(w)
    BY <1>5, <2>2 DEF ClaimWon, ClaimLost, LoadChannel, Send
  <2>3. CASE SettleSent(w) \/ SettleFailed(w) \/ SettleStale(w)
    BY <1>5, <2>3 DEF SettleSent, SettleFailed, SettleStale
  <2>4. CASE Recount(w) \/ DatabaseError(w)
    BY <1>5, <2>4 DEF Recount, DatabaseError
  <2> QED  BY <1>6, <2>1, <2>2, <2>3, <2>4 DEF WorkerStep, Work
<1>7. CASE Restart
  BY <1>4, <1>7 DEF Restart
<1>8. CASE UNCHANGED <<pc, item, chanStatus>>
  BY <1>8
<1> QED
  BY <1>1, <1>2, <1>3, <1>6, <1>7, <1>8 DEF Next, DeleteRecipient, BackoffElapses, vars

\* Only the claim gives a worker the right to send, and it takes rows that no
\* other worker can be sending: theirs are in SENDING, or gone.
LEMMA OneSenderStep == IInv /\ [Next]_vars => OneSender'
<1> SUFFICES ASSUME IInv, [Next]_vars PROVE OneSender'
  OBVIOUS
<1> USE DEF IInv, OneSender, Sending, attemptVars, localVars, providerVars, boundVars, GoTo
<1>1. ASSUME NEW w \in Worker, ClaimWon(w) PROVE OneSender'
  <2>1. \A v \in Worker : Sending(v) => item[v] # item[w]
    BY <1>1 DEF ClaimWon, SenderState, Claimable
  <2> QED  BY <1>1, <2>1 DEF ClaimWon, TypeOK
<1>2. ASSUME NEW w \in Worker, LoadChannel(w) \/ Send(w) PROVE OneSender'
  <2>1. Sending(w) /\ UNCHANGED item
    BY <1>2 DEF LoadChannel, Send
  <2>2. \A v \in Worker \ {w} : pc'[v] = pc[v]
    BY <1>2 DEF LoadChannel, Send, TypeOK
  <2> QED  BY <2>1, <2>2
<1>3. ASSUME NEW w \in Worker, NEW label, label \notin {"load", "send", "settle"}, GoTo(w, label),
             \A v \in Worker \ {w} : item'[v] = item[v]
      PROVE  OneSender'
  BY <1>3 DEF TypeOK
<1>4. ASSUME NEW w \in Worker, NEW a \in DeliveryAttempt, Take(w, a) PROVE OneSender'
  BY <1>3, <1>4 DEF Take, TypeOK
<1>5. ASSUME NEW w \in Worker, WorkerStep(w) \/ DatabaseError(w) PROVE OneSender'
  <2>1. CASE Release(w)
    BY <2>1 DEF Release, ForgetLocals
  <2>2. CASE ClaimLost(w) \/ SettleSent(w) \/ SettleFailed(w) \/ SettleStale(w)
    BY <1>3, <2>2 DEF ClaimLost, SettleSent, SettleFailed, SettleStale
  <2>3. CASE Recount(w) \/ WriteChannel(w) \/ DatabaseError(w)
    BY <1>3, <2>3 DEF Recount, WriteChannel, DatabaseError
  <2> QED  BY <1>1, <1>2, <1>5, <2>1, <2>2, <2>3 DEF WorkerStep, Work
<1>6. CASE Restart
  BY <1>6 DEF Restart, ForgetLocals
<1>7. CASE UNCHANGED <<pc, item>>
  BY <1>7
<1> QED
  BY <1>4, <1>5, <1>6, <1>7 DEF Next, Create, DeleteRecipient, BackoffElapses, vars

\* Only the sender itself changes a row in SENDING, except for its deletion, and
\* the row and the provider advance together.
LEMMA SenderStep == IInv /\ [Next]_vars => SenderState'
<1> SUFFICES ASSUME IInv, [Next]_vars PROVE SenderState'
  OBVIOUS
<1> USE ConstantsAssumption
    DEF IInv, SenderState, Sending, attemptVars, localVars, providerVars, boundVars, GoTo
\* The row of a sender is another sender's business in no step.
<1>1. ASSUME NEW w \in Worker, NEW v \in Worker, v # w, Sending(v), Sending(w) \/ ClaimWon(w)
      PROVE  item[v] # item[w] /\ item[v] \in DeliveryAttempt
  BY <1>1 DEF OneSender, ClaimWon, Claimable, HolderState
<1>2. ASSUME NEW c \in NotificationChannel, Create(c) PROVE SenderState'
  <2>1. \A w \in Worker : Sending(w) => status'[item[w]] = status[item[w]]
    BY <1>2 DEF Create, HolderState
  <2> QED  BY <1>2, <2>1 DEF Create
<1>3. ASSUME NEW r \in Recipient, DeleteRecipient(r) PROVE SenderState'
  <2>1. \A w \in Worker : Sending(w) => status'[item[w]] \in {"SENDING", "DELETED"}
    BY <1>3 DEF DeleteRecipient, HolderState
  <2> QED  BY <1>3, <2>1 DEF DeleteRecipient
<1>4. ASSUME NEW w \in Worker, ClaimWon(w) PROVE SenderState'
  <2> DEFINE a == item[w]
  <2>1. a \in DeliveryAttempt
    BY <1>4 DEF ClaimWon, HolderState
  <2>2. attemptCount[a] < MaxAttempts /\ sends[a] = attemptCount[a] /\ delivered[a] = 0
    BY <1>4, <2>1 DEF ClaimWon, Claimable, RowMatchesProvider, TypeOK
  <2>3. /\ pc'[w] = "load" /\ loaded'[w] = attemptCount[a] /\ status'[a] = "SENDING"
        /\ UNCHANGED <<item, attemptCount, sends, delivered>>
    BY <1>4, <2>1 DEF ClaimWon, TypeOK
  <2>4. \A v \in Worker \ {w} : pc'[v] = pc[v] /\ loaded'[v] = loaded[v] /\ ok'[v] = ok[v]
    BY <1>4 DEF ClaimWon, TypeOK
  <2>5. \A b \in DeliveryAttempt \ {a} : status'[b] = status[b]
    BY <1>4 DEF ClaimWon, TypeOK
  <2> QED  BY <1>1, <1>4, <2>2, <2>3, <2>4, <2>5
<1>5. ASSUME NEW w \in Worker, LoadChannel(w) PROVE SenderState'
  BY <1>5 DEF LoadChannel, TypeOK
<1>6. ASSUME NEW w \in Worker, Send(w) PROVE SenderState'
  <2> DEFINE a == item[w]
  <2>1. a \in DeliveryAttempt /\ Sending(w) /\ sends[a] = loaded[w] /\ delivered[a] = 0
    BY <1>6 DEF Send, HolderState
  <2>2. PICK success \in BOOLEAN :
          /\ ok' = [ok EXCEPT ![w] = success]
          /\ delivered' = [delivered EXCEPT ![a] = IF success THEN @ + 1 ELSE @]
    BY <1>6 DEF Send
  <2>3. delivered'[a] = IF ok'[w] THEN 1 ELSE 0
    BY <2>1, <2>2 DEF TypeOK
  <2>4. sends'[a] = loaded[w] + 1 /\ pc'[w] = "settle"
    BY <1>6, <2>1 DEF Send, TypeOK
  <2>5. \A v \in Worker \ {w} : pc'[v] = pc[v] /\ ok'[v] = ok[v]
    BY <1>6, <2>2 DEF Send, TypeOK
  <2>6. \A b \in DeliveryAttempt \ {a} : sends'[b] = sends[b] /\ delivered'[b] = delivered[b]
    BY <1>6, <2>2 DEF Send, TypeOK
  <2>7. UNCHANGED <<status, attemptCount, item, loaded>>
    BY <1>6 DEF Send
  <2> QED  BY <1>1, <2>1, <2>3, <2>4, <2>5, <2>6, <2>7
<1>7. ASSUME NEW w \in Worker, SettleSent(w) \/ SettleFailed(w) PROVE SenderState'
  <2>1. Sending(w) /\ pc' = [pc EXCEPT ![w] = "recount"] /\ UNCHANGED <<localVars, providerVars>>
    BY <1>7 DEF SettleSent, SettleFailed
  <2>2. \A b \in DeliveryAttempt \ {item[w]} :
          status'[b] = status[b] /\ attemptCount'[b] = attemptCount[b]
    BY <1>7 DEF SettleSent, SettleFailed, TypeOK
  <2>3. \A v \in Worker \ {w} : pc'[v] = pc[v]
    BY <2>1 DEF TypeOK
  <2>4. ~(pc'[w] \in {"load", "send", "settle"})
    BY <2>1 DEF TypeOK
  <2> QED  BY <1>1, <2>1, <2>2, <2>3, <2>4
\* A worker that stops sending, or begins with an item, disturbs nobody.
<1>8. ASSUME NEW w \in Worker, NEW label, label \notin {"load", "send", "settle"}, GoTo(w, label),
             UNCHANGED <<attemptVars, providerVars>>,
             \A v \in Worker \ {w} : item'[v] = item[v] /\ loaded'[v] = loaded[v] /\ ok'[v] = ok[v]
      PROVE  SenderState'
  <2>1. \A v \in Worker \ {w} : pc'[v] = pc[v]
    BY <1>8 DEF TypeOK
  <2>2. ~(pc'[w] \in {"load", "send", "settle"})
    BY <1>8 DEF TypeOK
  <2> QED  BY <1>8, <2>1, <2>2
<1>9. ASSUME NEW w \in Worker, NEW a \in DeliveryAttempt, Take(w, a) PROVE SenderState'
  BY <1>8, <1>9 DEF Take, TypeOK
<1>10. ASSUME NEW w \in Worker, ClaimLost(w) \/ SettleStale(w) \/ Recount(w) PROVE SenderState'
  BY <1>8, <1>10 DEF ClaimLost, SettleStale, Recount
<1>11. ASSUME NEW w \in Worker, WriteChannel(w) \/ DatabaseError(w) PROVE SenderState'
  BY <1>8, <1>11 DEF WriteChannel, DatabaseError
<1>12. ASSUME NEW w \in Worker, Release(w) PROVE SenderState'
  BY <1>12 DEF Release, ForgetLocals
<1>13. CASE Restart
  BY <1>13 DEF Restart, ForgetLocals
<1>14. CASE UNCHANGED <<status, attemptCount, pc, localVars, providerVars>>
  BY <1>14
<1> QED
  BY <1>2, <1>3, <1>4, <1>5, <1>6, <1>7, <1>9, <1>10, <1>11, <1>12, <1>13, <1>14
  DEF Next, WorkerStep, Work, BackoffElapses, vars

\* Claim, send and settle move status, attempt_count and the provider's counters
\* in step; every other action leaves them or deletes the row.
LEMMA RowStep == IInv /\ [Next]_vars => RowMatchesProvider'
<1> SUFFICES ASSUME IInv, [Next]_vars PROVE RowMatchesProvider'
  OBVIOUS
<1> USE ConstantsAssumption
    DEF IInv, RowMatchesProvider, Sending, attemptVars, localVars, providerVars, boundVars, GoTo
<1>1. ASSUME NEW c \in NotificationChannel, Create(c) PROVE RowMatchesProvider'
  BY <1>1 DEF Create, TypeOK
<1>2. ASSUME NEW r \in Recipient, DeleteRecipient(r) PROVE RowMatchesProvider'
  <2>1. ASSUME NEW a \in DeliveryAttempt PROVE sends[a] <= MaxAttempts /\ delivered[a] <= 1
    <3>1. attemptCount[a] \in 0..MaxAttempts /\ sends[a] \in Nat /\ delivered[a] \in Nat
      BY DEF TypeOK
    <3>2. status[a] \in {"NONE", "SCHEDULED", "PENDING", "SENDING", "RETRYING", "SENT",
                         "DEAD_LETTERED", "DELETED"}
      BY DEF TypeOK, RowStatus, DeliveryStatus
    <3> QED  BY <3>1, <3>2
  <2>2. \A a \in DeliveryAttempt : status'[a] \in {status[a], "DELETED"}
    BY <1>2 DEF DeleteRecipient
  <2> QED  BY <1>2, <2>1, <2>2 DEF DeleteRecipient
<1>3. ASSUME NEW w \in Worker, ClaimWon(w) PROVE RowMatchesProvider'
  BY <1>3 DEF ClaimWon, Claimable, HolderState, TypeOK
<1>4. ASSUME NEW w \in Worker, Send(w) PROVE RowMatchesProvider'
  <2> DEFINE a == item[w]
  <2>1. /\ a \in DeliveryAttempt /\ status[a] \in {"SENDING", "DELETED"}
        /\ sends[a] = attemptCount[a] /\ delivered[a] = 0 /\ attemptCount[a] < MaxAttempts
    BY <1>4 DEF Send, HolderState, SenderState
  <2>2. sends'[a] = sends[a] + 1 /\ delivered'[a] \in {0, 1}
    BY <1>4, <2>1 DEF Send, TypeOK
  <2>3. \A b \in DeliveryAttempt \ {a} : sends'[b] = sends[b] /\ delivered'[b] = delivered[b]
    BY <1>4 DEF Send, TypeOK
  <2> QED  BY <1>4, <2>1, <2>2, <2>3 DEF Send, TypeOK
<1>5. ASSUME NEW w \in Worker, SettleSent(w) PROVE RowMatchesProvider'
  BY <1>5 DEF SettleSent, HolderState, SenderState, TypeOK
<1>6. ASSUME NEW w \in Worker, SettleFailed(w) PROVE RowMatchesProvider'
  <2> DEFINE a == item[w]
  <2>1. /\ a \in DeliveryAttempt /\ sends[a] = attemptCount[a] + 1 /\ delivered[a] = 0
        /\ loaded[w] = attemptCount[a] /\ attemptCount[a] \in 0..(MaxAttempts - 1)
    BY <1>6 DEF SettleFailed, HolderState, SenderState, TypeOK
  <2>2. attemptCount'[a] = attemptCount[a] + 1 /\ UNCHANGED <<sends, delivered>>
    BY <1>6, <2>1 DEF SettleFailed, TypeOK
  <2>3. status'[a] = IF attemptCount'[a] >= MaxAttempts THEN "DEAD_LETTERED" ELSE "RETRYING"
    BY <1>6, <2>1, <2>2 DEF SettleFailed, Exhausted, TypeOK
  <2>4. \A b \in DeliveryAttempt \ {a} :
          status'[b] = status[b] /\ attemptCount'[b] = attemptCount[b]
    BY <1>6 DEF SettleFailed, TypeOK
  <2> QED  BY <2>1, <2>2, <2>3, <2>4
<1>7. CASE UNCHANGED <<status, attemptCount, providerVars>>
  BY <1>7
<1> QED
  BY <1>1, <1>2, <1>3, <1>4, <1>5, <1>6, <1>7
  DEF Next, WorkerStep, Work, BackoffElapses, Take, ClaimLost, LoadChannel, SettleStale, Recount,
      WriteChannel, Release, DatabaseError, Restart, vars

\* Rows are inserted with their channel and with no other.
LEMMA RowsOfCreatedStep == IInv /\ [Next]_vars => RowsOfCreated'
<1> SUFFICES ASSUME IInv, [Next]_vars PROVE RowsOfCreated'
  OBVIOUS
<1> USE ConstantsAssumption DEF IInv, RowsOfCreated, attemptVars, localVars
<1>1. ASSUME NEW c \in NotificationChannel, Create(c) PROVE RowsOfCreated'
  BY <1>1 DEF Create, AttemptsOf, TypeOK
<1>2. ASSUME NEW r \in Recipient, DeleteRecipient(r) PROVE RowsOfCreated'
  BY <1>2 DEF DeleteRecipient
<1>3. ASSUME NEW w \in Worker, ClaimWon(w) \/ SettleSent(w) \/ SettleFailed(w) PROVE RowsOfCreated'
  <2>1. item[w] \in DeliveryAttempt /\ chanStatus[ChannelOf[item[w]]] # "NONE" /\ UNCHANGED chanStatus
    BY <1>3 DEF ClaimWon, SettleSent, SettleFailed, HolderState
  <2>2. \A b \in DeliveryAttempt \ {item[w]} : status'[b] = status[b]
    BY <1>3 DEF ClaimWon, SettleSent, SettleFailed, TypeOK
  <2> QED  BY <2>1, <2>2
<1>4. ASSUME NEW w \in Worker, WriteChannel(w) PROVE RowsOfCreated'
  <2>1. \A c \in NotificationChannel : chanStatus'[c] = "NONE" => chanStatus[c] = "NONE"
    BY <1>4 DEF WriteChannel, TallyTruthful, ChannelStatus, TypeOK
  <2> QED  BY <1>4, <2>1 DEF WriteChannel
<1>5. CASE UNCHANGED <<status, chanStatus>>
  BY <1>5
<1> QED
  BY <1>1, <1>2, <1>3, <1>4, <1>5
  DEF Next, WorkerStep, Work, BackoffElapses, Take, ClaimLost, LoadChannel, Send, SettleStale, Recount,
      Release, DatabaseError, Restart, vars

\* A worker takes up or settles an attempt only while the attempt is not settled,
\* so what its channel's status claims of the rows stays true.
LEMMA TruthfulKept ==
    ASSUME IInv, NEW w \in Worker, ClaimWon(w) \/ SettleSent(w) \/ SettleFailed(w),
           NEW c \in NotificationChannel, NEW s, Truthful(c, s)
    PROVE  Truthful(c, s)'
<1> DEFINE a == item[w]
<1> USE DEF IInv
<1>1. a \in DeliveryAttempt
  BY DEF HolderState, ClaimWon, SettleSent, SettleFailed
<1>2. status[a] \in {"PENDING", "RETRYING", "SENDING"}
  BY DEF SenderState, Sending, ClaimWon, SettleSent, SettleFailed, Claimable
<1>3. \A b \in DeliveryAttempt \ {a} : status'[b] = status[b]
  BY DEF ClaimWon, SettleSent, SettleFailed, TypeOK
<1>4. CASE ChannelOf[a] = c
  <2>1. a \in Rows(c) /\ status[a] \notin Settled
    BY <1>1, <1>2, <1>4 DEF Rows, AttemptsOf, RowStatus, DeliveryStatus, Settled
  <2> QED  BY <2>1, UnsettledNeutral, TruthfulNeutral
<1>5. CASE ChannelOf[a] # c
  BY <1>1, <1>3, <1>5, TruthfulFewer DEF Rows, AttemptsOf
<1> QED  BY <1>4, <1>5

\* A status that is true of the rows stays so until it is written and after: rows
\* that are settled stay settled.
LEMMA ChannelStep == IInv /\ [Next]_vars => ChannelTruthful' /\ TallyTruthful'
<1> SUFFICES ASSUME IInv, [Next]_vars PROVE ChannelTruthful' /\ TallyTruthful'
  OBVIOUS
<1> USE ConstantsAssumption DEF IInv, attemptVars, localVars, providerVars, boundVars, GoTo
<1> DEFINE Kept == \A c \in NotificationChannel, s \in ChannelStatus :
                      Truthful(c, s) /\ chanStatus[c] # "NONE" => Truthful(c, s)'
           NewStatusTrue == \A c \in NotificationChannel, s \in ChannelStatus :
                      s = chanStatus'[c] /\ s # chanStatus[c] => Truthful(c, s)'
           OldTally(w) == pc[w] = "write" /\ item'[w] = item[w] /\ tally'[w] = tally[w]
           NewTallyTrue(w) == \E c \in NotificationChannel, s \in ChannelStatus :
                      c = ChannelOf[item'[w]] /\ s = tally'[w] /\ Truthful(c, s)'
\* Enough that what is true of a channel stays true, and what is new is true.
<1>1. ASSUME Kept, NewStatusTrue,
             \A w \in Worker : pc'[w] = "write" => OldTally(w) \/ NewTallyTrue(w),
             \A c \in NotificationChannel : chanStatus'[c] \in ChannelStatus \cup {"NONE"}
      PROVE  ChannelTruthful' /\ TallyTruthful'
  <2>1. ASSUME NEW c \in NotificationChannel, NEW s, s = chanStatus'[c] PROVE Truthful(c, s)'
    <3>1. CASE s = "NONE"
      BY <3>1 DEF Truthful
    <3>2. CASE s \in ChannelStatus /\ s # chanStatus[c]
      BY <1>1, <2>1, <3>2
    <3>3. CASE s \in ChannelStatus /\ s = chanStatus[c]
      <4>1. Truthful(c, s) /\ chanStatus[c] # "NONE"
        BY <3>3 DEF ChannelTruthful, ChannelStatus
      <4> QED  BY <1>1, <3>3, <4>1
    <3> QED  BY <1>1, <2>1, <3>1, <3>2, <3>3
  <2>2. ChannelTruthful'
    BY <2>1 DEF ChannelTruthful, Truthful
  <2>3. ASSUME NEW w \in Worker, pc'[w] = "write"
        PROVE  NewTallyTrue(w)
    <3>1. CASE OldTally(w)
      <4> DEFINE c == ChannelOf[item[w]]
      <4>1. c \in NotificationChannel /\ chanStatus[c] # "NONE"
        BY <3>1 DEF HolderState
      <4>2. tally[w] \in ChannelStatus /\ Truthful(c, tally[w])
        BY <3>1 DEF TallyTruthful
      <4>3. PICK s \in ChannelStatus : s = tally[w] /\ Truthful(c, s)
        BY <4>2
      <4>4. PICK d \in NotificationChannel : d = c
        BY <4>1
      <4>5. Truthful(d, s)'
        BY <1>1, <4>1, <4>3, <4>4
      <4> QED  BY <3>1, <4>3, <4>4, <4>5
    <3> QED  BY <1>1, <2>3, <3>1
  <2>4. TallyTruthful'
    BY <2>3 DEF TallyTruthful, Truthful
  <2> QED  BY <2>2, <2>4
<1>2. ASSUME NEW c0 \in NotificationChannel, Create(c0) PROVE ChannelTruthful' /\ TallyTruthful'
  <2>1. ASSUME NEW c \in NotificationChannel, c # c0, NEW a \in DeliveryAttempt, a \in Rows(c)'
        PROVE  a \in Rows(c) /\ status'[a] = status[a]
    BY <1>2, <2>1 DEF Create, Rows, AttemptsOf
  <2>2. Kept
    BY <1>2, <2>1, TruthfulFewer DEF Create
  <2>3. ASSUME NEW s \in ChannelStatus, s = chanStatus'[c0] PROVE Truthful(c0, s)'
    <3> DEFINE new == {a \in AttemptsOf(c0) : status[a] = "NONE"}
    <3>1. CASE new = {}
      <4>1. Rows(c0)' = {}
        BY <1>2, <3>1 DEF Create, Rows, AttemptsOf, RowsOfCreated, RowStatus, DeliveryStatus
      <4>2. s = "FAILED"
        BY <1>2, <2>3, <3>1 DEF Create, TypeOK
      <4> QED  BY <4>1, <4>2 DEF Truthful
    <3>2. CASE new # {}
      <4>1. s \in {"SCHEDULED", "CREATED"}
        BY <1>2, <2>3, <3>2 DEF Create, TypeOK
      <4> QED  BY <4>1, TruthfulNeutral
    <3> QED  BY <3>1, <3>2
  <2>4. NewStatusTrue
    BY <1>2, <2>3 DEF Create, TypeOK
  <2>5. \A c \in NotificationChannel : chanStatus'[c] \in ChannelStatus \cup {"NONE"}
    BY <1>2 DEF Create, TypeOK, ChannelStatus
  <2>6. \A w \in Worker : pc'[w] = "write" => OldTally(w)
    BY <1>2 DEF Create
  <2> QED  BY <1>1, <2>2, <2>4, <2>5, <2>6
<1>3. ASSUME NEW r \in Recipient, DeleteRecipient(r) PROVE ChannelTruthful' /\ TallyTruthful'
  <2>1. Kept
    BY <1>3, TruthfulFewer DEF DeleteRecipient, Rows, RowStatus, DeliveryStatus
  <2> QED  BY <1>1, <1>3, <2>1 DEF DeleteRecipient, TypeOK
<1>4. ASSUME NEW w \in Worker, ClaimWon(w) \/ SettleSent(w) \/ SettleFailed(w)
      PROVE  ChannelTruthful' /\ TallyTruthful'
  <2>1. Kept
    BY <1>4, TruthfulKept
  <2>2. UNCHANGED <<chanStatus, item, tally>>
    BY <1>4 DEF ClaimWon, SettleSent, SettleFailed
  <2>3. \A v \in Worker : pc'[v] = "write" => pc[v] = "write"
    BY <1>4 DEF ClaimWon, SettleSent, SettleFailed, TypeOK
  <2> QED  BY <1>1, <2>1, <2>2, <2>3 DEF TypeOK
\* The other steps leave the rows alone.
<1>5. ASSUME UNCHANGED status PROVE Kept
  BY <1>5 DEF Truthful, Rows, AttemptsOf
<1>6. ASSUME NEW w \in Worker, Recount(w) PROVE ChannelTruthful' /\ TallyTruthful'
  <2> DEFINE c == ChannelOf[item[w]]
  <2>1. c \in NotificationChannel /\ UNCHANGED <<status, chanStatus, item>>
    BY <1>6 DEF Recount, HolderState
  <2>2. \A v \in Worker \ {w} : pc'[v] = pc[v] /\ tally'[v] = tally[v]
    BY <1>6 DEF Recount, TypeOK
  <2>3. ASSUME pc'[w] = "write" PROVE NewTallyTrue(w)
    <3>1. Rows(c) # {} /\ tally'[w] = Rollup(c)
      BY <1>6, <2>3 DEF Recount, TypeOK
    <3>2. PICK s \in ChannelStatus : s = Rollup(c) /\ Truthful(c, s)
      BY <2>1, <3>1, RollupTruthful
    <3>3. PICK d \in NotificationChannel : d = c
      BY <2>1
    <3>4. Truthful(d, s)'
      BY <2>1, <3>2, <3>3 DEF Truthful, Rows, AttemptsOf
    <3> QED  BY <2>1, <3>1, <3>2, <3>3, <3>4
  <2>4. \A v \in Worker : pc'[v] = "write" => OldTally(v) \/ NewTallyTrue(v)
    BY <2>1, <2>2, <2>3
  <2> QED  BY <1>1, <1>5, <2>1, <2>4 DEF TypeOK
<1>7. ASSUME NEW w \in Worker, WriteChannel(w) PROVE ChannelTruthful' /\ TallyTruthful'
  <2> DEFINE c == ChannelOf[item[w]]
  <2>1. c \in NotificationChannel /\ tally[w] \in ChannelStatus /\ Truthful(c, tally[w])
    BY <1>7 DEF WriteChannel, HolderState, TallyTruthful
  <2>2. UNCHANGED <<status, item, tally>>
    BY <1>7 DEF WriteChannel
  <2>3. \A d \in NotificationChannel :
          chanStatus'[d] = chanStatus[d] \/ (d = c /\ chanStatus'[d] = tally[w])
    BY <1>7 DEF WriteChannel, TypeOK
  <2>4. NewStatusTrue
    BY <2>1, <2>2, <2>3 DEF Truthful, Rows, AttemptsOf
  <2>5. \A v \in Worker : pc'[v] = "write" => OldTally(v)
    BY <1>7, <2>2 DEF WriteChannel, TypeOK
  <2>6. \A d \in NotificationChannel : chanStatus'[d] \in ChannelStatus \cup {"NONE"}
    BY <2>1, <2>3 DEF TypeOK
  <2> QED  BY <1>1, <1>5, <2>2, <2>4, <2>5, <2>6
<1>8. ASSUME UNCHANGED <<status, chanStatus>>,
             \A v \in Worker : pc'[v] = "write" => OldTally(v)
      PROVE  ChannelTruthful' /\ TallyTruthful'
  BY <1>1, <1>5, <1>8 DEF TypeOK
<1>9. ASSUME NEW w \in Worker, NEW a \in DeliveryAttempt, Take(w, a)
      PROVE  ChannelTruthful' /\ TallyTruthful'
  BY <1>8, <1>9 DEF Take, TypeOK
<1>10. ASSUME NEW w \in Worker, ClaimLost(w) \/ LoadChannel(w) \/ Send(w)
       PROVE  ChannelTruthful' /\ TallyTruthful'
  BY <1>8, <1>10 DEF ClaimLost, LoadChannel, Send, TypeOK
<1>11. ASSUME NEW w \in Worker, SettleStale(w) \/ DatabaseError(w)
       PROVE  ChannelTruthful' /\ TallyTruthful'
  BY <1>8, <1>11 DEF SettleStale, DatabaseError, TypeOK
<1>12. ASSUME NEW W, ForgetLocals(W), UNCHANGED <<status, chanStatus>>
       PROVE  ChannelTruthful' /\ TallyTruthful'
  BY <1>8, <1>12 DEF ForgetLocals
<1>13. CASE Restart \/ \E w \in Worker : Release(w)
  BY <1>12, <1>13 DEF Restart, Release
<1>14. CASE UNCHANGED <<status, chanStatus, pc, item, tally>>
  BY <1>8, <1>14
<1> QED
  BY <1>2, <1>3, <1>4, <1>6, <1>7, <1>9, <1>10, <1>11, <1>13, <1>14
  DEF Next, WorkerStep, Work, BackoffElapses, vars

\* A chain that goes on where another one ends makes one chain of the two.
LEMMA ChainExtended ==
    ASSUME NEW log \in Seq(DeliveryStatus \X DeliveryStatus),
           NEW new \in Seq(DeliveryStatus \X DeliveryStatus), new # <<>>,
           Chained(log), Chained(new),
           log # <<>> => log[1][1] = "PENDING" /\ log[Len(log)][2] = new[1][1],
           log = <<>> => new[1][1] = "PENDING"
    PROVE  /\ log \o new # <<>>
           /\ (log \o new)[1][1] = "PENDING"
           /\ Chained(log \o new)
           /\ (log \o new)[Len(log \o new)][2] = new[Len(new)][2]
<1> DEFINE both == log \o new
<1>1. /\ Len(both) = Len(log) + Len(new)
      /\ \A i \in 1..Len(log) : both[i] = log[i]
      /\ \A i \in 1..Len(new) : both[Len(log) + i] = new[i]
      /\ Len(log) \in Nat /\ Len(new) \in Nat \ {0}
  OBVIOUS
<1>2. both[1][1] = "PENDING"
  BY <1>1
<1>3. ASSUME NEW i \in 1..(Len(both) - 1) PROVE both[i][2] = both[i + 1][1]
  <2>1. CASE i < Len(log)
    <3>1. i \in 1..(Len(log) - 1) /\ both[i] = log[i] /\ both[i + 1] = log[i + 1]
      BY <1>1, <2>1
    <3> QED  BY <3>1 DEF Chained
  <2>2. CASE i = Len(log)
    <3>1. both[i] = log[Len(log)] /\ both[i + 1] = new[1]
      BY <1>1, <2>2
    <3> QED  BY <1>1, <2>2, <3>1
  <2>3. CASE i > Len(log)
    <3> DEFINE j == i - Len(log)
    <3>1. j \in 1..(Len(new) - 1) /\ both[i] = new[j] /\ both[i + 1] = new[j + 1]
      <4>1. j \in 1..(Len(new) - 1) /\ i = Len(log) + j /\ i + 1 = Len(log) + (j + 1)
        BY <1>1, <2>3
      <4> QED  BY <1>1, <4>1
    <3> QED  BY <3>1 DEF Chained
  <2> QED  BY <1>1, <2>1, <2>2, <2>3
<1>4. both[Len(both)] = new[Len(new)] /\ both # <<>>
  BY <1>1
<1> QED  BY <1>2, <1>3, <1>4 DEF Chained

\* Each transaction appends transitions that begin at the row's status and end at
\* its new one.
LEMMA AuditStep == IInv /\ [Next]_vars => AuditChained'
<1> SUFFICES ASSUME IInv, [Next]_vars PROVE AuditChained'
  OBVIOUS
<1> USE ConstantsAssumption DEF IInv, attemptVars, localVars, providerVars, boundVars
\* Enough that a worker that appends transitions ends them at the row's new status.
<1>1. ASSUME NEW a \in DeliveryAttempt, NEW new \in Seq(DeliveryStatus \X DeliveryStatus),
             new # <<>>, Chained(new),
             audit' = [audit EXCEPT ![a] = @ \o new],
             status' = [status EXCEPT ![a] = new[Len(new)][2]],
             audit[a] # <<>> => audit[a][Len(audit[a])][2] = new[1][1],
             audit[a] = <<>> => new[1][1] = "PENDING"
      PROVE  AuditChained'
  <2>1. audit[a] \in Seq(DeliveryStatus \X DeliveryStatus) /\ Chained(audit[a])
        /\ (audit[a] # <<>> => audit[a][1][1] = "PENDING")
    BY DEF TypeOK, AuditChained
  <2>2. audit'[a] = audit[a] \o new /\ status'[a] = new[Len(new)][2]
    BY <1>1 DEF TypeOK
  <2>3. LET log == audit[a] \o new
        IN  log # <<>> /\ log[1][1] = "PENDING" /\ Chained(log) /\ log[Len(log)][2] = new[Len(new)][2]
    <3> HIDE DEF IInv
    <3> QED  BY <1>1, <2>1, ChainExtended
  <2>4. \A b \in DeliveryAttempt \ {a} : audit'[b] = audit[b] /\ status'[b] = status[b]
    BY <1>1 DEF TypeOK
  <2>5. AuditChained!(a)'
    BY <2>2, <2>3 DEF Chained
  <2> QED  BY <2>4, <2>5 DEF AuditChained, Chained
<1>2. ASSUME NEW w \in Worker, ClaimWon(w) PROVE AuditChained'
  <2> DEFINE a == item[w]
             new == << <<OldState(attemptCount[a]), "SENDING">> >>
  <2>1. a \in DeliveryAttempt /\ status[a] \in {"PENDING", "RETRYING"}
    BY <1>2 DEF ClaimWon, HolderState, Claimable
  <2>2. OldState(attemptCount[a]) = status[a]
    BY <2>1 DEF OldState, RowMatchesProvider, TypeOK
  <2>3. /\ new \in Seq(DeliveryStatus \X DeliveryStatus) /\ new # <<>> /\ Chained(new)
        /\ new[1][1] = status[a] /\ new[Len(new)][2] = "SENDING"
    BY <2>1, <2>2 DEF DeliveryStatus, Chained
  <2>4. /\ audit[a] # <<>> => audit[a][Len(audit[a])][2] = status[a]
        /\ audit[a] = <<>> => status[a] = "PENDING"
    BY <2>1 DEF AuditChained
  <2>5. audit' = [audit EXCEPT ![a] = @ \o new] /\ status' = [status EXCEPT ![a] = "SENDING"]
    BY <1>2 DEF ClaimWon, WriteAudit
  <2> HIDE DEF new, IInv
  <2> QED  BY <1>1, <2>1, <2>3, <2>4, <2>5
\* A sender's row is in SENDING, and so is the end of its audit trail.
<1>3. ASSUME NEW w \in Worker, pc[w] = "settle", status[item[w]] # "DELETED"
      PROVE  /\ item[w] \in DeliveryAttempt
             /\ audit[item[w]] # <<>> /\ audit[item[w]][Len(audit[item[w]])][2] = "SENDING"
  BY <1>3 DEF HolderState, SenderState, Sending, AuditChained
<1>4. ASSUME NEW w \in Worker, SettleSent(w) PROVE AuditChained'
  <2> DEFINE new == << <<"SENDING", "SENT">> >>
  <2>1. /\ new \in Seq(DeliveryStatus \X DeliveryStatus) /\ new # <<>> /\ Chained(new)
        /\ new[1][1] = "SENDING" /\ new[Len(new)][2] = "SENT"
    BY DEF DeliveryStatus, Chained
  <2>2. audit' = [audit EXCEPT ![item[w]] = @ \o new]
        /\ status' = [status EXCEPT ![item[w]] = "SENT"]
    BY <1>4 DEF SettleSent, WriteAudit
  <2>3. pc[w] = "settle" /\ status[item[w]] # "DELETED"
    BY <1>4 DEF SettleSent
  <2> HIDE DEF new, IInv
  <2> QED  BY <1>1, <1>3, <2>1, <2>2, <2>3
<1>5. ASSUME NEW w \in Worker, SettleFailed(w) PROVE AuditChained'
  <2> DEFINE end == IF Exhausted(loaded[w] + 1) THEN "DEAD_LETTERED" ELSE "RETRYING"
             new == << <<"SENDING", "FAILED">>, <<"FAILED", end>> >>
  <2>1. /\ new \in Seq(DeliveryStatus \X DeliveryStatus) /\ new # <<>> /\ Chained(new)
        /\ new[1][1] = "SENDING" /\ new[Len(new)][2] = end
    BY DEF DeliveryStatus, Chained
  <2>2. audit' = [audit EXCEPT ![item[w]] = @ \o new]
        /\ status' = [status EXCEPT ![item[w]] = end]
    BY <1>5 DEF SettleFailed, WriteAudit
  <2>3. pc[w] = "settle" /\ status[item[w]] # "DELETED"
    BY <1>5 DEF SettleFailed
  <2> HIDE DEF new, IInv
  <2> QED  BY <1>1, <1>3, <2>1, <2>2, <2>3
<1>6. ASSUME NEW c \in NotificationChannel, Create(c) PROVE AuditChained'
  <2>1. \A a \in DeliveryAttempt :
          status'[a] = status[a] \/ (status[a] = "NONE" /\ status'[a] \in {"PENDING", "SCHEDULED"})
    BY <1>6 DEF Create
  <2>2. ASSUME NEW a \in DeliveryAttempt, status[a] = "NONE" PROVE audit[a] = <<>>
    <3>1. audit[a] # <<>> => audit[a][Len(audit[a])] \in DeliveryStatus \X DeliveryStatus
      BY DEF TypeOK
    <3> QED  BY <2>2, <3>1 DEF AuditChained, DeliveryStatus
  <2> QED  BY <1>6, <2>1, <2>2 DEF Create, AuditChained
<1>7. ASSUME NEW r \in Recipient, DeleteRecipient(r) PROVE AuditChained'
  BY <1>7 DEF DeleteRecipient, AuditChained
<1>8. CASE UNCHANGED <<status, audit>>
  BY <1>8 DEF AuditChained, Chained
<1> QED
  BY <1>2, <1>4, <1>5, <1>6, <1>7, <1>8
  DEF Next, WorkerStep, Work, BackoffElapses, Take, ClaimLost, LoadChannel, Send, SettleStale, Recount,
      WriteChannel, Release, DatabaseError, Restart, vars

\* Together: every step preserves the invariant.
LEMMA StepInv == IInv /\ [Next]_vars => IInv'
BY TypeStep, HolderStep, OneSenderStep, SenderStep, RowStep, RowsOfCreatedStep, ChannelStep,
   AuditStep
DEF IInv

-----------------------------------------------------------------------------
(* Theorems. *)

\* IInv holds of every state of every behaviour of the workers.
THEOREM Inductive == Spec => []IInv
<1> QED  BY InitIInv, StepInv, PTL DEF Spec

\* No step leaves the rows, the workers' objects or the counters outside of
\* their columns' values: attempt_count never passes max_attempts.
THEOREM TypeCorrect == Spec => []TypeOK
<1>1. IInv => TypeOK
  BY DEF IInv
<1> QED  BY Inductive, <1>1, PTL

\* However many workers race for it, one at most is sending an attempt.
THEOREM ExclusiveSending == Spec => []OneSender
<1>1. IInv => OneSender
  BY DEF IInv
<1> QED  BY Inductive, <1>1, PTL

\* The row of an attempt never disagrees with what the provider saw of it.
THEOREM RowsMatchProvider == Spec => []RowMatchesProvider
<1>1. IInv => RowMatchesProvider
  BY DEF IInv
<1> QED  BY Inductive, <1>1, PTL

\* No recipient gets a message twice, with any number of workers, errors and
\* restarts of the process.
THEOREM AtMostOnce == Spec => []NoDuplicateDelivery
<1>1. IInv => NoDuplicateDelivery
  <2> SUFFICES ASSUME IInv, NEW a \in DeliveryAttempt PROVE delivered[a] <= 1
    BY DEF NoDuplicateDelivery
  <2>1. attemptCount[a] \in Nat /\ sends[a] \in Nat /\ delivered[a] \in Nat
    BY DEF IInv, TypeOK
  <2>2. status[a] \in {"NONE", "SCHEDULED", "PENDING", "SENDING", "RETRYING", "SENT",
                       "DEAD_LETTERED", "DELETED"}
    BY DEF IInv, TypeOK, RowStatus, DeliveryStatus
  <2> QED  BY <2>1, <2>2 DEF IInv, RowMatchesProvider
<1> QED  BY Inductive, <1>1, PTL

\* A settled status of a channel is true of its rows, whatever the ages of the
\* snapshots the workers recount it from.
THEOREM ChannelNeverLies == Spec => []ChannelTruthful
<1>1. IInv => ChannelTruthful
  BY DEF IInv
<1> QED  BY Inductive, <1>1, PTL

\* The audit trail of an attempt has no gap and no transition twice.
THEOREM AuditComplete == Spec => []AuditChained
<1>1. IInv => AuditChained
  BY DEF IInv
<1> QED  BY Inductive, <1>1, PTL

-----------------------------------------------------------------------------
(* Refinement of the promised life of a delivery. *)

\* No attempt exists at first.
LEMMA InitRefines == Init => Lifecycle!LifecycleInit
BY DEF Init, Lifecycle!LifecycleInit, PhaseOf

\* Every step is a step of the lifecycle, or changes nothing it knows of.
LEMMA StepRefines == IInv /\ [Next]_vars => [Lifecycle!LifecycleNext]_(Lifecycle!lifecycleVars)
<1> SUFFICES ASSUME IInv, [Next]_vars
             PROVE  Lifecycle!LifecycleNext \/ UNCHANGED Lifecycle!lifecycleVars
  OBVIOUS
<1> USE DEF IInv, attemptVars, localVars, providerVars, boundVars
<1> DEFINE phase == [a \in DeliveryAttempt |-> PhaseOf(status[a])]
<1>1. ASSUME NEW c \in NotificationChannel, Create(c) PROVE Lifecycle!LifecycleNext
  <2> DEFINE new == {a \in AttemptsOf(c) : status[a] = "NONE"}
  <2>1. \A a \in DeliveryAttempt :
          PhaseOf(status'[a]) = IF a \in new /\ PhaseOf(status[a]) = "unborn"
                                THEN "waiting" ELSE PhaseOf(status[a])
    BY <1>1 DEF Create, PhaseOf, AttemptsOf
  <2>2. Lifecycle!Request(new) /\ new \in SUBSET DeliveryAttempt
    BY <1>1, <2>1 DEF Create, Lifecycle!Request, AttemptsOf
  <2> QED  BY <2>2 DEF Lifecycle!LifecycleNext
<1>2. ASSUME NEW r \in Recipient, DeleteRecipient(r) PROVE Lifecycle!LifecycleNext
  <2> DEFINE gone == {a \in DeliveryAttempt : RecipientOf[a] = r}
  <2>1. \A a \in DeliveryAttempt :
          PhaseOf(status'[a]) = IF a \in gone THEN "withdrawn" ELSE PhaseOf(status[a])
    BY <1>2 DEF DeleteRecipient, PhaseOf
  <2>2. Lifecycle!Withdraw(gone) /\ gone \in SUBSET DeliveryAttempt
    BY <1>2, <2>1 DEF DeleteRecipient, Lifecycle!Withdraw
  <2> QED  BY <2>2 DEF Lifecycle!LifecycleNext
\* A worker's step changes the phase of its own attempt alone.
<1>3. ASSUME NEW a \in DeliveryAttempt, NEW s, status' = [status EXCEPT ![a] = s]
      PROVE  phase' = [phase EXCEPT ![a] = PhaseOf(s)]
  BY <1>3 DEF TypeOK
<1>4. ASSUME NEW w \in Worker, ClaimWon(w) PROVE Lifecycle!LifecycleNext
  <2> DEFINE a == item[w]
  <2>1. a \in DeliveryAttempt /\ status[a] \in {"PENDING", "RETRYING"}
    BY <1>4 DEF ClaimWon, HolderState, Claimable
  <2>2. phase[a] = "waiting" /\ phase' = [phase EXCEPT ![a] = "trying"]
    BY <1>3, <1>4, <2>1 DEF ClaimWon, PhaseOf
  <2>3. Lifecycle!Try(a)
    BY <1>4, <2>2 DEF ClaimWon, Lifecycle!Try
  <2> QED  BY <2>1, <2>3 DEF Lifecycle!LifecycleNext
<1>5. ASSUME NEW w \in Worker, Send(w)
      PROVE  Lifecycle!LifecycleNext \/ UNCHANGED Lifecycle!lifecycleVars
  <2> DEFINE a == item[w]
  <2>1. /\ a \in DeliveryAttempt /\ delivered[a] = 0 /\ status[a] \in {"SENDING", "DELETED"}
        /\ UNCHANGED <<status, attemptCount>>
    BY <1>5 DEF Send, HolderState, SenderState, Sending
  <2>2. CASE delivered' = [delivered EXCEPT ![a] = @ + 1]
    <3>1. phase[a] \in {"trying", "withdrawn"}
      BY <2>1 DEF PhaseOf
    <3>2. Lifecycle!Reach(a)
      BY <2>1, <2>2, <3>1 DEF Lifecycle!Reach
    <3> QED  BY <2>1, <3>2 DEF Lifecycle!LifecycleNext
  <2>3. CASE delivered' = [delivered EXCEPT ![a] = @]
    BY <2>1, <2>3 DEF TypeOK, Lifecycle!lifecycleVars
  <2> QED  BY <1>5, <2>2, <2>3 DEF Send
<1>6. ASSUME NEW w \in Worker, SettleSent(w) PROVE Lifecycle!LifecycleNext
  <2> DEFINE a == item[w]
  <2>1. a \in DeliveryAttempt /\ status[a] = "SENDING" /\ delivered[a] = 1
    BY <1>6 DEF SettleSent, HolderState, SenderState, Sending
  <2>2. phase[a] = "trying" /\ phase' = [phase EXCEPT ![a] = "confirmed"]
    BY <1>3, <1>6, <2>1 DEF SettleSent, PhaseOf
  <2>3. Lifecycle!Confirm(a)
    BY <1>6, <2>1, <2>2 DEF SettleSent, Lifecycle!Confirm
  <2> QED  BY <2>1, <2>3 DEF Lifecycle!LifecycleNext
<1>7. ASSUME NEW w \in Worker, SettleFailed(w) PROVE Lifecycle!LifecycleNext
  <2> DEFINE a == item[w]
             n == attemptCount[a] + 1
  <2>1. /\ a \in DeliveryAttempt /\ status[a] = "SENDING" /\ delivered[a] = 0
        /\ loaded[w] = attemptCount[a] /\ attemptCount[a] < MaxAttempts
    BY <1>7 DEF SettleFailed, HolderState, SenderState, Sending
  <2>2. Exhausted(n) <=> n = MaxAttempts
    <3>1. attemptCount[a] \in Nat /\ MaxAttempts \in Nat
      BY <2>1, ConstantsAssumption DEF TypeOK
    <3> QED  BY <2>1, <3>1 DEF Exhausted
  <2>3. phase[a] = "trying"
    BY <2>1 DEF PhaseOf
  <2>4. phase' = [phase EXCEPT ![a] = IF n = MaxAttempts THEN "buried" ELSE "waiting"]
    BY <1>3, <1>7, <2>1, <2>2 DEF SettleFailed, PhaseOf
  <2>5. Lifecycle!Fail(a)
    BY <1>7, <2>1, <2>3, <2>4 DEF SettleFailed, Lifecycle!Fail, TypeOK
  <2> QED  BY <2>1, <2>5 DEF Lifecycle!LifecycleNext
<1>8. CASE UNCHANGED <<status, attemptCount, delivered>>
  BY <1>8 DEF Lifecycle!lifecycleVars
<1> QED
  BY <1>1, <1>2, <1>4, <1>5, <1>6, <1>7, <1>8
  DEF Next, WorkerStep, Work, BackoffElapses, Take, ClaimLost, LoadChannel, SettleStale, Recount,
      WriteChannel, Release, DatabaseError, Restart, vars

\* Every behaviour of the workers is one DeliveryLifecycle allows.
THEOREM RefinesLifecycle == Spec => ImplementsLifecycle
<1> QED
  BY Inductive, InitRefines, StepRefines, PTL
  DEF Spec, ImplementsLifecycle, Lifecycle!LifecycleSpec
=============================================================================
