---------------------------- MODULE ClaimAndSend ----------------------------
(***************************************************************************)
(* app/delivery/dispatch.py: claim_and_send, _recompute_channel_status and *)
(* _write_audit, run by any number of workers against one SQLite database. *)
(*                                                                         *)
(* A step of a worker is what it does between two awaits that reach the    *)
(* database or the provider.  SQLite serialises writers, and a transaction *)
(* holds the write lock from its first UPDATE to its COMMIT, so a write    *)
(* transaction is one step.  A SELECT outside of one (pysqlite opens a     *)
(* transaction only at the first write) is a step of its own: what it read *)
(* may be stale when the worker goes on.                                   *)
(*                                                                         *)
(* Which attempt a worker is given is left open here (Take): the engine    *)
(* (module DispatchEngine) restricts it to the head of its work queue.     *)
(***************************************************************************)
EXTENDS Integers, Sequences, FiniteSets

CONSTANTS
    DeliveryAttempt,      \* ids of delivery_attempts rows
    NotificationChannel,  \* ids of notification_channels rows
    Recipient,            \* ids of recipients rows
    Worker,               \* the tasks of the worker pool
    NoItem,               \* what a worker holds between two items
    ChannelOf,            \* delivery_attempts.notification_channel_id
    RecipientOf,          \* delivery_attempts.recipient_id
    Skipped,              \* the channels whose skipped_recipients is not empty
    Scheduled,            \* the channels of requests that have a scheduled_at
    Deletable,            \* the recipients that may be deleted
    MaxAttempts,          \* settings.max_attempts, copied to every row
    MaxFaults,            \* bound: database errors in a behaviour
    MaxRestarts           \* bound: restarts of the process in a behaviour

ASSUME ConstantsAssumption ==
    /\ ChannelOf \in [DeliveryAttempt -> NotificationChannel]
    /\ RecipientOf \in [DeliveryAttempt -> Recipient]
    /\ NoItem \notin DeliveryAttempt
    /\ MaxAttempts \in Nat \ {0}
    /\ MaxFaults \in Nat
    /\ MaxRestarts \in Nat

VARIABLES
    \* the database
    status,        \* delivery_attempts.status, "NONE" before the insert, "DELETED" after the cascade
    attemptCount,  \* delivery_attempts.attempt_count
    nextAt,        \* delivery_attempts.next_attempt_at: NULL, still to come, or already past
    audit,         \* the audit_logs rows of each attempt, oldest first: <<old_state, new_state>>
    chanStatus,    \* notification_channels.status, "NONE" before the insert
    \* the workers
    pc,            \* the await a worker is at
    item,          \* the id it works on
    loaded,        \* attempt.attempt_count of the object it loaded
    seen,          \* channel.status of the object it loaded
    ok,            \* what provider.send returned
    tally,         \* the new_status it computed for the channel
    \* the provider
    sends,         \* calls of provider.send for each attempt
    delivered,     \* those that handed the message over
    \* the environment
    faults,
    restarts

attemptVars == <<status, attemptCount, nextAt, audit>>
localVars == <<item, loaded, seen, ok, tally>>
providerVars == <<sends, delivered>>
boundVars == <<faults, restarts>>
vars == <<status, attemptCount, nextAt, audit, chanStatus, pc, item, loaded, seen, ok, tally,
          sends, delivered, faults, restarts>>

-----------------------------------------------------------------------------
(* Statuses. *)

DeliveryStatus == {"CREATED", "SCHEDULED", "PENDING", "SENDING", "SENT", "FAILED", "RETRYING",
                   "DEAD_LETTERED"}

\* The statuses a row is ever given: CREATED is only the column's default, and
\* FAILED is recorded in the audit trail alone.
RowStatus == DeliveryStatus \ {"CREATED", "FAILED"}

Settled == {"SENT", "DEAD_LETTERED"}

\* Variant: RETRYING forgotten.
InProgressWithoutRetrying == {"SCHEDULED", "PENDING", "SENDING"}

\* The statuses a channel waits for.
InProgress == {"SCHEDULED", "PENDING", "SENDING", "RETRYING"}

\* Variant: a claim that takes over a row under way.
ClaimableIncludingSending == {"PENDING", "RETRYING", "SENDING"}

\* What the claim's UPDATE ... WHERE status IN (...) accepts.
Claimable == {"PENDING", "RETRYING"}

ChannelStatus == {"CREATED", "SCHEDULED", "PROCESSING", "COMPLETED", "PARTIALLY_FAILED", "FAILED"}

AttemptsOf(c) == {a \in DeliveryAttempt : ChannelOf[a] = c}

\* The delivery_attempts rows of channel c.
Rows(c) == {a \in AttemptsOf(c) : status[a] \in RowStatus}

\* Variant: recipients without an address forgotten.
RollupForgettingSkipped(c) ==
    LET statuses == {status[a] : a \in Rows(c)}
    IN  IF statuses \cap InProgress # {} THEN "PROCESSING"
        ELSE IF statuses = {"SENT"} THEN "COMPLETED"
        ELSE IF "SENT" \in statuses THEN "PARTIALLY_FAILED"
        ELSE "FAILED"

\* The recount of _recompute_channel_status.
Rollup(c) ==
    LET statuses == {status[a] : a \in Rows(c)}
    IN  IF statuses \cap InProgress # {} THEN "PROCESSING"
        ELSE IF statuses = {"SENT"} /\ c \notin Skipped THEN "COMPLETED"
        ELSE IF "SENT" \in statuses THEN "PARTIALLY_FAILED"
        ELSE "FAILED"

\* Variant: > instead of >=.
ExhaustedOneLate(n) == n > MaxAttempts

\* No attempt is left after n failures.
Exhausted(n) == n >= MaxAttempts

\* Variant: retries forgotten.
OldStateAlwaysPending(n) == "PENDING"

\* The state a claim found the row in, as claim_and_send reconstructs it.
OldState(n) == IF n = 0 THEN "PENDING" ELSE "RETRYING"

\* _write_audit, once for each of the given transitions.
WriteAudit(a, transitions) == audit' = [audit EXCEPT ![a] = @ \o transitions]

GoTo(w, label) == pc' = [pc EXCEPT ![w] = label]

-----------------------------------------------------------------------------

Init ==
    /\ status = [a \in DeliveryAttempt |-> "NONE"]
    /\ attemptCount = [a \in DeliveryAttempt |-> 0]
    /\ nextAt = [a \in DeliveryAttempt |-> "null"]
    /\ audit = [a \in DeliveryAttempt |-> <<>>]
    /\ chanStatus = [c \in NotificationChannel |-> "NONE"]
    /\ pc = [w \in Worker |-> "idle"]
    /\ item = [w \in Worker |-> NoItem]
    /\ loaded = [w \in Worker |-> 0]
    /\ seen = [w \in Worker |-> "NONE"]
    /\ ok = [w \in Worker |-> FALSE]
    /\ tally = [w \in Worker |-> "NONE"]
    /\ sends = [a \in DeliveryAttempt |-> 0]
    /\ delivered = [a \in DeliveryAttempt |-> 0]
    /\ faults = 0
    /\ restarts = 0

-----------------------------------------------------------------------------
(* The requests of tenants, as far as they change attempts and channels.   *)

\* NotificationService.create commits a channel with one attempt for each
\* recipient that has an address on it.
Create(c) ==
    LET due == IF c \in Scheduled THEN "SCHEDULED" ELSE "PENDING"
        new == {a \in AttemptsOf(c) : status[a] = "NONE"}
    IN  /\ chanStatus[c] = "NONE"
        /\ status' = [a \in DeliveryAttempt |-> IF a \in new THEN due ELSE status[a]]
        /\ nextAt' = [a \in DeliveryAttempt |->
                        IF a \in new /\ c \in Scheduled THEN "future" ELSE nextAt[a]]
        /\ chanStatus' = [chanStatus EXCEPT ![c] =
                            IF new = {} THEN "FAILED"
                            ELSE IF c \in Scheduled THEN "SCHEDULED" ELSE "CREATED"]
        /\ UNCHANGED <<attemptCount, audit, pc, localVars, providerVars, boundVars>>

\* RecipientService.delete: ON DELETE CASCADE takes the recipient's attempts.
\* A recipient that still has an address cannot be deleted (the ORM would null
\* the address's recipient_id), so only some are Deletable.
DeleteRecipient(r) ==
    /\ r \in Deletable
    /\ \E a \in DeliveryAttempt : RecipientOf[a] = r /\ status[a] # "DELETED"
    /\ status' = [a \in DeliveryAttempt |->
                    IF RecipientOf[a] = r THEN "DELETED" ELSE status[a]]
    /\ UNCHANGED <<attemptCount, nextAt, audit, chanStatus, pc, localVars, providerVars,
                   boundVars>>

\* The clock passes a row's next_attempt_at.
BackoffElapses(a) ==
    /\ nextAt[a] = "future"
    /\ nextAt' = [nextAt EXCEPT ![a] = "past"]
    /\ UNCHANGED <<status, attemptCount, audit, chanStatus, pc, localVars, providerVars,
                   boundVars>>

-----------------------------------------------------------------------------
(* claim_and_send, one action for each await.                              *)

\* The worker is given an id some earlier SELECT returned.
Take(w, a) ==
    /\ pc[w] = "idle"
    /\ chanStatus[ChannelOf[a]] # "NONE"
    /\ item' = [item EXCEPT ![w] = a]
    /\ GoTo(w, "claim")
    /\ UNCHANGED <<attemptVars, chanStatus, loaded, seen, ok, tally, providerVars, boundVars>>

\* The UPDATE matched: the attempt is loaded, audited and committed as SENDING.
ClaimWon(w) ==
    LET a == item[w]
    IN  /\ pc[w] = "claim"
        /\ status[a] \in Claimable
        /\ status' = [status EXCEPT ![a] = "SENDING"]
        /\ loaded' = [loaded EXCEPT ![w] = attemptCount[a]]
        /\ WriteAudit(a, << <<OldState(attemptCount[a]), "SENDING">> >>)
        /\ GoTo(w, "load")
        /\ UNCHANGED <<attemptCount, nextAt, chanStatus, item, seen, ok, tally, providerVars,
                       boundVars>>

\* rowcount != 1: another worker was first, or the row is gone.
ClaimLost(w) ==
    /\ pc[w] = "claim"
    /\ status[item[w]] \notin Claimable
    /\ GoTo(w, "close")
    /\ UNCHANGED <<attemptVars, chanStatus, localVars, providerVars, boundVars>>

\* session.get(NotificationChannel): the object stays in the session's identity
\* map, and expire_on_commit=False keeps its status as it is now.
LoadChannel(w) ==
    /\ pc[w] = "load"
    /\ seen' = [seen EXCEPT ![w] = chanStatus[ChannelOf[item[w]]]]
    /\ GoTo(w, "send")
    /\ UNCHANGED <<attemptVars, chanStatus, item, loaded, ok, tally, providerVars, boundVars>>

\* Variant without the except clause: a failing send ends the work.
SendUncaught(w) ==
    /\ pc[w] = "send"
    /\ \E success \in BOOLEAN :
        /\ ok' = [ok EXCEPT ![w] = success]
        /\ delivered' = [delivered EXCEPT ![item[w]] = IF success THEN @ + 1 ELSE @]
        /\ GoTo(w, IF success THEN "settle" ELSE "close")
    /\ sends' = [sends EXCEPT ![item[w]] = @ + 1]
    /\ UNCHANGED <<attemptVars, chanStatus, item, loaded, seen, tally, boundVars>>

\* provider.send returns; an exception counts as False.
Send(w) ==
    /\ pc[w] = "send"
    /\ \E success \in BOOLEAN :
        /\ ok' = [ok EXCEPT ![w] = success]
        /\ delivered' = [delivered EXCEPT ![item[w]] = IF success THEN @ + 1 ELSE @]
    /\ sends' = [sends EXCEPT ![item[w]] = @ + 1]
    /\ GoTo(w, "settle")
    /\ UNCHANGED <<attemptVars, chanStatus, item, loaded, seen, tally, boundVars>>

\* Variant that returns before the recount.
SettleSentOnly(w) ==
    LET a == item[w]
    IN  /\ pc[w] = "settle"
        /\ status[a] # "DELETED"
        /\ ok[w]
        /\ status' = [status EXCEPT ![a] = "SENT"]
        /\ WriteAudit(a, << <<"SENDING", "SENT">> >>)
        /\ GoTo(w, "close")
        /\ UNCHANGED <<attemptCount, nextAt, chanStatus, localVars, providerVars, boundVars>>

\* The provider delivered: the row becomes SENT.
SettleSent(w) ==
    LET a == item[w]
    IN  /\ pc[w] = "settle"
        /\ status[a] # "DELETED"
        /\ ok[w]
        /\ status' = [status EXCEPT ![a] = "SENT"]
        /\ WriteAudit(a, << <<"SENDING", "SENT">> >>)
        /\ GoTo(w, "recount")
        /\ UNCHANGED <<attemptCount, nextAt, chanStatus, localVars, providerVars, boundVars>>

\* The flush writes the count of the object loaded at the claim, plus one.
SettleFailed(w) ==
    LET a == item[w]
        n == loaded[w] + 1
        new == IF Exhausted(n) THEN "DEAD_LETTERED" ELSE "RETRYING"
    IN  /\ pc[w] = "settle"
        /\ status[a] # "DELETED"
        /\ ~ok[w]
        /\ attemptCount' = [attemptCount EXCEPT ![a] = n]
        /\ status' = [status EXCEPT ![a] = new]
        /\ nextAt' = [nextAt EXCEPT ![a] = IF Exhausted(n) THEN "null" ELSE "future"]
        /\ WriteAudit(a, << <<"SENDING", "FAILED">>, <<"FAILED", new>> >>)
        /\ GoTo(w, "recount")
        /\ UNCHANGED <<chanStatus, localVars, providerVars, boundVars>>

\* The row went away with its recipient: the ORM's UPDATE matches nothing,
\* StaleDataError rolls the transaction back and ends the work on this item.
SettleStale(w) ==
    /\ pc[w] = "settle"
    /\ status[item[w]] = "DELETED"
    /\ GoTo(w, "close")
    /\ UNCHANGED <<attemptVars, chanStatus, localVars, providerVars, boundVars>>

\* The SELECT of _recompute_channel_status; nothing to do if it finds no row.
Recount(w) ==
    LET c == ChannelOf[item[w]]
    IN  /\ pc[w] = "recount"
        /\ IF Rows(c) = {}
           THEN GoTo(w, "close") /\ UNCHANGED tally
           ELSE GoTo(w, "write") /\ tally' = [tally EXCEPT ![w] = Rollup(c)]
        /\ UNCHANGED <<attemptVars, chanStatus, item, loaded, seen, ok, providerVars, boundVars>>

\* The assignment to channel.status and its commit.  The ORM compares with the
\* status it loaded and emits no UPDATE when they are equal.
WriteChannel(w) ==
    /\ pc[w] = "write"
    /\ chanStatus' = IF tally[w] = seen[w] THEN chanStatus
                     ELSE [chanStatus EXCEPT ![ChannelOf[item[w]]] = tally[w]]
    /\ GoTo(w, "close")
    /\ UNCHANGED <<attemptVars, localVars, providerVars, boundVars>>

ForgetLocals(W) ==
    /\ pc' = [w \in Worker |-> IF w \in W THEN "idle" ELSE pc[w]]
    /\ item' = [w \in Worker |-> IF w \in W THEN NoItem ELSE item[w]]
    /\ loaded' = [w \in Worker |-> IF w \in W THEN 0 ELSE loaded[w]]
    /\ seen' = [w \in Worker |-> IF w \in W THEN "NONE" ELSE seen[w]]
    /\ ok' = [w \in Worker |-> IF w \in W THEN FALSE ELSE ok[w]]
    /\ tally' = [w \in Worker |-> IF w \in W THEN "NONE" ELSE tally[w]]

\* The session is closed and the worker loop is ready for its next item.
Release(w) ==
    /\ pc[w] = "close"
    /\ ForgetLocals({w})
    /\ UNCHANGED <<attemptVars, chanStatus, providerVars, boundVars>>

\* The statement a worker is at fails (the database stays locked for longer
\* than busy_timeout, a disk error): its transaction is rolled back, the worker
\* loop logs the exception and goes on.
DatabaseError(w) ==
    /\ pc[w] \in {"claim", "load", "settle", "recount", "write"}
    /\ faults < MaxFaults
    /\ faults' = faults + 1
    /\ GoTo(w, "close")
    /\ UNCHANGED <<attemptVars, chanStatus, localVars, providerVars, restarts>>

\* The process is killed or stop() cancels its tasks, and start() begins anew:
\* what was committed stays, what was in memory is lost.
Restart ==
    /\ restarts < MaxRestarts
    /\ restarts' = restarts + 1
    /\ ForgetLocals(Worker)
    /\ UNCHANGED <<attemptVars, chanStatus, providerVars, faults>>

-----------------------------------------------------------------------------

\* claim_and_send
Work(w) ==
    \/ ClaimWon(w) \/ ClaimLost(w) \/ LoadChannel(w) \/ Send(w)
    \/ SettleSent(w) \/ SettleFailed(w) \/ SettleStale(w)
    \/ Recount(w) \/ WriteChannel(w)

WorkerStep(w) == Work(w) \/ Release(w)

Next ==
    \/ \E c \in NotificationChannel : Create(c)
    \/ \E r \in Recipient : DeleteRecipient(r)
    \/ \E a \in DeliveryAttempt : BackoffElapses(a)
    \/ \E w \in Worker, a \in DeliveryAttempt : Take(w, a)
    \/ \E w \in Worker : WorkerStep(w)
    \/ \E w \in Worker : DatabaseError(w)
    \/ Restart

Spec == Init /\ [][Next]_vars

-----------------------------------------------------------------------------
(* Properties. *)

TypeOK ==
    /\ status \in [DeliveryAttempt -> RowStatus \cup {"NONE", "DELETED"}]
    /\ attemptCount \in [DeliveryAttempt -> 0..MaxAttempts]
    /\ nextAt \in [DeliveryAttempt -> {"null", "future", "past"}]
    /\ audit \in [DeliveryAttempt -> Seq(DeliveryStatus \X DeliveryStatus)]
    /\ chanStatus \in [NotificationChannel -> ChannelStatus \cup {"NONE"}]
    /\ pc \in [Worker -> {"idle", "claim", "load", "send", "settle", "recount", "write", "close"}]
    /\ item \in [Worker -> DeliveryAttempt \cup {NoItem}]
    /\ loaded \in [Worker -> 0..MaxAttempts]
    /\ seen \in [Worker -> ChannelStatus \cup {"NONE"}]
    /\ ok \in [Worker -> BOOLEAN]
    /\ tally \in [Worker -> ChannelStatus \cup {"NONE"}]
    /\ sends \in [DeliveryAttempt -> Nat]
    /\ delivered \in [DeliveryAttempt -> Nat]
    /\ faults \in 0..MaxFaults
    /\ restarts \in 0..MaxRestarts

Sending(w) == pc[w] \in {"load", "send", "settle"}

\* Of the workers that race for an attempt at most one is between its claim and
\* the commit of its result: the conditional UPDATE is the only lock there is.
OneSender ==
    \A v, w \in Worker : v # w /\ Sending(v) /\ Sending(w) => item[v] # item[w]

\* No recipient gets the same message twice, whatever fails, restarts or is
\* claimed again in between ("the correctness guarantee (no duplicate delivery)").
NoDuplicateDelivery == \A a \in DeliveryAttempt : delivered[a] <= 1

\* What the row says agrees with what the provider saw: SENT exactly after a
\* send that succeeded and attempt_count that failed, RETRYING after
\* attempt_count failures, DEAD_LETTERED after MaxAttempts failures and no
\* delivery; a row stuck or under way in SENDING is one send behind at most.
RowMatchesProvider ==
    \A a \in DeliveryAttempt :
        LET n == attemptCount[a]
        IN  /\ status[a] \in {"NONE", "SCHEDULED", "PENDING"} =>
                 n = 0 /\ sends[a] = 0 /\ delivered[a] = 0
            /\ status[a] = "SENDING" =>
                 n < MaxAttempts /\ sends[a] \in n..(n + 1) /\ delivered[a] <= sends[a] - n
            /\ status[a] = "RETRYING" =>
                 n \in 1..(MaxAttempts - 1) /\ sends[a] = n /\ delivered[a] = 0
            /\ status[a] = "SENT" =>
                 n < MaxAttempts /\ sends[a] = n + 1 /\ delivered[a] = 1
            /\ status[a] = "DEAD_LETTERED" =>
                 n = MaxAttempts /\ sends[a] = n /\ delivered[a] = 0
            /\ status[a] = "DELETED" =>
                 sends[a] <= MaxAttempts /\ delivered[a] <= 1

\* s, as the status of channel c, claims nothing the rows of c contradict.
Truthful(c, s) ==
    /\ s = "COMPLETED" => c \notin Skipped /\ \A a \in Rows(c) : status[a] = "SENT"
    /\ s = "PARTIALLY_FAILED" => \A a \in Rows(c) : status[a] \in Settled
    /\ s = "FAILED" => \A a \in Rows(c) : status[a] = "DEAD_LETTERED"

\* A channel reported as COMPLETED, PARTIALLY_FAILED or FAILED is so, even when
\* several workers recount it at once from snapshots of different age.
ChannelTruthful == \A c \in NotificationChannel : Truthful(c, chanStatus[c])

\* Each transition starts where the one before it ended.
Chained(log) == \A i \in 1..(Len(log) - 1) : log[i][2] = log[i + 1][1]

\* The audit rows of an attempt form one chain from PENDING to the status of
\* the row, with no gap and no transition twice, through errors and restarts.
AuditChained ==
    \A a \in DeliveryAttempt :
        LET log == audit[a]
        IN  /\ log # <<>> => log[1][1] = "PENDING"
            /\ Chained(log)
            /\ status[a] # "DELETED" =>
                 IF log = <<>> THEN status[a] \in {"NONE", "PENDING", "SCHEDULED"}
                               ELSE log[Len(log)][2] = status[a]

\* Once every attempt of a channel is settled and no worker is at one of them
\* any more, the channel's status is what the recount of its rows gives ("all
\* SENT and nobody skipped -> COMPLETED; ..."): no recount is lost.
RollupAgrees ==
    \A c \in NotificationChannel :
        (/\ Rows(c) # {}
         /\ \A a \in Rows(c) : status[a] \in Settled
         /\ \A w \in Worker : pc[w] # "idle" => ChannelOf[item[w]] # c)
        => chanStatus[c] = Rollup(c)

\* Every step is one the promise to the tenant allows (module DeliveryLifecycle).
PhaseOf(s) ==
    CASE s = "NONE" -> "unborn"
      [] s \in {"SCHEDULED", "PENDING", "RETRYING"} -> "waiting"
      [] s = "SENDING" -> "trying"
      [] s = "SENT" -> "confirmed"
      [] s = "DEAD_LETTERED" -> "buried"
      [] OTHER -> "withdrawn"

Lifecycle == INSTANCE DeliveryLifecycle WITH
    phase <- [a \in DeliveryAttempt |-> PhaseOf(status[a])],
    tries <- attemptCount,
    reached <- delivered

ImplementsLifecycle == Lifecycle!LifecycleSpec
=============================================================================
