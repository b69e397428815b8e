--------------------------- MODULE DispatchEngine ---------------------------
(***************************************************************************)
(* app/delivery/engine.py and dispatch_round of app/delivery/dispatch.py:  *)
(* the poll loop, the dispatcher and the worker pool of one process, with  *)
(* the queues, token buckets and in-flight set of EngineState between      *)
(* them.  The workers are those of ClaimAndSend: here the queue decides    *)
(* what they are given.                                                    *)
(*                                                                         *)
(* All three are tasks of one event loop: a step is what one of them does  *)
(* between two awaits that suspend.  A put to an unbounded queue and an    *)
(* uncontended lock do not suspend, so a dispatch round is one step.  The  *)
(* poll loop suspends in its SELECT and whenever it has to load a tenant   *)
(* to size a bucket: its batch is read in one step and looked at, row by   *)
(* row, in later ones.                                                     *)
(*                                                                         *)
(* A bucket is counted in whole tokens: module TokenBucket shows that      *)
(* try_acquire grants as a bucket that is refilled all the time does.      *)
(***************************************************************************)
EXTENDS ClaimAndSend, Functions

CONSTANTS
    Tenant,        \* ids of tenants rows
    Kind,          \* enums.Channel: email, sms, push, in_app
    TenantOf,      \* notification_channels -> the tenant of its request
    KindOf,        \* notification_channels.channel
    InitialLimit,  \* tenants.rate_limit_<kind> when the process starts
    NewLimits,     \* what an update may set a limit to
    MaxUpdates,    \* bound: updates of rate limits in a behaviour
    NoBucket       \* no capacity: the bucket was not made yet

Key == Tenant \X Kind

ASSUME EngineAssumption ==
    /\ TenantOf \in [NotificationChannel -> Tenant]
    /\ KindOf \in [NotificationChannel -> Kind]
    /\ InitialLimit \in [Key -> Nat]
    /\ NewLimits \subseteq Nat
    /\ MaxUpdates \in Nat
    /\ NoBucket \notin Nat

VARIABLES
    limit,        \* tenants.rate_limit_<kind>
    updates,      \* how many of them were updated
    \* EngineState
    tenantQueue,  \* tenant_queues: the attempts that wait for a token
    rotation,     \* the keys of tenant_queues, in the order they were inserted
    capacity,     \* token_buckets: the capacity, if the bucket exists
    tokens,       \* token_buckets: the whole tokens in it
    inFlight,     \* in_flight
    workQueue,    \* work_queue
    batch         \* the rows of the poll loop's last SELECT it has not looked at yet

limitVars == <<limit, updates>>
queueVars == <<tenantQueue, rotation, inFlight, workQueue, batch>>
bucketVars == <<capacity, tokens>>
engineVars == <<limit, updates, tenantQueue, rotation, capacity, tokens, inFlight, workQueue,
                batch>>
allVars == <<vars, engineVars>>

\* The tenant and the bucket an attempt belongs to.
Owner(a) == TenantOf[ChannelOf[a]]
BucketOf(a) == <<Owner(a), KindOf[ChannelOf[a]]>>

\* The WHERE of poll_due_attempts.
Due == {a \in DeliveryAttempt : status[a] \in Claimable /\ nextAt[a] \in {"null", "past"}}

FreshEngine ==
    /\ tenantQueue' = [t \in Tenant |-> <<>>]
    /\ rotation' = <<>>
    /\ capacity' = [k \in Key |-> NoBucket]
    /\ tokens' = [k \in Key |-> 0]
    /\ inFlight' = {}
    /\ workQueue' = <<>>
    /\ batch' = {}

EngineInit ==
    /\ Init
    /\ limit = InitialLimit
    /\ updates = 0
    /\ tenantQueue = [t \in Tenant |-> <<>>]
    /\ rotation = <<>>
    /\ capacity = [k \in Key |-> NoBucket]
    /\ tokens = [k \in Key |-> 0]
    /\ inFlight = {}
    /\ workQueue = <<>>
    /\ batch = {}

-----------------------------------------------------------------------------
(* The poll loop. *)

PollSelect ==
    /\ batch = {}
    /\ Due # {}
    /\ batch' = Due
    /\ UNCHANGED <<vars, limitVars, bucketVars, tenantQueue, rotation, inFlight, workQueue>>

\* Variant: no look at in_flight.
NeverTaken(a) == FALSE

\* The row is between the loops already.
Taken(a) == a \in inFlight

\* Variant: the bucket is left to the dispatcher.
EnsureNothing(k) == UNCHANGED bucketVars

\* _ensure_token_bucket: a full bucket for the limit of this moment, made once.
EnsureTokenBucket(k) ==
    IF capacity[k] = NoBucket
    THEN /\ capacity' = [capacity EXCEPT ![k] = limit[k]]
         /\ tokens' = [tokens EXCEPT ![k] = limit[k]]
    ELSE UNCHANGED bucketVars

\* setdefault on tenant_queues: the tenant's queue is there from now on.
AddQueue(t) == rotation' = IF t \in Range(rotation) THEN rotation ELSE Append(rotation, t)

\* One row of the batch: setdefault comes first; in_flight is looked at when the
\* row's turn comes.
PollItem(a) ==
    LET t == Owner(a)
    IN  /\ a \in batch
        /\ batch' = batch \ {a}
        /\ AddQueue(t)
        /\ IF Taken(a)
           THEN UNCHANGED <<inFlight, tenantQueue, bucketVars>>
           ELSE /\ inFlight' = inFlight \cup {a}
                /\ tenantQueue' = [tenantQueue EXCEPT ![t] = Append(@, a)]
                /\ EnsureTokenBucket(BucketOf(a))
        /\ UNCHANGED <<vars, limitVars, workQueue>>

\* Loading the tenant of a row without a bucket fails: the tick ends, and the
\* rest of its batch is left for the next one.
PollFails(a) ==
    /\ a \in batch \ inFlight
    /\ capacity[BucketOf(a)] = NoBucket
    /\ AddQueue(Owner(a))
    /\ batch' = {}
    /\ UNCHANGED <<vars, limitVars, bucketVars, tenantQueue, inFlight, workQueue>>

-----------------------------------------------------------------------------
(* The dispatcher. *)

\* The attempt at the front of t's queue gets a token.
HasToken(t) == tenantQueue[t] # <<>> /\ tokens[BucketOf(Head(tenantQueue[t]))] >= 1

\* Variant: the round ends at the first tenant without a token.
MoversUntilThrottled ==
    LET Throttled(t) == tenantQueue[t] # <<>> /\ ~HasToken(t)
    IN  {i \in DOMAIN rotation : HasToken(rotation[i]) /\ \A j \in 1..i : ~Throttled(rotation[j])}

\* The turns of a round that move something.
Movers == {i \in DOMAIN rotation : HasToken(rotation[i])}

\* Each tenant's turn moves its front attempt or none, and never holds up the
\* next; what moves goes to the workers in the order of the turns.
DispatchRound ==
    LET Front(i) == Head(tenantQueue[rotation[i]])
    IN  /\ Movers # {}
        /\ \E turn \in Bijection(1..Cardinality(Movers), Movers) :
             /\ \A m, n \in DOMAIN turn : m < n => turn[m] < turn[n]
             /\ workQueue' = workQueue \o [n \in DOMAIN turn |-> Front(turn[n])]
        /\ tenantQueue' = [t \in Tenant |->
                             IF \E i \in Movers : rotation[i] = t THEN Tail(tenantQueue[t])
                                                                  ELSE tenantQueue[t]]
        /\ tokens' = [k \in Key |->
                        IF \E i \in Movers : BucketOf(Front(i)) = k THEN tokens[k] - 1
                                                                    ELSE tokens[k]]
        /\ UNCHANGED <<vars, limitVars, capacity, rotation, inFlight, batch>>

\* Variant: <= instead of <.
RefillPastCapacity(k) ==
    /\ capacity[k] # NoBucket
    /\ tokens[k] <= capacity[k]
    /\ tokens' = [tokens EXCEPT ![k] = @ + 1]
    /\ UNCHANGED <<vars, limitVars, capacity, queueVars>>

\* One more whole token has flowed into the bucket.
Refill(k) ==
    /\ capacity[k] # NoBucket
    /\ tokens[k] < capacity[k]
    /\ tokens' = [tokens EXCEPT ![k] = @ + 1]
    /\ UNCHANGED <<vars, limitVars, capacity, queueVars>>

\* PATCH /tenants/{id}: the buckets are not told.
UpdateLimit(k, n) ==
    /\ updates < MaxUpdates
    /\ n # limit[k]
    /\ limit' = [limit EXCEPT ![k] = n]
    /\ updates' = updates + 1
    /\ UNCHANGED <<vars, queueVars, bucketVars>>

-----------------------------------------------------------------------------
(* The worker pool and the world around it. *)

WorkerGet(w) ==
    /\ workQueue # <<>>
    /\ Take(w, Head(workQueue))
    /\ workQueue' = Tail(workQueue)
    /\ UNCHANGED <<limitVars, bucketVars, tenantQueue, rotation, inFlight, batch>>

\* The finally clause of _worker_loop, however the work on the item ended.
WorkerDone(w) ==
    /\ Release(w)
    /\ inFlight' = inFlight \ {item[w]}
    /\ UNCHANGED <<limitVars, bucketVars, tenantQueue, rotation, workQueue, batch>>

WorkerWorks(w) == Work(w) /\ UNCHANGED engineVars

\* start() makes a new EngineState; the new process reads the tenants again.
EngineRestart ==
    /\ Restart
    /\ FreshEngine
    /\ UNCHANGED limitVars

Outside ==
    /\ \/ \E c \in NotificationChannel : Create(c)
       \/ \E r \in Recipient : DeleteRecipient(r)
       \/ \E a \in DeliveryAttempt : BackoffElapses(a)
       \/ \E w \in Worker : DatabaseError(w)
    /\ UNCHANGED engineVars

EngineNext ==
    \/ PollSelect
    \/ \E a \in DeliveryAttempt : PollItem(a) \/ PollFails(a)
    \/ DispatchRound
    \/ \E k \in Key : Refill(k) \/ \E n \in NewLimits : UpdateLimit(k, n)
    \/ \E w \in Worker : WorkerGet(w) \/ WorkerWorks(w) \/ WorkerDone(w)
    \/ Outside
    \/ EngineRestart

EngineSpec == EngineInit /\ [][EngineNext]_allVars

\* The loops run for ever, a worker's awaits end, time passes, and the load of a
\* tenant that is tried again at every tick does not fail each time; nobody has
\* to send requests, delete recipients or change limits.
Fairness ==
    /\ WF_allVars(PollSelect)
    /\ \A a \in DeliveryAttempt : SF_allVars(PollItem(a))
    /\ WF_allVars(DispatchRound)
    /\ \A k \in Key : WF_allVars(Refill(k))
    /\ \A w \in Worker : WF_allVars(WorkerGet(w) \/ WorkerWorks(w) \/ WorkerDone(w))
    /\ \A a \in DeliveryAttempt : WF_allVars(BackoffElapses(a) /\ UNCHANGED engineVars)

FairEngineSpec == EngineSpec /\ Fairness

-----------------------------------------------------------------------------
(* Properties. *)

EngineTypeOK ==
    /\ TypeOK
    /\ limit \in [Key -> Nat]
    /\ updates \in 0..MaxUpdates
    /\ tenantQueue \in [Tenant -> Seq(DeliveryAttempt)]
    /\ rotation \in Seq(Tenant)
    /\ capacity \in [Key -> Nat \cup {NoBucket}]
    /\ tokens \in [Key -> Nat]
    /\ \A k \in Key : capacity[k] # NoBucket => tokens[k] <= capacity[k]
    /\ inFlight \subseteq DeliveryAttempt
    /\ workQueue \in Seq(DeliveryAttempt)
    /\ batch \subseteq DeliveryAttempt

Waiting == UNION {Range(tenantQueue[t]) : t \in Tenant}
Holding == {w \in Worker : pc[w] # "idle"}
Held == {item[w] : w \in Holding}

\* in_flight is exactly the attempts between their tenant's queue and the end of
\* a worker's work on them, and each of these is in one place, once: an attempt
\* is never queued twice and never forgotten, however old the poll's batch is.
InFlightExact ==
    /\ inFlight = Waiting \cup Range(workQueue) \cup Held
    /\ \A t \in Tenant : IsInjective(tenantQueue[t])
    /\ IsInjective(workQueue)
    /\ \A v, w \in Holding : v # w => item[v] # item[w]
    /\ Waiting \cap Range(workQueue) = {}
    /\ (Waiting \cup Range(workQueue)) \cap Held = {}

\* Whatever waits for a token is where the dispatcher looks for it: in the queue
\* of its owner, which has one turn in each round, and with a bucket ("this
\* should not normally happen", dispatch_round says of one without).
QueuesServable ==
    /\ IsInjective(rotation)
    /\ \A t \in Tenant : \A a \in Range(tenantQueue[t]) :
         Owner(a) = t /\ t \in Range(rotation) /\ capacity[BucketOf(a)] # NoBucket

\* A row in SENDING is some worker's, unless an error or a restart took it away.
SendingIsHeld ==
    \A a \in DeliveryAttempt :
        status[a] = "SENDING" /\ faults = 0 /\ restarts = 0
        => \E w \in Worker : Sending(w) /\ item[w] = a

\* No limit of a's tenant was ever 0.
Unthrottled(a) == \A n \in Kind : InitialLimit[<<Owner(a), n>>] > 0 /\ 0 \notin NewLimits

Done(a) == status[a] \in Settled \cup {"DELETED"}

\* A due delivery of a tenant with limits above 0 is settled in the end, however
\* much another tenant queues and however little that one may send; an error or
\* a restart may leave it in SENDING, but never loses one that waits.
QuietTenantServed ==
    \A a \in DeliveryAttempt :
        status[a] = "PENDING" /\ Unthrottled(a)
        ~> Done(a) \/ (status[a] = "SENDING" /\ faults + restarts > 0)

-----------------------------------------------------------------------------
(* What the documentation says and the engine does not do.                 *)

\* README: a failing delivery is retried, "eventually dead-lettering after
\* MAX_ATTEMPTS": whatever was claimed is settled in the end.
ClaimedIsSettled ==
    \A a \in DeliveryAttempt : status[a] = "SENDING" ~> Done(a)

\* README: the poll loop's filter "handles scheduled sends 'for free'": what was
\* scheduled is sent, or dead-lettered, once its time has come.
ScheduledIsSent ==
    \A a \in DeliveryAttempt : status[a] = "SCHEDULED" /\ nextAt[a] = "past" ~> Done(a)

\* poll_due_attempts: only "RETRYING whose backoff has elapsed" is worked.
NoEarlyRetry ==
    [][\A w \in Worker : ClaimWon(w) => nextAt[item[w]] # "future"]_allVars

\* README: "rate limits are updated via the same PATCH /tenants/{id}": a bucket
\* has the capacity its tenant's row says.
LimitInForce == \A k \in Key : capacity[k] \in {NoBucket, limit[k]}
=============================================================================
