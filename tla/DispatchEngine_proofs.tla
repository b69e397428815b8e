----------------------- MODULE DispatchEngine_proofs -----------------------
(***************************************************************************)
(* What the engine guarantees for any number of tenants, attempts and      *)
(* workers, any rate limits and any change of them.                        *)
(*                                                                         *)
(* Its steps are steps of ClaimAndSend as far as the workers go, so what   *)
(* is proved there holds of a running process.  InFlightExact is inductive *)
(* together with QueuesServable: an attempt waits in the queue of its own  *)
(* tenant only, so what one queue loses in a round no other one has.       *)
(***************************************************************************)
EXTENDS DispatchEngine, ClaimAndSend_proofs, FiniteSetTheorems

\* The workers' invariant, and what the engine keeps to itself.
EInv ==
    /\ IInv
    /\ EngineTypeOK
    /\ QueuesServable
    /\ InFlightExact
-----------------------------------------------------------------------------
(* Lemmas about queues. *)

\* Appending to a queue adds one element, and no repetition if it was not there.
LEMMA AppendQueue ==
    ASSUME NEW S, NEW q \in Seq(S), NEW e \in S
    PROVE  /\ Append(q, e) \in Seq(S)
           /\ Range(Append(q, e)) = Range(q) \cup {e}
           /\ IsInjective(q) /\ e \notin Range(q) => IsInjective(Append(q, e))
<1> DEFINE r == Append(q, e)
<1>1. /\ r \in Seq(S) /\ Len(r) = Len(q) + 1 /\ Len(q) \in Nat
      /\ DOMAIN r = 1..Len(r) /\ DOMAIN q = 1..Len(q)
      /\ r[Len(r)] = e /\ \A i \in 1..Len(q) : r[i] = q[i]
  OBVIOUS
<1> HIDE DEF r
<1>2. DOMAIN r = DOMAIN q \cup {Len(r)} /\ Len(r) \notin DOMAIN q
  BY <1>1
<1>3. Range(r) = Range(q) \cup {e}
  BY <1>1, <1>2 DEF Range
<1>4. ASSUME IsInjective(q), e \notin Range(q) PROVE IsInjective(r)
  BY <1>1, <1>2, <1>4 DEF IsInjective, Range
<1> QED  BY <1>1, <1>3, <1>4 DEF r

\* What is taken from the front of a queue is all that it loses.
LEMMA PopQueue ==
    ASSUME NEW S, NEW q \in Seq(S), q # <<>>
    PROVE  /\ Head(q) \in S /\ Tail(q) \in Seq(S)
           /\ Range(q) = {Head(q)} \cup Range(Tail(q))
           /\ IsInjective(q) => IsInjective(Tail(q)) /\ Head(q) \notin Range(Tail(q))
<1> DEFINE r == Tail(q)
<1>1. /\ r \in Seq(S) /\ Len(q) \in Nat \ {0} /\ Len(r) = Len(q) - 1 /\ Head(q) = q[1]
      /\ DOMAIN q = 1..Len(q) /\ DOMAIN r = 1..Len(r)
      /\ \A i \in 1..Len(r) : r[i] = q[i + 1]
      /\ q[1] \in S
  OBVIOUS
<1> HIDE DEF r
<1>2. \A i \in 2..Len(q) : i - 1 \in DOMAIN r /\ r[i - 1] = q[i]
  BY <1>1
<1>3. \A i \in DOMAIN r : i + 1 \in DOMAIN q /\ i + 1 # 1 /\ r[i] = q[i + 1]
  BY <1>1
<1>4. Range(q) = {q[1]} \cup Range(r)
  <2>1. \A i \in DOMAIN q : i = 1 \/ i \in 2..Len(q)
    BY <1>1
  <2>2. 1 \in DOMAIN q
    BY <1>1
  <2> QED  BY <1>2, <1>3, <2>1, <2>2 DEF Range
<1>5. ASSUME IsInjective(q) PROVE IsInjective(r) /\ q[1] \notin Range(r)
  <2>1. 1 \in DOMAIN q
    BY <1>1
  <2>2. \A i, j \in DOMAIN r : i + 1 = j + 1 => i = j
    BY <1>1
  <2> QED  BY <1>3, <1>5, <2>1, <2>2 DEF IsInjective, Range
<1> QED  BY <1>1, <1>4, <1>5 DEF r

\* Two queues one behind the other hold what each of them holds.
LEMMA JoinQueues ==
    ASSUME NEW S, NEW p \in Seq(S), NEW q \in Seq(S)
    PROVE  /\ p \o q \in Seq(S)
           /\ Range(p \o q) = Range(p) \cup Range(q)
           /\ IsInjective(p) /\ IsInjective(q) /\ Range(p) \cap Range(q) = {}
              => IsInjective(p \o q)
<1> DEFINE r == p \o q
           k == Len(p)
<1>1. /\ r \in Seq(S) /\ Len(r) = k + Len(q) /\ k \in Nat /\ Len(q) \in Nat
      /\ DOMAIN r = 1..Len(r) /\ DOMAIN p = 1..k /\ DOMAIN q = 1..Len(q)
      /\ \A i \in 1..k : r[i] = p[i]
      /\ \A i \in 1..Len(q) : r[k + i] = q[i]
  OBVIOUS
<1> HIDE DEF r, k
<1>2. \A i \in DOMAIN p : i \in DOMAIN r /\ r[i] = p[i]
  BY <1>1
<1>3. \A i \in DOMAIN q : k + i \in DOMAIN r /\ r[k + i] = q[i]
  BY <1>1
<1>4. \A i \in DOMAIN r \ DOMAIN p : i - k \in DOMAIN q /\ r[i] = q[i - k]
  <2> TAKE i \in DOMAIN r \ DOMAIN p
  <2>1. i - k \in DOMAIN q /\ i = k + (i - k)
    BY <1>1
  <2> QED  BY <1>1, <2>1
<1>5. Range(r) = Range(p) \cup Range(q)
  BY <1>2, <1>3, <1>4 DEF Range
<1>6. ASSUME IsInjective(p), IsInjective(q), Range(p) \cap Range(q) = {} PROVE IsInjective(r)
  <2> SUFFICES ASSUME NEW i \in DOMAIN r, NEW j \in DOMAIN r, r[i] = r[j] PROVE i = j
    BY DEF IsInjective
  <2>1. CASE i \in DOMAIN p /\ j \in DOMAIN p
    BY <1>2, <1>6, <2>1 DEF IsInjective
  <2>2. CASE i \notin DOMAIN p /\ j \notin DOMAIN p
    <3>1. i - k = j - k
      BY <1>4, <1>6, <2>2 DEF IsInjective
    <3> QED  BY <1>1, <3>1
  <2>3. CASE (i \in DOMAIN p) # (j \in DOMAIN p)
    BY <1>2, <1>4, <1>6, <2>3 DEF Range
  <2> QED  BY <2>1, <2>2, <2>3
<1> QED  BY <1>1, <1>5, <1>6 DEF r

-----------------------------------------------------------------------------
(* The steps of the workers inside an engine are steps of ClaimAndSend. *)

\* A new engine begins with an empty database, as the workers do.
LEMMA EngineInitImplements == EngineInit => Init
BY DEF EngineInit

\* What the engine does between the workers' steps leaves their state alone, and
\* it hands them attempts only.
LEMMA EngineStepImplements ==
    workQueue \in Seq(DeliveryAttempt) /\ [EngineNext]_allVars => [Next]_vars
<1> SUFFICES ASSUME workQueue \in Seq(DeliveryAttempt), [EngineNext]_allVars PROVE [Next]_vars
  OBVIOUS
<1> USE DEF Next
<1>1. ASSUME PollSelect PROVE [Next]_vars
  BY <1>1 DEF PollSelect
<1>2. ASSUME NEW a \in DeliveryAttempt, PollItem(a) \/ PollFails(a) PROVE [Next]_vars
  BY <1>2 DEF PollItem, PollFails
<1>3. ASSUME DispatchRound PROVE [Next]_vars
  BY <1>3 DEF DispatchRound
<1>4. ASSUME NEW k \in Key, Refill(k) PROVE [Next]_vars
  BY <1>4 DEF Refill
<1>5. ASSUME NEW k \in Key, NEW n \in NewLimits, UpdateLimit(k, n) PROVE [Next]_vars
  BY <1>5 DEF UpdateLimit
<1>6. ASSUME NEW w \in Worker, WorkerGet(w) PROVE [Next]_vars
  <2>1. workQueue # <<>> /\ Take(w, Head(workQueue))
    BY <1>6 DEF WorkerGet
  <2>2. Head(workQueue) \in DeliveryAttempt
    BY <2>1, PopQueue
  <2> QED  BY <2>1, <2>2
<1>7. ASSUME NEW w \in Worker, WorkerWorks(w) \/ WorkerDone(w) PROVE [Next]_vars
  BY <1>7 DEF WorkerWorks, WorkerDone, WorkerStep
<1>8. ASSUME Outside PROVE [Next]_vars
  BY <1>8 DEF Outside
<1>9. ASSUME EngineRestart PROVE [Next]_vars
  BY <1>9 DEF EngineRestart
<1>10. ASSUME UNCHANGED allVars PROVE [Next]_vars
  BY <1>10 DEF allVars
<1> QED
  BY <1>1, <1>2, <1>3, <1>4, <1>5, <1>6, <1>7, <1>8, <1>9, <1>10 DEF EngineNext

\* Every attempt has a tenant and a bucket.
LEMMA OwnerType == \A a \in DeliveryAttempt : Owner(a) \in Tenant /\ BucketOf(a) \in Key
BY ConstantsAssumption, EngineAssumption DEF Owner, BucketOf, Key

-----------------------------------------------------------------------------
(* The invariant. *)

\* A new EngineState satisfies the invariant: nothing is anywhere.
LEMMA EngineInitInv == EngineInit => EInv
<1> SUFFICES ASSUME EngineInit PROVE EInv
  OBVIOUS
<1> USE DEF EngineInit
<1>1. IInv
  BY InitIInv
<1>2. EngineTypeOK
  BY <1>1, EngineAssumption DEF EngineTypeOK, IInv
<1>3. QueuesServable
  BY DEF QueuesServable, IsInjective, Range
<1>4. InFlightExact
  <2>1. Holding = {} /\ Held = {}
    BY DEF Holding, Held, Init
  <2>2. Waiting = {} /\ Range(workQueue) = {}
    BY DEF Waiting, Range
  <2> QED  BY <2>1, <2>2 DEF InFlightExact, IsInjective
<1> QED  BY <1>1, <1>2, <1>3, <1>4 DEF EInv

\* No worker takes an item or leaves one.
HoldersKeep == Holding' = Holding /\ \A w \in Holding : item'[w] = item[w]

\* Only WorkerGet, WorkerDone and a restart change who holds what.
LEMMA HoldersKept ==
    ASSUME TypeOK, UNCHANGED vars \/ Outside \/ \E w \in Worker : WorkerWorks(w)
    PROVE  HoldersKeep
<1> USE DEF TypeOK, HoldersKeep, Holding, attemptVars, localVars, GoTo
<1>1. CASE UNCHANGED vars
  BY <1>1 DEF vars
<1>2. CASE Outside
  BY <1>2 DEF Outside, Create, DeleteRecipient, BackoffElapses, DatabaseError
<1>3. ASSUME NEW w \in Worker, Work(w) PROVE HoldersKeep
  <2>1. UNCHANGED item
    BY <1>3 DEF Work, ClaimWon, ClaimLost, LoadChannel, Send, SettleSent, SettleFailed, SettleStale,
                Recount, WriteChannel
  <2>2. pc[w] # "idle"
    BY <1>3 DEF Work, ClaimWon, ClaimLost, LoadChannel, Send, SettleSent, SettleFailed, SettleStale,
                Recount, WriteChannel
  <2>3. PICK label \in {"load", "send", "settle", "recount", "write", "close"} :
            pc' = [pc EXCEPT ![w] = label]
    BY <1>3 DEF Work, ClaimWon, ClaimLost, LoadChannel, Send, SettleSent, SettleFailed, SettleStale,
                Recount, WriteChannel
  <2> QED  BY <2>1, <2>2, <2>3
<1> QED  BY <1>1, <1>2, <1>3 DEF WorkerWorks

\* What is said of the queues stays true while they and the holders stay.
LEMMA QueuesKept ==
    ASSUME EInv, HoldersKeep, UNCHANGED <<tenantQueue, inFlight, workQueue>>
    PROVE  InFlightExact'
<1>1. Held' = Held /\ Waiting' = Waiting
  BY DEF HoldersKeep, Held, Waiting
<1>2. \A v, w \in Holding' : v # w => item'[v] # item'[w]
  BY DEF EInv, InFlightExact, HoldersKeep
<1> QED  BY <1>1, <1>2 DEF EInv, InFlightExact

\* The poll loop queues a row only when it is in no other place.
LEMMA PollStep ==
    ASSUME EInv, TypeOK', NEW a \in DeliveryAttempt,
           PollSelect \/ PollItem(a) \/ PollFails(a)
    PROVE  EngineTypeOK' /\ QueuesServable' /\ InFlightExact'
<1> DEFINE t == Owner(a)
           k == BucketOf(a)
<1> USE DEF EInv, EngineTypeOK, limitVars, bucketVars
<1>1. CASE PollSelect
  <2>1. HoldersKeep /\ UNCHANGED <<tenantQueue, inFlight, workQueue>>
    BY <1>1, HoldersKept DEF PollSelect
  <2>2. EngineTypeOK' /\ QueuesServable'
    BY <1>1 DEF PollSelect, QueuesServable, Due
  <2> QED  BY <2>1, <2>2, QueuesKept
<1>2. ASSUME AddQueue(t)
      PROVE  /\ rotation' \in Seq(Tenant) /\ IsInjective(rotation')
             /\ Range(rotation') = Range(rotation) \cup {t}
  BY <1>2, OwnerType, AppendQueue DEF AddQueue, QueuesServable
<1>3. CASE PollFails(a)
  <2>1. HoldersKeep /\ UNCHANGED <<tenantQueue, inFlight, workQueue>>
    BY <1>3, HoldersKept DEF PollFails
  <2>2. EngineTypeOK' /\ QueuesServable'
    BY <1>2, <1>3 DEF PollFails, QueuesServable
  <2> QED  BY <2>1, <2>2, QueuesKept
<1>4. CASE PollItem(a) /\ Taken(a)
  <2>1. HoldersKeep /\ UNCHANGED <<tenantQueue, inFlight, workQueue>>
    BY <1>4, HoldersKept DEF PollItem
  <2>2. EngineTypeOK' /\ QueuesServable'
    BY <1>2, <1>4 DEF PollItem, QueuesServable
  <2> QED  BY <2>1, <2>2, QueuesKept
<1>5. CASE PollItem(a) /\ ~Taken(a)
  <2>1. /\ a \notin inFlight /\ inFlight' = inFlight \cup {a}
        /\ tenantQueue' = [tenantQueue EXCEPT ![t] = Append(@, a)]
        /\ AddQueue(t) /\ EnsureTokenBucket(k) /\ batch' = batch \ {a}
        /\ UNCHANGED <<vars, limit, updates, workQueue>>
    BY <1>5 DEF PollItem, Taken
  <2>2. HoldersKeep
    BY <2>1, HoldersKept
  <2>3. t \in Tenant /\ k \in Key
    BY OwnerType
  <2>4. /\ a \notin Waiting /\ a \notin Range(workQueue) /\ a \notin Held
        /\ a \notin Range(tenantQueue[t])
    BY <2>1, <2>3 DEF InFlightExact, Waiting
  <2>5. /\ tenantQueue' \in [Tenant -> Seq(DeliveryAttempt)]
        /\ IsInjective(tenantQueue'[t])
        /\ Range(tenantQueue'[t]) = Range(tenantQueue[t]) \cup {a}
    <3>1. tenantQueue[t] \in Seq(DeliveryAttempt) /\ IsInjective(tenantQueue[t])
      BY <2>3 DEF InFlightExact
    <3>2. tenantQueue'[t] = Append(tenantQueue[t], a)
      BY <2>1, <2>3
    <3> QED  BY <2>1, <2>4, <3>1, <3>2, AppendQueue
  <2>6. \A u \in Tenant \ {t} : tenantQueue'[u] = tenantQueue[u]
    BY <2>1
  <2>7. EngineTypeOK' /\ capacity'[k] # NoBucket
        /\ \A j \in Key : capacity[j] # NoBucket => capacity'[j] # NoBucket
    <3> HIDE DEF t, k
    <3>1. limit[k] \in Nat /\ limit[k] # NoBucket
      BY <2>3, EngineAssumption
    <3>2. /\ capacity' \in [Key -> Nat \cup {NoBucket}] /\ tokens' \in [Key -> Nat]
          /\ \A j \in Key : \/ j # k /\ capacity'[j] = capacity[j] /\ tokens'[j] = tokens[j]
                            \/ capacity'[j] = limit[k] /\ tokens'[j] = limit[k]
                            \/ capacity[j] # NoBucket /\ capacity'[j] = capacity[j]
                               /\ tokens'[j] = tokens[j]
      <4>1. CASE capacity[k] = NoBucket
        <5>1. /\ capacity' = [capacity EXCEPT ![k] = limit[k]]
              /\ tokens' = [tokens EXCEPT ![k] = limit[k]]
          BY <2>1, <4>1 DEF EnsureTokenBucket
        <5> QED  BY <2>3, <3>1, <5>1
      <4>2. CASE capacity[k] # NoBucket
        <5>1. UNCHANGED <<capacity, tokens>>
          BY <2>1, <4>2 DEF EnsureTokenBucket
        <5> QED  BY <4>2, <5>1
      <4> QED  BY <4>1, <4>2
    <3>3. capacity'[k] # NoBucket
      BY <2>3, <3>1, <3>2
    <3>4. \A j \in Key : capacity[j] # NoBucket => capacity'[j] # NoBucket
      BY <3>1, <3>2
    <3>5. \A j \in Key : capacity'[j] # NoBucket => tokens'[j] <= capacity'[j]
      <4>1. \A j \in Key : capacity[j] # NoBucket => tokens[j] <= capacity[j]
        OBVIOUS
      <4>2. limit[k] <= limit[k]
        BY <3>1
      <4> HIDE DEF EInv
      <4> QED  BY <3>2, <4>1, <4>2
    <3> QED  BY <1>2, <2>1, <2>5, <3>2, <3>3, <3>4, <3>5
  <2>8. QueuesServable'
    <3>1. ASSUME NEW u \in Tenant, NEW b \in Range(tenantQueue'[u])
          PROVE  Owner(b) = u /\ u \in Range(rotation') /\ capacity'[BucketOf(b)] # NoBucket
      <4>1. CASE b \in Range(tenantQueue[u])
        <5>1. b \in DeliveryAttempt
          BY <4>1 DEF Range
        <5> QED  BY <1>2, <2>1, <2>7, <4>1, <5>1, OwnerType DEF QueuesServable
      <4>2. CASE u = t /\ b = a
        BY <1>2, <2>1, <2>7, <4>2
      <4> QED  BY <2>5, <2>6, <3>1, <4>1, <4>2
    <3> QED  BY <1>2, <2>1, <3>1 DEF QueuesServable
  <2>9. Waiting' = Waiting \cup {a}
    BY <2>3, <2>5, <2>6 DEF Waiting
  <2>10. Held' = Held /\ \A v, w \in Holding' : v # w => item'[v] # item'[w]
    BY <2>2 DEF HoldersKeep, Held, InFlightExact
  <2>11. InFlightExact'
    BY <2>1, <2>4, <2>5, <2>6, <2>9, <2>10 DEF InFlightExact
  <2> QED  BY <2>7, <2>8, <2>11
<1> QED  BY <1>1, <1>3, <1>4, <1>5

\* Workers at work and the world outside do not touch EngineState.
LEMMA WorkerStepsKeep ==
    ASSUME EInv, TypeOK', Outside \/ \E w \in Worker : WorkerWorks(w)
    PROVE  EngineTypeOK' /\ QueuesServable' /\ InFlightExact'
<1>1. UNCHANGED engineVars
  BY DEF Outside, WorkerWorks
<1>2. HoldersKeep
  BY HoldersKept DEF EInv, IInv
<1>3. InFlightExact'
  BY <1>1, <1>2, QueuesKept DEF engineVars
<1>4. EngineTypeOK' /\ QueuesServable'
  BY <1>1 DEF EInv, EngineTypeOK, QueuesServable, engineVars
<1> QED  BY <1>3, <1>4

\* Refills and new limits leave the queues alone.
LEMMA BucketStep ==
    ASSUME EInv, TypeOK', NEW k \in Key, Refill(k) \/ \E n \in NewLimits : UpdateLimit(k, n)
    PROVE  EngineTypeOK' /\ QueuesServable' /\ InFlightExact'
<1> USE DEF EInv, limitVars, bucketVars, queueVars
<1>1. UNCHANGED vars /\ UNCHANGED queueVars /\ UNCHANGED capacity
  BY DEF Refill, UpdateLimit
<1>2. HoldersKeep
  BY <1>1, HoldersKept DEF IInv
<1>3. InFlightExact' /\ QueuesServable'
  BY <1>1, <1>2, QueuesKept DEF QueuesServable
<1>4. EngineTypeOK'
  <2>1. CASE Refill(k)
    <3>1. capacity[k] \in Nat /\ tokens[k] \in Nat /\ tokens[k] < capacity[k]
      BY <2>1 DEF Refill, EngineTypeOK
    <3>2. tokens' = [tokens EXCEPT ![k] = tokens[k] + 1] /\ UNCHANGED limitVars
      BY <2>1 DEF Refill
    <3>3. tokens' \in [Key -> Nat]
      BY <3>1, <3>2 DEF EngineTypeOK
    <3>4. \A j \in Key : capacity[j] # NoBucket => tokens'[j] <= capacity[j]
      BY <3>1, <3>2 DEF EngineTypeOK
    <3> QED  BY <1>1, <3>2, <3>3, <3>4 DEF EngineTypeOK
  <2>2. ASSUME NEW n \in NewLimits, UpdateLimit(k, n) PROVE EngineTypeOK'
    <3>1. limit' \in [Key -> Nat] /\ updates' \in 0..MaxUpdates /\ UNCHANGED tokens
      BY <2>2, EngineAssumption DEF UpdateLimit, EngineTypeOK
    <3> QED  BY <1>1, <3>1 DEF EngineTypeOK
  <2> QED  BY <2>1, <2>2
<1> QED  BY <1>3, <1>4

\* A worker takes over what leaves the work queue.
LEMMA GetStep ==
    ASSUME EInv, TypeOK', NEW w \in Worker, WorkerGet(w)
    PROVE  EngineTypeOK' /\ QueuesServable' /\ InFlightExact'
<1> DEFINE a == Head(workQueue)
<1> USE DEF EInv, limitVars, bucketVars, localVars
<1>1. /\ workQueue # <<>> /\ workQueue \in Seq(DeliveryAttempt)
      /\ pc[w] = "idle" /\ pc' = [pc EXCEPT ![w] = "claim"] /\ item' = [item EXCEPT ![w] = a]
      /\ workQueue' = Tail(workQueue)
      /\ UNCHANGED <<limit, updates, capacity, tokens, tenantQueue, rotation, inFlight, batch>>
  BY DEF WorkerGet, Take, GoTo, EngineTypeOK
<1>2. /\ a \in DeliveryAttempt /\ workQueue' \in Seq(DeliveryAttempt)
      /\ Range(workQueue) = Range(workQueue') \cup {a}
      /\ IsInjective(workQueue') /\ a \notin Range(workQueue')
  BY <1>1, PopQueue DEF InFlightExact
<1>3. EngineTypeOK' /\ QueuesServable'
  BY <1>1, <1>2 DEF EngineTypeOK, QueuesServable
<1>4. Holding' = Holding \cup {w} /\ w \notin Holding /\ item'[w] = a
      /\ \A v \in Holding : item'[v] = item[v]
  <2>1. DOMAIN pc = Worker /\ item \in [Worker -> DeliveryAttempt \cup {NoItem}]
    BY DEF IInv, TypeOK
  <2>2. pc'[w] = "claim" /\ \A v \in Worker \ {w} : pc'[v] = pc[v]
    BY <1>1, <2>1
  <2>3. w \notin Holding /\ Holding' = Holding \cup {w}
    BY <1>1, <2>2 DEF Holding
  <2>4. item'[w] = a /\ \A v \in Worker \ {w} : item'[v] = item[v]
    BY <1>1, <2>1
  <2> QED  BY <2>3, <2>4 DEF Holding
<1>5. Held' = Held \cup {a}
  BY <1>4 DEF Held
<1>6. a \notin Held
  BY <1>2 DEF InFlightExact
<1>7. \A v, u \in Holding' : v # u => item'[v] # item'[u]
  BY <1>4, <1>6 DEF InFlightExact, Held
<1>8. Waiting' = Waiting
  BY <1>1 DEF Waiting
<1>9. InFlightExact'
  BY <1>1, <1>2, <1>5, <1>6, <1>7, <1>8 DEF InFlightExact
<1> QED  BY <1>3, <1>9

\* The finally clause unmarks the one attempt the worker held.
LEMMA DoneStep ==
    ASSUME EInv, TypeOK', NEW w \in Worker, WorkerDone(w)
    PROVE  EngineTypeOK' /\ QueuesServable' /\ InFlightExact'
<1> USE DEF EInv, limitVars, bucketVars
<1>1. /\ pc[w] = "close" /\ pc' = [v \in Worker |-> IF v \in {w} THEN "idle" ELSE pc[v]]
      /\ item' = [v \in Worker |-> IF v \in {w} THEN NoItem ELSE item[v]]
      /\ inFlight' = inFlight \ {item[w]}
      /\ UNCHANGED <<limit, updates, capacity, tokens, tenantQueue, rotation, workQueue, batch>>
  BY DEF WorkerDone, Release, ForgetLocals
<1>2. EngineTypeOK' /\ QueuesServable'
  BY <1>1 DEF EngineTypeOK, QueuesServable
<1>3. w \in Holding /\ Holding' = Holding \ {w} /\ \A v \in Holding' : item'[v] = item[v]
  BY <1>1 DEF Holding
<1>4. Held' = Held \ {item[w]} /\ item[w] \in Held
  BY <1>3 DEF Held, InFlightExact
<1>5. Waiting' = Waiting
  BY <1>1 DEF Waiting
<1>6. InFlightExact'
  BY <1>1, <1>3, <1>4, <1>5 DEF InFlightExact
<1> QED  BY <1>2, <1>6

\* A restart empties every place at once.
LEMMA RestartStep ==
    ASSUME EInv, TypeOK', EngineRestart
    PROVE  EngineTypeOK' /\ QueuesServable' /\ InFlightExact'
<1> USE DEF EInv, EngineRestart, FreshEngine, limitVars
<1>1. EngineTypeOK'
  BY DEF EngineTypeOK
<1>2. QueuesServable'
  BY DEF QueuesServable, IsInjective, Range
<1>3. Holding' = {} /\ Held' = {}
  BY DEF Holding, Held, Restart, ForgetLocals
<1>4. Waiting' = {} /\ Range(workQueue)' = {}
  BY DEF Waiting, Range
<1>5. InFlightExact'
  BY <1>3, <1>4 DEF InFlightExact, IsInjective
<1> QED  BY <1>1, <1>2, <1>5

\* A round moves the fronts of some tenants' queues to the work queue: they are
\* distinct, since each attempt waits in its own tenant's queue.
LEMMA RoundStep ==
    ASSUME EInv, TypeOK', DispatchRound
    PROVE  EngineTypeOK' /\ QueuesServable' /\ InFlightExact'
<1> DEFINE Front(i) == Head(tenantQueue[rotation[i]])
           gone == {Front(i) : i \in Movers}
           N == Cardinality(Movers)
<1> USE DEF EInv, limitVars
<1>1. PICK turn \in Bijection(1..N, Movers) :
          workQueue' = workQueue \o [n \in DOMAIN turn |-> Front(turn[n])]
  BY DEF DispatchRound
<1>2. /\ tenantQueue' = [t \in Tenant |->
                           IF \E i \in Movers : rotation[i] = t THEN Tail(tenantQueue[t])
                                                                ELSE tenantQueue[t]]
      /\ tokens' = [k \in Key |->
                      IF \E i \in Movers : BucketOf(Front(i)) = k THEN tokens[k] - 1
                                                                  ELSE tokens[k]]
      /\ UNCHANGED <<vars, limit, updates, capacity, rotation, inFlight, batch>>
  BY DEF DispatchRound
<1>3. N \in Nat
  <2>1. IsFiniteSet(DOMAIN rotation)
    <3>1. DOMAIN rotation = 1..Len(rotation) /\ Len(rotation) \in Nat
      BY DEF EngineTypeOK
    <3> QED  BY <3>1, FS_Interval
  <2>2. Movers \subseteq DOMAIN rotation
    BY DEF Movers
  <2> QED  BY <2>1, <2>2, FS_Subset, FS_CardinalityType
\* A mover is the turn of a tenant whose front attempt has a token.
<1>4. ASSUME NEW i \in Movers
      PROVE  /\ rotation[i] \in Tenant /\ tenantQueue[rotation[i]] # <<>>
             /\ Front(i) \in Range(tenantQueue[rotation[i]]) /\ Front(i) \in DeliveryAttempt
             /\ Owner(Front(i)) = rotation[i] /\ tokens[BucketOf(Front(i))] >= 1
  <2>1. i \in DOMAIN rotation /\ HasToken(rotation[i])
    BY DEF Movers
  <2>2. rotation[i] \in Tenant
    BY <2>1 DEF EngineTypeOK
  <2>3. tenantQueue[rotation[i]] # <<>> /\ tenantQueue[rotation[i]] \in Seq(DeliveryAttempt)
    BY <2>1, <2>2 DEF HasToken, EngineTypeOK
  <2>4. Front(i) \in Range(tenantQueue[rotation[i]]) /\ Front(i) \in DeliveryAttempt
    BY <2>3, PopQueue
  <2> QED  BY <2>1, <2>2, <2>3, <2>4 DEF HasToken, QueuesServable
<1>5. \A i, j \in Movers : rotation[i] = rotation[j] => i = j
  BY DEF Movers, QueuesServable, IsInjective
<1> HIDE DEF N
\* What goes to the workers: every front once.
<1> DEFINE moved == [n \in 1..N |-> Front(turn[n])]
<1>6. /\ turn \in [1..N -> Movers] /\ IsInjective(turn)
      /\ \A i \in Movers : \E n \in 1..N : turn[n] = i
  BY <1>1 DEF Bijection, Injection, Surjection
<1>7. workQueue' = workQueue \o moved
  BY <1>1, <1>6
<1>8. moved \in Seq(DeliveryAttempt) /\ Range(moved) = gone /\ IsInjective(moved)
  <2>1. \A n \in 1..N : moved[n] = Front(turn[n]) /\ turn[n] \in Movers
    BY <1>6
  <2>2. moved \in Seq(DeliveryAttempt)
    BY <1>3, <1>4, <1>6
  <2>3. DOMAIN moved = 1..N
    OBVIOUS
  <2>4. Range(moved) = gone
    BY <1>6, <2>1, <2>3 DEF Range
  <2>5. \A m, n \in 1..N : moved[m] = moved[n] => m = n
    BY <1>4, <1>5, <1>6, <2>1 DEF IsInjective
  <2> QED  BY <2>2, <2>3, <2>4, <2>5 DEF IsInjective
<1> HIDE DEF moved
\* Every queue loses what was its front, and nothing else.
<1>9. ASSUME NEW t \in Tenant
      PROVE  /\ tenantQueue'[t] \in Seq(DeliveryAttempt) /\ IsInjective(tenantQueue'[t])
             /\ Range(tenantQueue'[t]) = Range(tenantQueue[t]) \ gone
  <2>1. tenantQueue[t] \in Seq(DeliveryAttempt) /\ IsInjective(tenantQueue[t])
    BY DEF EngineTypeOK, InFlightExact
  <2>2. \A a \in Range(tenantQueue[t]) : Owner(a) = t
    BY DEF QueuesServable
  <2>3. CASE \E i \in Movers : rotation[i] = t
    <3>1. PICK i \in Movers : rotation[i] = t
      BY <2>3
    <3>2. tenantQueue'[t] = Tail(tenantQueue[t])
      BY <1>2, <2>3
    <3>3. gone \cap Range(tenantQueue[t]) = {Front(i)}
      BY <1>4, <1>5, <2>2, <3>1
    <3>4. Front(i) = Head(tenantQueue[t]) /\ tenantQueue[t] # <<>>
      BY <1>4, <3>1
    <3> HIDE DEF gone, Front
    <3> QED  BY <2>1, <3>2, <3>3, <3>4, PopQueue
  <2>4. CASE ~ \E i \in Movers : rotation[i] = t
    <3>1. tenantQueue'[t] = tenantQueue[t]
      BY <1>2, <2>4
    <3>2. gone \cap Range(tenantQueue[t]) = {}
      BY <1>4, <2>2, <2>4
    <3> QED  BY <2>1, <3>1, <3>2
  <2> QED  BY <2>3, <2>4
<1>10. gone \subseteq Waiting
  BY <1>4 DEF Waiting
<1>11. Waiting' = Waiting \ gone
  BY <1>9 DEF Waiting
<1>12. /\ workQueue' \in Seq(DeliveryAttempt) /\ IsInjective(workQueue')
       /\ Range(workQueue') = Range(workQueue) \cup gone
  <2>1. workQueue \in Seq(DeliveryAttempt) /\ IsInjective(workQueue)
        /\ Range(workQueue) \cap gone = {}
    BY <1>10 DEF EngineTypeOK, InFlightExact
  <2> HIDE DEF gone
  <2> QED  BY <1>7, <1>8, <2>1, JoinQueues
<1>13. HoldersKeep
  BY <1>2, HoldersKept DEF IInv
<1>14. Held' = Held /\ \A v, w \in Holding' : v # w => item'[v] # item'[w]
  BY <1>13 DEF HoldersKeep, Held, InFlightExact
<1>15. InFlightExact'
  <2> HIDE DEF gone
  <2>1. inFlight = Waiting \cup Range(workQueue) \cup Held
        /\ Waiting \cap Range(workQueue) = {} /\ (Waiting \cup Range(workQueue)) \cap Held = {}
    BY DEF InFlightExact
  <2>2. inFlight' = Waiting' \cup Range(workQueue') \cup Held'
        /\ Waiting' \cap Range(workQueue') = {}
        /\ (Waiting' \cup Range(workQueue')) \cap Held' = {}
    BY <1>2, <1>10, <1>11, <1>12, <1>14, <2>1
  <2>3. \A t \in Tenant : IsInjective(tenantQueue'[t])
    BY <1>9
  <2> QED  BY <1>12, <1>14, <2>2, <2>3 DEF InFlightExact
<1>16. QueuesServable'
  <2>1. \A t \in Tenant : Range(tenantQueue'[t]) \subseteq Range(tenantQueue[t])
    BY <1>9
  <2>2. \A t \in Tenant : \A a \in Range(tenantQueue'[t]) :
           Owner(a) = t /\ t \in Range(rotation') /\ capacity'[BucketOf(a)] # NoBucket
    BY <1>2, <2>1 DEF QueuesServable
  <2>3. IsInjective(rotation')
    BY <1>2 DEF QueuesServable
  <2> QED  BY <2>2, <2>3 DEF QueuesServable
<1>17. tokens' \in [Key -> Nat] /\ \A k \in Key : tokens'[k] <= tokens[k]
  <2>1. \A k \in Key : tokens[k] \in Nat
    BY DEF EngineTypeOK
  <2>2. ASSUME NEW k \in Key PROVE tokens'[k] \in Nat /\ tokens'[k] <= tokens[k]
    <3>1. CASE \E i \in Movers : BucketOf(Front(i)) = k
      <4>1. tokens[k] >= 1
        BY <1>4, <3>1
      <4>2. tokens'[k] = tokens[k] - 1
        BY <1>2, <3>1
      <4> QED  BY <2>1, <4>1, <4>2
    <3>2. CASE ~ \E i \in Movers : BucketOf(Front(i)) = k
      <4>1. tokens'[k] = tokens[k]
        BY <1>2, <3>2
      <4> QED  BY <2>1, <4>1
    <3> QED  BY <3>1, <3>2
  <2> QED  BY <1>2, <2>2
<1>18. EngineTypeOK'
  <2>1. \A k \in Key : capacity'[k] # NoBucket => tokens'[k] <= capacity'[k]
    <3>1. \A k \in Key : capacity[k] # NoBucket =>
             capacity[k] \in Nat /\ tokens[k] \in Nat /\ tokens[k] <= capacity[k]
      BY DEF EngineTypeOK
    <3> QED  BY <1>2, <1>17, <3>1
  <2>2. tenantQueue' \in [Tenant -> Seq(DeliveryAttempt)]
    BY <1>2, <1>9
  <2> QED  BY <1>2, <1>12, <1>17, <2>1, <2>2 DEF EngineTypeOK
<1> QED  BY <1>15, <1>16, <1>18

\* Together: every step of the engine preserves the invariant.
LEMMA EngineStepInv == EInv /\ [EngineNext]_allVars => EInv'
<1> SUFFICES ASSUME EInv, [EngineNext]_allVars PROVE EInv'
  OBVIOUS
<1>1. IInv'
  <2>1. [Next]_vars
    BY EngineStepImplements DEF EInv, EngineTypeOK
  <2> QED  BY <2>1, StepInv DEF EInv
<1>2. TypeOK'
  BY <1>1 DEF IInv
<1>3. EngineTypeOK' /\ QueuesServable' /\ InFlightExact'
  <2>1. CASE UNCHANGED allVars
    <3>1. HoldersKeep /\ UNCHANGED engineVars
      BY <2>1, HoldersKept DEF allVars, EInv, IInv
    <3>2. InFlightExact'
      BY <3>1, QueuesKept DEF engineVars
    <3>3. EngineTypeOK' /\ QueuesServable'
      BY <1>2, <3>1 DEF engineVars, EInv, EngineTypeOK, QueuesServable
    <3> QED  BY <3>2, <3>3
  <2>2. CASE PollSelect
    <3>1. DeliveryAttempt # {}
      BY <2>2 DEF PollSelect, Due
    <3> QED  BY <1>2, <2>2, <3>1, PollStep
  <2>3. ASSUME NEW a \in DeliveryAttempt, PollItem(a) \/ PollFails(a)
        PROVE  EngineTypeOK' /\ QueuesServable' /\ InFlightExact'
    BY <1>2, <2>3, PollStep
  <2>4. CASE DispatchRound
    BY <1>2, <2>4, RoundStep
  <2>5. ASSUME NEW k \in Key, Refill(k) \/ \E n \in NewLimits : UpdateLimit(k, n)
        PROVE  EngineTypeOK' /\ QueuesServable' /\ InFlightExact'
    BY <1>2, <2>5, BucketStep
  <2>6. ASSUME NEW w \in Worker, WorkerGet(w) \/ WorkerWorks(w) \/ WorkerDone(w)
        PROVE  EngineTypeOK' /\ QueuesServable' /\ InFlightExact'
    BY <1>2, <2>6, GetStep, DoneStep, WorkerStepsKeep
  <2>7. CASE Outside
    BY <1>2, <2>7, WorkerStepsKeep
  <2>8. CASE EngineRestart
    BY <1>2, <2>8, RestartStep
  <2> QED  BY <2>1, <2>2, <2>3, <2>4, <2>5, <2>6, <2>7, <2>8 DEF EngineNext
<1> QED  BY <1>1, <1>3 DEF EInv

-----------------------------------------------------------------------------
(* Theorems. *)

\* The inductive invariant of the engine holds for every number of tenants,
\* attempts and workers, every rate limit and every change of the limits.
THEOREM EngineInductive == EngineSpec => []EInv
<1> QED  BY EngineInitInv, EngineStepInv, PTL DEF EngineSpec

\* The queues, buckets and sets of EngineState always have the values the code
\* means them to have; no bucket is ever above its capacity or below zero.
THEOREM EngineTypeCorrect == EngineSpec => []EngineTypeOK
<1>1. EInv => EngineTypeOK
  BY DEF EInv
<1> QED  BY EngineInductive, <1>1, PTL

\* in_flight is exact: an attempt is between poll and worker at most once, and
\* is marked for exactly as long, however stale the poll's batch is.
THEOREM InFlightIsExact == EngineSpec => []InFlightExact
<1>1. EInv => InFlightExact
  BY DEF EInv
<1> QED  BY EngineInductive, <1>1, PTL

\* Whatever waits is in the queue of its owner, has its turn and has a bucket:
\* dispatch_round's "should not normally happen" never happens.
THEOREM QueuesAreServable == EngineSpec => []QueuesServable
<1>1. EInv => QueuesServable
  BY DEF EInv
<1> QED  BY EngineInductive, <1>1, PTL

\* The engine gives its workers nothing ClaimAndSend does not allow.
THEOREM EngineImplementsWorkers == EngineSpec => Spec
<1>1. EInv => workQueue \in Seq(DeliveryAttempt)
  BY DEF EInv, EngineTypeOK
<1> QED
  BY EngineInductive, EngineInitImplements, EngineStepImplements, <1>1, PTL DEF EngineSpec, Spec

\* So the guarantees of the claim hold of a running process: no recipient gets
\* a message twice.
THEOREM EngineAtMostOnce == EngineSpec => []NoDuplicateDelivery
<1> QED  BY EngineImplementsWorkers, AtMostOnce, PTL

\* A worker's step and the world's never leave a row in SENDING without its worker, but for
\* an error or a restart, which is counted.
LEMMA HeldStep == IInv /\ SendingIsHeld /\ [Next]_vars => SendingIsHeld'
<1> SUFFICES ASSUME IInv, SendingIsHeld, [Next]_vars, NEW a \in DeliveryAttempt,
                    status'[a] = "SENDING", faults' = 0, restarts' = 0
             PROVE  \E w \in Worker : Sending(w)' /\ item'[w] = a
  BY DEF SendingIsHeld
<1> USE DEF IInv, localVars, attemptVars, providerVars, boundVars, GoTo
<1>1. ASSUME status[a] = "SENDING", faults = 0, restarts = 0
      PROVE  \E w \in Worker : Sending(w) /\ item[w] = a
  BY <1>1 DEF SendingIsHeld
<1>2. ASSUME NEW v \in Worker, ClaimWon(v) PROVE \E w \in Worker : Sending(w)' /\ item'[w] = a
  <2>1. /\ UNCHANGED <<item, faults, restarts>> /\ pc[v] = "claim" /\ pc'[v] = "load"
        /\ \A w \in Worker \ {v} : pc'[w] = pc[w]
        /\ a # item[v] => status'[a] = status[a]
    BY <1>2 DEF ClaimWon, TypeOK
  <2> QED  BY <1>1, <2>1 DEF Sending
<1>3. ASSUME NEW v \in Worker, SettleSent(v) \/ SettleFailed(v) \/ SettleStale(v)
      PROVE  \E w \in Worker : Sending(w)' /\ item'[w] = a
  <2>1. /\ UNCHANGED <<item, faults, restarts>>
        /\ \A w \in Worker \ {v} : pc'[w] = pc[w]
        /\ a # item[v] /\ status'[a] = status[a]
    BY <1>3 DEF SettleSent, SettleFailed, SettleStale, TypeOK, HolderState
  <2> QED  BY <1>1, <2>1 DEF Sending
<1>4. ASSUME NEW v \in Worker,
             ClaimLost(v) \/ LoadChannel(v) \/ Send(v) \/ Recount(v) \/ WriteChannel(v)
      PROVE  \E w \in Worker : Sending(w)' /\ item'[w] = a
  <2>1. /\ UNCHANGED <<item, status, faults, restarts>>
        /\ \A w \in Worker \ {v} : pc'[w] = pc[w]
        /\ Sending(v) => Sending(v)'
    BY <1>4 DEF ClaimLost, LoadChannel, Send, Recount, WriteChannel, TypeOK, Sending
  <2> QED  BY <1>1, <2>1 DEF Sending
<1>5. ASSUME NEW v \in Worker, DatabaseError(v) PROVE FALSE
  <2>1. faults \in Nat /\ faults' = faults + 1
    BY <1>5, ConstantsAssumption DEF DatabaseError, TypeOK
  <2> QED  BY <2>1
<1>6. ASSUME Restart PROVE FALSE
  <2>1. restarts \in Nat /\ restarts' = restarts + 1
    BY <1>6, ConstantsAssumption DEF Restart, TypeOK
  <2> QED  BY <2>1
<1>7. ASSUME NEW v \in Worker, (\E b \in DeliveryAttempt : Take(v, b)) \/ Release(v)
      PROVE  \E w \in Worker : Sending(w)' /\ item'[w] = a
  <2> DEFINE Away == /\ UNCHANGED <<status, faults, restarts>> /\ ~Sending(v)
                     /\ \A w \in Worker \ {v} : pc'[w] = pc[w] /\ item'[w] = item[w]
  <2>1. ASSUME NEW b \in DeliveryAttempt, Take(v, b) PROVE Away
    BY <2>1 DEF Take, TypeOK, Sending
  <2>2. ASSUME Release(v) PROVE Away
    BY <2>2 DEF Release, ForgetLocals, Sending
  <2>3. Away
    BY <1>7, <2>1, <2>2
  <2> QED  BY <1>1, <2>3 DEF Sending
<1>8. ASSUME NEW c \in NotificationChannel, Create(c)
      PROVE  \E w \in Worker : Sending(w)' /\ item'[w] = a
  <2>1. UNCHANGED <<pc, item, faults, restarts>> /\ status[a] = "SENDING"
    BY <1>8 DEF Create
  <2> QED  BY <1>1, <2>1 DEF Sending
<1>9. ASSUME NEW r \in Recipient, DeleteRecipient(r)
      PROVE  \E w \in Worker : Sending(w)' /\ item'[w] = a
  <2>1. UNCHANGED <<pc, item, faults, restarts>> /\ status[a] = "SENDING"
    BY <1>9 DEF DeleteRecipient
  <2> QED  BY <1>1, <2>1 DEF Sending
<1>10. CASE UNCHANGED <<status, pc, item, faults, restarts>>
  BY <1>1, <1>10 DEF Sending
<1> QED
  BY <1>2, <1>3, <1>4, <1>5, <1>6, <1>7, <1>8, <1>9, <1>10
  DEF Next, WorkerStep, Work, BackoffElapses, vars

\* Nothing but an error or a restart strands a row in SENDING, however claims and polls race.
THEOREM NothingElseStrands == EngineSpec => []SendingIsHeld
<1>1. EngineInit => SendingIsHeld
  BY DEF EngineInit, Init, SendingIsHeld
<1>2. EInv /\ SendingIsHeld /\ [EngineNext]_allVars => SendingIsHeld'
  BY EngineStepImplements, HeldStep DEF EInv, EngineTypeOK
<1> QED  BY <1>1, <1>2, EngineInductive, PTL DEF EngineSpec
=============================================================================
