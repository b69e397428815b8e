------------------------- MODULE ApiHistory_proofs -------------------------
(***************************************************************************)
(* What a request may rely on of what its SELECTs told it, and             *)
(* FanoutSameTenant, for any requests, calls and first rows.               *)
(*                                                                         *)
(* What its SELECTs told a request is kept in terms of its history: a row  *)
(* that was found was there at some moment (ever), a row that was not      *)
(* found was not there at every moment (always).  Both stay true whatever  *)
(* the others commit, since ever only grows and always only shrinks.  If   *)
(* nobody committed anything, the two are one, and are the rows the        *)
(* request writes to.                                                      *)
(***************************************************************************)
EXTENDS NotificationCreate_proofs, WellFoundedInduction

-----------------------------------------------------------------------------
(* What the history of a request tells. *)

\* Operations on the row that was loaded.
LoadedOps == {"updateTenant", "updateTemplate", "updateRecipient", "deleteTemplate", "deleteRecipient"}

\* The rows that were found are one per id, and only addresses hang on one of them; the row
\* that was loaded has the id of the path, the row that was looked up the key of the call.
FoundRecall(h) ==
    /\ \A r, s \in found[h] : r.id = s.id => r = s
    /\ \A r, s \in found[h] : r.owner = s.id => s.table = "recipients"
    /\ call[h].op \in LoadedOps =>
          \A r \in found[h] : r.table = TableOf[call[h].op] => r.id = call[h].id
    /\ pc[h] = "check" /\ call[h].op = "updateTemplate" =>
          \A r \in found[h] : r.id = call[h].id /\ r.table = "templates"
    /\ call[h].op \in Upserts \cup KeyedReads => \A r \in found[h] : r.keys \cap Keys(h) # {}

Unclaimed(h, keys) == \A r \in always[h] : r.keys \cap keys = {}

\* What a request is about to write was free at some moment.
WriteRecall(h) ==
    /\ call[h].op \in Creates \ {"bootstrap"} => Unclaimed(h, Keys(h))
    /\ call[h].op \in Upserts /\ found[h] = {} => Unclaimed(h, Keys(h))
    /\ call[h].op = "bootstrap" => PlatformAdmins(always[h]) = {}
    /\ call[h].op = "updateTemplate" /\ call[h].name # None =>
          \A row \in found[h] : row.table = "templates" =>
              \/ Renamed(row, call[h].name) = row.keys
              \/ \A r \in always[h] : r.id # call[h].id =>
                     r.keys \cap Renamed(row, call[h].name) = {}

\* There was no active template of the name for the channel.
TemplateMissed(h, ch) ==
    \A r \in always[h] :
        <<"templates", tenant[h], call[h].name, ch>> \in r.keys => "inactive" \in r.value

\* Every recipient's address on the channel was found, or there was none.
AddressesSeen(h, ch) ==
    \A id \in ToSet(Recipients(h)) :
        \/ \E r \in On(found[h], "addresses", ch) : r.owner = id
        \/ \A r \in On(always[h], "addresses", ch) : r.owner # id

\* A row is an active template of the name, on a channel that is asked for.
ActiveTemplate(h, r) ==
    /\ r.table = "templates" /\ "inactive" \notin r.value
    /\ \E k \in r.keys :
         k = <<"templates", tenant[h], call[h].name, k[4]>> /\ k[4] \in ToSet(Channels(h))

\* What POST /notifications has found out.
NotifyRecall(h) ==
    /\ \A r \in found[h] : r.table = "templates" => ActiveTemplate(h, r)
    /\ pc[h] \in {"templates", "recipients"} => \A r \in found[h] : r.table = "templates"
    /\ pc[h] # "key" /\ call[h].key \notin {None, ""} => Unclaimed(h, RequestKeys(h))
    /\ pc[h] = "templates" => \A i \in DOMAIN Channels(h) : i <= progress[h] =>
          On(found[h], "templates", Channels(h)[i]) # {} \/ TemplateMissed(h, Channels(h)[i])
    /\ pc[h] \in {"recipients", "addresses", "submit"} =>
          \A i \in DOMAIN Channels(h) : On(found[h], "templates", Channels(h)[i]) # {}
    /\ pc[h] \in {"addresses", "submit"} =>
          /\ \A r \in found[h] : r.table = "templates" => r.value \subseteq call[h].given
          /\ \A id \in ToSet(Recipients(h)) : \E r \in ever[h] : r.id = id
    /\ pc[h] = "addresses" => \A i \in DOMAIN Channels(h) : i <= progress[h] =>
          AddressesSeen(h, Channels(h)[i])
    /\ pc[h] = "submit" => \A i \in DOMAIN Channels(h) : AddressesSeen(h, Channels(h)[i])

Recalls(h) ==
    /\ progress[h] \in Nat
    /\ pc[h] \notin {"idle", "done"} => db \subseteq ever[h]
    /\ pc[h] = "load" => call[h].op \in DOMAIN Loads
    /\ pc[h] \in {"check", "write"} => FoundRecall(h)
    /\ pc[h] = "write" => WriteRecall(h)
    /\ pc[h] \in {"look", "write"} /\ call[h].op = "upsertAddress" =>
          \E r \in ever[h] : r.id = call[h].id
    /\ pc[h] \in NotifySteps => NotifyRecall(h)

RequestsRecall == \A h \in Requests : Recalls(h)

\* What a committed channel mentions.
Mentions(n) == {n.template} \cup {a.recipient : a \in ToSet(n.attempts)}

\* A committed fan-out is its request's, and mentions rows of the request's tenant.
FanoutOK(f) ==
    /\ DOMAIN f = {"id", "channels"} /\ Taken(f.id)
    /\ \A i \in DOMAIN f.channels :
         /\ DOMAIN f.channels[i] = {"channel", "template", "body", "status", "skipped", "attempts"}
         /\ \A x \in Mentions(f.channels[i]) :
              Taken(x) /\ \A q, r \in db : q.id = f.id /\ r.id = x => r.tenant = q.tenant

FanoutsOK == \A f \in fanout : FanoutOK(f)

-----------------------------------------------------------------------------
(* What every step does. *)

\* The others stay where they are, and the history is kept.
Shifts(h) ==
    /\ Watch(db')
    /\ \A g \in Requests \ {h} :
         pc'[g] = pc[g] /\ call'[g] = call[g] /\ tenant'[g] = tenant[g] /\ found'[g] = found[g]

\* A request that is answered.
LEMMA AnswerShifts ==
    ASSUME Inv, NEW h \in Requests, NEW r, Answer(h, r), Watch(db')
    PROVE  Shifts(h)
BY DEF Answer, Shifts, Inv, Shape

\* One that is answered without a write.
LEMMA RefuseShifts ==
    ASSUME Inv, NEW h \in Requests, NEW r, Refuse(h, r)
    PROVE  Shifts(h)
<1>1. Answer(h, r) /\ Watch(db')
  BY DEF Refuse, Watch
<1> QED  BY <1>1, AnswerShifts

\* One that goes on after a SELECT.
LEMMA ContinueShifts ==
    ASSUME Inv, NEW h \in Requests, NEW step, NEW rows, Continue(h, step, rows)
    PROVE  Shifts(h)
<1>1. Watch(db')
  BY DEF Continue, Watch
<1> QED  BY <1>1 DEF Continue, Shifts, Inv, Shape

\* One that begins.
LEMMA AdmitShifts ==
    ASSUME Inv, NEW h \in Requests, NEW c, NEW t, Admit(h, c, t)
    PROVE  Shifts(h)
<1>1. Watch(db')
  BY DEF Admit, Watch
<1> QED  BY <1>1 DEF Admit, Shifts, Inv, Shape

\* One that writes.
LEMMA WriteShifts ==
    ASSUME Inv, NEW h \in Requests, NEW rows, db' = rows, Answer(h, "ok"), Watch(rows)
    PROVE  Shifts(h)
<1>1. Watch(db')
  BY DEF Watch
<1> QED  BY <1>1, AnswerShifts

\* One that writes what the constraints let through.
LEMMA CommitShifts ==
    ASSUME Inv, NEW h \in Requests, NEW rows, Commit(h, rows)
    PROVE  Shifts(h)
BY RefuseShifts, WriteShifts DEF Commit

\* The variables of one request change, and the history is kept.
LEMMA StepShifts ==
    ASSUME Inv, NEW h \in Requests, Manage(h) \/ Notify(h)
    PROVE  pc[h] # "done" /\ Shifts(h)
<1>1. pc[h] # "done"
  BY DEF Manage, Notify, Begin, Load, Check, Look, Insert, Update, Delete,
         FindKey, FindTemplate, FindRecipients, FindAddresses, Submit
<1>2. CASE Begin(h)
  BY <1>2, RefuseShifts, AdmitShifts DEF Begin
<1>3. CASE Load(h)
  BY <1>3, RefuseShifts, ContinueShifts DEF Load
<1>4. CASE Check(h)
  BY <1>4, RefuseShifts, ContinueShifts DEF Check
<1>5. CASE Look(h)
  BY <1>5, RefuseShifts, ContinueShifts DEF Look
<1>6. CASE Insert(h)
  BY <1>6, CommitShifts DEF Insert
<1>7. CASE Update(h)
  BY <1>7, RefuseShifts, CommitShifts DEF Update
<1>8. CASE Delete(h)
  BY <1>8, RefuseShifts, WriteShifts DEF Delete
<1>9. CASE FindKey(h)
  BY <1>9, RefuseShifts, ContinueShifts DEF FindKey
<1>10. CASE FindTemplate(h)
  <2>1. PICK i \in Ahead(h) :
          LET rows == found[h] \cup TemplatesFor(h, Channels(h)[i])
          IN  \/ Continue(h, pc[h], rows) \/ Continue(h, "recipients", rows)
              \/ Refuse(h, "missing")
    BY <1>10 DEF FindTemplate, Round
  <2> DEFINE rows == found[h] \cup TemplatesFor(h, Channels(h)[i])
  <2>2. Continue(h, pc[h], rows) \/ Continue(h, "recipients", rows) \/ Refuse(h, "missing")
    BY <2>1
  <2> HIDE DEF rows
  <2> QED  BY <1>1, <2>2, RefuseShifts, ContinueShifts
<1>11. CASE FindRecipients(h)
  BY <1>11, RefuseShifts, ContinueShifts DEF FindRecipients
<1>12. CASE FindAddresses(h)
  <2>1. PICK i \in Ahead(h) :
          LET rows == found[h] \cup AddressesOn(h, Channels(h)[i])
          IN  Continue(h, pc[h], rows) \/ Continue(h, "submit", rows)
    BY <1>12 DEF FindAddresses, Round
  <2> DEFINE rows == found[h] \cup AddressesOn(h, Channels(h)[i])
  <2>2. Continue(h, pc[h], rows) \/ Continue(h, "submit", rows)
    BY <2>1
  <2> HIDE DEF rows
  <2> QED  BY <1>1, <2>2, ContinueShifts
<1>13. CASE Submit(h)
  BY <1>13, RefuseShifts, WriteShifts DEF Submit
<1> QED  BY <1>1, <1>2, <1>3, <1>4, <1>5, <1>6, <1>7, <1>8, <1>9, <1>10, <1>11, <1>12, <1>13
         DEF Manage, Notify

\* Only one request moves, and the rows keep what they are.
LEMMA StepMoves ==
    ASSUME Inv, NEW h \in Requests, Manage(h) \/ Notify(h)
    PROVE  Inv' /\ OnlyMoves(h) /\ Succeeds(db', h) /\ Watch(db')
<1>1. Inv' /\ (UNCHANGED db \/ (OnlyMoves(h) /\ Isolated(h) /\ Succeeds(db', h)))
  BY StepKeepsAll
<1>2. OnlyMoves(h) /\ Watch(db')
  <2>1. Shape'
    BY <1>1 DEF Inv
  <2> QED  BY <2>1, StepShifts DEF OnlyMoves, Shifts
<1>3. UNCHANGED db => Succeeds(db', h)
  BY DEF Succeeds, Same
<1> QED  BY <1>1, <1>2, <1>3

-----------------------------------------------------------------------------
(* What the requests recall. *)

\* A longer history tells what a shorter one told.
LEMMA LongerRecall ==
    ASSUME NEW g \in Requests, Recalls(g), pc[g] \notin {"idle", "done"},
           pc'[g] = pc[g], call'[g] = call[g], tenant'[g] = tenant[g], found'[g] = found[g],
           progress'[g] = progress[g], db' \subseteq ever'[g],
           ever[g] \subseteq ever'[g], always'[g] \subseteq always[g]
    PROVE  Recalls(g)'
<1>1. /\ Keys(g)' = Keys(g) /\ RequestKeys(g)' = RequestKeys(g)
      /\ Channels(g)' = Channels(g) /\ Recipients(g)' = Recipients(g)
  BY DEF Keys, Scope, RequestKeys, Channels, Recipients
<1>2. FoundRecall(g) => FoundRecall(g)'
  BY <1>1 DEF FoundRecall
<1>3. \A keys : Unclaimed(g, keys) => Unclaimed(g, keys)'
  BY DEF Unclaimed
<1>4. WriteRecall(g) => WriteRecall(g)'
  <2>1. Unclaimed(g, Keys(g)) => Unclaimed(g, Keys(g))'
    BY <1>1 DEF Unclaimed
  <2>2. PlatformAdmins(always[g]) = {} => PlatformAdmins(always'[g]) = {}
    BY DEF PlatformAdmins
  <2> QED  BY <2>1, <2>2 DEF WriteRecall
<1>5. ASSUME NotifyRecall(g)
      PROVE  NotifyRecall(g)'
  <2>1. Unclaimed(g, RequestKeys(g)) => Unclaimed(g, RequestKeys(g))'
    BY <1>1 DEF Unclaimed
  <2>2. \A ch : TemplateMissed(g, ch) => TemplateMissed(g, ch)'
    BY DEF TemplateMissed
  <2>3. ASSUME NEW ch, AddressesSeen(g, ch)
        PROVE  AddressesSeen(g, ch)'
    <3>1. On(always'[g], "addresses", ch) \subseteq On(always[g], "addresses", ch)
      BY DEF On
    <3>2. On(found'[g], "addresses", ch) = On(found[g], "addresses", ch)
      OBVIOUS
    <3> QED  BY <1>1, <2>3, <3>1, <3>2 DEF AddressesSeen
  <2>4. \A r : ActiveTemplate(g, r) => ActiveTemplate(g, r)'
    BY <1>1 DEF ActiveTemplate
  <2> QED  BY <1>1, <1>5, <2>1, <2>2, <2>3, <2>4 DEF NotifyRecall
<1>6. (\E r \in ever[g] : r.id = call[g].id) => \E r \in ever'[g] : r.id = call'[g].id
  OBVIOUS
<1> QED  BY <1>2, <1>4, <1>5, <1>6 DEF Recalls

\* The outline of a row is the row but for its value.
LEMMA OutlineForm ==
    ASSUME NEW S, \A q \in S : DOMAIN q = Fields, NEW r \in Outline(S)
    PROVE  \E q \in S : /\ r.id = q.id /\ r.table = q.table /\ r.tenant = q.tenant
                        /\ r.owner = q.owner /\ r.keys = q.keys
                        /\ r.value = q.value \cap {"inactive"}
<1>1. PICK q \in S : r = [q EXCEPT !.value = @ \cap {"inactive"}]
  BY DEF Outline
<1>2. DOMAIN q = {"id", "table", "tenant", "owner", "keys", "value"}
  BY DEF Fields
<1> QED  BY <1>1, <1>2

\* So a row that was there all the time is there now, but for its value.
LEMMA AlwaysNow ==
    ASSUME Inv, Types, NEW h \in Requests, NEW r \in always[h]
    PROVE  \E q \in db : /\ r.id = q.id /\ r.table = q.table /\ r.tenant = q.tenant
                         /\ r.owner = q.owner /\ r.keys = q.keys
                         /\ r.value = q.value \cap {"inactive"}
<1>1. r \in Outline(db)
  BY DEF Types, TypeOK
<1>2. \A q \in db : DOMAIN q = Fields
  BY DEF Inv, DirectoryOK, RowsOK, Sound
<1> QED  BY <1>1, <1>2, OutlineForm

\* A SELECT does not change the history.
LEMMA ContinueHistory ==
    ASSUME Inv, Types, NEW h \in Requests, Recalls(h), pc[h] \in ManageSteps \cup NotifySteps,
           NEW step \in ManageSteps \cup NotifySteps, NEW rows, Continue(h, step, rows)
    PROVE  /\ pc'[h] = step /\ found'[h] = rows /\ call'[h] = call[h] /\ tenant'[h] = tenant[h]
           /\ ever'[h] = ever[h] /\ always'[h] = always[h] /\ db' = db /\ db \subseteq ever[h]
<1>1. pc[h] \notin {"idle", "done"} /\ step \notin {"idle", "done"}
  BY DEF ManageSteps, NotifySteps
<1>2. pc'[h] = step /\ found'[h] = rows /\ call' = call /\ tenant' = tenant /\ db' = db
  BY <1>1, ContinueMoves DEF Continue
<1>3. db \subseteq ever[h] /\ always[h] \subseteq Outline(db)
  BY <1>1 DEF Recalls, Types, TypeOK
<1>4. /\ ever'[h] = ever[h] \cup db
      /\ always'[h] = always[h] \cap Outline(db)
  BY <1>1, <1>2 DEF Continue, Watch
<1> QED  BY <1>1, <1>2, <1>3, <1>4

\* A request that is finished has nothing to recall.
LEMMA DoneRecalls ==
    ASSUME NEW h \in Requests, pc'[h] = "done", progress'[h] \in Nat
    PROVE  Recalls(h)'
BY DEF Recalls, NotifySteps

\* What is asked for are positions of the call, each with what it has there.
LEMMA PositionsForm ==
    ASSUME Inv, NEW h \in Requests, pc[h] \in NotifySteps
    PROVE  /\ call[h] \in Calls /\ call[h].op = "notify"
           /\ DOMAIN Channels(h) = First(call[h].channels)
           /\ DOMAIN Channels(h) \subseteq Nat \ {0}
           /\ \A i \in DOMAIN Channels(h) : Channels(h)[i] = call[h].channels[i]
           /\ DOMAIN Recipients(h) = First(call[h].recipients)
           /\ DOMAIN Recipients(h) \subseteq Nat \ {0}
           /\ \A i \in DOMAIN Recipients(h) : Recipients(h)[i] = call[h].recipients[i]
<1>1. call[h] \in Calls /\ call[h].op = "notify"
  BY DEF Inv, RequestsKnow, Knows, CallerKnown, NotifySteps
<1>2. \A s \in {call[h].channels, call[h].recipients} : DOMAIN s \subseteq Nat \ {0}
  BY <1>1, CallsAssumption
<1> QED  BY <1>1, <1>2 DEF Channels, Recipients, Distinct, Restrict, First

\* Where a row hangs.
LEMMA Hangs ==
    ASSUME Inv, NEW r \in db, NEW s \in db, r.owner = s.id
    PROVE  \/ s.table = "tenants" /\ r.table \notin {"tenants", "addresses"}
           \/ s.table = "recipients" /\ r.table = "addresses" /\ s.tenant = r.tenant
<1>1. WellOwned(r, db) /\ s.id # None /\ \A q \in db : q.id = s.id => q = s
  BY DEF Inv, DirectoryOK, RowsOK, Sound
<1> QED  BY <1>1 DEF WellOwned

\* A request that begins knows nothing.
LEMMA AdmitRecalls ==
    ASSUME Inv, Types, NEW h \in Requests, Recalls(h), pc[h] = "idle", UNCHANGED progress,
           NEW c \in Calls, NEW t, Admit(h, c, t)
    PROVE  Recalls(h)'
<1>1. pc'[h] = FirstStep(c) /\ call'[h] = c /\ tenant'[h] = t /\ found'[h] = {}
  BY DEF Inv, Shape, Admit
<1>2. /\ FirstStep(c) \in {"load", "check", "look", "key", "templates"}
      /\ FirstStep(c) = "load" => c.op \in DOMAIN Loads
      /\ FirstStep(c) = "look" => c.op # "upsertAddress"
      /\ FirstStep(c) \in {"key", "templates"} => c.op = "notify"
      /\ FirstStep(c) = "templates" => c.key \in {None, ""}
  BY CallsAssumption DEF FirstStep, Loads, TableOf, Creates
<1>3. db' \subseteq ever'[h]
  <2>1. ever'[h] = ever[h] \cup db /\ db' = db
    BY <1>1, <1>2 DEF Admit, Watch
  <2> QED  BY <2>1
<1>4. progress'[h] = 0
  BY DEF Recalls, Types, TypeOK
<1>5. FoundRecall(h)'
  BY <1>1, <1>2 DEF FoundRecall
<1>6. FirstStep(c) \in {"key", "templates"} => NotifyRecall(h)'
  <2>1. ASSUME c.op = "notify"
        PROVE  \A i \in DOMAIN Channels(h)' : ~(i <= 0)
    <3>1. DOMAIN c.channels = 1 .. Len(c.channels) /\ Len(c.channels) \in Nat
      BY <2>1, CallsAssumption
    <3>2. DOMAIN Channels(h)' \subseteq DOMAIN c.channels
      BY <1>1 DEF Channels, Distinct, Restrict, First
    <3> QED  BY <3>1, <3>2
  <2> QED  BY <1>1, <1>2, <1>4, <2>1 DEF NotifyRecall
<1> QED  BY <1>1, <1>2, <1>3, <1>4, <1>5, <1>6 DEF Recalls, NotifySteps

\* get_by_id: the row, and what hangs on it.
LEMMA LoadRecalls ==
    ASSUME Inv, Types, NEW h \in Requests, Recalls(h), Load(h), UNCHANGED progress
    PROVE  Recalls(h)'
<1> DEFINE c == call[h]
           rows == {r \in db : r.id = c.id /\ r.table = Loads[c.op] /\ OfCaller(h, r)}
           children == {r \in db : \E o \in rows : r.table = "addresses" /\ r.owner = o.id}
           renamed == c.op = "updateTemplate" /\ c.name # None
                      /\ \E r \in rows : Renamed(r, c.name) # r.keys
<1>1. /\ pc[h] = "load" /\ c.op \in DOMAIN Loads /\ c.op # "notify"
      /\ progress'[h] \in Nat
  BY DEF Load, Recalls, Loads
<1>2. IF rows = {} THEN Refuse(h, "missing")
      ELSE IF c.op \in Reads THEN Refuse(h, "ok")
      ELSE IF c.op = "createUser" \/ renamed THEN Continue(h, "check", rows)
      ELSE IF c.op \in Upserts \cup KeyedReads THEN Continue(h, "look", {})
      ELSE Continue(h, "write", rows \cup children)
  BY DEF Load
<1>3. \A r, s \in db : r.id = s.id => r = s
  BY DEF Inv, DirectoryOK, RowsOK
<1>4. ASSUME NEW f \in SUBSET db, f = rows \/ f = rows \cup children,
             c.op \notin Upserts \cup KeyedReads, found'[h] = f, call'[h] = c,
             pc'[h] = "check" => c.op \in {"createUser", "updateTemplate"} /\ f = rows
      PROVE  FoundRecall(h)'
  <2>1. \A r, s \in f : r.id = s.id => r = s
    BY <1>3
  <2>2. ASSUME NEW r \in f, NEW s \in f, r.owner = s.id
        PROVE  s.table = "recipients"
    <3>1. CASE s.table = "tenants" /\ r.table \notin {"tenants", "addresses"}
      <4>1. s \in rows /\ r \in rows
        BY <1>4, <3>1
      <4> QED  BY <1>3, <3>1, <4>1
    <3> QED  BY <2>2, <3>1, Hangs
  <2>3. c.op \in LoadedOps => \A r \in f : r.table = TableOf[c.op] => r.id = c.id
    BY <1>4 DEF LoadedOps, TableOf
  <2>4. c.op = "updateTemplate" => \A r \in rows : r.id = c.id /\ r.table = "templates"
    BY DEF Loads
  <2> HIDE DEF rows, children
  <2> QED  BY <1>4, <2>1, <2>2, <2>3, <2>4 DEF FoundRecall
<1>5. CASE Refuse(h, "missing") \/ Refuse(h, "ok")
  <2>1. pc'[h] = "done"
    BY <1>5 DEF Refuse, Answer, Inv, Shape
  <2> QED  BY <1>1, <2>1, DoneRecalls
<1>6. CASE Continue(h, "check", rows) /\ c.op \in {"createUser", "updateTemplate"}
  <2>1. /\ pc'[h] = "check" /\ found'[h] = rows /\ call'[h] = c /\ db' = db
        /\ ever'[h] = ever[h] /\ db \subseteq ever[h]
    <3> HIDE DEF rows
    <3> QED  BY <1>1, <1>6, ContinueHistory DEF ManageSteps
  <2>2. c.op \notin Upserts \cup KeyedReads /\ rows \in SUBSET db
    BY <1>6 DEF Upserts, KeyedReads
  <2>3. FoundRecall(h)'
    BY <1>4, <1>6, <2>1, <2>2
  <2> QED  BY <1>1, <2>1, <2>3 DEF Recalls, NotifySteps
<1>7. CASE rows # {} /\ Continue(h, "look", {})
  <2>1. /\ pc'[h] = "look" /\ call'[h] = c /\ db' = db
        /\ ever'[h] = ever[h] /\ db \subseteq ever[h]
    <3> DEFINE none == {}
    <3>1. Continue(h, "look", none)
      BY <1>7
    <3> HIDE DEF none
    <3> QED  BY <1>1, <3>1, ContinueHistory DEF ManageSteps
  <2>2. \E r \in db : r.id = c.id
    BY <1>7
  <2> QED  BY <1>1, <2>1, <2>2 DEF Recalls, NotifySteps
<1>8. CASE /\ Continue(h, "write", rows \cup children) /\ ~renamed
           /\ c.op # "createUser" /\ c.op \notin Upserts \cup KeyedReads
  <2> DEFINE f == rows \cup children
  <2>1. /\ pc'[h] = "write" /\ found'[h] = f /\ call'[h] = c /\ db' = db
        /\ ever'[h] = ever[h] /\ db \subseteq ever[h]
    <3>1. Continue(h, "write", f)
      BY <1>8
    <3> HIDE DEF f
    <3> QED  BY <1>1, <3>1, ContinueHistory DEF ManageSteps
  <2>2. FoundRecall(h)'
    BY <1>4, <1>8, <2>1
  <2>3. ASSUME c.op = "updateTemplate", c.name # None, NEW r \in f, r.table = "templates"
        PROVE  Renamed(r, c.name) = r.keys
    BY <1>8, <2>3
  <2>4. WriteRecall(h)'
    <3>1. c.op \notin Creates /\ c.op \notin Upserts /\ c.op # "bootstrap"
      BY <1>1, <1>8 DEF Creates, Loads
    <3> HIDE DEF f
    <3> QED  BY <2>1, <2>3, <3>1 DEF WriteRecall
  <2>5. c.op # "upsertAddress"
    BY <1>8 DEF Upserts
  <2> QED  BY <1>1, <2>1, <2>2, <2>4, <2>5 DEF Recalls, NotifySteps
<1>9. c.op \in {"createUser", "updateTemplate"} => c.op \notin Upserts \cup KeyedReads
  BY DEF Upserts, KeyedReads
<1> HIDE DEF rows, children
<1> QED  BY <1>2, <1>5, <1>6, <1>7, <1>8, <1>9

\* The keys that a create asks for: no row that is loaded before has one of them.
LEMMA UserKeys ==
    ASSUME Inv, NEW h \in Requests, pc[h] \in {"check", "write"}, call[h].op = "createUser",
           NEW r \in db, r.id = call[h].id
    PROVE  r.keys \cap Keys(h) = {}
<1>1. r.table = "tenants"
  <2>1. PICK t \in db : t.id = call[h].id /\ t.table = "tenants"
    BY DEF Inv, RequestsKnow, Knows, IsTenant
  <2> QED  BY <2>1 DEF Inv, DirectoryOK, RowsOK
<1>2. WellKeyed(r) /\ TableOf["createUser"] = "users"
  BY DEF Inv, DirectoryOK, RowsOK, Sound, TableOf
<1> QED  BY <1>1, <1>2, KeyForm DEF WellKeyed

\* The conflict check found nothing, so there was not always something.
LEMMA CheckRecalls ==
    ASSUME Inv, Types, NEW h \in Requests, Recalls(h), Check(h), UNCHANGED progress
    PROVE  Recalls(h)'
<1> DEFINE c == call[h]
           wanted == IF c.op = "updateTemplate" THEN UNION {Renamed(r, c.name) : r \in found[h]}
                     ELSE Keys(h)
           clash == IF c.op = "bootstrap" THEN PlatformAdmins(db)
                    ELSE {r \in db : r.id # c.id /\ r.keys \cap wanted # {}}
<1>1. /\ pc[h] = "check" /\ progress'[h] \in Nat /\ FoundRecall(h)
      /\ c \in Calls /\ c.op \in Creates \cup {"updateTemplate"}
  BY DEF Check, Recalls, Inv, RequestsKnow, Knows, CallerKnown, ManageSteps
<1>2. (clash = {} /\ Continue(h, "write", found[h])) \/ \E r : Refuse(h, r)
  BY DEF Check
<1>3. ASSUME NEW r, Refuse(h, r)
      PROVE  Recalls(h)'
  <2>1. pc'[h] = "done"
    BY <1>3 DEF Refuse, Answer, Inv, Shape
  <2> QED  BY <1>1, <2>1, DoneRecalls
<1>4. CASE clash = {} /\ Continue(h, "write", found[h])
  <2>1. /\ pc'[h] = "write" /\ found'[h] = found[h] /\ call'[h] = c /\ tenant'[h] = tenant[h]
        /\ db' = db /\ ever'[h] = ever[h] /\ always'[h] = always[h] /\ db \subseteq ever[h]
    BY <1>1, <1>4, ContinueHistory DEF ManageSteps
  <2>2. Keys(h)' = Keys(h)
    BY <2>1 DEF Keys, Scope
  <2>3. FoundRecall(h)'
    BY <1>1, <2>1, <2>2 DEF FoundRecall
  <2>4. c.op \notin Upserts \cup KeyedReads /\ c.op # "upsertAddress"
    BY <1>1 DEF Creates, Upserts, KeyedReads
  <2>5. ASSUME c.op \in Creates \ {"bootstrap"}
        PROVE  Unclaimed(h, Keys(h))
    <3>1. ASSUME NEW q \in db
          PROVE  q.keys \cap Keys(h) = {}
      <4>1. CASE q.id = c.id
        <5>1. q.id # None
          BY DEF Inv, DirectoryOK, RowsOK, Sound
        <5>2. c.op = "createUser"
          BY <1>1, <2>5, <4>1, <5>1, CallsAssumption
        <5> QED  BY <1>1, <4>1, <5>2, UserKeys
      <4>2. CASE q.id # c.id
        BY <1>4, <2>5, <4>2 DEF Creates
      <4> QED  BY <4>1, <4>2
    <3> QED  BY <3>1, AlwaysNow DEF Unclaimed
  <2>6. ASSUME c.op = "bootstrap"
        PROVE  PlatformAdmins(always[h]) = {}
    BY <1>4, <2>6, AlwaysNow DEF PlatformAdmins
  <2>7. ASSUME c.op = "updateTemplate", NEW row \in found[h], NEW r \in always[h], r.id # c.id
        PROVE  r.keys \cap Renamed(row, c.name) = {}
    <3>1. Renamed(row, c.name) \subseteq wanted
      BY <2>7
    <3>2. \A q \in db : q.id # c.id => q.keys \cap wanted = {}
      BY <1>4, <2>7
    <3> HIDE DEF wanted
    <3> QED  BY <2>7, <3>1, <3>2, AlwaysNow
  <2>8. WriteRecall(h)'
    <3>1. Unclaimed(h, Keys(h)) => Unclaimed(h, Keys(h))'
      BY <2>1, <2>2 DEF Unclaimed
    <3> QED  BY <2>1, <2>4, <2>5, <2>6, <2>7, <3>1 DEF WriteRecall
  <2> QED  BY <1>1, <2>1, <2>3, <2>4, <2>8 DEF Recalls, NotifySteps
<1> QED  BY <1>2, <1>3, <1>4

\* The SELECT by the natural key finds the row of the key, or there was not always one.
LEMMA LookRecalls ==
    ASSUME Inv, Types, NEW h \in Requests, Recalls(h), Look(h), UNCHANGED progress
    PROVE  Recalls(h)'
<1> DEFINE c == call[h]
           rows == {r \in db : r.keys \cap Keys(h) # {}}
<1>1. /\ pc[h] = "look" /\ progress'[h] \in Nat
      /\ c.op \in Upserts \cup KeyedReads
      /\ c.op = "upsertAddress" => \E r \in ever[h] : r.id = c.id
  BY DEF Look, Recalls, Inv, RequestsKnow, Knows
<1>2. Continue(h, "write", rows) \/ \E r : Refuse(h, r)
  BY DEF Look
<1>3. ASSUME NEW r, Refuse(h, r)
      PROVE  Recalls(h)'
  <2>1. pc'[h] = "done"
    BY <1>3 DEF Refuse, Answer, Inv, Shape
  <2> QED  BY <1>1, <2>1, DoneRecalls
<1>4. CASE Continue(h, "write", rows)
  <2>1. /\ pc'[h] = "write" /\ found'[h] = rows /\ call'[h] = c /\ tenant'[h] = tenant[h]
        /\ db' = db /\ ever'[h] = ever[h] /\ always'[h] = always[h] /\ db \subseteq ever[h]
    <3> HIDE DEF rows
    <3> QED  BY <1>1, <1>4, ContinueHistory DEF ManageSteps
  <2>2. Keys(h)' = Keys(h)
    BY <2>1 DEF Keys, Scope
  <2>3. c.op \notin LoadedOps /\ c.op # "updateTemplate" /\ c.op \notin Creates /\ c.op # "bootstrap"
    BY <1>1 DEF Upserts, KeyedReads, LoadedOps, Creates
  <2>4. \A r \in rows : r.table \in {"addresses", "configs"}
    <3>1. TableOf[c.op] \in {"addresses", "configs"}
      BY <1>1 DEF Upserts, KeyedReads, TableOf
    <3>2. \A r \in db : WellKeyed(r)
      BY DEF Inv, DirectoryOK, RowsOK, Sound
    <3> QED  BY <3>1, <3>2, KeyForm DEF WellKeyed
  <2>5. FoundRecall(h)'
    <3>1. \A r, s \in rows : r.id = s.id => r = s
      BY DEF Inv, DirectoryOK, RowsOK
    <3>2. \A r, s \in rows : r.owner # s.id
      BY <2>4, Hangs
    <3>3. \A r \in rows : r.keys \cap Keys(h) # {}
      OBVIOUS
    <3> HIDE DEF rows
    <3> QED  BY <2>1, <2>2, <2>3, <3>1, <3>2, <3>3 DEF FoundRecall
  <2>6. rows = {} => Unclaimed(h, Keys(h))
    BY AlwaysNow DEF Unclaimed
  <2>7. WriteRecall(h)'
    <3>1. Unclaimed(h, Keys(h)) => Unclaimed(h, Keys(h))'
      BY <2>1, <2>2 DEF Unclaimed
    <3> HIDE DEF rows
    <3> QED  BY <2>1, <2>3, <2>6, <3>1 DEF WriteRecall
  <2> QED  BY <1>1, <2>1, <2>5, <2>7 DEF Recalls, NotifySteps
<1> QED  BY <1>2, <1>3, <1>4

\* What a SELECT of POST /notifications leaves as it is.
LEMMA NotifyHistory ==
    ASSUME Inv, Types, NEW h \in Requests, Recalls(h), pc[h] \in NotifySteps,
           NEW step \in NotifySteps, NEW rows, Continue(h, step, rows)
    PROVE  /\ pc'[h] = step /\ found'[h] = rows /\ call'[h] = call[h] /\ tenant'[h] = tenant[h]
           /\ ever'[h] = ever[h] /\ always'[h] = always[h] /\ db' = db /\ db \subseteq ever[h]
           /\ RequestKeys(h)' = RequestKeys(h) /\ Channels(h)' = Channels(h)
           /\ Recipients(h)' = Recipients(h)
           /\ \A r : ActiveTemplate(h, r) => ActiveTemplate(h, r)'
           /\ \A ch : TemplateMissed(h, ch) => TemplateMissed(h, ch)'
           /\ \A keys : Unclaimed(h, keys) => Unclaimed(h, keys)'
           /\ NotifyRecall(h)' /\ progress'[h] \in Nat => Recalls(h)'
<1>1. /\ pc'[h] = step /\ found'[h] = rows /\ call'[h] = call[h] /\ tenant'[h] = tenant[h]
      /\ ever'[h] = ever[h] /\ always'[h] = always[h] /\ db' = db /\ db \subseteq ever[h]
  BY ContinueHistory
<1>2. /\ RequestKeys(h)' = RequestKeys(h) /\ Channels(h)' = Channels(h)
      /\ Recipients(h)' = Recipients(h)
  BY <1>1 DEF RequestKeys, Channels, Recipients
<1>3. /\ \A r : ActiveTemplate(h, r) => ActiveTemplate(h, r)'
      /\ \A ch : TemplateMissed(h, ch) => TemplateMissed(h, ch)'
      /\ \A keys : Unclaimed(h, keys) => Unclaimed(h, keys)'
  BY <1>1, <1>2 DEF ActiveTemplate, TemplateMissed, Unclaimed
<1>4. NotifyRecall(h)' /\ progress'[h] \in Nat => Recalls(h)'
  <2> HIDE DEF NotifyRecall
  <2> QED  BY <1>1 DEF Recalls, NotifySteps
<1> QED  BY <1>1, <1>2, <1>3, <1>4

\* The idempotency key was free.
LEMMA FindKeyRecalls ==
    ASSUME Inv, Types, NEW h \in Requests, Recalls(h), FindKey(h)
    PROVE  Recalls(h)'
<1> DEFINE none == {}
<1>1. /\ pc[h] = "key" /\ pc[h] \in NotifySteps /\ progress'[h] \in Nat /\ progress' = progress
      /\ progress[h] = 0
  BY DEF FindKey, Recalls, NotifySteps, Types, TypeOK
<1>2. CASE Refuse(h, "conflict")
  <2>1. pc'[h] = "done"
    BY <1>2 DEF Refuse, Answer, Inv, Shape
  <2> QED  BY <1>1, <2>1, DoneRecalls
<1>3. CASE (\A r \in db : r.keys \cap RequestKeys(h) = {}) /\ Continue(h, "templates", none)
  <2> HIDE DEF none
  <2>1. /\ pc'[h] = "templates" /\ found'[h] = none /\ call'[h] = call[h]
        /\ RequestKeys(h)' = RequestKeys(h) /\ Channels(h)' = Channels(h)
        /\ Unclaimed(h, RequestKeys(h)) => Unclaimed(h, RequestKeys(h))'
        /\ NotifyRecall(h)' /\ progress'[h] \in Nat => Recalls(h)'
    BY <1>1, <1>3, NotifyHistory DEF NotifySteps, Unclaimed
  <2>2. Unclaimed(h, RequestKeys(h))
    BY <1>3, AlwaysNow DEF Unclaimed
  <2>3. \A i \in DOMAIN Channels(h) : ~(i <= 0)
    BY <1>1, PositionsForm
  <2>4. none = {}
    BY DEF none
  <2>5. NotifyRecall(h)'
    BY <1>1, <2>1, <2>2, <2>3, <2>4 DEF NotifyRecall
  <2> QED  BY <1>1, <2>1, <2>5
<1> QED  BY <1>2, <1>3 DEF FindKey

\* The SELECT of a template finds one, or there was not always one.
LEMMA TemplateLooked ==
    ASSUME Inv, Types, NEW h \in Requests, NEW ch
    PROVE  /\ \A r \in TemplatesFor(h, ch) :
                /\ r.table = "templates" /\ "inactive" \notin r.value
                /\ \E k \in r.keys : k = <<"templates", tenant[h], call[h].name, k[4]>> /\ k[4] = ch
           /\ On(TemplatesFor(h, ch), "templates", ch) # {} \/ TemplateMissed(h, ch)
<1>1. ASSUME NEW r \in TemplatesFor(h, ch)
      PROVE  /\ r.table = "templates" /\ "inactive" \notin r.value
             /\ \E k \in r.keys : k = <<"templates", tenant[h], call[h].name, k[4]>> /\ k[4] = ch
  <2>1. <<"templates", tenant[h], call[h].name, ch>>[4] = ch
    OBVIOUS
  <2> QED  BY <2>1, TemplatesForCaller DEF TemplatesFor
<1>2. CASE TemplatesFor(h, ch) # {}
  <2>1. PICK r \in TemplatesFor(h, ch) : TRUE
    BY <1>2
  <2> QED  BY <1>1, <2>1 DEF On
<1>3. CASE TemplatesFor(h, ch) = {}
  BY <1>3, AlwaysNow DEF TemplatesFor, TemplateMissed
<1> QED  BY <1>1, <1>2, <1>3

\* Each round of the loop over the channels finds a template, or there was not always one.
LEMMA FindTemplateRecalls ==
    ASSUME Inv, Types, NEW h \in Requests, Recalls(h), FindTemplate(h)
    PROVE  Recalls(h)'
<1>1. PICK i \in Ahead(h) :
        /\ \A j \in Ahead(h) : i <= j
        /\ LET rows == found[h] \cup TemplatesFor(h, Channels(h)[i])
           IN  \/ Continue(h, "templates", rows) /\ progress' = [progress EXCEPT ![h] = i]
               \/ /\ Refuse(h, "missing") \/ Continue(h, "recipients", rows)
                  /\ \A ch \in ToSet(Channels(h)) :
                       On(rows, "templates", ch) # {} \/ Refuse(h, "missing")
                  /\ progress' = [progress EXCEPT ![h] = 0]
  BY DEF FindTemplate, Round
<1> DEFINE rows == found[h] \cup TemplatesFor(h, Channels(h)[i])
           ch == Channels(h)[i]
<1>2. /\ pc[h] = "templates" /\ pc[h] \in NotifySteps /\ NotifyRecall(h) /\ progress[h] \in Nat
      /\ i \in DOMAIN Channels(h) /\ i \in Nat /\ ch \in ToSet(Channels(h))
      /\ \A n : progress' = [progress EXCEPT ![h] = n] => progress'[h] = n
  BY PositionsForm DEF FindTemplate, Recalls, NotifySteps, Ahead, Types, ToSet
<1>3. ASSUME NEW r \in TemplatesFor(h, ch)
      PROVE  /\ r.table = "templates" /\ "inactive" \notin r.value
             /\ \E k \in r.keys : k = <<"templates", tenant[h], call[h].name, k[4]>> /\ k[4] = ch
  BY TemplateLooked
<1>4. On(rows, "templates", ch) # {} \/ TemplateMissed(h, ch)
  BY TemplateLooked DEF On
<1>5. \A x : On(found[h], "templates", x) \subseteq On(rows, "templates", x)
  BY DEF On
<1>6. \A r \in rows : ActiveTemplate(h, r) /\ r.table = "templates"
  BY <1>2, <1>3 DEF NotifyRecall, ActiveTemplate
<1>7. /\ i \in Ahead(h) /\ \A j \in Ahead(h) : i <= j
      /\ \/ Continue(h, "templates", rows) /\ progress' = [progress EXCEPT ![h] = i]
         \/ /\ Refuse(h, "missing") \/ Continue(h, "recipients", rows)
            /\ \A x \in ToSet(Channels(h)) :
                 On(rows, "templates", x) # {} \/ Refuse(h, "missing")
            /\ progress' = [progress EXCEPT ![h] = 0]
  BY <1>1
<1> HIDE DEF rows, ch
<1>8. CASE Refuse(h, "missing") /\ progress'[h] = 0
  <2>1. pc'[h] = "done"
    BY <1>8 DEF Refuse, Answer, Inv, Shape
  <2> QED  BY <1>8, <2>1, DoneRecalls
<1>9. CASE Continue(h, "templates", rows) /\ progress'[h] = i
  <2>1. /\ pc'[h] = "templates" /\ found'[h] = rows /\ call'[h] = call[h] /\ tenant'[h] = tenant[h]
        /\ RequestKeys(h)' = RequestKeys(h) /\ Channels(h)' = Channels(h)
        /\ \A r : ActiveTemplate(h, r) => ActiveTemplate(h, r)'
        /\ \A x : TemplateMissed(h, x) => TemplateMissed(h, x)'
        /\ Unclaimed(h, RequestKeys(h)) => Unclaimed(h, RequestKeys(h))'
        /\ NotifyRecall(h)' /\ progress'[h] \in Nat => Recalls(h)'
    BY <1>2, <1>9, NotifyHistory DEF Unclaimed
  <2>2. ASSUME NEW j \in DOMAIN Channels(h), j <= i
        PROVE  On(rows, "templates", Channels(h)[j]) # {} \/ TemplateMissed(h, Channels(h)[j])
    <3>1. CASE j <= progress[h]
      <4>1. On(found[h], "templates", Channels(h)[j]) # {} \/ TemplateMissed(h, Channels(h)[j])
        BY <1>2, <3>1 DEF NotifyRecall
      <4> QED  BY <1>5, <4>1
    <3>2. CASE ~(j <= progress[h])
      <4>1. j \in Nat
        BY <1>2, PositionsForm
      <4>2. j \in Ahead(h)
        BY <1>2, <3>2, <4>1 DEF Ahead
      <4>3. j = i
        BY <1>2, <1>7, <2>2, <4>1, <4>2
      <4> QED  BY <1>4, <4>3 DEF ch
    <3> QED  BY <3>1, <3>2
  <2>3. NotifyRecall(h)'
    BY <1>2, <1>6, <1>9, <2>1, <2>2 DEF NotifyRecall
  <2> QED  BY <1>2, <1>9, <2>1, <2>3
<1>10. CASE /\ Continue(h, "recipients", rows) /\ progress'[h] = 0
            /\ \A x \in ToSet(Channels(h)) : On(rows, "templates", x) # {}
  <2>1. /\ pc'[h] = "recipients" /\ found'[h] = rows /\ call'[h] = call[h] /\ tenant'[h] = tenant[h]
        /\ RequestKeys(h)' = RequestKeys(h) /\ Channels(h)' = Channels(h)
        /\ \A r : ActiveTemplate(h, r) => ActiveTemplate(h, r)'
        /\ Unclaimed(h, RequestKeys(h)) => Unclaimed(h, RequestKeys(h))'
        /\ NotifyRecall(h)' /\ progress'[h] \in Nat => Recalls(h)'
    BY <1>2, <1>10, NotifyHistory DEF NotifySteps, Unclaimed
  <2>2. \A j \in DOMAIN Channels(h) : On(rows, "templates", Channels(h)[j]) # {}
    BY <1>10 DEF ToSet
  <2>3. NotifyRecall(h)'
    BY <1>2, <1>6, <2>1, <2>2 DEF NotifyRecall
  <2> QED  BY <1>10, <2>1, <2>3
<1> QED  BY <1>2, <1>7, <1>8, <1>9, <1>10

\* The recipients are there, and the variables are given.
LEMMA FindRecipientsRecalls ==
    ASSUME Inv, Types, NEW h \in Requests, Recalls(h), FindRecipients(h)
    PROVE  Recalls(h)'
<1> DEFINE known == {r.id : r \in {x \in db : x.table = "recipients" /\ x.tenant = tenant[h]}}
<1>1. /\ pc[h] = "recipients" /\ pc[h] \in NotifySteps /\ NotifyRecall(h)
      /\ progress'[h] \in Nat /\ progress' = progress /\ progress[h] = 0
  BY DEF FindRecipients, Recalls, NotifySteps, Types, TypeOK
<1>2. \/ \E r : Refuse(h, r)
      \/ /\ ToSet(Recipients(h)) \subseteq known
         /\ \A t \in found[h] : t.value \subseteq call[h].given
         /\ Continue(h, "addresses", found[h])
  BY DEF FindRecipients
<1>3. ASSUME NEW r, Refuse(h, r)
      PROVE  Recalls(h)'
  <2>1. pc'[h] = "done"
    BY <1>3 DEF Refuse, Answer, Inv, Shape
  <2> QED  BY <1>1, <2>1, DoneRecalls
<1>4. CASE /\ ToSet(Recipients(h)) \subseteq known
           /\ \A t \in found[h] : t.value \subseteq call[h].given
           /\ Continue(h, "addresses", found[h])
  <2>1. /\ pc'[h] = "addresses" /\ found'[h] = found[h] /\ call'[h] = call[h]
        /\ tenant'[h] = tenant[h] /\ ever'[h] = ever[h] /\ db \subseteq ever[h]
        /\ RequestKeys(h)' = RequestKeys(h) /\ Channels(h)' = Channels(h)
        /\ Recipients(h)' = Recipients(h)
        /\ \A r : ActiveTemplate(h, r) => ActiveTemplate(h, r)'
        /\ Unclaimed(h, RequestKeys(h)) => Unclaimed(h, RequestKeys(h))'
        /\ NotifyRecall(h)' /\ progress'[h] \in Nat => Recalls(h)'
    BY <1>1, <1>4, NotifyHistory DEF NotifySteps, Unclaimed
  <2>2. \A id \in ToSet(Recipients(h)) : \E r \in ever[h] : r.id = id
    <3>1. \A id \in known : \E r \in db : r.id = id
      OBVIOUS
    <3> HIDE DEF known
    <3> QED  BY <1>4, <2>1, <3>1
  <2>3. \A i \in DOMAIN Channels(h) : ~(i <= 0)
    BY <1>1, PositionsForm
  <2>4. NotifyRecall(h)'
    BY <1>1, <1>4, <2>1, <2>2, <2>3 DEF NotifyRecall
  <2> QED  BY <1>1, <2>1, <2>4
<1> QED  BY <1>2, <1>3, <1>4

\* Each round of the loop finds the addresses there are on a channel.
LEMMA FindAddressesRecalls ==
    ASSUME Inv, Types, NEW h \in Requests, Recalls(h), FindAddresses(h)
    PROVE  Recalls(h)'
<1>1. PICK i \in Ahead(h) :
        /\ \A j \in Ahead(h) : i <= j
        /\ LET rows == found[h] \cup AddressesOn(h, Channels(h)[i])
           IN  \/ Continue(h, "addresses", rows) /\ progress' = [progress EXCEPT ![h] = i]
               \/ /\ Ahead(h) = {i} /\ Continue(h, "submit", rows)
                  /\ progress' = [progress EXCEPT ![h] = 0]
  BY DEF FindAddresses, Round
<1> DEFINE rows == found[h] \cup AddressesOn(h, Channels(h)[i])
           ch == Channels(h)[i]
<1>2. /\ pc[h] = "addresses" /\ pc[h] \in NotifySteps /\ NotifyRecall(h) /\ progress[h] \in Nat
      /\ i \in DOMAIN Channels(h) /\ i \in Nat
      /\ \A n : progress' = [progress EXCEPT ![h] = n] => progress'[h] = n
  BY PositionsForm DEF FindAddresses, Recalls, NotifySteps, Ahead, Types
<1>3. RecipientsKnown(h)
  BY <1>2 DEF Inv, RequestsKnow, Knows
<1>4. ASSUME NEW id \in ToSet(Recipients(h))
      PROVE  \/ \E r \in On(rows, "addresses", ch) : r.owner = id
             \/ \A r \in On(always[h], "addresses", ch) : r.owner # id
  <2> SUFFICES ASSUME NEW r \in On(always[h], "addresses", ch), r.owner = id
               PROVE  \E q \in On(rows, "addresses", ch) : q.owner = id
    OBVIOUS
  <2>1. PICK q \in db : q.table = r.table /\ q.owner = r.owner /\ q.keys = r.keys
    BY AlwaysNow DEF On
  <2>2. q.table = "addresses" /\ q.owner = id /\ q \in On(db, "addresses", ch)
    BY <2>1 DEF On
  <2>3. q.tenant = tenant[h]
    <3>1. PICK o \in db : o.id = q.owner /\ o.tenant = q.tenant
      <4>1. WellOwned(q, db)
        BY DEF Inv, DirectoryOK, RowsOK
      <4> QED  BY <2>2, <4>1 DEF WellOwned
    <3> QED  BY <1>3, <2>2, <3>1 DEF RecipientsKnown
  <2>4. q \in AddressesOn(h, ch)
    BY <2>2, <2>3 DEF AddressesOn
  <2> QED  BY <2>2, <2>4 DEF On
<1>5. \A x : On(found[h], "addresses", x) \subseteq On(rows, "addresses", x)
  BY DEF On
<1>6. \A r \in rows : r \in found[h] \/ r.table = "addresses"
  BY DEF AddressesOn, On
<1>7. ASSUME NEW x
      PROVE  On(rows, "templates", x) = On(found[h], "templates", x)
  <2>1. found[h] \subseteq rows
    OBVIOUS
  <2> HIDE DEF rows
  <2> QED  BY <1>6, <2>1 DEF On
<1>8. /\ i \in Ahead(h) /\ \A j \in Ahead(h) : i <= j
      /\ \/ Continue(h, "addresses", rows) /\ progress' = [progress EXCEPT ![h] = i]
         \/ /\ Ahead(h) = {i} /\ Continue(h, "submit", rows)
            /\ progress' = [progress EXCEPT ![h] = 0]
  BY <1>1
<1> DEFINE seen(j) == \A id \in ToSet(Recipients(h)) :
                        \/ \E r \in On(rows, "addresses", Channels(h)[j]) : r.owner = id
                        \/ \A r \in On(always[h], "addresses", Channels(h)[j]) : r.owner # id
<1>9. ASSUME NEW j \in DOMAIN Channels(h), j <= i \/ Ahead(h) = {i}
      PROVE  seen(j)
  <2>1. CASE j <= progress[h]
    <3>1. AddressesSeen(h, Channels(h)[j])
      BY <1>2, <2>1 DEF NotifyRecall
    <3> HIDE DEF rows
    <3> QED  BY <1>5, <3>1 DEF AddressesSeen
  <2>2. CASE ~(j <= progress[h])
    <3>1. j \in Nat
      BY <1>2, PositionsForm
    <3>2. j \in Ahead(h)
      BY <1>2, <2>2, <3>1 DEF Ahead
    <3>3. j = i
      BY <1>2, <1>8, <1>9, <3>1, <3>2
    <3> HIDE DEF rows
    <3> QED  BY <1>4, <3>3 DEF ch
  <2> QED  BY <2>1, <2>2
<1> HIDE DEF rows, ch
<1>10. ASSUME NEW step \in {"addresses", "submit"}, Continue(h, step, rows), progress'[h] \in Nat,
              step = "addresses" => progress'[h] = i, step = "submit" => Ahead(h) = {i}
       PROVE  Recalls(h)'
  <2>1. /\ pc'[h] = step /\ found'[h] = rows /\ call'[h] = call[h] /\ tenant'[h] = tenant[h]
        /\ RequestKeys(h)' = RequestKeys(h) /\ Channels(h)' = Channels(h)
        /\ Recipients(h)' = Recipients(h) /\ ever'[h] = ever[h] /\ always'[h] = always[h]
        /\ \A r : ActiveTemplate(h, r) => ActiveTemplate(h, r)'
        /\ Unclaimed(h, RequestKeys(h)) => Unclaimed(h, RequestKeys(h))'
        /\ NotifyRecall(h)' /\ progress'[h] \in Nat => Recalls(h)'
    <3>1. step \in NotifySteps
      BY DEF NotifySteps
    <3> QED  BY <1>2, <1>10, <3>1, NotifyHistory DEF Unclaimed
  <2>2. \A j \in DOMAIN Channels(h) : seen(j) => AddressesSeen(h, Channels(h)[j])'
    BY <2>1 DEF AddressesSeen
  <2> HIDE DEF seen
  <2>3. /\ step = "addresses" => \A j \in DOMAIN Channels(h) : j <= progress'[h] =>
             AddressesSeen(h, Channels(h)[j])'
        /\ step = "submit" => \A j \in DOMAIN Channels(h) : AddressesSeen(h, Channels(h)[j])'
    BY <1>9, <1>10, <2>2
  <2>4. /\ \A r \in rows : r.table = "templates" =>
             ActiveTemplate(h, r) /\ r.value \subseteq call[h].given
        /\ call[h].key \notin {None, ""} => Unclaimed(h, RequestKeys(h))
        /\ \A j \in DOMAIN Channels(h) : On(rows, "templates", Channels(h)[j]) # {}
        /\ \A id \in ToSet(Recipients(h)) : \E r \in ever[h] : r.id = id
    BY <1>2, <1>6, <1>7 DEF NotifyRecall
  <2>5. NotifyRecall(h)'
    BY <2>1, <2>3, <2>4 DEF NotifyRecall
  <2> QED  BY <1>10, <2>1, <2>5
<1> QED  BY <1>2, <1>8, <1>10

\* A write ends its request.
LEMMA WritesEnd ==
    ASSUME Inv, NEW h \in Requests, Insert(h) \/ Update(h) \/ Delete(h) \/ Submit(h)
    PROVE  pc'[h] = "done"
<1>1. pc' = [pc EXCEPT ![h] = "done"]
  BY DEF Insert, Update, Delete, Submit, Commit, Refuse, Answer
<1> QED  BY <1>1 DEF Inv, Shape

\* What a request recalls stays true while another one takes a step.
LEMMA OthersRecall ==
    ASSUME Inv, Types, NEW h \in Requests, (Manage(h) /\ UNCHANGED progress) \/ Notify(h),
           NEW g \in Requests \ {h}, Recalls(g)
    PROVE  Recalls(g)'
<1>1. /\ pc'[g] = pc[g] /\ call'[g] = call[g] /\ tenant'[g] = tenant[g] /\ found'[g] = found[g]
      /\ Watch(db')
  BY StepMoves DEF OnlyMoves
<1>2. progress'[g] = progress[g]
  BY DEF Notify, FindKey, FindTemplate, FindRecipients, FindAddresses, Submit, Round, Types
<1>3. CASE pc[g] \in {"idle", "done"}
  BY <1>1, <1>2, <1>3 DEF Recalls, NotifySteps
<1>4. CASE pc[g] \notin {"idle", "done"}
  <2>1. ever[g] \subseteq ever'[g] /\ db' \subseteq ever'[g] /\ always'[g] \subseteq always[g]
    BY <1>1, <1>4 DEF Watch
  <2> QED  BY <1>1, <1>2, <1>4, <2>1, LongerRecall
<1> QED  BY <1>3, <1>4

\* Every step leaves every request with what it recalls.
LEMMA StepRecalls ==
    ASSUME Inv, Types, RequestsRecall,
           NEW h \in Requests, (Manage(h) /\ UNCHANGED progress) \/ Notify(h)
    PROVE  RequestsRecall'
<1>1. Recalls(h)
  BY DEF RequestsRecall
<1>2. ASSUME Begin(h), UNCHANGED progress
      PROVE  Recalls(h)'
  <2>1. pc[h] = "idle" /\ progress'[h] \in Nat
    BY <1>1, <1>2 DEF Begin, Recalls
  <2>2. (\E r : Refuse(h, r)) \/ \E c \in Calls : \E t : Admit(h, c, t)
    BY <1>2 DEF Begin
  <2>3. ASSUME NEW r, Refuse(h, r)
        PROVE  Recalls(h)'
    <3>1. pc'[h] = "done"
      BY <2>3 DEF Refuse, Answer, Inv, Shape
    <3> QED  BY <2>1, <3>1, DoneRecalls
  <2> QED  BY <1>1, <1>2, <2>1, <2>2, <2>3, AdmitRecalls
<1>3. ASSUME Insert(h) \/ Update(h) \/ Delete(h) \/ Submit(h), UNCHANGED progress
      PROVE  Recalls(h)'
  BY <1>1, <1>3, WritesEnd, DoneRecalls DEF Recalls
<1>4. Recalls(h)'
  <2>1. CASE Manage(h) /\ UNCHANGED progress
    BY <1>1, <1>2, <1>3, <2>1, LoadRecalls, CheckRecalls, LookRecalls DEF Manage
  <2>2. CASE Notify(h)
    <3>1. Submit(h) => UNCHANGED progress
      BY DEF Submit
    <3> QED  BY <1>1, <1>3, <2>2, <3>1, FindKeyRecalls, FindTemplateRecalls,
                FindRecipientsRecalls, FindAddressesRecalls DEF Notify
  <2> QED  BY <2>1, <2>2
<1>5. \A g \in Requests \ {h} : Recalls(g)'
  BY OthersRecall DEF RequestsRecall
<1> QED  BY <1>4, <1>5 DEF RequestsRecall

\* What the theorems below rest on.
History == Inv /\ Types /\ RequestsRecall

\* However the requests interleave, each of them recalls what its SELECTs told it.
THEOREM HistoryInductive == Spec => []History
<1>1. InitAll => History
  <2> SUFFICES ASSUME InitAll
               PROVE  History
    OBVIOUS
  <2>1. Types
    BY NoneAssumption DEF InitAll, Init, Types, TypeOK
  <2>2. RequestsRecall
    BY DEF InitAll, Init, RequestsRecall, Recalls, NotifySteps
  <2> QED  BY <2>1, <2>2, InitInv DEF History
<1>2. ASSUME History, [Next]_allVars
      PROVE  History'
  <2>1. ASSUME NEW h \in Requests, (Manage(h) /\ UNCHANGED progress) \/ Notify(h)
        PROVE  History'
    BY <1>2, <2>1, StepMoves, ManageTypes, NotifyTypes, StepRecalls DEF History
  <2>2. CASE UNCHANGED allVars
    <3>1. Inv' /\ Types'
      BY <1>2, <2>2, StutterKeeps DEF History, allVars, vars, Types, TypeOK, Outline
    <3>2. ASSUME NEW g \in Requests
          PROVE  Recalls(g)'
      <4>1. Recalls(g)
        BY <1>2 DEF History, RequestsRecall
      <4>2. /\ pc' = pc /\ call' = call /\ tenant' = tenant /\ found' = found /\ db' = db
            /\ progress' = progress /\ ever' = ever /\ always' = always
        BY <2>2 DEF allVars, vars
      <4>3. CASE pc[g] \in {"idle", "done"}
        BY <4>1, <4>2, <4>3 DEF Recalls, NotifySteps
      <4>4. CASE pc[g] \notin {"idle", "done"}
        <5>1. db' \subseteq ever'[g]
          BY <4>1, <4>2, <4>4 DEF Recalls
        <5> QED  BY <4>1, <4>2, <4>4, <5>1, LongerRecall
      <4> QED  BY <4>3, <4>4
    <3> QED  BY <3>1, <3>2 DEF History, RequestsRecall
  <2> QED  BY <1>2, <2>1, <2>2 DEF Next
<1> QED  BY <1>1, <1>2, PTL DEF Spec

-----------------------------------------------------------------------------
(* What the committed requests fan out to. *)

ChannelFields == {"channel", "template", "body", "status", "skipped", "attempts"}

\* The positions of the recipients that have an address on the channel.
Reached(h, ch) ==
    {i \in DOMAIN Recipients(h) :
        \E r \in On(found[h], "addresses", ch) : r.owner = Recipients(h)[i]}

\* Channel n has the template that was found for it, and an attempt for every recipient that
\* an address was found for.
FansTo(h, ch, n) ==
    /\ DOMAIN n = ChannelFields /\ n.channel = ch
    /\ \E t \in On(found[h], "templates", ch) : n.template = t.id /\ n.body = t.value
    /\ n.status = IF Reached(h, ch) = {} THEN "failed" ELSE Status(h)
    /\ n.skipped = {Recipients(h)[i] : i \in DOMAIN Recipients(h) \ Reached(h, ch)}
    /\ DOMAIN n.attempts = Reached(h, ch)
    /\ \A i \in Reached(h, ch) :
         /\ n.attempts[i].recipient = Recipients(h)[i]
         /\ \E r \in On(found[h], "addresses", ch) :
              r.owner = Recipients(h)[i] /\ n.attempts[i].address = r.value

\* What Submit makes of a channel, field by field.
LEMMA ChannelForm ==
    ASSUME NEW h, NEW ch, On(found[h], "templates", ch) # {}
    PROVE  FansTo(h, ch, Channel(h, ch))
<1> DEFINE template == CHOOSE r \in On(found[h], "templates", ch) : TRUE
           addresses(id) == {r \in On(found[h], "addresses", ch) : r.owner = id}
           reachable == {i \in DOMAIN Recipients(h) : addresses(Recipients(h)[i]) # {}}
           chosen(i) == CHOOSE r \in addresses(Recipients(h)[i]) : TRUE
           attempts == [i \in reachable |->
                          [recipient |-> Recipients(h)[i], address |-> chosen(i).value]]
<1>1. Channel(h, ch) =
        [channel |-> ch, template |-> template.id, body |-> template.value,
         status |-> IF reachable = {} THEN "failed" ELSE Status(h),
         skipped |-> {Recipients(h)[i] : i \in DOMAIN Recipients(h) \ reachable},
         attempts |-> attempts]
  BY DEF Channel
<1>2. template \in On(found[h], "templates", ch)
  OBVIOUS
<1>3. reachable = Reached(h, ch)
  BY DEF Reached
<1>4. \A i \in reachable : chosen(i) \in On(found[h], "addresses", ch) /\ chosen(i).owner = Recipients(h)[i]
  OBVIOUS
<1> HIDE DEF template, reachable, chosen
<1>5. /\ DOMAIN attempts = reachable
      /\ \A i \in reachable : attempts[i].recipient = Recipients(h)[i] /\ attempts[i].address = chosen(i).value
  OBVIOUS
<1> HIDE DEF attempts
<1> QED  BY <1>1, <1>2, <1>3, <1>4, <1>5 DEF ChannelFields, FansTo

\* A row under a taken id was there before.
LEMMA TakenRow ==
    ASSUME NEW h \in Requests, OnlyMoves(h), Succeeds(db', h), NEW id, Taken(id),
           NEW s \in db', s.id = id
    PROVE  \E r \in db : r.id = id /\ s.tenant = r.tenant
<1>1. ~From(s.id, h)
  BY DEF Taken, OnlyMoves
<1> QED  BY <1>1 DEF Succeeds, Same

\* Steps of the others do no harm to a fan-out.
LEMMA FanoutStays ==
    ASSUME NEW h \in Requests, OnlyMoves(h), Succeeds(db', h), NEW f, FanoutOK(f)
    PROVE  FanoutOK(f)'
<1>1. Taken(f.id) /\ Taken(f.id)'
  BY TakenStays DEF FanoutOK
<1>2. ASSUME NEW i \in DOMAIN f.channels, NEW x \in Mentions(f.channels[i])
      PROVE  Taken(x)' /\ \A q, r \in db' : q.id = f.id /\ r.id = x => r.tenant = q.tenant
  <2>1. Taken(x) /\ \A q, r \in db : q.id = f.id /\ r.id = x => r.tenant = q.tenant
    BY <1>2 DEF FanoutOK
  <2>2. Taken(x)'
    BY <2>1, TakenStays
  <2>3. ASSUME NEW q \in db', NEW r \in db', q.id = f.id, r.id = x
        PROVE  r.tenant = q.tenant
    <3>1. PICK p \in db : p.id = f.id /\ q.tenant = p.tenant
      BY <1>1, <2>3, TakenRow
    <3>2. PICK s \in db : s.id = x /\ r.tenant = s.tenant
      BY <2>1, <2>3, TakenRow
    <3> QED  BY <2>1, <3>1, <3>2
  <2> QED  BY <2>2, <2>3
<1> QED  BY <1>1, <1>2 DEF FanoutOK

\* What ON DELETE leaves of a channel.
LEMMA WithoutForm ==
    ASSUME NEW n, DOMAIN n = ChannelFields, NEW id
    PROVE  LET w == Without(n, id)
           IN  /\ DOMAIN w = ChannelFields /\ Mentions(w) \subseteq Mentions(n) \cup {None}
<1> DEFINE left == {i \in DOMAIN n.attempts : n.attempts[i].recipient # id}
           m == [n EXCEPT !.template = IF n.template = id THEN None ELSE n.template]
           w == [m EXCEPT !.attempts = Restrict(m.attempts, {i \in DOMAIN m.attempts : m.attempts[i].recipient # id})]
<1>1. Without(n, id) = w
  BY DEF Without
<1>2. DOMAIN n = {"channel", "template", "body", "status", "skipped", "attempts"}
  BY DEF ChannelFields
<1>3. /\ DOMAIN m = DOMAIN n /\ m.attempts = n.attempts
      /\ m.template \in {n.template, None}
  BY <1>2
<1> HIDE DEF m
<1>4. /\ DOMAIN w = ChannelFields /\ w.template = m.template /\ w.attempts = Restrict(n.attempts, left)
  BY <1>2, <1>3 DEF ChannelFields
<1> HIDE DEF w
<1>5. ToSet(w.attempts) \subseteq ToSet(n.attempts)
  BY <1>4 DEF ToSet, Restrict
<1> QED  BY <1>1, <1>3, <1>4, <1>5 DEF Mentions

\* Deleting a row takes mentions away.
LEMMA BereftOK ==
    ASSUME Inv, NEW f, FanoutOK(f), NEW id
    PROVE  FanoutOK(Bereft(f, id))
<1> DEFINE b == Bereft(f, id)
           channels == [i \in DOMAIN f.channels |-> Without(f.channels[i], id)]
<1>1. DOMAIN b = {"id", "channels"} /\ b.id = f.id /\ b.channels = channels
  <2>1. DOMAIN f = {"id", "channels"} /\ b = [f EXCEPT !.channels = channels]
    BY DEF FanoutOK, Bereft
  <2> HIDE DEF b, channels
  <2> QED  BY <2>1
<1>2. ASSUME NEW i \in DOMAIN f.channels
      PROVE  /\ DOMAIN channels[i] = ChannelFields
             /\ Mentions(channels[i]) \subseteq Mentions(f.channels[i]) \cup {None}
  BY WithoutForm DEF FanoutOK, ChannelFields
<1>3. Taken(None) /\ \A r \in db : r.id # None
  BY SeedAssumption DEF Taken, Inv, DirectoryOK, RowsOK, Sound
<1>4. DOMAIN channels = DOMAIN f.channels
  OBVIOUS
<1> HIDE DEF b, channels
<1> QED  BY <1>1, <1>2, <1>3, <1>4 DEF b, FanoutOK, ChannelFields

\* What a request found is of its caller's tenant, and so is what it mentions.
LEMMA SubmitMentions ==
    ASSUME History, NEW h \in Requests, pc[h] = "submit",
           NEW j \in DOMAIN Channels(h), NEW x \in Mentions(Channel(h, Channels(h)[j]))
    PROVE  Taken(x) /\ \A s \in db : s.id = x => s.tenant = tenant[h]
<1> DEFINE ch == Channels(h)[j]
           n == Channel(h, ch)
<1>1. /\ FoundKnown(h) /\ RecipientsKnown(h) /\ tenant[h] # None
      /\ On(found[h], "templates", ch) # {}
  <2>1. NotifyRecall(h)
    BY DEF History, RequestsRecall, Recalls, NotifySteps
  <2> QED  BY <2>1 DEF History, Inv, RequestsKnow, Knows, NotifyRecall, NotifySteps, CallerKnown,
                       PlatformOps
<1>2. /\ \E t \in On(found[h], "templates", ch) : n.template = t.id
      /\ \A i \in DOMAIN n.attempts : i \in DOMAIN Recipients(h)
                                      /\ n.attempts[i].recipient = Recipients(h)[i]
  <2>1. Reached(h, ch) \subseteq DOMAIN Recipients(h)
    BY DEF Reached
  <2> HIDE DEF ch
  <2>2. FansTo(h, ch, n)
    BY <1>1, ChannelForm
  <2> HIDE DEF n
  <2> QED  BY <2>1, <2>2 DEF FansTo
<1> HIDE DEF n
<1>3. CASE x = n.template
  BY <1>1, <1>2, <1>3 DEF FoundKnown, On, Same
<1>4. CASE x \in {a.recipient : a \in ToSet(n.attempts)}
  <2>1. x \in ToSet(Recipients(h))
    BY <1>2, <1>4 DEF ToSet
  <2> QED  BY <1>1, <2>1 DEF RecipientsKnown
<1> QED  BY <1>3, <1>4 DEF Mentions, n

\* The fan-out of a new request.
LEMMA SubmitFanout ==
    ASSUME History, NEW h \in Requests, Submit(h), FanoutsOK
    PROVE  FanoutsOK'
<1> DEFINE channels == [i \in DOMAIN Channels(h) |-> Channel(h, Channels(h)[i])]
           new == Row(<<h>>, "requests", tenant[h], tenant[h], RequestKeys(h),
                      {IF Failed(channels) THEN "failed" ELSE Status(h)})
           f == [id |-> <<h>>, channels |-> channels]
<1>1. /\ pc[h] = "submit"
      /\ \/ fanout' = fanout
         \/ fanout' = fanout \cup {f} /\ db' = db \cup {new}
  BY DEF Submit, Refuse
<1>2. OnlyMoves(h) /\ Succeeds(db', h) /\ pc'[h] = "done"
  BY StepMoves, WritesEnd DEF Notify, History
<1>3. new.id = <<h>> /\ new.tenant = tenant[h]
  BY DEF Row
<1>4. ASSUME db' = db \cup {new}, NEW g, g = f
      PROVE  FanoutOK(g)'
  <2>1. From(<<h>>, h)
    BY DEF From
  <2>2. Taken(<<h>>)'
    BY <1>2, <2>1, FromDistinct DEF Taken
  <2>3. ASSUME NEW x, Taken(x)
        PROVE  x # <<h>>
    BY <1>1, <2>1, <2>3 DEF Taken
  <2>4. \A q \in db : q.id # <<h>>
    BY <2>3 DEF History, Inv, DirectoryOK
  <2>5. g.id = <<h>> /\ g.channels = channels /\ DOMAIN g = {"id", "channels"}
    BY <1>4
  <2>6. ASSUME NEW j \in DOMAIN channels
        PROVE  /\ DOMAIN channels[j] = ChannelFields
               /\ \A x \in Mentions(channels[j]) :
                    /\ Taken(x)' /\ \A q, r \in db' : q.id = <<h>> /\ r.id = x => r.tenant = q.tenant
    <3>1. j \in DOMAIN Channels(h) /\ channels[j] = Channel(h, Channels(h)[j])
      OBVIOUS
    <3>2. On(found[h], "templates", Channels(h)[j]) # {}
      BY <1>1, <3>1 DEF History, RequestsRecall, Recalls, NotifySteps, NotifyRecall
    <3>3. DOMAIN channels[j] = ChannelFields
      BY <3>1, <3>2, ChannelForm DEF FansTo
    <3> HIDE DEF channels
    <3>4. \A x \in Mentions(channels[j]) : Taken(x) /\ \A s \in db : s.id = x => s.tenant = tenant[h]
      BY <1>1, <3>1, SubmitMentions
    <3> HIDE DEF new
    <3>5. ASSUME NEW x \in Mentions(channels[j]), NEW q \in db', NEW r \in db', q.id = <<h>>, r.id = x
          PROVE  r.tenant = q.tenant
      BY <1>3, <1>4, <2>3, <2>4, <3>4, <3>5
    <3>6. \A x \in Mentions(channels[j]) : Taken(x)'
      BY <1>2, <3>4, TakenStays
    <3> QED  BY <3>3, <3>5, <3>6
  <2> HIDE DEF f, channels
  <2> QED  BY <2>2, <2>5, <2>6 DEF FanoutOK, ChannelFields
<1> HIDE DEF f, new
<1>5. \A g \in fanout : FanoutOK(g)'
  BY <1>2, FanoutStays DEF FanoutsOK
<1> QED  BY <1>1, <1>4, <1>5 DEF FanoutsOK

\* Every step keeps the committed fan-outs as they should be.
LEMMA StepFanout ==
    ASSUME History, FanoutsOK, NEW h \in Requests, Manage(h) \/ Notify(h)
    PROVE  FanoutsOK'
<1>1. OnlyMoves(h) /\ Succeeds(db', h)
  BY StepMoves DEF History
<1>2. CASE fanout' = fanout
  BY <1>1, <1>2, FanoutStays DEF FanoutsOK
<1>3. CASE \E id : fanout' = {Bereft(f, id) : f \in fanout}
  <2>1. PICK id : fanout' = {Bereft(f, id) : f \in fanout}
    BY <1>3
  <2>2. ASSUME NEW f \in fanout
        PROVE  FanoutOK(Bereft(f, id))'
    <3> DEFINE b == Bereft(f, id)
    <3>1. FanoutOK(b)
      BY BereftOK DEF FanoutsOK, History
    <3> HIDE DEF b
    <3> QED  BY <1>1, <3>1, FanoutStays DEF b
  <2> QED  BY <2>1, <2>2 DEF FanoutsOK
<1>4. CASE Submit(h)
  BY <1>4, SubmitFanout
<1>5. CASE Delete(h)
  <2>1. fanout' = fanout \/ \E id : fanout' = {Bereft(f, id) : f \in fanout}
    BY <1>5 DEF Delete, Refuse
  <2> QED  BY <1>2, <1>3, <2>1
<1>6. CASE FindTemplate(h) \/ FindAddresses(h)
  <2>1. fanout' = fanout
    BY <1>6 DEF FindTemplate, FindAddresses, Round, Continue, Refuse
  <2> QED  BY <1>2, <2>1
<1>7. CASE Begin(h) \/ Load(h) \/ Check(h) \/ Look(h)
  <2>1. fanout' = fanout
    BY <1>7 DEF Begin, Load, Check, Look, Admit, Continue, Refuse
  <2> QED  BY <1>2, <2>1
<1>8. CASE Insert(h) \/ Update(h) \/ FindKey(h) \/ FindRecipients(h)
  <2>1. fanout' = fanout
    BY <1>8 DEF Insert, Update, FindKey, FindRecipients, Commit, Continue, Refuse
  <2> QED  BY <1>2, <2>1
<1> QED  BY <1>4, <1>5, <1>6, <1>7, <1>8 DEF Manage, Notify

\* What is committed mentions rows of its own tenant, which may be gone.
THEOREM FanoutsInductive == Spec => []FanoutsOK
<1>1. InitAll => FanoutsOK
  BY DEF InitAll, Init, FanoutsOK
<1>2. ASSUME History, FanoutsOK, [Next]_allVars
      PROVE  FanoutsOK'
  <2>1. CASE UNCHANGED allVars
    BY <1>2, <2>1 DEF allVars, vars, FanoutsOK, FanoutOK, Taken
  <2> QED  BY <1>2, <2>1, StepFanout DEF Next
<1> QED  BY <1>1, <1>2, HistoryInductive, PTL DEF Spec

\* A request fans out to templates and recipients of its own tenant, whatever is renamed,
\* deleted or created around it.
THEOREM FanoutSameTenantAlways == Spec => []FanoutSameTenant
<1>1. ASSUME FanoutsOK
      PROVE  FanoutSameTenant
  BY <1>1 DEF FanoutsOK, FanoutOK, Mentions, FanoutSameTenant
<1> QED  BY <1>1, FanoutsInductive, PTL
=============================================================================
