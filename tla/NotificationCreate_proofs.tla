--------------------- MODULE NotificationCreate_proofs ---------------------
(***************************************************************************)
(* TypeOK, TenantIsolation and SameTenant for any requests, calls and      *)
(* first rows.                                                             *)
(*                                                                         *)
(* A handler writes with what it read some steps before, while others      *)
(* commit.  What it may rely on is that a row never changes its table, its *)
(* tenant, its owner or more of its keys than the name, that tenants are   *)
(* never deleted, and that the id of a row that is gone is not given to a  *)
(* new one.  RequestsKnow says what a request knows from its SELECTs in    *)
(* these terms, DirectoryOK what the rows are like at every moment.        *)
(***************************************************************************)
EXTENDS NotificationCreate, TLAPS

\* A row as far as it never changes.
Same(r, s) ==
    /\ r.id = s.id /\ r.table = s.table /\ r.tenant = s.tenant /\ r.owner = s.owner
    /\ r.table \in {"addresses", "configs"} => r.keys = s.keys
    /\ Renamed(r, None) = Renamed(s, None)

Sound(r) == DOMAIN r = Fields /\ WellKeyed(r) /\ HasName(r) /\ r.id # None

\* Keys that row r may have.
KeyedAs(keys, r) ==
    /\ \A k \in keys :
         /\ DOMAIN k = {1, 2, 3, 4} /\ k[1] = r.table
         /\ r.table = "addresses" => k[2] = r.owner
         /\ r.table \in {"templates", "recipients", "configs", "requests"} => k[2] = r.tenant
         /\ \A l \in keys : k[4] = l[4] \/ r.table # "tenants" => k = l
    /\ r.table # "requests" => \E k \in keys : k[4] # "slug"

\* No request will give this id to a row.
Taken(id) == \A h \in Requests : pc[h] # "done" => ~From(id, h)

IsTenant(t, rows) == \E r \in rows : r.id = t /\ r.table = "tenants" /\ r.tenant = t

\* The rows themselves.
RowsOK(rows) ==
    /\ \A r \in rows : Sound(r) /\ WellOwned(r, rows)
    /\ \A r, s \in rows : r = s \/ (r.id # s.id /\ r.keys \cap s.keys = {})

\* Whoever created the first user.
UsersOK(rows) == (\E u \in rows : u.table = "users") => PlatformAdmins(rows) # {}

DirectoryOK == RowsOK(db) /\ UsersOK(db) /\ \A r \in db : Taken(r.id)

\* The caller of a request.
CallerKnown(h) ==
    /\ call[h] \in Calls
    /\ tenant[h] = None <=> call[h].op \in PlatformOps \cup {"bootstrap"}
    /\ tenant[h] # None => IsTenant(tenant[h], db)
    /\ call[h].op \in PlatformOps => PlatformAdmins(db) # {}

\* The rows a request found.
FoundKnown(h) ==
    \A r \in found[h] :
        /\ Sound(r) /\ Taken(r.id)
        /\ tenant[h] # None => r.tenant = tenant[h]
        /\ \A s \in db : s.id = r.id => Same(s, r)

\* The recipient whose address a request is about.
ParentKnown(h) ==
    /\ call[h].id # None /\ Taken(call[h].id)
    /\ \A s \in db : s.id = call[h].id => s.table = "recipients" /\ s.tenant = tenant[h]

\* The recipients of a request, once they are known to be there.
RecipientsKnown(h) ==
    \A id \in ToSet(Recipients(h)) : Taken(id) /\ \A s \in db : s.id = id => s.tenant = tenant[h]

NotifySteps == {"key", "templates", "recipients", "addresses", "submit"}
ManageSteps == {"load", "check", "look", "write"}

Knows(h) ==
    /\ pc[h] \in ManageSteps \cup NotifySteps => CallerKnown(h)
    /\ pc[h] \in NotifySteps => call[h].op = "notify"
    /\ pc[h] = "check" => call[h].op \in Creates \cup {"updateTemplate"}
    /\ pc[h] = "look" => call[h].op \in Upserts \cup KeyedReads
    /\ pc[h] \in {"check", "write"} \cup NotifySteps => FoundKnown(h)
    /\ pc[h] \in {"addresses", "submit"} => RecipientsKnown(h)
    /\ pc[h] \in {"look", "write"} /\ call[h].op \in {"upsertAddress", "deleteAddress"}
           => ParentKnown(h)
    /\ pc[h] \in {"check", "write"} /\ call[h].op = "createUser" => IsTenant(call[h].id, db)

RequestsKnow == \A h \in Requests : Knows(h)

Shape ==
    /\ pc \in [Requests -> {"idle", "done"} \cup ManageSteps \cup NotifySteps]
    /\ call = [h \in Requests |-> call[h]]
    /\ tenant = [h \in Requests |-> tenant[h]]
    /\ found = [h \in Requests |-> found[h]]
    /\ \A h \in Requests : pc[h] = "idle" => found[h] = {}

\* Only request h takes a step.
OnlyMoves(h) ==
    /\ pc[h] # "done" /\ Shape'
    /\ \A g \in Requests \ {h} :
         pc'[g] = pc[g] /\ call'[g] = call[g] /\ tenant'[g] = tenant[g] /\ found'[g] = found[g]

\* The given rows are the present ones, changed in what may change, and new ones of h;
\* no tenant and no user is gone.
Succeeds(rows, h) ==
    /\ \A s \in rows : (\E r \in db : Same(s, r)) \/ From(s.id, h)
    /\ \A r \in db : r.table \in {"tenants", "users"} => \E s \in rows : Same(s, r)

Inv == Shape /\ DirectoryOK /\ RequestsKnow

-----------------------------------------------------------------------------
(* Ids. *)

\* Two requests never give out the same id.
LEMMA FromDistinct ==
    ASSUME NEW g, NEW h, NEW x, g # h, From(x, g)
    PROVE  ~From(x, h)
<1>1. <<g>> # <<h>>
  OBVIOUS
<1>2. \A i : <<g>> # <<h, i>> /\ <<h>> # <<g, i>>
  OBVIOUS
<1>3. \A i, j : <<g, i>> # <<h, j>>
  OBVIOUS
<1> QED  BY <1>1, <1>2, <1>3 DEF From

-----------------------------------------------------------------------------
(* Frames. *)

\* An id that is taken stays so.
LEMMA TakenStays ==
    ASSUME NEW h \in Requests, OnlyMoves(h), NEW id, Taken(id)
    PROVE  Taken(id)'
<1> SUFFICES ASSUME NEW g \in Requests, pc'[g] # "done"
             PROVE  ~From(id, g)
  BY DEF Taken
<1>1. pc[g] # "done"
  BY DEF OnlyMoves
<1> QED  BY <1>1 DEF Taken

\* A platform admin stays.
LEMMA AdminsStay ==
    ASSUME NEW h, NEW rows, Succeeds(rows, h), PlatformAdmins(db) # {}
    PROVE  PlatformAdmins(rows) # {}
<1>1. PICK u \in db : u.table = "users" /\ u.tenant = None
  BY DEF PlatformAdmins
<1>2. PICK s \in rows : Same(s, u)
  BY <1>1 DEF Succeeds
<1> QED  BY <1>1, <1>2 DEF Same, PlatformAdmins

\* So does it that the first user was one, if the new users have one or are one.
LEMMA UsersStay ==
    ASSUME Inv, NEW h, NEW rows, Succeeds(rows, h),
           \A s \in rows : s.table = "users" /\ From(s.id, h) =>
               s.tenant = None \/ PlatformAdmins(db) # {}
    PROVE  UsersOK(rows)
<1> SUFFICES ASSUME NEW u \in rows, u.table = "users"
             PROVE  PlatformAdmins(rows) # {}
  BY DEF UsersOK
<1>1. CASE From(u.id, h)
  BY <1>1, AdminsStay DEF PlatformAdmins
<1>2. CASE \E r \in db : Same(u, r)
  <2>1. PlatformAdmins(db) # {}
    BY <1>2 DEF Inv, DirectoryOK, UsersOK, Same
  <2> QED  BY <2>1, AdminsStay
<1> QED  BY <1>1, <1>2 DEF Succeeds

\* What a request knows stays true while another one takes a step.
LEMMA OthersKnow ==
    ASSUME Inv, NEW h \in Requests, OnlyMoves(h), Succeeds(db', h),
           NEW g \in Requests \ {h}
    PROVE  Knows(g)'
<1>1. Knows(g) /\ pc'[g] = pc[g] /\ call'[g] = call[g] /\ tenant'[g] = tenant[g]
      /\ found'[g] = found[g]
  BY DEF Inv, RequestsKnow, OnlyMoves
<1>2. ASSUME NEW t, IsTenant(t, db)
      PROVE  IsTenant(t, db')
  <2>1. PICK r \in db : r.id = t /\ r.table = "tenants" /\ r.tenant = t
    BY <1>2 DEF IsTenant
  <2>2. PICK s \in db' : Same(s, r)
    BY <2>1 DEF Succeeds
  <2> QED  BY <2>1, <2>2 DEF Same, IsTenant
<1>3. ASSUME NEW id, Taken(id), NEW s \in db', s.id = id
      PROVE  \E r \in db : Same(s, r)
  <2>1. ~From(s.id, h)
    BY <1>3 DEF Taken, OnlyMoves
  <2> QED  BY <2>1 DEF Succeeds
<1>4. CallerKnown(g) => CallerKnown(g)'
  BY <1>1, <1>2, AdminsStay DEF CallerKnown
<1>5. ASSUME FoundKnown(g)
      PROVE  FoundKnown(g)'
  <2> SUFFICES ASSUME NEW r \in found[g]
               PROVE  /\ Sound(r) /\ Taken(r.id)'
                      /\ tenant[g] # None => r.tenant = tenant[g]
                      /\ \A s \in db' : s.id = r.id => Same(s, r)
    BY <1>1 DEF FoundKnown
  <2>1. /\ Sound(r) /\ Taken(r.id)
        /\ tenant[g] # None => r.tenant = tenant[g]
        /\ \A s \in db : s.id = r.id => Same(s, r)
    BY <1>5 DEF FoundKnown
  <2>2. ASSUME NEW s \in db', s.id = r.id
        PROVE  Same(s, r)
    <3>1. PICK q \in db : Same(s, q)
      BY <1>3, <2>1, <2>2
    <3>2. Same(q, r)
      BY <2>1, <2>2, <3>1 DEF Same
    <3> QED  BY <3>1, <3>2 DEF Same
  <2> QED  BY <2>1, <2>2, TakenStays
<1>6. ASSUME ParentKnown(g)
      PROVE  ParentKnown(g)'
  <2>1. /\ call[g].id # None /\ Taken(call[g].id)
        /\ \A s \in db : s.id = call[g].id => s.table = "recipients" /\ s.tenant = tenant[g]
    BY <1>6 DEF ParentKnown
  <2>2. ASSUME NEW s \in db', s.id = call[g].id
        PROVE  s.table = "recipients" /\ s.tenant = tenant[g]
    <3>1. PICK q \in db : Same(s, q)
      BY <1>3, <2>1, <2>2
    <3> QED  BY <2>1, <2>2, <3>1 DEF Same
  <2>3. Taken(call[g].id)'
    <3>1. Taken(call[g].id)
      BY <2>1
    <3>2. ASSUME NEW f \in Requests, pc'[f] # "done"
          PROVE  ~From(call[g].id, f)
      BY <3>1, <3>2 DEF OnlyMoves, Taken
    <3> QED  BY <1>1, <3>2 DEF Taken
  <2> QED  BY <1>1, <2>1, <2>2, <2>3 DEF ParentKnown
<1>7. pc[g] \in {"check", "write"} /\ call[g].op = "createUser" => IsTenant(call[g].id, db')
  BY <1>1, <1>2 DEF Knows
<1>9. ASSUME RecipientsKnown(g)
      PROVE  RecipientsKnown(g)'
  <2> SUFFICES ASSUME NEW id \in ToSet(Recipients(g))
               PROVE  Taken(id)' /\ \A s \in db' : s.id = id => s.tenant = tenant[g]
    BY <1>1 DEF RecipientsKnown, Recipients
  <2>1. Taken(id) /\ \A s \in db : s.id = id => s.tenant = tenant[g]
    BY <1>9 DEF RecipientsKnown
  <2>2. ASSUME NEW s \in db', s.id = id
        PROVE  s.tenant = tenant[g]
    <3>1. PICK q \in db : Same(s, q)
      BY <1>3, <2>1, <2>2
    <3> QED  BY <2>1, <2>2, <3>1 DEF Same
  <2> QED  BY <2>1, <2>2, TakenStays
<1> HIDE DEF CallerKnown, FoundKnown, ParentKnown, RecipientsKnown
<1>8. IsTenant(call[g].id, db') => IsTenant(call[g].id, db)'
  BY <1>1 DEF IsTenant
<1> QED  BY <1>1, <1>4, <1>5, <1>6, <1>7, <1>8, <1>9 DEF Knows, IsTenant

\* A step without a commit needs a look at its own request only.
LEMMA StepKeeps ==
    ASSUME Inv, NEW h \in Requests, OnlyMoves(h), UNCHANGED db, Knows(h)'
    PROVE  Inv'
<1>1. Succeeds(db', h)
  BY DEF Succeeds, Same
<1>2. RequestsKnow'
  BY <1>1, OthersKnow DEF RequestsKnow
<1>3. DirectoryOK'
  <2>1. RowsOK(db') /\ UsersOK(db')
    BY DEF Inv, DirectoryOK
  <2>2. \A r \in db : Taken(r.id)
    BY DEF Inv, DirectoryOK
  <2>3. \A r \in db' : Taken(r.id)'
    BY <2>2, TakenStays
  <2> QED  BY <2>1, <2>3 DEF DirectoryOK
<1> QED  BY <1>2, <1>3 DEF Inv, OnlyMoves

\* A commit ends its request, so the ids it gave out are taken from then on.
LEMMA CommitKeeps ==
    ASSUME Inv, NEW h \in Requests, OnlyMoves(h), pc'[h] = "done",
           Succeeds(db', h), RowsOK(db'), UsersOK(db')
    PROVE  Inv'
<1>1. Knows(h)'
  BY DEF Knows, NotifySteps, ManageSteps
<1>2. RequestsKnow'
  BY <1>1, OthersKnow DEF RequestsKnow
<1>3. ASSUME NEW s \in db'
      PROVE  Taken(s.id)'
  <2>1. CASE \E r \in db : Same(s, r)
    BY <2>1, TakenStays DEF Inv, DirectoryOK, Same
  <2>2. CASE From(s.id, h)
    BY <2>2, FromDistinct DEF Taken
  <2> QED  BY <2>1, <2>2 DEF Succeeds
<1> QED  BY <1>2, <1>3 DEF Inv, OnlyMoves, DirectoryOK

\* A request that is answered without a commit.
LEMMA RefuseKeeps ==
    ASSUME Inv, NEW h \in Requests, pc[h] # "done", NEW r, Refuse(h, r)
    PROVE  Inv'
<1>1. OnlyMoves(h) /\ pc'[h] = "done" /\ UNCHANGED db
  BY DEF Inv, Shape, OnlyMoves, Refuse, Answer
<1>2. Knows(h)'
  BY <1>1 DEF Knows, NotifySteps, ManageSteps
<1> QED  BY <1>1, <1>2, StepKeeps

\* A request that goes on after a SELECT.
LEMMA ContinueMoves ==
    ASSUME Inv, NEW h \in Requests, pc[h] # "done",
           NEW step \in ManageSteps \cup NotifySteps, NEW rows, Continue(h, step, rows)
    PROVE  /\ OnlyMoves(h) /\ UNCHANGED db
           /\ pc'[h] = step /\ found'[h] = rows /\ call' = call /\ tenant' = tenant
BY DEF Inv, Shape, OnlyMoves, Continue, ManageSteps, NotifySteps

-----------------------------------------------------------------------------
(* The steps that only read. *)

\* A user's tenant is there, and is his role.
LEMMA BeginKeeps ==
    ASSUME Inv, NEW h \in Requests, Begin(h)
    PROVE  Inv'
<1>1. pc[h] = "idle"
  BY DEF Begin
<1>2. ASSUME NEW c \in Calls, NEW t, Admit(h, c, t),
             t = None <=> c.op \in PlatformOps \cup {"bootstrap"},
             t # None => IsTenant(t, db), c.op \in PlatformOps => PlatformAdmins(db) # {}
      PROVE  Inv'
  <2>1. FirstStep(c) \in ManageSteps \cup NotifySteps
    BY DEF FirstStep, ManageSteps, NotifySteps
  <2>2. OnlyMoves(h) /\ UNCHANGED db
    BY <1>1, <1>2, <2>1 DEF Inv, Shape, OnlyMoves, Admit, ManageSteps, NotifySteps
  <2>3. pc'[h] = FirstStep(c) /\ call'[h] = c /\ tenant'[h] = t /\ found'[h] = {}
    BY <1>1, <1>2 DEF Inv, Shape, Admit
  <2>4. CallerKnown(h)'
    BY <1>2, <2>2, <2>3 DEF CallerKnown, IsTenant, PlatformAdmins
  <2>5. FoundKnown(h)'
    BY <2>3 DEF FoundKnown
  <2>6. /\ FirstStep(c) \in NotifySteps => c.op = "notify"
        /\ FirstStep(c) = "check" => c.op \in Creates
        /\ FirstStep(c) = "look" => c.op \in Upserts \cup KeyedReads
        /\ FirstStep(c) \in {"look", "write"} => c.op \notin {"upsertAddress", "deleteAddress"}
        /\ FirstStep(c) \in {"check", "write"} => c.op # "createUser"
        /\ FirstStep(c) \notin {"addresses", "submit"}
    BY CallsAssumption DEF FirstStep, NotifySteps, Loads, Creates, TableOf, Upserts, KeyedReads
  <2>7. Knows(h)'
    BY <2>3, <2>4, <2>5, <2>6 DEF Knows
  <2> QED  BY <2>2, <2>7, StepKeeps
<1>3. ASSUME NEW c \in Calls, c.op = "bootstrap", Admit(h, c, None)
      PROVE  Inv'
  BY <1>2, <1>3 DEF PlatformOps
<1>4. ASSUME NEW c \in Calls, c.op # "bootstrap", NEW u \in db, u.table = "users",
             MayCall(u, c), Admit(h, c, u.tenant)
      PROVE  Inv'
  <2>4. c.op \in PlatformOps => PlatformAdmins(db) # {}
    BY <1>4 DEF MayCall, PlatformAdmins
  <2>1. WellOwned(u, db)
    BY DEF Inv, DirectoryOK, RowsOK
  <2>2. u.tenant # None => IsTenant(u.tenant, db)
    BY <1>4, <2>1 DEF WellOwned, IsTenant
  <2>3. u.tenant = None <=> c.op \in PlatformOps \cup {"bootstrap"}
    BY <1>4 DEF MayCall
  <2> QED  BY <1>2, <1>4, <2>2, <2>3, <2>4
<1> QED  BY <1>1, <1>3, <1>4, RefuseKeeps DEF Begin

\* Rows of the caller that were found just now are known.
LEMMA ContinueFinds ==
    ASSUME Inv, NEW h \in Requests, pc[h] # "done",
           NEW step \in ManageSteps \cup NotifySteps, NEW rows, Continue(h, step, rows),
           rows \subseteq db, tenant[h] # None => \A r \in rows : r.tenant = tenant[h]
    PROVE  FoundKnown(h)'
<1>1. /\ OnlyMoves(h) /\ UNCHANGED db
      /\ found'[h] = rows /\ tenant' = tenant
  BY ContinueMoves
<1>2. ASSUME NEW r \in rows
      PROVE  Sound(r) /\ Taken(r.id)' /\ \A s \in db : s.id = r.id => Same(s, r)
  BY <1>1, TakenStays DEF Inv, DirectoryOK, RowsOK, Same
<1>3. /\ \A r \in rows : Sound(r) /\ Taken(r.id)' /\ \A s \in db' : s.id = r.id => Same(s, r)
      /\ tenant'[h] # None => \A r \in rows : r.tenant = tenant'[h]
  BY <1>1, <1>2
<1> QED  BY <1>1, <1>3 DEF FoundKnown

\* A SELECT does not change who the caller is.
LEMMA CallerStays ==
    ASSUME Inv, NEW h \in Requests, pc[h] \in ManageSteps \cup NotifySteps,
           NEW step \in ManageSteps \cup NotifySteps, NEW rows, Continue(h, step, rows)
    PROVE  CallerKnown(h)'
BY ContinueMoves DEF Inv, RequestsKnow, Knows, CallerKnown, IsTenant, PlatformAdmins,
                     ManageSteps, NotifySteps, Continue

\* get_by_id finds rows of the caller's tenant, with their addresses.
LEMMA LoadKeeps ==
    ASSUME Inv, NEW h \in Requests, Load(h)
    PROVE  Inv'
<1> DEFINE c == call[h]
           rows == {r \in db : r.id = c.id /\ r.table = Loads[c.op] /\ OfCaller(h, r)}
           children == {r \in db : \E o \in rows : r.table = "addresses" /\ r.owner = o.id}
<1>1. pc[h] = "load" /\ pc[h] # "done" /\ pc[h] \in ManageSteps
  BY DEF Load, ManageSteps
<1>2. CallerKnown(h)
  BY <1>1 DEF Inv, RequestsKnow, Knows
<1>3. tenant[h] # None => \A r \in rows \cup children : r.tenant = tenant[h]
  <2> SUFFICES ASSUME tenant[h] # None, NEW r \in rows \cup children
               PROVE  r.tenant = tenant[h]
    OBVIOUS
  <2>1. CASE r \in rows
    BY <2>1 DEF OfCaller
  <2>2. CASE r \in children
    <3>1. PICK o \in rows : r.table = "addresses" /\ r.owner = o.id
      BY <2>2
    <3>2. WellOwned(r, db) /\ r \in db /\ o \in db
      BY <2>2 DEF Inv, DirectoryOK, RowsOK
    <3>3. PICK q \in db : q.id = r.owner /\ q.tenant = r.tenant
      BY <3>1, <3>2 DEF WellOwned
    <3>4. q = o
      BY <3>1, <3>2, <3>3 DEF Inv, DirectoryOK, RowsOK
    <3> QED  BY <3>1, <3>3, <3>4 DEF OfCaller
  <2> QED  BY <2>1, <2>2
<1>4. ASSUME rows # {}, c.op = "createUser"
      PROVE  IsTenant(c.id, db)
  <2>1. PICK r \in rows : TRUE
    BY <1>4
  <2>2. r \in db /\ r.id = c.id /\ r.table = "tenants"
    BY <1>4, <2>1 DEF Loads
  <2>3. WellOwned(r, db)
    BY <2>2 DEF Inv, DirectoryOK, RowsOK
  <2> QED  BY <2>2, <2>3 DEF WellOwned, IsTenant
<1>5. ASSUME rows # {}, c.op \in {"upsertAddress", "deleteAddress"}
      PROVE  ParentKnown(h)
  <2>1. PICK r \in rows : TRUE
    BY <1>5
  <2>2. r \in db /\ r.id = c.id /\ r.table = "recipients" /\ OfCaller(h, r)
    BY <1>5, <2>1 DEF Loads
  <2>3. tenant[h] # None
    BY <1>2, <1>5 DEF CallerKnown, PlatformOps
  <2>4. r.id # None /\ Taken(r.id) /\ \A s \in db : s.id = r.id => s = r
    BY <2>2 DEF Inv, DirectoryOK, RowsOK, Sound
  <2> QED  BY <2>2, <2>3, <2>4 DEF ParentKnown, OfCaller
<1>6. ASSUME Continue(h, "check", rows), rows # {}, c.op \in {"createUser", "updateTemplate"}
      PROVE  Inv'
  <2>1. /\ OnlyMoves(h) /\ UNCHANGED db
        /\ pc'[h] = "check" /\ call' = call
    BY <1>1, <1>6, ContinueMoves DEF ManageSteps
  <2>2. FoundKnown(h)'
    BY <1>1, <1>3, <1>6, ContinueFinds DEF ManageSteps
  <2>3. CallerKnown(h)'
    BY <1>1, <1>6, CallerStays DEF ManageSteps
  <2>4. call'[h].op = "createUser" => IsTenant(call[h].id, db)'
    BY <1>4, <1>6, <2>1 DEF IsTenant
  <2>5. Knows(h)'
    BY <1>6, <2>1, <2>2, <2>3, <2>4 DEF Knows, NotifySteps, Creates
  <2> QED  BY <2>1, <2>5, StepKeeps
<1>7. ASSUME Continue(h, "look", {}), rows # {}, c.op \in Upserts \cup KeyedReads
      PROVE  Inv'
  <2>1. /\ OnlyMoves(h) /\ UNCHANGED db
        /\ pc'[h] = "look" /\ call' = call /\ tenant' = tenant
    BY <1>1, <1>7, ContinueMoves DEF ManageSteps
  <2>2. CallerKnown(h)'
    BY <1>1, <1>7, CallerStays DEF ManageSteps
  <2>3. call[h].op \in {"upsertAddress", "deleteAddress"} => ParentKnown(h)'
    <3>1. Taken(call[h].id) => Taken(call[h].id)'
      BY <2>1 DEF Taken, OnlyMoves
    <3> QED  BY <1>5, <1>7, <2>1, <3>1 DEF ParentKnown
  <2>4. Knows(h)'
    BY <1>7, <2>1, <2>2, <2>3 DEF Knows, NotifySteps
  <2> QED  BY <2>1, <2>4, StepKeeps
<1>8. ASSUME Continue(h, "write", rows \cup children), c.op # "createUser",
             c.op # "upsertAddress", c.op # "deleteAddress"
      PROVE  Inv'
  <2>1. /\ OnlyMoves(h) /\ UNCHANGED db
        /\ pc'[h] = "write" /\ call' = call
    BY <1>1, <1>8, ContinueMoves DEF ManageSteps
  <2>2. FoundKnown(h)'
    BY <1>1, <1>3, <1>8, ContinueFinds DEF ManageSteps
  <2>3. CallerKnown(h)'
    BY <1>1, <1>8, CallerStays DEF ManageSteps
  <2>4. Knows(h)'
    BY <1>8, <2>1, <2>2, <2>3 DEF Knows, NotifySteps
  <2> QED  BY <2>1, <2>4, StepKeeps
<1>9. \/ Refuse(h, "missing") \/ Refuse(h, "ok")
      \/ /\ rows # {} /\ Continue(h, "check", rows)
         /\ c.op \in {"createUser", "updateTemplate"}
      \/ rows # {} /\ Continue(h, "look", {}) /\ c.op \in Upserts \cup KeyedReads
      \/ /\ Continue(h, "write", rows \cup children)
         /\ c.op # "createUser" /\ c.op # "upsertAddress" /\ c.op # "deleteAddress"
  <2> HIDE DEF rows, children
  <2> DEFINE renamed == c.op = "updateTemplate" /\ c.name # None
                        /\ \E r \in rows : Renamed(r, c.name) # r.keys
  <2>1. IF rows = {} THEN Refuse(h, "missing")
        ELSE IF c.op \in Reads THEN Refuse(h, "ok")
        ELSE IF c.op = "createUser" \/ renamed THEN Continue(h, "check", rows)
        ELSE IF c.op \in Upserts \cup KeyedReads THEN Continue(h, "look", {})
        ELSE Continue(h, "write", rows \cup children)
    BY DEF Load, rows, children
  <2> QED  BY <2>1 DEF Upserts, KeyedReads
<1> QED  BY <1>1, <1>6, <1>7, <1>8, <1>9, RefuseKeeps

\* The conflict check leaves what was loaded before it as it is.
LEMMA CheckKeeps ==
    ASSUME Inv, NEW h \in Requests, Check(h)
    PROVE  Inv'
<1>1. pc[h] = "check" /\ pc[h] # "done" /\ pc[h] \in ManageSteps
  BY DEF Check, ManageSteps
<1>2. ASSUME Continue(h, "write", found[h])
      PROVE  Inv'
  <2>1. /\ OnlyMoves(h) /\ UNCHANGED db
        /\ pc'[h] = "write" /\ call' = call /\ tenant' = tenant /\ found'[h] = found[h]
    BY <1>1, <1>2, ContinueMoves DEF ManageSteps
  <2>2. FoundKnown(h)'
    <3>1. FoundKnown(h)
      BY <1>1 DEF Inv, RequestsKnow, Knows
    <3>2. \A r \in found[h] : Taken(r.id)'
      BY <2>1, <3>1, TakenStays DEF FoundKnown
    <3> QED  BY <2>1, <3>1, <3>2 DEF FoundKnown
  <2>3. CallerKnown(h)'
    BY <1>1, <1>2, CallerStays DEF ManageSteps
  <2>4. /\ call'[h].op \in Creates \cup {"updateTemplate"}
        /\ call'[h].op = "createUser" => IsTenant(call[h].id, db)'
    BY <1>1, <2>1 DEF Inv, RequestsKnow, Knows, IsTenant
  <2>5. Knows(h)'
    BY <2>1, <2>2, <2>3, <2>4 DEF Knows, NotifySteps, Creates
  <2> QED  BY <2>1, <2>5, StepKeeps
<1>3. Continue(h, "write", found[h]) \/ \E r : Refuse(h, r)
  BY DEF Check
<1> QED  BY <1>1, <1>2, <1>3, RefuseKeeps

\* A natural key starts with its table and what it is unique in.
LEMMA KeyForm ==
    ASSUME NEW h, NEW k \in Keys(h)
    PROVE  DOMAIN k = {1, 2, 3, 4} /\ k[1] = TableOf[call[h].op] /\ k[2] = Scope(h)
BY DEF Keys

\* A call names one key, a new tenant's name and slug two.
LEMMA KeysDiffer ==
    ASSUME NEW h, call[h] \in Calls, call[h].op # "notify"
    PROVE  /\ \A k, l \in Keys(h) : k[4] = l[4] \/ TableOf[call[h].op] # "tenants" => k = l
           /\ \E k \in Keys(h) : k[4] # "slug"
<1> DEFINE c == call[h]
           name == <<TableOf[c.op], Scope(h), c.name, c.channel>>
           slug == <<TableOf[c.op], Scope(h), c.slug, "slug">>
<1>1. Keys(h) = {name} \cup (IF c.slug = None THEN {} ELSE {slug})
  BY DEF Keys
<1>2. name[4] = c.channel /\ slug[4] = "slug"
  OBVIOUS
<1>3. c.channel # "slug" /\ (c.slug # None => c.op = "createTenant")
  BY CallsAssumption
<1>4. c.slug # None => TableOf[c.op] = "tenants"
  BY <1>3 DEF TableOf
<1> HIDE DEF name, slug
<1> QED  BY <1>1, <1>2, <1>3, <1>4

\* Rows that have a natural key of an address or a configuration are the caller's.
LEMMA LookKeeps ==
    ASSUME Inv, NEW h \in Requests, Look(h)
    PROVE  Inv'
<1> DEFINE c == call[h]
           rows == {r \in db : r.keys \cap Keys(h) # {}}
<1>1. /\ pc[h] = "look" /\ pc[h] # "done" /\ pc[h] \in ManageSteps
      /\ c.op \in Upserts \cup KeyedReads
  BY DEF Look, ManageSteps, Inv, RequestsKnow, Knows
<1>2. ASSUME NEW r \in rows
      PROVE  r.tenant = tenant[h]
  <2>1. PICK k \in r.keys : k \in Keys(h)
    OBVIOUS
  <2>2. WellOwned(r, db) /\ WellKeyed(r)
    BY DEF Inv, DirectoryOK, RowsOK, Sound
  <2>3. r.table = TableOf[c.op] /\ k[2] = Scope(h)
    BY <2>1, <2>2, KeyForm DEF WellKeyed
  <2>4. CASE c.op \in {"upsertAddress", "deleteAddress"}
    <3>1. ParentKnown(h)
      BY <1>1, <2>4 DEF Inv, RequestsKnow, Knows
    <3>2. TableOf[c.op] = "addresses"
      BY <2>4 DEF TableOf
    <3>3. r.table = "addresses" /\ r.owner = c.id
      BY <2>1, <2>2, <2>3, <3>2 DEF WellKeyed, Scope
    <3> QED  BY <2>2, <3>1, <3>3 DEF WellOwned, ParentKnown
  <2>5. CASE c.op \in {"upsertConfig", "getConfig", "deleteConfig"}
    <3>1. TableOf[c.op] = "configs"
      BY <2>5 DEF TableOf
    <3> QED  BY <2>1, <2>2, <2>3, <3>1 DEF WellKeyed, Scope
  <2> QED  BY <1>1, <2>4, <2>5 DEF Upserts, KeyedReads
<1>3. ASSUME Continue(h, "write", rows)
      PROVE  Inv'
  <2>1. /\ OnlyMoves(h) /\ UNCHANGED db
        /\ pc'[h] = "write" /\ call' = call /\ tenant' = tenant
    BY <1>1, <1>3, ContinueMoves DEF ManageSteps
  <2>2. FoundKnown(h)'
    BY <1>1, <1>2, <1>3, ContinueFinds DEF ManageSteps
  <2>3. CallerKnown(h)'
    BY <1>1, <1>3, CallerStays DEF ManageSteps
  <2>4. c.op \in {"upsertAddress", "deleteAddress"} => ParentKnown(h)'
    <3>1. c.op \in {"upsertAddress", "deleteAddress"} => ParentKnown(h)
      BY <1>1 DEF Inv, RequestsKnow, Knows
    <3>2. Taken(call[h].id) => Taken(call[h].id)'
      BY <2>1 DEF Taken, OnlyMoves
    <3> QED  BY <2>1, <3>1, <3>2 DEF ParentKnown
  <2>5. Knows(h)'
    BY <1>1, <2>1, <2>2, <2>3, <2>4 DEF Knows, NotifySteps, Upserts, KeyedReads
  <2> QED  BY <2>1, <2>5, StepKeeps
<1>4. Continue(h, "write", rows) \/ \E r : Refuse(h, r)
  BY DEF Look
<1> QED  BY <1>1, <1>3, <1>4, RefuseKeeps

\* The SELECTs of POST /notifications find rows of the caller's tenant.
LEMMA NotifyContinues ==
    ASSUME Inv, NEW h \in Requests, pc[h] \in NotifySteps,
           NEW step \in NotifySteps, NEW rows, Continue(h, step, rows),
           rows \subseteq found[h] \cup db,
           \A r \in rows : r \in found[h] \/ r.tenant = tenant[h],
           step \in {"addresses", "submit"} => RecipientsKnown(h)
    PROVE  Inv'
<1>1. pc[h] # "done" /\ call[h].op = "notify" /\ FoundKnown(h) /\ CallerKnown(h)
  BY DEF Inv, RequestsKnow, Knows, NotifySteps
<1>2. /\ OnlyMoves(h) /\ UNCHANGED db /\ pc'[h] = step /\ call' = call /\ tenant' = tenant
      /\ found'[h] = rows
  BY <1>1, ContinueMoves
<1>3. CallerKnown(h)'
  BY CallerStays
<1>4. FoundKnown(h)'
  <2>1. ASSUME NEW r \in rows
        PROVE  /\ Sound(r) /\ Taken(r.id)
               /\ tenant[h] # None => r.tenant = tenant[h]
               /\ \A s \in db : s.id = r.id => Same(s, r)
    <3>1. CASE r \in found[h]
      BY <1>1, <3>1 DEF FoundKnown
    <3>2. CASE r \in db /\ r.tenant = tenant[h]
      BY <3>2 DEF Inv, DirectoryOK, RowsOK, Same
    <3> QED  BY <3>1, <3>2
  <2> QED  BY <1>2, <2>1, TakenStays DEF FoundKnown
<1>5. RecipientsKnown(h) => RecipientsKnown(h)'
  BY <1>2, TakenStays DEF RecipientsKnown, Recipients
<1>6. Knows(h)'
  BY <1>1, <1>2, <1>3, <1>4, <1>5 DEF Knows, NotifySteps
<1> QED  BY <1>2, <1>6, StepKeeps

\* A key says of which tenant a template is.
LEMMA TemplatesForCaller ==
    ASSUME Inv, NEW h, NEW ch, NEW r \in TemplatesFor(h, ch)
    PROVE  r \in db /\ r.table = "templates" /\ r.tenant = tenant[h]
<1>1. r \in db /\ <<"templates", tenant[h], call[h].name, ch>> \in r.keys
  BY DEF TemplatesFor
<1>2. WellKeyed(r)
  BY <1>1 DEF Inv, DirectoryOK, RowsOK, Sound
<1> QED  BY <1>1, <1>2 DEF WellKeyed

\* The SELECTs of POST /notifications find rows of the caller.
LEMMA NotifyReadsKeep ==
    ASSUME Inv, NEW h \in Requests,
           FindKey(h) \/ FindTemplate(h) \/ FindRecipients(h) \/ FindAddresses(h)
    PROVE  Inv' /\ UNCHANGED db
<1>1. /\ pc[h] \in NotifySteps /\ pc[h] # "done"
      /\ \/ \E r : Refuse(h, r)
         \/ \E step \in NotifySteps : \E rows \in SUBSET (found[h] \cup db) :
              /\ Continue(h, step, rows)
              /\ \A r \in rows : r \in found[h] \/ r.tenant = tenant[h]
              /\ step \in {"addresses", "submit"} => RecipientsKnown(h)
  <2>1. CASE FindKey(h)
    BY <2>1 DEF FindKey, NotifySteps
  <2>2. CASE FindTemplate(h)
    <3> DEFINE rows(i) == found[h] \cup TemplatesFor(h, Channels(h)[i])
    <3>1. PICK i \in Ahead(h) :
            /\ pc[h] = "templates"
            /\ \/ \E r : Refuse(h, r)
               \/ \E step \in {"templates", "recipients"} : Continue(h, step, rows(i))
      BY <2>2 DEF FindTemplate, Round
    <3>2. rows(i) \subseteq found[h] \cup db /\ \A r \in rows(i) : r \in found[h] \/ r.tenant = tenant[h]
      BY TemplatesForCaller
    <3> HIDE DEF rows
    <3> QED  BY <3>1, <3>2 DEF NotifySteps
  <2>3. CASE FindRecipients(h)
    <3> DEFINE known == {r.id : r \in {x \in db : x.table = "recipients" /\ x.tenant = tenant[h]}}
    <3>1. /\ pc[h] = "recipients"
          /\ \/ \E r : Refuse(h, r)
             \/ ToSet(Recipients(h)) \subseteq known /\ Continue(h, "addresses", found[h])
      BY <2>3 DEF FindRecipients
    <3>2. ASSUME ToSet(Recipients(h)) \subseteq known
          PROVE  RecipientsKnown(h)
      <4>1. \A r, s \in db : r.id = s.id => r = s
        BY DEF Inv, DirectoryOK, RowsOK
      <4>2. \A id \in known : Taken(id) /\ \A s \in db : s.id = id => s.tenant = tenant[h]
        BY <4>1 DEF Inv, DirectoryOK
      <4> HIDE DEF known
      <4> QED  BY <3>2, <4>2 DEF RecipientsKnown
    <3> HIDE DEF known
    <3> QED  BY <3>1, <3>2 DEF NotifySteps
  <2>4. CASE FindAddresses(h)
    <3> DEFINE rows(i) == found[h] \cup AddressesOn(h, Channels(h)[i])
    <3>1. PICK i \in Ahead(h) :
            /\ pc[h] = "addresses"
            /\ \E step \in {"addresses", "submit"} : Continue(h, step, rows(i))
      BY <2>4 DEF FindAddresses, Round
    <3>2. rows(i) \subseteq found[h] \cup db /\ \A r \in rows(i) : r \in found[h] \/ r.tenant = tenant[h]
      BY DEF AddressesOn, On
    <3>3. RecipientsKnown(h)
      BY <3>1 DEF Inv, RequestsKnow, Knows
    <3> HIDE DEF rows
    <3> QED  BY <3>1, <3>2, <3>3 DEF NotifySteps
  <2> QED  BY <2>1, <2>2, <2>3, <2>4
<1>2. UNCHANGED db
  BY <1>1 DEF Refuse, Continue
<1> QED  BY <1>1, <1>2, NotifyContinues, RefuseKeeps

-----------------------------------------------------------------------------
(* The commits. *)

\* What request h may write.
MayWrite(h, r) ==
    IF tenant[h] = None THEN r.table \in {"tenants", "users"} ELSE r.tenant = tenant[h]

Isolated(h) == \A r \in (db \ db') \cup (db' \ db) : MayWrite(h, r)

\* An answer ends its request and nothing else.
LEMMA AnswerMoves ==
    ASSUME Inv, NEW h \in Requests, pc[h] # "done", NEW r, Answer(h, r)
    PROVE  OnlyMoves(h) /\ pc'[h] = "done"
BY DEF Inv, Shape, OnlyMoves, Answer

\* A commit either writes rows that fit, or nothing.
LEMMA CommitMoves ==
    ASSUME Inv, NEW h \in Requests, pc[h] # "done", NEW rows, Commit(h, rows)
    PROVE  \/ Refuse(h, "error") /\ UNCHANGED db
           \/ Fits(rows) /\ db' = rows /\ OnlyMoves(h) /\ pc'[h] = "done"
BY AnswerMoves DEF Commit, Refuse

\* A row stays where it hangs when rows are added.
LEMMA OwnedStays ==
    ASSUME NEW rows, NEW more, NEW r, WellOwned(r, rows), rows \subseteq more
    PROVE  WellOwned(r, more)
BY DEF WellOwned

\* Sound rows under ids of their own may be added if the constraints hold.
LEMMA AddedRows ==
    ASSUME Inv, NEW h \in Requests, pc[h] # "done", NEW new, Fits(db \cup new),
           \A r \in new : Sound(r) /\ WellOwned(r, db \cup new) /\ From(r.id, h),
           \A r, s \in new : r.id = s.id => r = s
    PROVE  RowsOK(db \cup new) /\ Succeeds(db \cup new, h)
<1>1. \A r \in db : Sound(r) /\ WellOwned(r, db \cup new) /\ ~From(r.id, h)
  <2>1. \A r \in db : Sound(r) /\ WellOwned(r, db) /\ Taken(r.id)
    BY DEF Inv, DirectoryOK, RowsOK
  <2> QED  BY <2>1, OwnedStays DEF Taken
<1>2. ASSUME NEW r \in db \cup new, NEW s \in db \cup new
      PROVE  r = s \/ (r.id # s.id /\ r.keys \cap s.keys = {})
  <2>1. r.id = s.id => r = s
    <3>1. \A q, t \in db : q.id = t.id => q = t
      BY DEF Inv, DirectoryOK, RowsOK
    <3>2. \A q \in db, t \in new : q.id # t.id
      BY <1>1
    <3> QED  BY <3>1, <3>2
  <2>2. r.id # s.id => r.keys \cap s.keys = {}
    BY DEF Fits
  <2> QED  BY <2>1, <2>2
<1>3. RowsOK(db \cup new)
  BY <1>1, <1>2 DEF RowsOK
<1>4. Succeeds(db \cup new, h)
  BY DEF Succeeds, Same
<1> QED  BY <1>3, <1>4

\* An insert adds rows of the caller's tenant, or a platform admin's tenants and users.
LEMMA NewRowsSound ==
    ASSUME Inv, NEW h \in Requests, pc[h] = "write", call[h].op \in Creates \cup Upserts,
           Fits(db \cup NewRows(h))
    PROVE  /\ \A r \in NewRows(h) : /\ Sound(r) /\ WellOwned(r, db \cup NewRows(h))
                                    /\ From(r.id, h) /\ MayWrite(h, r)
           /\ \A r, s \in NewRows(h) : r.id = s.id => r = s
<1> DEFINE c == call[h]
           owner == IF c.op \in {"createTenant", "bootstrap"} THEN None
                    ELSE IF c.op \in {"createUser", "upsertAddress"} THEN c.id ELSE tenant[h]
           of == IF c.op = "createTenant" THEN <<h>> ELSE IF c.op = "createUser" THEN c.id ELSE tenant[h]
           main == Row(<<h>>, TableOf[c.op], of, owner, Keys(h), c.value)
           address(i) == Row(<<h, i>>, "addresses", tenant[h], <<h>>,
                             {<<"addresses", <<h>>, None, c.channels[i]>>}, c.value)
<1>1. NewRows(h) = {main} \cup {address(i) : i \in DOMAIN c.channels}
  BY DEF NewRows
<1>2. /\ c \in Calls
      /\ tenant[h] = None <=> c.op \in PlatformOps \cup {"bootstrap"}
      /\ tenant[h] # None => IsTenant(tenant[h], db)
      /\ c.op = "upsertAddress" => ParentKnown(h)
      /\ c.op = "createUser" => IsTenant(c.id, db)
  BY DEF Inv, RequestsKnow, Knows, CallerKnown, ManageSteps
<1>3. From(main.id, h) /\ \A i \in DOMAIN c.channels : From(address(i).id, h)
  BY <1>2 DEF From, Row
<1>4. \A x : From(x, h) => x # None
  BY SeedAssumption
<1>5. \A r, s \in NewRows(h) : r.id = s.id => r = s
  <2>1. \A i \in DOMAIN c.channels : main.id # address(i).id
    BY DEF Row
  <2>2. \A i, j \in DOMAIN c.channels : address(i).id = address(j).id => i = j
    BY DEF Row
  <2> HIDE DEF main, address
  <2> QED  BY <1>1, <2>1, <2>2
<1>6. ASSUME NEW i \in DOMAIN c.channels
      PROVE  /\ Sound(address(i)) /\ WellOwned(address(i), db \cup NewRows(h))
             /\ MayWrite(h, address(i))
  <2>1. c.op = "createRecipient"
    BY <1>2, CallsAssumption DEF Creates, Upserts
  <2>2. tenant[h] # None
    BY <1>2, <2>1 DEF PlatformOps
  <2>3. Sound(address(i))
    <3> DEFINE key == <<"addresses", <<h>>, None, c.channels[i]>>
    <3>1. key[1] = "addresses" /\ key[2] = <<h>> /\ key[4] = c.channels[i] /\ DOMAIN key = {1, 2, 3, 4}
      OBVIOUS
    <3>2. c.channels[i] # "slug"
      BY <1>2, <2>1, CallsAssumption DEF ToSet
    <3> HIDE DEF key
    <3>3. address(i) = Row(<<h, i>>, "addresses", tenant[h], <<h>>, {key}, c.value)
      BY DEF key
    <3> QED  BY <1>3, <1>4, <3>1, <3>2, <3>3 DEF Sound, WellKeyed, HasName, Row, Fields
  <2>4. main \in NewRows(h) /\ main.id = <<h>> /\ main.table = "recipients" /\ main.tenant = tenant[h]
    BY <1>1, <2>1 DEF Row, TableOf
  <2>5. WellOwned(address(i), db \cup NewRows(h))
    <3>1. /\ address(i).table = "addresses" /\ address(i).owner = <<h>>
          /\ address(i).tenant = tenant[h]
      BY DEF Row
    <3> HIDE DEF main, address
    <3> QED  BY <2>4, <3>1 DEF WellOwned
  <2> QED  BY <2>2, <2>3, <2>5 DEF MayWrite, Row
<1>7. /\ DOMAIN main = Fields /\ main.id = <<h>> /\ main.table = TableOf[c.op] /\ main.tenant = of
      /\ main.owner = owner /\ main.keys = Keys(h) /\ main \in NewRows(h)
  BY <1>1 DEF Row, Fields
<1>8. /\ c.op \in {"createTenant", "createUser", "bootstrap", "createTemplate",
                   "createRecipient", "upsertAddress", "upsertConfig"}
      /\ TableOf["createTenant"] = "tenants" /\ TableOf["createUser"] = "users"
      /\ TableOf["bootstrap"] = "users" /\ TableOf["createTemplate"] = "templates"
      /\ TableOf["createRecipient"] = "recipients" /\ TableOf["upsertAddress"] = "addresses"
      /\ TableOf["upsertConfig"] = "configs"
  BY DEF Creates, Upserts, TableOf
<1> HIDE DEF main
<1>9. Sound(main)
  <2>1. ASSUME NEW k \in main.keys
        PROVE  /\ DOMAIN k = {1, 2, 3, 4} /\ k[1] = main.table
               /\ main.table = "addresses" => k[2] = main.owner
               /\ main.table \in {"templates", "recipients", "configs", "requests"} => k[2] = main.tenant
    <3>1. DOMAIN k = {1, 2, 3, 4} /\ k[1] = TableOf[c.op] /\ k[2] = Scope(h)
      BY <1>7, KeyForm
    <3> QED  BY <1>7, <1>8, <3>1 DEF Scope
  <2>2. /\ \A k, l \in main.keys : k[4] = l[4] \/ main.table # "tenants" => k = l
        /\ \E k \in main.keys : k[4] # "slug"
    BY <1>2, <1>7, <1>8, KeysDiffer
  <2> QED  BY <1>3, <1>4, <1>7, <2>1, <2>2 DEF Sound, WellKeyed, HasName
<1>10. WellOwned(main, db \cup NewRows(h))
  <2>1. CASE c.op = "createTenant"
    BY <1>7, <1>8, <2>1 DEF WellOwned
  <2>2. CASE c.op = "bootstrap"
    BY <1>2, <1>7, <1>8, <2>2 DEF WellOwned
  <2>3. CASE c.op = "createUser"
    BY <1>2, <1>7, <1>8, <2>3 DEF WellOwned, IsTenant
  <2>4. CASE c.op = "upsertAddress"
    <3>1. c.id # None /\ Taken(c.id) /\ \A s \in db : s.id = c.id => s.table = "recipients" /\ s.tenant = tenant[h]
      BY <1>2, <2>4 DEF ParentKnown
    <3>2. main.owner = c.id /\ main.table = "addresses" /\ main.tenant = tenant[h]
      BY <1>7, <1>8, <2>4
    <3>3. PICK o \in db \cup NewRows(h) : o.id = main.owner
      BY <1>7, <3>1, <3>2 DEF Fits
    <3>4. o \in db
      <4>1. ~From(c.id, h)
        BY <3>1 DEF Taken
      <4> QED  BY <1>1, <1>3, <3>2, <3>3, <4>1
    <3> QED  BY <3>1, <3>2, <3>3, <3>4 DEF WellOwned
  <2>5. CASE c.op \in {"createTemplate", "createRecipient", "upsertConfig"}
    <3>1. main.owner = tenant[h] /\ main.tenant = tenant[h] /\ IsTenant(tenant[h], db)
      BY <1>2, <1>7, <2>5 DEF PlatformOps
    <3> QED  BY <1>7, <1>8, <2>5, <3>1 DEF WellOwned, IsTenant
  <2> QED  BY <1>8, <2>1, <2>2, <2>3, <2>4, <2>5
<1>11. MayWrite(h, main)
  BY <1>2, <1>7, <1>8 DEF MayWrite, PlatformOps
<1> HIDE DEF address, c
<1> QED  BY <1>1, <1>3, <1>5, <1>6, <1>9, <1>10, <1>11

\* Users are created by a platform admin, or are the first one.
LEMMA NewUsers ==
    ASSUME Inv, NEW h \in Requests, pc[h] = "write", call[h].op \in Creates \cup Upserts,
           NEW s \in NewRows(h), s.table = "users"
    PROVE  s.tenant = None \/ PlatformAdmins(db) # {}
<1>1. /\ tenant[h] = None <=> call[h].op \in PlatformOps \cup {"bootstrap"}
      /\ call[h].op \in PlatformOps => PlatformAdmins(db) # {}
  BY DEF Inv, RequestsKnow, Knows, CallerKnown, ManageSteps
<1>2. s.table = TableOf[call[h].op] /\ (call[h].op = "bootstrap" => s.tenant = tenant[h])
  BY DEF NewRows, Row
<1>3. call[h].op \in {"createUser", "bootstrap"}
  BY <1>2 DEF TableOf, Creates, Upserts
<1> QED  BY <1>1, <1>2, <1>3 DEF PlatformOps

\* Insert: what the constraints let through hangs where it should.
LEMMA InsertKeeps ==
    ASSUME Inv, NEW h \in Requests, Insert(h)
    PROVE  Inv' /\ (UNCHANGED db \/ (OnlyMoves(h) /\ Isolated(h) /\ Succeeds(db', h)))
<1>1. /\ pc[h] = "write" /\ call[h].op \in Creates \cup Upserts
      /\ Commit(h, db \cup NewRows(h))
  BY DEF Insert
<1>2. CASE Refuse(h, "error") /\ UNCHANGED db
  BY <1>1, <1>2, RefuseKeeps
<1>3. CASE Fits(db \cup NewRows(h)) /\ db' = db \cup NewRows(h) /\ OnlyMoves(h) /\ pc'[h] = "done"
  <2>1. /\ \A r \in NewRows(h) : /\ Sound(r) /\ WellOwned(r, db \cup NewRows(h))
                                 /\ From(r.id, h) /\ MayWrite(h, r)
        /\ \A r, s \in NewRows(h) : r.id = s.id => r = s
    BY <1>1, <1>3, NewRowsSound
  <2>2. RowsOK(db') /\ Succeeds(db', h)
    BY <1>1, <1>3, <2>1, AddedRows
  <2>3. Isolated(h)
    BY <1>3, <2>1 DEF Isolated
  <2>4. UsersOK(db')
    <3>1. ASSUME NEW s \in db', s.table = "users", From(s.id, h)
          PROVE  s.tenant = None \/ PlatformAdmins(db) # {}
      <4>1. s \in NewRows(h)
        <5>1. \A r \in db : ~From(r.id, h)
          BY <1>3 DEF Inv, DirectoryOK, Taken, OnlyMoves
        <5> QED  BY <1>3, <3>1, <5>1
      <4> QED  BY <1>1, <3>1, <4>1, NewUsers
    <3> QED  BY <2>2, <3>1, UsersStay
  <2> QED  BY <1>3, <2>2, <2>3, <2>4, CommitKeeps
<1> QED  BY <1>1, <1>2, <1>3, CommitMoves

\* Submit: the request hangs on its caller's tenant.
LEMMA SubmitKeeps ==
    ASSUME Inv, NEW h \in Requests, Submit(h)
    PROVE  Inv' /\ (UNCHANGED db \/ (OnlyMoves(h) /\ Isolated(h) /\ Succeeds(db', h)))
<1> DEFINE channels == [i \in DOMAIN Channels(h) |-> Channel(h, Channels(h)[i])]
           new == Row(<<h>>, "requests", tenant[h], tenant[h], RequestKeys(h),
                      {IF Failed(channels) THEN "failed" ELSE Status(h)})
<1>1. /\ pc[h] = "submit" /\ pc[h] # "done"
      /\ \/ Refuse(h, "error")
         \/ Fits(db \cup {new}) /\ db' = db \cup {new} /\ Answer(h, "ok")
  BY DEF Submit
<1>2. tenant[h] # None /\ IsTenant(tenant[h], db)
  BY <1>1 DEF Inv, RequestsKnow, Knows, CallerKnown, NotifySteps, PlatformOps
<1>3. /\ DOMAIN new = Fields /\ new.id = <<h>> /\ new.table = "requests"
      /\ new.tenant = tenant[h] /\ new.owner = tenant[h] /\ new.keys = RequestKeys(h)
  BY DEF Row, Fields
<1> HIDE DEF new, channels
<1>4. Sound(new) /\ From(new.id, h)
  <2>1. /\ \A k \in RequestKeys(h) : DOMAIN k = {1, 2, 3, 4} /\ k[1] = "requests" /\ k[2] = tenant[h]
        /\ \A k, l \in RequestKeys(h) : k = l
    BY DEF RequestKeys
  <2>2. From(<<h>>, h)
    BY DEF From
  <2> QED  BY <1>3, <2>1, <2>2, SeedAssumption DEF Sound, WellKeyed, HasName
<1>5. WellOwned(new, db \cup {new})
  BY <1>2, <1>3 DEF WellOwned, IsTenant
<1>6. CASE Refuse(h, "error")
  BY <1>1, <1>6, RefuseKeeps DEF Refuse
<1>7. CASE Fits(db \cup {new}) /\ db' = db \cup {new} /\ Answer(h, "ok")
  <2>1. RowsOK(db') /\ Succeeds(db', h)
    BY <1>1, <1>4, <1>5, <1>7, AddedRows
  <2>2. OnlyMoves(h) /\ pc'[h] = "done"
    BY <1>1, <1>7, AnswerMoves
  <2>3. Isolated(h)
    BY <1>2, <1>3, <1>7 DEF Isolated, MayWrite
  <2>4. UsersOK(db')
    <3>1. \A s \in db' : s.table = "users" => ~From(s.id, h)
      BY <1>1, <1>3, <1>7 DEF Inv, DirectoryOK, Taken
    <3> QED  BY <2>1, <3>1, UsersStay
  <2> QED  BY <2>1, <2>2, <2>3, <2>4, CommitKeeps
<1> QED  BY <1>1, <1>6, <1>7

\* The keys of a sound row are keys it may have.
LEMMA SoundKeys ==
    ASSUME NEW r, WellKeyed(r), HasName(r)
    PROVE  KeyedAs(r.keys, r)
BY DEF WellKeyed, HasName, KeyedAs

\* Renaming a row changes the third part of its keys.
LEMMA RenamedForm ==
    ASSUME NEW r, WellKeyed(r), HasName(r), NEW name
    PROVE  KeyedAs(Renamed(r, name), r)
<1> DEFINE ren(q) == IF q[4] = "slug" THEN q ELSE [q EXCEPT ![3] = name]
<1>1. Renamed(r, name) = {ren(q) : q \in r.keys}
  BY DEF Renamed
<1>2. KeyedAs(r.keys, r)
  BY SoundKeys
<1>3. \A q \in r.keys : /\ DOMAIN ren(q) = DOMAIN q /\ ren(q)[1] = q[1] /\ ren(q)[2] = q[2]
                        /\ ren(q)[4] = q[4]
  BY <1>2 DEF KeyedAs
<1> HIDE DEF ren
<1> QED  BY <1>1, <1>2, <1>3 DEF KeyedAs

\* What a row is renamed to does not depend on what it was renamed to before.
LEMMA RenamedTwice ==
    ASSUME NEW r, \A k \in r.keys : DOMAIN k = {1, 2, 3, 4}, NEW a, NEW b,
           NEW s, s.keys = Renamed(r, a)
    PROVE  Renamed(s, b) = Renamed(r, b)
<1> DEFINE ren(q, x) == IF q[4] = "slug" THEN q ELSE [q EXCEPT ![3] = x]
<1>1. ASSUME NEW k \in r.keys
      PROVE  ren(ren(k, a), b) = ren(k, b)
  <2>1. DOMAIN k = {1, 2, 3, 4}
    OBVIOUS
  <2>2. CASE k[4] = "slug"
    BY <2>2
  <2>3. CASE k[4] # "slug"
    <3> DEFINE l == [k EXCEPT ![3] = a]
    <3>1. ren(k, a) = l /\ l[4] # "slug" /\ DOMAIN l = {1, 2, 3, 4}
      BY <2>1, <2>3
    <3>2. [l EXCEPT ![3] = b] = [k EXCEPT ![3] = b]
      BY <2>1
    <3> QED  BY <2>3, <3>1, <3>2
  <2> QED  BY <2>2, <2>3
<1>2. /\ s.keys = {ren(k, a) : k \in r.keys} /\ Renamed(s, b) = {ren(k, b) : k \in s.keys}
      /\ Renamed(r, b) = {ren(k, b) : k \in r.keys}
  BY DEF Renamed
<1> HIDE DEF ren
<1>3. {ren(k, b) : k \in s.keys} = {ren(ren(k, a), b) : k \in r.keys}
  BY <1>2
<1>4. {ren(ren(k, a), b) : k \in r.keys} = {ren(k, b) : k \in r.keys}
  BY <1>1
<1> QED  BY <1>2, <1>3, <1>4

\* Keys that are the same but for the name are renamed to the same.
LEMMA RenamedAlike ==
    ASSUME NEW r, \A k \in r.keys : DOMAIN k = {1, 2, 3, 4},
           NEW s, \A k \in s.keys : DOMAIN k = {1, 2, 3, 4},
           Renamed(r, None) = Renamed(s, None), NEW name
    PROVE  Renamed(r, name) = Renamed(s, name)
<1> DEFINE bare == [keys |-> Renamed(r, None)]
<1>1. Renamed(bare, name) = Renamed(r, name)
  <2>1. bare.keys = Renamed(r, None)
    OBVIOUS
  <2> HIDE DEF bare
  <2> QED  BY <2>1, RenamedTwice
<1>2. Renamed(bare, name) = Renamed(s, name)
  <2>1. bare.keys = Renamed(s, None)
    OBVIOUS
  <2> HIDE DEF bare
  <2> QED  BY <2>1, RenamedTwice
<1> QED  BY <1>1, <1>2

\* A row that was found is the row there is under its id, as far as it never changes, and
\* the request may write it.
LEMMA FoundIsCallers ==
    ASSUME Inv, NEW h \in Requests, pc[h] = "write", NEW row \in found[h],
           row.table = TableOf[call[h].op], call[h].op \in DOMAIN TableOf
    PROVE  Sound(row) /\ MayWrite(h, row) /\ \A r \in db : r.id = row.id => Same(r, row)
<1>1. FoundKnown(h) /\ CallerKnown(h)
  BY DEF Inv, RequestsKnow, Knows, ManageSteps
<1>2. tenant[h] = None => row.table \in {"tenants", "users"}
  BY <1>1 DEF CallerKnown, PlatformOps, TableOf
<1> QED  BY <1>1, <1>2 DEF FoundKnown, MayWrite

\* A row that is written changes in its keys and its value.
LEMMA WrittenForm ==
    ASSUME NEW r, DOMAIN r = Fields, NEW row, NEW keys, NEW value
    PROVE  LET w == Written(r, row, keys, value)
           IN  /\ DOMAIN w = Fields /\ w.id = r.id /\ w.table = r.table
               /\ w.tenant = r.tenant /\ w.owner = r.owner
               /\ w.keys = IF r.id = row.id /\ keys # row.keys THEN keys ELSE r.keys
               /\ w.value = IF r.id = row.id /\ value # row.value THEN value ELSE r.value
<1> DEFINE a == IF keys = row.keys THEN r.keys ELSE keys
           b == IF value = row.value THEN r.value ELSE value
           q == [r EXCEPT !.keys = a]
           w == [q EXCEPT !.value = b]
<1>1. Written(r, row, keys, value) = IF r.id # row.id THEN r ELSE w
  BY DEF Written
<1>2. /\ DOMAIN q = Fields /\ q.id = r.id /\ q.table = r.table /\ q.tenant = r.tenant
      /\ q.owner = r.owner /\ q.keys = a /\ q.value = r.value
  BY DEF Fields
<1> HIDE DEF a, b, q
<1>3. /\ DOMAIN w = Fields /\ w.id = q.id /\ w.table = q.table /\ w.tenant = q.tenant
      /\ w.owner = q.owner /\ w.keys = q.keys
      /\ w.value = b
  BY <1>2 DEF Fields
<1> HIDE DEF w
<1> QED  BY <1>1, <1>2, <1>3 DEF a, b

\* Update: it writes keys and values, and keys of the same beginning.
LEMMA UpdateKeeps ==
    ASSUME Inv, NEW h \in Requests, Update(h)
    PROVE  Inv' /\ (UNCHANGED db \/ (OnlyMoves(h) /\ Isolated(h) /\ Succeeds(db', h)))
<1>1. /\ pc[h] = "write" /\ call[h].op \in DOMAIN TableOf /\ call[h] \in Calls
      /\ call[h].op \in Updates \cup Upserts
  BY DEF Update, Updates, Upserts, TableOf, Inv, RequestsKnow, Knows, CallerKnown, ManageSteps
<1> DEFINE keysOf(row) == IF call[h].name = None THEN row.keys ELSE Renamed(row, call[h].name)
           valueOf(row) == IF call[h].value = None THEN row.value ELSE call[h].value
<1>2. PICK row \in found[h] :
           /\ row.table = TableOf[call[h].op]
           /\ \/ Refuse(h, "error")
              \/ Commit(h, {Written(r, row, keysOf(row), valueOf(row)) : r \in db})
  BY DEF Update
<1> DEFINE keys == keysOf(row)
           value == valueOf(row)
           upd(r) == Written(r, row, keys, value)
           rows == {upd(r) : r \in db}
<1> HIDE DEF value
<1>3. Sound(row) /\ MayWrite(h, row) /\ \A r \in db : r.id = row.id => Same(r, row)
  BY <1>1, <1>2, FoundIsCallers
<1>4. ASSUME NEW r \in db
      PROVE  Same(upd(r), r) /\ Sound(upd(r)) /\ (upd(r) = r \/ r.id = row.id)
  <2>1. Sound(r)
    BY DEF Inv, DirectoryOK, RowsOK
  <2>2. CASE r.id # row.id
    BY <2>1, <2>2 DEF Same, Written
  <2>3. CASE r.id = row.id
    <3>1. Same(r, row)
      BY <1>3, <2>3
    <3>2. /\ DOMAIN upd(r) = Fields /\ upd(r).id = r.id /\ upd(r).table = r.table
          /\ upd(r).tenant = r.tenant /\ upd(r).owner = r.owner
          /\ upd(r).keys = IF keys # row.keys THEN keys ELSE r.keys
      BY <2>1, <2>3, WrittenForm DEF Sound
    <3>3. KeyedAs(keys, row) /\ KeyedAs(r.keys, r)
      BY <1>3, <2>1, SoundKeys, RenamedForm DEF Sound
    <3>4. row.table \in {"addresses", "configs"} => keys = row.keys
      BY <1>1, <1>2, CallsAssumption DEF TableOf, Upserts, Updates
    <3>7. Renamed(upd(r), None) = Renamed(r, None)
      <4>1. CASE keys = row.keys
        <5>1. upd(r).keys = r.keys
          BY <3>2, <4>1
        <5> HIDE DEF upd, keys
        <5> QED  BY <5>1 DEF Renamed
      <4>2. CASE keys # row.keys
        <5>1. upd(r).keys = Renamed(row, call[h].name)
          BY <3>2, <4>2
        <5>2. \A k \in row.keys : DOMAIN k = {1, 2, 3, 4}
          BY <1>3 DEF Sound, WellKeyed
        <5>3. Renamed(upd(r), None) = Renamed(row, None)
          <6> HIDE DEF upd, keys
          <6> QED  BY <5>1, <5>2, RenamedTwice
        <5> QED  BY <3>1, <5>3 DEF Same
      <4> QED  BY <4>1, <4>2
    <3> HIDE DEF upd, keys
    <3>5. KeyedAs(upd(r).keys, upd(r))
      BY <3>1, <3>2, <3>3 DEF KeyedAs, Same
    <3>6. WellKeyed(upd(r)) /\ HasName(upd(r))
      BY <3>5 DEF KeyedAs, WellKeyed, HasName
    <3> QED  BY <2>1, <2>3, <3>1, <3>2, <3>4, <3>6, <3>7 DEF Sound, Same
  <2> QED  BY <2>2, <2>3
<1> HIDE DEF upd
<1>5. ASSUME Fits(rows)
      PROVE  RowsOK(rows)
  <2>1. ASSUME NEW r \in db
        PROVE  WellOwned(upd(r), rows)
    <3>1. WellOwned(r, db)
      BY DEF Inv, DirectoryOK, RowsOK
    <3>2. \A o \in db : upd(o) \in rows /\ Same(upd(o), o)
      BY <1>4
    <3> HIDE DEF rows
    <3> QED  BY <1>4, <3>1, <3>2 DEF WellOwned, Same
  <2>2. ASSUME NEW r \in db, NEW s \in db
        PROVE  upd(r) = upd(s) \/ (upd(r).id # upd(s).id /\ upd(r).keys \cap upd(s).keys = {})
    <3>1. r.id = s.id => r = s
      BY DEF Inv, DirectoryOK, RowsOK
    <3>2. upd(r).id = r.id /\ upd(s).id = s.id
      BY <1>4 DEF Same
    <3>3. upd(r).id # upd(s).id => upd(r).keys \cap upd(s).keys = {}
      BY <1>5 DEF Fits
    <3> QED  BY <3>1, <3>2, <3>3
  <2> QED  BY <1>4, <2>1, <2>2 DEF RowsOK
<1>6. Succeeds(rows, h)
  BY <1>4 DEF Succeeds, Same
<1>7. \A r \in (db \ rows) \cup (rows \ db) : MayWrite(h, r)
  <2>1. ASSUME NEW r \in db, r.id = row.id
        PROVE  MayWrite(h, r) /\ MayWrite(h, upd(r))
    BY <1>3, <1>4, <2>1 DEF Same, MayWrite
  <2> QED  BY <1>4, <2>1
<1>8. Refuse(h, "error") \/ Commit(h, rows)
  BY <1>2 DEF value, upd
<1>9. CASE Refuse(h, "error")
  BY <1>1, <1>9, RefuseKeeps DEF Refuse
<1>10. CASE Fits(rows) /\ db' = rows /\ OnlyMoves(h) /\ pc'[h] = "done"
  <2>1. UsersOK(rows)
    <3>1. \A s \in rows : \E r \in db : Same(s, r)
      BY <1>4
    <3>2. \A s \in rows : ~From(s.id, h)
      BY <1>1, <3>1 DEF Inv, DirectoryOK, Taken, Same
    <3> HIDE DEF rows
    <3> QED  BY <1>6, <3>2, UsersStay
  <2> QED  BY <1>5, <1>6, <1>7, <1>10, <2>1, CommitKeeps DEF Isolated
<1> HIDE DEF rows
<1> QED  BY <1>1, <1>8, <1>9, <1>10, CommitMoves

\* Delete: what hangs on the row goes with it, and nothing else.
LEMMA DeleteKeeps ==
    ASSUME Inv, NEW h \in Requests, Delete(h)
    PROVE  Inv' /\ (UNCHANGED db \/ (OnlyMoves(h) /\ Isolated(h) /\ Succeeds(db', h)))
<1>1. /\ pc[h] = "write" /\ call[h].op \in DOMAIN TableOf
      /\ TableOf[call[h].op] \notin {"tenants", "users"}
  BY DEF Delete, Deletes, TableOf
<1>2. PICK row \in found[h] :
           /\ row.table = TableOf[call[h].op]
           /\ \/ Refuse(h, "error")
              \/ db' = {r \in db : row.id \notin {r.id, r.owner}} /\ Answer(h, "ok")
  BY DEF Delete
<1> DEFINE rows == {r \in db : row.id \notin {r.id, r.owner}}
<1>3. Sound(row) /\ MayWrite(h, row) /\ \A r \in db : r.id = row.id => Same(r, row)
  BY <1>1, <1>2, FoundIsCallers
<1>4. \A r, s \in db : r = s \/ (r.id # s.id /\ r.keys \cap s.keys = {})
  BY DEF Inv, DirectoryOK, RowsOK
<1>5. \A o \in db : o.table \in {"tenants", "users"} => o.id # row.id
  BY <1>1, <1>2, <1>3 DEF Same
<1>6. \A r \in db : Sound(r) /\ WellOwned(r, db)
  BY DEF Inv, DirectoryOK, RowsOK
<1>7. \A o \in db : o.table \in {"tenants", "users"} => o \in rows
  BY <1>3, <1>5, <1>6 DEF WellOwned, Sound
<1>8. ASSUME NEW r \in rows
      PROVE  WellOwned(r, rows)
  <2>1. ASSUME NEW o \in db, o.id = r.owner, o.table = "recipients"
        PROVE  o \in rows
    <3>1. PICK t \in db : o.owner = t.id /\ t.table = "tenants"
      BY <1>6, <2>1 DEF WellOwned
    <3> QED  BY <1>5, <2>1, <3>1
  <2>2. r \in db /\ WellOwned(r, db)
    BY <1>6
  <2> QED  BY <1>7, <2>1, <2>2 DEF WellOwned
<1>9. RowsOK(rows) /\ Succeeds(rows, h)
  BY <1>4, <1>6, <1>7, <1>8 DEF RowsOK, Succeeds, Same
<1>10. ASSUME NEW r \in db, row.id \in {r.id, r.owner}
       PROVE  MayWrite(h, r)
  <2>1. CASE r.id = row.id
    BY <1>3, <2>1 DEF Same, MayWrite
  <2>2. CASE r.owner = row.id
    <3>1. PICK o \in db : o.id = r.owner /\ o.tenant = r.tenant
      BY <1>3, <1>6, <2>2 DEF WellOwned, Sound
    <3>2. Same(o, row) /\ tenant[h] # None
      BY <1>1, <1>2, <1>3, <2>2, <3>1 DEF MayWrite
    <3> QED  BY <1>3, <3>1, <3>2 DEF Same, MayWrite
  <2> QED  BY <1>10, <2>1, <2>2
<1>11. CASE Refuse(h, "error")
  BY <1>1, <1>11, RefuseKeeps DEF Refuse
<1>12. CASE db' = rows /\ Answer(h, "ok")
  <2>1. OnlyMoves(h) /\ pc'[h] = "done"
    BY <1>1, <1>12, AnswerMoves
  <2>2. Isolated(h)
    BY <1>10, <1>12 DEF Isolated
  <2>3. UsersOK(rows)
    <3>1. \A s \in rows : ~From(s.id, h)
      BY <1>1 DEF Inv, DirectoryOK, Taken
    <3> QED  BY <1>9, <3>1, UsersStay
  <2> QED  BY <1>9, <1>12, <2>1, <2>2, <2>3, CommitKeeps
<1> QED  BY <1>2, <1>11, <1>12

-----------------------------------------------------------------------------
(* The theorems. *)

\* The first rows are as the assumption on them says, and nobody knows anything.
LEMMA InitInv == InitAll => Inv
<1> SUFFICES ASSUME InitAll
             PROVE  Inv
  OBVIOUS
<1>1. Shape /\ RequestsKnow
  BY DEF InitAll, Init, Shape, RequestsKnow, Knows, ManageSteps, NotifySteps
<1>2. RowsOK(db) /\ UsersOK(db) /\ \A r \in db : Taken(r.id)
  BY SeedAssumption, UsersAssumption DEF InitAll, Init, RowsOK, UsersOK, Sound, Taken
<1> QED  BY <1>1, <1>2 DEF Inv, DirectoryOK

\* What a step of request h does.
LEMMA StepKeepsAll ==
    ASSUME Inv, NEW h \in Requests, Manage(h) \/ Notify(h)
    PROVE  Inv' /\ (UNCHANGED db \/ (OnlyMoves(h) /\ Isolated(h) /\ Succeeds(db', h)))
<1>1. CASE Begin(h)
  BY <1>1, BeginKeeps DEF Begin, Admit, Refuse
<1>2. CASE Load(h)
  BY <1>2, LoadKeeps DEF Load, Continue, Refuse
<1>3. CASE Check(h)
  BY <1>3, CheckKeeps DEF Check, Continue, Refuse
<1>4. CASE Look(h)
  BY <1>4, LookKeeps DEF Look, Continue, Refuse
<1>5. CASE Insert(h)
  BY <1>5, InsertKeeps
<1>6. CASE Update(h)
  BY <1>6, UpdateKeeps
<1>7. CASE Delete(h)
  BY <1>7, DeleteKeeps
<1>8. CASE FindKey(h) \/ FindTemplate(h) \/ FindRecipients(h) \/ FindAddresses(h)
  BY <1>8, NotifyReadsKeep
<1>9. CASE Submit(h)
  BY <1>9, SubmitKeeps
<1> QED  BY <1>1, <1>2, <1>3, <1>4, <1>5, <1>6, <1>7, <1>8, <1>9 DEF Manage, Notify

\* The invariant is about these variables only.
LEMMA StutterKeeps ==
    ASSUME Inv, UNCHANGED allVars
    PROVE  Inv'
<1>1. Shape' /\ RequestsKnow'
  BY DEF Inv, allVars, vars, Shape, RequestsKnow, Knows, CallerKnown, FoundKnown, ParentKnown,
         RecipientsKnown, Recipients, IsTenant, Taken, PlatformAdmins
<1>2. DirectoryOK'
  BY DEF Inv, allVars, vars, DirectoryOK, Taken
<1> QED  BY <1>1, <1>2 DEF Inv

\* The rows, and what the requests know of them, are always as described above, however the
\* requests interleave.
THEOREM DirectoryInductive == Spec => []Inv
<1>1. ASSUME Inv, [Next]_allVars
      PROVE  Inv'
  BY <1>1, StepKeepsAll, StutterKeeps DEF Next
<1> QED  BY <1>1, InitInv, PTL DEF Spec

\* A row belongs to the tenant of the row it hangs on.
THEOREM SameTenantAlways == Spec => []SameTenant
<1>1. ASSUME Inv
      PROVE  SameTenant
  BY <1>1 DEF Inv, DirectoryOK, RowsOK, WellOwned, SameTenant
<1> QED  BY <1>1, DirectoryInductive, PTL

\* A request changes rows of its caller's tenant only, and a platform admin only tenants and
\* users.
THEOREM TenantIsolationAlways == Spec => TenantIsolation
<1> DEFINE A == \A h \in Requests : pc[h] # "done" /\ pc'[h] = "done" =>
                    \A r \in (db \ db') \cup (db' \ db) :
                        IF tenant[h] = None THEN r.table \in {"tenants", "users"}
                        ELSE r.tenant = tenant[h]
<1>1. ASSUME Inv, Next
      PROVE  A
  <2>1. PICK g \in Requests : Manage(g) \/ Notify(g)
    BY <1>1 DEF Next
  <2>2. CASE UNCHANGED db
    BY <2>2
  <2>3. CASE OnlyMoves(g) /\ Isolated(g)
    <3>1. ASSUME NEW h \in Requests, pc[h] # "done", pc'[h] = "done"
          PROVE  h = g
      BY <2>3, <3>1 DEF OnlyMoves
    <3> QED  BY <2>3, <3>1 DEF Isolated, MayWrite
  <2> QED  BY <1>1, <2>1, <2>2, <2>3, StepKeepsAll
<1>2. ASSUME Inv, [Next]_allVars
      PROVE  [A]_allVars
  BY <1>1, <1>2
<1> QED  BY <1>2, DirectoryInductive, PTL DEF Spec, TenantIsolation

-----------------------------------------------------------------------------
(* Types and history. *)

Types ==
    /\ TypeOK
    /\ \A h \in Requests : pc[h] \in {"idle", "done"} => found[h] = {}
    /\ reply = [h \in Requests |-> reply[h]]
    /\ progress = [h \in Requests |-> progress[h]]

\* More rows have a larger outline.
LEMMA OutlineGrows ==
    ASSUME NEW S, NEW T, S \subseteq T
    PROVE  Outline(S) \subseteq Outline(T)
BY DEF Outline

\* A step of request h to p, with answer a and found rows f, that keeps the history.
LEMMA TypesStep ==
    ASSUME Inv, Types, NEW h \in Requests, pc[h] # "done", Watch(db'),
           NEW p, pc' = [pc EXCEPT ![h] = p],
           NEW c \in Calls \cup {None}, call' = [call EXCEPT ![h] = c],
           NEW a \in Replies \cup {None}, reply' = [reply EXCEPT ![h] = a],
           NEW f, found' = [found EXCEPT ![h] = f],
           NEW n, progress' = [progress EXCEPT ![h] = n],
           p \in ManageSteps \cup NotifySteps \cup {"done"},
           p = "done" <=> c = None, p = "done" <=> a # None,
           f \subseteq ever[h] \cup db', p = "done" => f = {},
           n > 0 => p \in {"templates", "addresses"}
    PROVE  Types'
<1> USE DEF ManageSteps, NotifySteps
<1>1. /\ pc'[h] = p /\ call'[h] = c /\ reply'[h] = a /\ found'[h] = f /\ progress'[h] = n
      /\ \A g \in Requests \ {h} :
           /\ pc'[g] = pc[g] /\ call'[g] = call[g] /\ reply'[g] = reply[g]
           /\ found'[g] = found[g] /\ progress'[g] = progress[g]
  BY DEF Inv, Shape, Types
<1>2. pc' \in [Requests -> {"idle", "done"} \cup ManageSteps \cup NotifySteps]
  BY DEF Inv, Shape
<1>3. \A g \in Requests :
        /\ ever'[g] = IF pc'[g] \in {"idle", "done"} THEN {} ELSE ever[g] \cup db'
        /\ always'[g] = IF pc'[g] \in {"idle", "done"} THEN {}
                        ELSE IF pc[g] = "idle" THEN Outline(db') ELSE always[g] \cap Outline(db')
  BY DEF Watch
<1>4. ASSUME NEW g \in Requests
      PROVE  found'[g] \subseteq ever'[g] /\ always'[g] \subseteq Outline(ever'[g]) \cap Outline(db')
  <2>1. found[g] \subseteq ever[g] /\ always[g] \subseteq Outline(ever[g])
    BY DEF Types, TypeOK
  <2>2. Outline(ever[g]) \subseteq Outline(ever[g] \cup db') /\ Outline(db') \subseteq Outline(ever[g] \cup db')
    BY OutlineGrows
  <2>3. found'[g] \subseteq ever'[g]
    <3>1. CASE g = h
      BY <1>1, <1>3, <3>1
    <3>2. CASE g # h /\ pc[g] \in {"idle", "done"}
      <4>1. found[g] = {}
        BY <3>2 DEF Types
      <4> QED  BY <1>1, <3>2, <4>1
    <3>3. CASE g # h /\ pc[g] \notin {"idle", "done"}
      BY <1>1, <1>3, <2>1, <3>3
    <3> QED  BY <3>1, <3>2, <3>3
  <2>4. always'[g] \subseteq Outline(ever'[g]) \cap Outline(db')
    BY <1>3, <2>1, <2>2
  <2> QED  BY <2>3, <2>4
<1>5. ASSUME NEW g \in Requests
      PROVE  /\ pc'[g] \in {"idle", "done"} <=> call'[g] = None
             /\ call'[g] \in Calls \cup {None}
             /\ reply'[g] \in Replies \cup {None}
             /\ (reply'[g] = None) = (pc'[g] # "done")
             /\ progress'[g] > 0 => pc'[g] \in {"templates", "addresses"}
  <2>1. CASE g = h
    BY <1>1, <2>1
  <2>2. CASE g # h
    BY <1>1, <2>2 DEF Types, TypeOK
  <2> QED  BY <2>1, <2>2
<1>6. /\ reply' = [g \in Requests |-> reply'[g]]
      /\ progress' = [g \in Requests |-> progress'[g]]
  BY DEF Types
<1>7. \A g \in Requests : pc'[g] \in {"idle", "done"} => found'[g] = {}
  BY <1>1 DEF Types
<1> QED  BY <1>2, <1>4, <1>5, <1>6, <1>7 DEF Types, TypeOK

\* The three shapes of a step.
LEMMA AnswerTypes ==
    ASSUME Inv, Types, NEW h \in Requests, pc[h] # "done", NEW r \in Replies, Answer(h, r),
           Watch(db'), NEW n, progress' = [progress EXCEPT ![h] = n], ~(n > 0)
    PROVE  Types'
<1> DEFINE p == "done"
           c == None
           f == {}
<1>1. pc' = [pc EXCEPT ![h] = p] /\ call' = [call EXCEPT ![h] = c]
      /\ reply' = [reply EXCEPT ![h] = r] /\ found' = [found EXCEPT ![h] = f]
  BY DEF Answer
<1>2. /\ p \in ManageSteps \cup NotifySteps \cup {"done"}
      /\ c \in Calls \cup {None} /\ r \in Replies \cup {None} /\ f \subseteq ever[h] \cup db'
      /\ (p = "done" <=> c = None) /\ (p = "done" <=> r # None) /\ (p = "done" => f = {})
  BY NoneAssumption
<1> HIDE DEF p, c, f
<1> QED  BY <1>1, <1>2, TypesStep

\* A step that goes on after a SELECT keeps the types.
LEMMA ContinueTypes ==
    ASSUME Inv, Types, NEW h \in Requests, pc[h] \in ManageSteps \cup NotifySteps,
           NEW step \in ManageSteps \cup NotifySteps, NEW rows, Continue(h, step, rows),
           rows \subseteq found[h] \cup db,
           NEW n, progress' = [progress EXCEPT ![h] = n], n > 0 => step \in {"templates", "addresses"}
    PROVE  Types'
<1>1. pc[h] # "done" /\ call[h] # None /\ call[h] \in Calls /\ reply[h] = None
  BY DEF Types, TypeOK, ManageSteps, NotifySteps
<1>2. /\ pc' = [pc EXCEPT ![h] = step] /\ found' = [found EXCEPT ![h] = rows]
      /\ db' = db /\ Watch(db')
  BY DEF Continue, Watch
<1>3. call' = [call EXCEPT ![h] = call[h]] /\ reply' = [reply EXCEPT ![h] = reply[h]]
  BY DEF Continue, Inv, Shape, Types
<1>4. rows \subseteq ever[h] \cup db'
  BY <1>2 DEF Types, TypeOK
<1>5. /\ step \in ManageSteps \cup NotifySteps \cup {"done"} /\ step # "done"
      /\ call[h] \in Calls \cup {None} /\ reply[h] \in Replies \cup {None}
  BY <1>1 DEF ManageSteps, NotifySteps
<1> QED  BY <1>1, <1>2, <1>3, <1>4, <1>5, TypesStep

\* So does an answer without a write.
LEMMA RefuseTypes ==
    ASSUME Inv, Types, NEW h \in Requests, pc[h] # "done", NEW r \in Replies, Refuse(h, r),
           NEW n, progress' = [progress EXCEPT ![h] = n], ~(n > 0)
    PROVE  Types'
<1>1. Answer(h, r) /\ Watch(db')
  BY DEF Refuse, Watch
<1> QED  BY <1>1, AnswerTypes

\* progress[h] is 0 outside of the loops over the channels, and stays as it is there.
LEMMA ProgressRests ==
    ASSUME Types, NEW h \in Requests, UNCHANGED progress
    PROVE  /\ progress' = [progress EXCEPT ![h] = progress[h]]
           /\ pc[h] \notin {"templates", "addresses"} => ~(progress[h] > 0)
BY DEF Types, TypeOK

\* A handler of the directory: progress rests at 0.
LEMMA ManageTypes ==
    ASSUME Inv, Types, NEW h \in Requests, Manage(h), UNCHANGED progress
    PROVE  Types'
<1> DEFINE n == progress[h]
<1>1. pc[h] \in {"idle"} \cup ManageSteps /\ pc[h] \notin {"templates", "addresses", "done"}
  BY DEF Manage, Begin, Load, Check, Look, Insert, Update, Delete, ManageSteps
<1>2. progress' = [progress EXCEPT ![h] = n] /\ ~(n > 0)
  BY <1>1, ProgressRests
<1> HIDE DEF n
<1>3. ASSUME NEW r \in Replies, Refuse(h, r)
      PROVE  Types'
  BY <1>1, <1>2, <1>3, RefuseTypes
<1>4. ASSUME NEW step \in ManageSteps, NEW rows, Continue(h, step, rows),
             pc[h] \in ManageSteps, rows \subseteq found[h] \cup db
      PROVE  Types'
  BY <1>2, <1>4, ContinueTypes
<1>5. ASSUME NEW rows, Commit(h, rows)
      PROVE  Types'
  <2>1. CASE Refuse(h, "error")
    BY <1>3, <2>1 DEF Replies
  <2>2. CASE db' = rows /\ Answer(h, "ok") /\ Watch(rows)
    <3>1. Watch(db')
      BY <2>2 DEF Watch
    <3> QED  BY <1>1, <1>2, <2>2, <3>1, AnswerTypes DEF Replies
  <2> QED  BY <1>5, <2>1, <2>2 DEF Commit
<1>6. CASE Begin(h)
  <2>1. pc[h] = "idle"
    BY <1>6 DEF Begin
  <2>2. ASSUME NEW c \in Calls, NEW t, Admit(h, c, t)
        PROVE  Types'
    <3> DEFINE p == FirstStep(c)
               a == None
               f == {}
    <3>1. /\ pc' = [pc EXCEPT ![h] = p] /\ call' = [call EXCEPT ![h] = c]
          /\ reply' = [reply EXCEPT ![h] = a] /\ found' = [found EXCEPT ![h] = f]
      <4>1. reply[h] = None /\ found[h] = {}
        BY <2>1 DEF Types, TypeOK
      <4> QED  BY <2>2, <4>1 DEF Admit, Inv, Shape, Types
    <3>2. Watch(db')
      BY <2>2 DEF Admit, Watch
    <3>3. /\ p \in ManageSteps \cup NotifySteps \cup {"done"} /\ p # "done"
          /\ c \in Calls \cup {None} /\ c # None /\ a = None /\ a \in Replies \cup {None}
          /\ f = {} /\ f \subseteq ever[h] \cup db'
      BY NoneAssumption DEF FirstStep, ManageSteps, NotifySteps
    <3> HIDE DEF p, a, f
    <3> QED  BY <1>1, <1>2, <3>1, <3>2, <3>3, TypesStep
  <2>3. (\E r \in Replies : Refuse(h, r)) \/ \E c \in Calls : \E t : Admit(h, c, t)
    BY <1>6 DEF Begin, Replies
  <2> QED  BY <1>3, <2>2, <2>3
<1>7. CASE Load(h)
  <2>1. pc[h] \in ManageSteps
    BY <1>7 DEF Load, ManageSteps
  <2>2. \/ \E r \in Replies : Refuse(h, r)
        \/ \E step \in ManageSteps : \E rows \in SUBSET db : Continue(h, step, rows)
    BY <1>7 DEF Load, Replies, ManageSteps
  <2> QED  BY <1>3, <1>4, <2>1, <2>2
<1>8. CASE Check(h)
  <2>1. pc[h] \in ManageSteps
    BY <1>8 DEF Check, ManageSteps
  <2>2. (\E r \in Replies : Refuse(h, r)) \/ Continue(h, "write", found[h])
    BY <1>8 DEF Check, Replies
  <2> QED  BY <1>3, <1>4, <2>1, <2>2 DEF ManageSteps
<1>9. CASE Look(h)
  <2>1. pc[h] \in ManageSteps
    BY <1>9 DEF Look, ManageSteps
  <2>2. \/ \E r \in Replies : Refuse(h, r)
        \/ \E rows \in SUBSET db : Continue(h, "write", rows)
    BY <1>9 DEF Look, Replies
  <2> QED  BY <1>3, <1>4, <2>1, <2>2 DEF ManageSteps
<1>10. CASE Insert(h)
  BY <1>5, <1>10 DEF Insert
<1>11. CASE Update(h)
  <2>1. Refuse(h, "error") \/ \E rows : Commit(h, rows)
    BY <1>11 DEF Update
  <2> QED  BY <1>3, <1>5, <2>1 DEF Replies
<1>12. CASE Delete(h)
  <2>1. \/ Refuse(h, "error")
        \/ \E rows : db' = rows /\ Answer(h, "ok") /\ Watch(rows)
    BY <1>12 DEF Delete
  <2>2. ASSUME NEW rows, db' = rows, Answer(h, "ok"), Watch(rows)
        PROVE  Types'
    <3>1. Watch(db')
      BY <2>2 DEF Watch
    <3> QED  BY <1>1, <1>2, <2>2, <3>1, AnswerTypes DEF Replies
  <2> QED  BY <1>3, <2>1, <2>2 DEF Replies
<1> QED  BY <1>6, <1>7, <1>8, <1>9, <1>10, <1>11, <1>12 DEF Manage

\* POST /notifications: progress counts within one loop and is 0 at its end.
LEMMA NotifyTypes ==
    ASSUME Inv, Types, NEW h \in Requests, Notify(h)
    PROVE  Types'
<1>1. pc[h] \in NotifySteps /\ pc[h] # "done"
  BY DEF Notify, FindKey, FindTemplate, FindRecipients, FindAddresses, Submit, NotifySteps
<1>2. ASSUME NEW r \in Replies, Refuse(h, r), NEW n, progress' = [progress EXCEPT ![h] = n], ~(n > 0)
      PROVE  Types'
  BY <1>1, <1>2, RefuseTypes
<1>3. ASSUME NEW step \in NotifySteps, NEW rows, Continue(h, step, rows),
             rows \subseteq found[h] \cup db,
             NEW n, progress' = [progress EXCEPT ![h] = n], n > 0 => step \in {"templates", "addresses"}
      PROVE  Types'
  BY <1>1, <1>3, ContinueTypes
<1>4. ASSUME pc[h] \notin {"templates", "addresses"}, UNCHANGED progress
      PROVE  progress' = [progress EXCEPT ![h] = progress[h]] /\ ~(progress[h] > 0)
  BY <1>4, ProgressRests
<1>5. CASE FindKey(h)
  <2>1. /\ pc[h] \notin {"templates", "addresses"} /\ UNCHANGED progress
        /\ Refuse(h, "conflict") \/ Continue(h, "templates", {})
    BY <1>5 DEF FindKey
  <2> QED  BY <1>2, <1>3, <1>4, <2>1 DEF Replies, NotifySteps
<1>6. ASSUME NEW rows, rows \subseteq found[h] \cup db, NEW next, NEW i,
             Round(h, i, rows, next), pc[h] \in {"templates", "addresses"},
             next => (\E r \in Replies : Refuse(h, r))
                     \/ \E step \in NotifySteps : Continue(h, step, rows)
      PROVE  Types'
  <2>1. CASE Continue(h, pc[h], rows) /\ progress' = [progress EXCEPT ![h] = i]
    BY <1>1, <1>3, <1>6, <2>1
  <2>2. CASE next /\ progress' = [progress EXCEPT ![h] = 0]
    <3> DEFINE n == 0
    <3>1. progress' = [progress EXCEPT ![h] = n] /\ ~(n > 0)
      BY <2>2
    <3> HIDE DEF n
    <3>2. ASSUME NEW r \in Replies, Refuse(h, r)
          PROVE  Types'
      BY <1>2, <3>1, <3>2
    <3>3. ASSUME NEW step \in NotifySteps, Continue(h, step, rows)
          PROVE  Types'
      BY <1>3, <1>6, <3>1, <3>3
    <3> QED  BY <1>6, <2>2, <3>2, <3>3
  <2> QED  BY <1>6, <2>1, <2>2 DEF Round
<1>7. CASE FindTemplate(h)
  <2> DEFINE found2(i) == found[h] \cup TemplatesFor(h, Channels(h)[i])
             next2(rows) == IF \A ch \in ToSet(Channels(h)) : On(rows, "templates", ch) # {}
                     THEN Continue(h, "recipients", rows) ELSE Refuse(h, "missing")
  <2>1. PICK i \in Ahead(h) : pc[h] = "templates" /\ Round(h, i, found2(i), next2(found2(i)))
    BY <1>7 DEF FindTemplate
  <2> DEFINE rows == found2(i)
             next == next2(rows)
  <2>2. rows \subseteq found[h] \cup db
    BY DEF TemplatesFor
  <2>3. next => Refuse(h, "missing") \/ Continue(h, "recipients", rows)
    OBVIOUS
  <2>4. pc[h] = "templates" /\ Round(h, i, rows, next)
    BY <2>1
  <2> HIDE DEF rows, next
  <2> QED  BY <1>6, <2>2, <2>3, <2>4 DEF Replies, NotifySteps
<1>8. CASE FindRecipients(h)
  <2>1. /\ pc[h] \notin {"templates", "addresses"} /\ UNCHANGED progress
        /\ Refuse(h, "missing") \/ Refuse(h, "invalid") \/ Continue(h, "addresses", found[h])
    BY <1>8 DEF FindRecipients
  <2> QED  BY <1>2, <1>3, <1>4, <2>1 DEF Replies, NotifySteps
<1>9. CASE FindAddresses(h)
  <2> DEFINE found2(i) == found[h] \cup AddressesOn(h, Channels(h)[i])
  <2>1. PICK i \in Ahead(h) :
             pc[h] = "addresses" /\ Round(h, i, found2(i), Continue(h, "submit", found2(i)))
    BY <1>9 DEF FindAddresses
  <2> DEFINE rows == found2(i)
             next == Continue(h, "submit", rows)
  <2>2. rows \subseteq found[h] \cup db
    BY DEF AddressesOn, On
  <2>3. next => Continue(h, "submit", rows)
    OBVIOUS
  <2>4. pc[h] = "addresses" /\ Round(h, i, rows, next)
    BY <2>1
  <2> HIDE DEF rows, next
  <2> QED  BY <1>6, <2>2, <2>3, <2>4 DEF NotifySteps
<1>10. CASE Submit(h)
  <2>1. /\ pc[h] \notin {"templates", "addresses"} /\ UNCHANGED progress
        /\ \/ Refuse(h, "error")
           \/ \E rows : db' = rows /\ Answer(h, "ok") /\ Watch(rows)
    BY <1>10 DEF Submit
  <2>2. ASSUME NEW rows, db' = rows, Answer(h, "ok"), Watch(rows)
        PROVE  Types'
    <3>1. Watch(db')
      BY <2>2 DEF Watch
    <3> QED  BY <1>1, <1>4, <2>1, <2>2, <3>1, AnswerTypes DEF Replies
  <2> QED  BY <1>2, <1>4, <2>1, <2>2 DEF Replies
<1> QED  BY <1>5, <1>7, <1>8, <1>9, <1>10 DEF Notify

\* A request is answered exactly when it is done, what it found was once committed, and the
\* histories say what they should.
THEOREM TypeCorrect == Spec => []TypeOK
<1>1. InitAll => Types
  <2> SUFFICES ASSUME InitAll
               PROVE  Types
    OBVIOUS
  <2> QED  BY NoneAssumption DEF InitAll, Init, Types, TypeOK
<1>2. ASSUME Inv, Types, [Next]_allVars
      PROVE  Types'
  <2>1. ASSUME NEW h \in Requests, Manage(h), UNCHANGED progress
        PROVE  Types'
    BY <1>2, <2>1, ManageTypes
  <2>2. ASSUME NEW h \in Requests, Notify(h)
        PROVE  Types'
    BY <1>2, <2>2, NotifyTypes
  <2>3. CASE UNCHANGED allVars
    BY <1>2, <2>3 DEF allVars, vars, Types, TypeOK, Outline
  <2> QED  BY <1>2, <2>1, <2>2, <2>3 DEF Next
<1>3. Types => TypeOK
  BY DEF Types
<1> QED  BY <1>1, <1>2, <1>3, DirectoryInductive, PTL DEF Spec
=============================================================================
