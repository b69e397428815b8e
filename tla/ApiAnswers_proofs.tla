------------------------- MODULE ApiAnswers_proofs -------------------------
(***************************************************************************)
(* RepliesJustified, ChangesAreAsked, FanoutJustified and FaultsNeedARace  *)
(* for any requests, calls and first rows: what an answer, a changed row,  *)
(* a new fan-out and a 500 say of the time of the request, from what the   *)
(* request recalls of it.                                                  *)
(***************************************************************************)
EXTENDS ApiHistory_proofs

-----------------------------------------------------------------------------
(* Every answer was true at some moment. *)

\* What an answer r to request h says.
Justifies(h, r) ==
    /\ r = "missing" => MissingJustified(h)
    /\ r = "conflict" => ConflictJustified(h)
    /\ r = "invalid" => InvalidJustified(h)
    /\ r = "forbidden" => ForbiddenJustified(h)
    /\ r = "ok" => DoneJustified(h)

\* The answer is the one the handler gives.
LEMMA AnswerIs ==
    ASSUME History, NEW h \in Requests, NEW r, Answer(h, r)
    PROVE  reply'[h] = r /\ pc'[h] = "done"
BY DEF History, Inv, Shape, Types, Answer

\* So it is when nothing is written.
LEMMA RefuseIs ==
    ASSUME History, NEW h \in Requests, NEW r, Refuse(h, r)
    PROVE  reply'[h] = r /\ pc'[h] = "done" /\ db' = db
BY AnswerIs DEF Refuse

\* A step that goes on gives none.
LEMMA ContinueIs ==
    ASSUME History, NEW h \in Requests, NEW step \in ManageSteps \cup NotifySteps, NEW rows,
           Continue(h, step, rows)
    PROVE  pc'[h] # "done"
BY DEF History, Inv, Shape, Continue, ManageSteps, NotifySteps

\* A row that is read was there.
LEMMA ReadDone ==
    ASSUME NEW h, call[h].op \in Reads, Named(h, ever[h]) # {}
    PROVE  DoneJustified(h)
BY DEF DoneJustified, Reads, Updates, Deletes, Creates, Upserts

\* What the call names, if it was always there, is there.
LEMMA NamedNow ==
    ASSUME History, NEW h \in Requests, Named(h, always[h]) # {}
    PROVE  Named(h, db) # {}
<1>1. PICK r \in Named(h, always[h]) : TRUE
  OBVIOUS
<1>2. PICK q \in db : r.id = q.id /\ r.table = q.table /\ r.tenant = q.tenant /\ r.keys = q.keys
  BY <1>1, AlwaysNow DEF History, Named
<1>3. q \in Named(h, db)
  BY <1>1, <1>2 DEF Named, OfCaller
<1> QED  BY <1>3

\* get_by_id looked for the row.
LEMMA LoadJustified ==
    ASSUME History, NEW h \in Requests, Load(h), pc'[h] = "done"
    PROVE  Justifies(h, reply'[h])
<1> DEFINE c == call[h]
           rows == {r \in db : r.id = c.id /\ r.table = Loads[c.op] /\ OfCaller(h, r)}
           ids == {s.id : s \in {x \in always[h] : x.table = Loads[c.op] /\ OfCaller(h, x)}}
<1>1. pc[h] = "load" /\ c.op \in DOMAIN Loads /\ db \subseteq ever[h]
  BY DEF Load, History, RequestsRecall, Recalls
<1>2. \/ rows = {} /\ Refuse(h, "missing")
      \/ c.op \in Reads /\ rows # {} /\ Refuse(h, "ok")
      \/ \E step \in ManageSteps : \E f \in SUBSET db : Continue(h, step, f)
  BY DEF Load, ManageSteps
<1>3. CASE rows = {} /\ Refuse(h, "missing")
  <2>1. c.id \notin ids
    BY <1>3, AlwaysNow DEF History, OfCaller
  <2>2. MissingJustified(h)
    BY <1>1, <2>1 DEF MissingJustified
  <2> HIDE DEF rows
  <2> QED  BY <1>3, <2>2, RefuseIs DEF Justifies
<1>4. CASE c.op \in Reads /\ rows # {} /\ Refuse(h, "ok")
  <2>1. rows \subseteq Named(h, ever[h])
    BY <1>1, <1>4 DEF Named, Reads, Loads, TableOf, Upserts, KeyedReads
  <2> HIDE DEF rows
  <2>2. DoneJustified(h)
    BY <1>4, <2>1, ReadDone
  <2> QED  BY <1>4, <2>2, RefuseIs DEF Justifies
<1> HIDE DEF rows
<1> QED  BY <1>2, <1>3, <1>4, ContinueIs

\* The keys of a row that is not a tenant have no slug, and it has one at most.
LEMMA OneKey ==
    ASSUME NEW r, Sound(r), r.table # "tenants"
    PROVE  \A k, l \in r.keys : k = l /\ DOMAIN k = {1, 2, 3, 4}
                               /\ (r.table # "requests" => k[4] # "slug")
BY DEF Sound, WellKeyed, HasName

\* The key is taken, or there is a platform admin: the conflict check met a row.
LEMMA CheckJustified ==
    ASSUME History, NEW h \in Requests, Check(h), pc'[h] = "done"
    PROVE  Justifies(h, reply'[h])
<1> DEFINE c == call[h]
           wanted == IF c.op = "updateTemplate" THEN UNION {Renamed(r, c.name) : r \in found[h]}
                     ELSE Keys(h)
           clash == IF c.op = "bootstrap" THEN PlatformAdmins(db)
                    ELSE {r \in db : r.id # c.id /\ r.keys \cap wanted # {}}
<1>1. /\ pc[h] = "check" /\ FoundRecall(h) /\ db \subseteq ever[h] /\ found[h] \subseteq ever[h]
      /\ c.op \in Creates \cup {"updateTemplate"}
  BY DEF Check, History, RequestsRecall, Recalls, Types, TypeOK, Inv, RequestsKnow, Knows
<1>2. \/ Continue(h, "write", found[h])
      \/ Refuse(h, "error")
      \/ clash # {} /\ c.op = "bootstrap" /\ Refuse(h, "forbidden")
      \/ clash # {} /\ c.op # "bootstrap" /\ Refuse(h, "conflict")
  BY DEF Check
<1>3. CASE Refuse(h, "error")
  <2>1. reply'[h] = "error"
    BY <1>3, RefuseIs
  <2> QED  BY <2>1 DEF Justifies
<1>4. CASE clash # {} /\ c.op = "bootstrap" /\ Refuse(h, "forbidden")
  <2>1. ForbiddenJustified(h)
    BY <1>1, <1>4 DEF ForbiddenJustified, PlatformAdmins
  <2> HIDE DEF clash
  <2> QED  BY <1>4, <2>1, RefuseIs DEF Justifies
<1>5. CASE clash # {} /\ c.op # "bootstrap" /\ Refuse(h, "conflict")
  <2>1. PICK r \in db : r.id # c.id /\ r.keys \cap wanted # {}
    BY <1>5
  <2>2. r \in ever[h]
    BY <1>1
  <2>3. ASSUME c.op = "updateTemplate"
        PROVE  ConflictJustified(h)
    <3>1. PICK row \in found[h] : r.keys \cap Renamed(row, c.name) # {}
      BY <2>1, <2>3
    <3>2. row.id = c.id /\ row \in ever[h]
      BY <1>1, <2>3 DEF FoundRecall
    <3> HIDE DEF wanted
    <3> QED  BY <2>1, <2>2, <2>3, <3>1, <3>2 DEF ConflictJustified
  <2>4. ASSUME c.op \in Creates
        PROVE  ConflictJustified(h)
    <3>1. r.keys \cap Keys(h) # {}
      BY <2>1, <2>4 DEF Creates
    <3> QED  BY <2>2, <2>4, <3>1 DEF ConflictJustified
  <2> HIDE DEF clash
  <2>5. reply'[h] = "conflict"
    BY <1>5, RefuseIs
  <2> QED  BY <1>1, <2>3, <2>4, <2>5 DEF Justifies
<1> HIDE DEF clash
<1> QED  BY <1>2, <1>3, <1>4, <1>5, ContinueIs DEF ManageSteps

\* The SELECT by the natural key looked for the row.
LEMMA LookJustified ==
    ASSUME History, NEW h \in Requests, Look(h), pc'[h] = "done"
    PROVE  Justifies(h, reply'[h])
<1> DEFINE c == call[h]
           rows == {r \in db : r.keys \cap Keys(h) # {}}
<1>1. pc[h] = "look" /\ c.op \in Upserts \cup KeyedReads /\ db \subseteq ever[h]
  BY DEF Look, History, Inv, RequestsKnow, Knows, RequestsRecall, Recalls
<1>2. \/ rows = {} /\ c.op \notin Upserts /\ Refuse(h, "missing")
      \/ rows # {} /\ c.op \in Reads /\ Refuse(h, "ok")
      \/ Continue(h, "write", rows)
  <2>1. c.op \in Upserts => c.op \notin Reads
    BY DEF Upserts, Reads
  <2> QED  BY <2>1 DEF Look
<1>3. rows = Named(h, db) /\ rows \subseteq Named(h, ever[h])
  BY <1>1 DEF Named
<1> HIDE DEF rows
<1>4. CASE rows = {} /\ c.op \notin Upserts /\ Refuse(h, "missing")
  <2>1. MissingJustified(h)
    BY <1>1, <1>3, <1>4, NamedNow DEF MissingJustified
  <2> QED  BY <1>4, <2>1, RefuseIs DEF Justifies
<1>5. CASE rows # {} /\ c.op \in Reads /\ Refuse(h, "ok")
  <2>1. DoneJustified(h)
    BY <1>3, <1>5, ReadDone
  <2> QED  BY <1>5, <2>1, RefuseIs DEF Justifies
<1> QED  BY <1>2, <1>4, <1>5, ContinueIs DEF ManageSteps

\* A commit is answered with "ok", or nothing is written.
LEMMA CommitIs ==
    ASSUME History, NEW h \in Requests, NEW rows, Commit(h, rows)
    PROVE  \/ reply'[h] = "error"
           \/ reply'[h] = "ok" /\ db' = rows /\ Fits(rows)
BY AnswerIs, RefuseIs DEF Commit

\* The rows a create adds: its own, and addresses that hang on it.
LEMMA NewRowsForm ==
    ASSUME NEW h
    PROVE  \E main \in NewRows(h) :
             LET c == call[h]
             IN  /\ main.id = <<h>> /\ main.table = TableOf[c.op]
                 /\ main.keys = Keys(h) /\ main.value = c.value
                 /\ main.owner = IF c.op \in {"createTenant", "bootstrap"} THEN None
                                 ELSE IF c.op \in {"createUser", "upsertAddress"} THEN c.id
                                 ELSE tenant[h]
                 /\ \A r \in NewRows(h) : r = main \/ \E i \in DOMAIN c.channels :
                      /\ r.id = <<h, i>> /\ r.owner = <<h>>
                      /\ r.keys = {<<"addresses", <<h>>, None, c.channels[i]>>}
                 /\ \A i \in DOMAIN c.channels : \E r \in NewRows(h) :
                      /\ r.table = "addresses" /\ r.id = <<h, i>> /\ r.owner = <<h>> /\ r.value = c.value
                      /\ r.keys = {<<"addresses", <<h>>, None, c.channels[i]>>}
<1> DEFINE c == call[h]
           of == IF c.op = "createTenant" THEN <<h>> ELSE IF c.op = "createUser" THEN c.id ELSE tenant[h]
           owner == IF c.op \in {"createTenant", "bootstrap"} THEN None
                    ELSE IF c.op \in {"createUser", "upsertAddress"} THEN c.id ELSE tenant[h]
           main == Row(<<h>>, TableOf[c.op], of, owner, Keys(h), c.value)
           address(i) == Row(<<h, i>>, "addresses", tenant[h], <<h>>,
                             {<<"addresses", <<h>>, None, c.channels[i]>>}, c.value)
<1>1. NewRows(h) = {main} \cup {address(i) : i \in DOMAIN c.channels}
  BY DEF NewRows
<1>2. /\ main.id = <<h>> /\ main.table = TableOf[c.op] /\ main.owner = owner
      /\ main.keys = Keys(h) /\ main.value = c.value
  BY DEF Row
<1>3. \A i \in DOMAIN c.channels :
        /\ address(i).id = <<h, i>> /\ address(i).owner = <<h>>
        /\ address(i).table = "addresses" /\ address(i).value = c.value
        /\ address(i).keys = {<<"addresses", <<h>>, None, c.channels[i]>>}
  BY DEF Row
<1> HIDE DEF main, address
<1> QED  BY <1>1, <1>2, <1>3

\* What was created is there with what the call says, and was not there before.
LEMMA InsertJustified ==
    ASSUME History, NEW h \in Requests, Insert(h)
    PROVE  Justifies(h, reply'[h])
<1> DEFINE c == call[h]
           new == db' \ db
<1>1. /\ pc[h] = "write" /\ c.op \in Creates \cup Upserts /\ WriteRecall(h)
      /\ Commit(h, db \cup NewRows(h))
  BY DEF Insert, History, RequestsRecall, Recalls
<1>2. c.op \notin Reads \cup Updates \cup Deletes
  BY <1>1 DEF Creates, Upserts, Reads, Updates, Deletes
<1>3. PICK main \in NewRows(h) :
        /\ main.id = <<h>> /\ main.table = TableOf[c.op]
        /\ main.keys = Keys(h) /\ main.value = c.value
        /\ \A i \in DOMAIN c.channels : \E r \in NewRows(h) :
             /\ r.table = "addresses" /\ r.id = <<h, i>> /\ r.owner = <<h>> /\ r.value = c.value
             /\ r.keys = {<<"addresses", <<h>>, None, c.channels[i]>>}
  BY NewRowsForm
<1>4. CASE reply'[h] = "error"
  BY <1>4 DEF Justifies
<1>5. CASE reply'[h] = "ok" /\ db' = db \cup NewRows(h)
  <2>1. \A r \in db : ~From(r.id, h)
    BY <1>1 DEF History, Inv, DirectoryOK, Taken
  <2>2. main \in new
    BY <1>3, <1>5, <2>1 DEF From
  <2>3. ASSUME NEW ch \in ToSet(c.channels)
        PROVE  \E s \in On(new, "addresses", ch) : s.owner = main.id /\ s.value = c.value
    <3>1. PICK i \in DOMAIN c.channels : ch = c.channels[i]
      BY DEF ToSet
    <3>2. PICK s \in NewRows(h) :
            /\ s.table = "addresses" /\ s.id = <<h, i>> /\ s.owner = <<h>> /\ s.value = c.value
            /\ s.keys = {<<"addresses", <<h>>, None, ch>>}
      BY <1>3, <3>1
    <3>3. From(s.id, h)
      <4>1. c \in Calls
        BY <1>1 DEF History, Inv, RequestsKnow, Knows, CallerKnown, ManageSteps
      <4> QED  BY <3>2, <4>1 DEF From
    <3>4. s \in new
      BY <1>5, <2>1, <3>3
    <3>5. <<"addresses", <<h>>, None, ch>>[4] = ch
      OBVIOUS
    <3> HIDE DEF new
    <3>6. s \in On(new, "addresses", ch)
      BY <3>2, <3>4, <3>5 DEF On
    <3> QED  BY <1>3, <3>2, <3>6
  <2>4. c.op \in Upserts => main \in Named(h, db')
    <3>1. Keys(h) # {}
      BY DEF Keys
    <3> QED  BY <1>3, <2>2, <3>1 DEF Named
  <2>5. c.op = "bootstrap" => PlatformAdmins(always[h]) = {}
    BY <1>1 DEF WriteRecall
  <2>6. c.op \in Upserts => \E r \in Named(h, ever[h] \cup db') : r.value = c.value
    BY <1>3, <2>4 DEF Named
  <2>7. DoneJustified(h)
    BY <1>2, <1>3, <2>2, <2>3, <2>5, <2>6 DEF DoneJustified
  <2> QED  BY <1>5, <2>7 DEF Justifies
<1> QED  BY <1>1, <1>4, <1>5, CommitIs

\* The row that is written is the one that the call names, in the database too.
LEMMA WritesNamed ==
    ASSUME History, NEW h \in Requests, pc[h] = "write",
           call[h].op \in Updates \cup Upserts \cup Deletes,
           NEW row \in found[h], row.table = TableOf[call[h].op]
    PROVE  /\ row \in ever[h] /\ row \in Named(h, ever[h])
           /\ \A r \in db : r.id = row.id => Same(r, row) /\ r \in Named(h, db)
<1> DEFINE c == call[h]
<1>1. FoundRecall(h) /\ FoundKnown(h) /\ row \in ever[h]
  BY DEF History, RequestsRecall, Recalls, Inv, RequestsKnow, Knows, Types, TypeOK
<1>2. \A r \in db : r.id = row.id => Same(r, row)
  BY <1>1 DEF FoundKnown
<1>3. CASE c.op \in Upserts \cup KeyedReads
  <2>1. row.table \in {"addresses", "configs"}
    BY <1>3 DEF Upserts, KeyedReads, TableOf
  <2>2. row.keys \cap Keys(h) # {}
    BY <1>1, <1>3 DEF FoundRecall
  <2> QED  BY <1>1, <1>2, <1>3, <2>1, <2>2 DEF Same, Named
<1>4. CASE c.op \notin Upserts \cup KeyedReads
  <2>1. c.op \in LoadedOps
    BY <1>4 DEF LoadedOps, Updates, Deletes, KeyedReads
  <2>2. row.id = c.id /\ OfCaller(h, row)
    BY <1>1, <2>1 DEF FoundRecall, FoundKnown, OfCaller
  <2> QED  BY <1>1, <1>2, <1>4, <2>2 DEF Same, Named, OfCaller
<1> QED  BY <1>3, <1>4

\* What a row has that was updated.
LEMMA UpdateForm ==
    ASSUME History, NEW h \in Requests, Update(h), reply'[h] = "ok"
    PROVE  \E row \in found[h] :
             LET c == call[h]
                 keys == IF c.name = None THEN row.keys ELSE Renamed(row, c.name)
                 value == IF c.value = None THEN row.value ELSE c.value
             IN  /\ row.table = TableOf[c.op] /\ Sound(row) /\ row \in ever[h]
                 /\ \/ keys = row.keys /\ value = row.value
                    \/ \E s \in db' :
                         /\ s.id = row.id
                         /\ keys # row.keys => s.keys = keys
                         /\ value # row.value => s.value = value
                         /\ \E r \in db : Same(r, row) /\ s.keys \in {keys, r.keys}
<1> DEFINE c == call[h]
           keysOf(row) == IF c.name = None THEN row.keys ELSE Renamed(row, c.name)
           valueOf(row) == IF c.value = None THEN row.value ELSE c.value
           rowsOf(row) == {Written(r, row, keysOf(row), valueOf(row)) : r \in db}
<1>1. PICK row \in found[h] :
        /\ row.table = TableOf[c.op]
        /\ IF Vanished(h, row, keysOf(row) # row.keys \/ valueOf(row) # row.value) THEN Refuse(h, "error")
           ELSE Commit(h, rowsOf(row))
  BY DEF Update
<1> DEFINE keys == keysOf(row)
           value == valueOf(row)
           rows == rowsOf(row)
<1>2. /\ ~ Vanished(h, row, keys # row.keys \/ value # row.value) /\ db' = rows
  BY <1>1, CommitIs, RefuseIs
<1>3. Sound(row) /\ row \in ever[h] /\ \A r \in db : r.id = row.id => Same(r, row)
  BY DEF Update, History, Types, TypeOK, Inv, RequestsKnow, Knows, FoundKnown
<1>4. ASSUME ~(keys = row.keys /\ value = row.value)
      PROVE  \E s \in db' :
               /\ s.id = row.id
               /\ keys # row.keys => s.keys = keys
               /\ value # row.value => s.value = value
               /\ \E r \in db : Same(r, row) /\ s.keys \in {keys, r.keys}
  <2>1. PICK r \in db : r.id = row.id
    BY <1>2, <1>4 DEF Vanished
  <2> DEFINE s == Written(r, row, keys, value)
  <2>2. DOMAIN r = Fields
    BY DEF History, Inv, DirectoryOK, RowsOK, Sound
  <2>3. s \in db'
    BY <1>2
  <2> HIDE DEF keys, value, rows
  <2>4. /\ s.id = r.id
        /\ s.keys = IF r.id = row.id /\ keys # row.keys THEN keys ELSE r.keys
        /\ s.value = IF r.id = row.id /\ value # row.value THEN value ELSE r.value
    BY <2>2, WrittenForm
  <2> HIDE DEF s
  <2> QED  BY <1>3, <2>1, <2>3, <2>4
<1> QED  BY <1>1, <1>3, <1>4

\* Every column that an update gives stands in the database, or stood there before.
LEMMA UpdateJustified ==
    ASSUME History, NEW h \in Requests, Update(h)
    PROVE  Justifies(h, reply'[h])
<1> DEFINE c == call[h]
           stood == ever[h] \cup db'
<1>1. /\ pc[h] = "write" /\ FoundRecall(h) /\ c \in Calls /\ c.op \in Updates \cup Upserts
  BY DEF Update, History, RequestsRecall, Recalls, Inv, RequestsKnow, Knows, CallerKnown, ManageSteps
<1>2. reply'[h] \in {"ok", "error"}
  BY CommitIs, RefuseIs DEF Update
<1>3. CASE reply'[h] = "error"
  BY <1>3 DEF Justifies
<1>4. CASE reply'[h] = "ok"
  <2>1. PICK row \in found[h] :
          LET keys == IF c.name = None THEN row.keys ELSE Renamed(row, c.name)
              value == IF c.value = None THEN row.value ELSE c.value
          IN  /\ row.table = TableOf[c.op] /\ Sound(row) /\ row \in ever[h]
              /\ \/ keys = row.keys /\ value = row.value
                 \/ \E s \in db' :
                      /\ s.id = row.id
                      /\ keys # row.keys => s.keys = keys
                      /\ value # row.value => s.value = value
                      /\ \E r \in db : Same(r, row) /\ s.keys \in {keys, r.keys}
    BY <1>4, UpdateForm
  <2>2. row \in Named(h, ever[h])
    BY <1>1, <2>1, WritesNamed
  <2>3. ASSUME c.op \in Upserts
        PROVE  \E r \in Named(h, stood) : r.value = c.value
    <3>1. c.name = None /\ c.value # None /\ row.table \in {"addresses", "configs"}
      BY <1>1, <2>1, <2>3, CallsAssumption DEF Upserts, TableOf
    <3>2. row.keys \cap Keys(h) # {}
      BY <1>1, <2>3 DEF FoundRecall
    <3>3. \E r \in stood : r.value = c.value /\ r.keys = row.keys
      BY <2>1, <3>1 DEF Same
    <3> QED  BY <2>3, <3>2, <3>3 DEF Named
  <2>4. ASSUME c.op \in Updates
        PROVE  row.id = c.id /\ row.table # "requests"
    <3>1. c.op \in LoadedOps /\ TableOf[c.op] # "requests"
      BY <2>4 DEF Updates, LoadedOps, TableOf
    <3> QED  BY <1>1, <2>1, <3>1 DEF FoundRecall
  <2>5. ASSUME c.op \in Updates, c.name # None
        PROVE  \E r \in stood : r.id = c.id /\ \E k \in r.keys : k[3] = c.name /\ k[4] # "slug"
    <3>1. \E k \in Renamed(row, c.name) : k[3] = c.name /\ k[4] # "slug"
      <4>1. PICK l \in row.keys : l[4] # "slug" /\ DOMAIN l = {1, 2, 3, 4}
        BY <2>1, <2>4, <2>5 DEF Sound, HasName, WellKeyed
      <4> DEFINE k == [l EXCEPT ![3] = c.name]
      <4>2. k \in Renamed(row, c.name)
        BY <4>1 DEF Renamed
      <4>3. k[3] = c.name /\ k[4] = l[4]
        BY <4>1
      <4> HIDE DEF k
      <4> QED  BY <4>1, <4>2, <4>3
    <3>2. \E r \in stood : r.id = c.id /\ r.keys = Renamed(row, c.name)
      BY <2>1, <2>4, <2>5
    <3> QED  BY <3>1, <3>2
  <2>6. ASSUME c.op \in Updates, c.value # None
        PROVE  \E r \in stood : r.id = c.id /\ r.value = c.value
    BY <2>1, <2>4, <2>6
  <2>7. c.op \notin Reads \cup Deletes \cup Creates
    BY <1>1 DEF Updates, Upserts, Reads, Deletes, Creates
  <2>8. DoneJustified(h)
    <3>1. c.op # "bootstrap"
      BY <2>7 DEF Creates
    <3> QED  BY <2>2, <2>3, <2>5, <2>6, <2>7, <3>1 DEF DoneJustified
  <2> QED  BY <1>4, <2>8 DEF Justifies
<1> QED  BY <1>2, <1>3, <1>4

\* What was deleted was there and is gone, with what hung on it.
LEMMA DeleteJustified ==
    ASSUME History, NEW h \in Requests, Delete(h)
    PROVE  Justifies(h, reply'[h])
<1> DEFINE c == call[h]
<1>1. pc[h] = "write" /\ c.op \in Deletes
  BY DEF Delete
<1>2. PICK row \in found[h] :
        /\ row.table = TableOf[c.op]
        /\ \/ Refuse(h, "error")
           \/ db' = {r \in db : row.id \notin {r.id, r.owner}} /\ Answer(h, "ok")
  BY DEF Delete
<1>3. reply'[h] = "error" \/ (reply'[h] = "ok" /\ \A s \in db' : row.id \notin {s.id, s.owner})
  BY <1>2, AnswerIs, RefuseIs
<1>4. row \in Named(h, ever[h])
  BY <1>1, <1>2, WritesNamed
<1>5. c.op \notin Creates \cup Upserts \cup Updates /\ c.op # "bootstrap"
  BY <1>1 DEF Deletes, Creates, Upserts, Updates
<1>6. (\A s \in db' : row.id \notin {s.id, s.owner}) => DoneJustified(h)
  BY <1>4, <1>5 DEF DoneJustified
<1> QED  BY <1>3, <1>6 DEF Justifies

\* Of each kind that is mentioned, a position is the first.
LEMMA FirstMention ==
    ASSUME NEW s, DOMAIN s \subseteq Nat
    PROVE  ToSet(Distinct(s)) = ToSet(s)
<1> DEFINE R == OpToRel(<, Nat)
<1>1. IsWellFoundedOn(R, Nat) /\ \A i, j \in Nat : j < i => <<j, i>> \in R
  BY NatLessThanWellFounded DEF OpToRel
<1> HIDE DEF R
<1>2. ASSUME NEW x \in ToSet(s)
      PROVE  \E i \in First(s) : s[i] = x
  <2> DEFINE S == {i \in DOMAIN s : s[i] = x}
  <2>1. S \subseteq Nat /\ S # {}
    BY <1>2 DEF ToSet
  <2> HIDE DEF S
  <2>2. PICK i \in S : \A j \in S : <<j, i>> \notin R
    BY <1>1, <2>1, WFMin
  <2>3. ASSUME NEW j \in S
        PROVE  i <= j
    <3>1. i \in Nat /\ j \in Nat
      BY <2>1
    <3>2. ~ (j < i)
      BY <1>1, <2>2, <3>1
    <3> QED  BY <3>1, <3>2
  <2> QED  BY <2>2, <2>3 DEF S, First
<1>3. ToSet(Distinct(s)) \subseteq ToSet(s)
  BY DEF ToSet, Distinct, Restrict, First
<1>4. \A i \in First(s) : s[i] \in ToSet(Distinct(s))
  BY DEF ToSet, Distinct, Restrict
<1> QED  BY <1>2, <1>3, <1>4

\* What is looked for is what the call mentions.
LEMMA AskedFor ==
    ASSUME History, NEW h \in Requests, pc[h] \in NotifySteps
    PROVE  /\ call[h] \in Calls /\ call[h].op = "notify" /\ tenant[h] # None
           /\ ToSet(Channels(h)) = ToSet(call[h].channels)
           /\ ToSet(Recipients(h)) = ToSet(call[h].recipients)
<1>1. call[h] \in Calls /\ call[h].op = "notify" /\ tenant[h] # None
  BY DEF History, Inv, RequestsKnow, Knows, CallerKnown, NotifySteps, PlatformOps
<1>2. \A s \in {call[h].channels, call[h].recipients} : DOMAIN s \subseteq Nat
  BY <1>1, CallsAssumption
<1> QED  BY <1>1, <1>2, FirstMention DEF Channels, Recipients

\* An idempotency key that is reported taken was taken.
LEMMA FindKeyJustified ==
    ASSUME History, NEW h \in Requests, FindKey(h), pc'[h] = "done"
    PROVE  Justifies(h, reply'[h])
<1>1. pc[h] = "key" /\ pc[h] \in NotifySteps /\ call[h].op = "notify" /\ db \subseteq ever[h]
  BY AskedFor DEF FindKey, NotifySteps, History, RequestsRecall, Recalls
<1>2. /\ Refuse(h, "conflict")
      /\ \E r \in db : r.keys \cap RequestKeys(h) # {}
  <2>1. ~ Continue(h, "templates", {})
    BY ContinueIs DEF NotifySteps
  <2> QED  BY <2>1 DEF FindKey
<1>3. reply'[h] = "conflict"
  BY <1>2, RefuseIs
<1>4. ConflictJustified(h)
  BY <1>1, <1>2 DEF ConflictJustified
<1> QED  BY <1>3, <1>4 DEF Justifies

\* A template is reported missing: on some channel there was not always one.
LEMMA FindTemplateJustified ==
    ASSUME History, NEW h \in Requests, FindTemplate(h), pc'[h] = "done"
    PROVE  Justifies(h, reply'[h])
<1>1. /\ pc[h] = "templates" /\ pc[h] \in NotifySteps /\ call[h].op = "notify"
      /\ NotifyRecall(h) /\ progress[h] \in Nat
      /\ ToSet(Channels(h)) = ToSet(call[h].channels)
  BY AskedFor DEF FindTemplate, NotifySteps, History, RequestsRecall, Recalls
<1>2. PICK i \in Ahead(h) :
        LET rows == found[h] \cup TemplatesFor(h, Channels(h)[i])
        IN  \/ \E step \in NotifySteps : Continue(h, step, rows)
            \/ /\ Ahead(h) = {i} /\ Refuse(h, "missing")
               /\ \E ch \in ToSet(Channels(h)) : On(rows, "templates", ch) = {}
  BY <1>1 DEF FindTemplate, Round, NotifySteps
<1> DEFINE rows == found[h] \cup TemplatesFor(h, Channels(h)[i])
<1>3. /\ Ahead(h) = {i} /\ Refuse(h, "missing")
      /\ \E ch \in ToSet(Channels(h)) : On(rows, "templates", ch) = {}
  <2>1. \/ \E step \in NotifySteps : Continue(h, step, rows)
        \/ /\ Ahead(h) = {i} /\ Refuse(h, "missing")
           /\ \E ch \in ToSet(Channels(h)) : On(rows, "templates", ch) = {}
    BY <1>2
  <2> HIDE DEF rows
  <2> QED  BY <2>1, ContinueIs
<1>4. PICK j \in DOMAIN Channels(h) : On(rows, "templates", Channels(h)[j]) = {}
  BY <1>3 DEF ToSet
<1>5. TemplateMissed(h, Channels(h)[j])
  <2>1. CASE j <= progress[h]
    <3>1. On(found[h], "templates", Channels(h)[j]) = {}
      BY <1>4 DEF On
    <3> QED  BY <1>1, <2>1, <3>1 DEF NotifyRecall
  <2>2. CASE ~(j <= progress[h])
    <3>1. j \in Nat
      BY <1>1, PositionsForm DEF History
    <3>2. j = i
      BY <1>1, <1>3, <2>2, <3>1 DEF Ahead
    <3>3. On(TemplatesFor(h, Channels(h)[j]), "templates", Channels(h)[j]) = {}
      BY <1>4, <3>2 DEF On
    <3> QED  BY <3>3, TemplateLooked DEF History
  <2> QED  BY <2>1, <2>2
<1>6. reply'[h] = "missing" /\ Channels(h)[j] \in ToSet(call[h].channels)
  BY <1>1, <1>3, <1>4, RefuseIs DEF ToSet
<1>7. MissingJustified(h)
  BY <1>1, <1>5, <1>6 DEF MissingJustified, TemplateMissed
<1> QED  BY <1>6, <1>7 DEF Justifies

\* A recipient is reported missing, who was not there all the time, or a variable that an
\* active template wanted.
LEMMA FindRecipientsJustified ==
    ASSUME History, NEW h \in Requests, FindRecipients(h), pc'[h] = "done"
    PROVE  Justifies(h, reply'[h])
<1> DEFINE known == {r.id : r \in {x \in db : x.table = "recipients" /\ x.tenant = tenant[h]}}
           ids == {s.id : s \in {x \in always[h] : x.table = "recipients" /\ OfCaller(h, x)}}
<1>1. /\ pc[h] = "recipients" /\ pc[h] \in NotifySteps
      /\ call[h].op = "notify" /\ tenant[h] # None
      /\ ToSet(Recipients(h)) = ToSet(call[h].recipients)
      /\ ToSet(Channels(h)) = ToSet(call[h].channels)
  BY AskedFor DEF FindRecipients, NotifySteps
<1>2. NotifyRecall(h) /\ found[h] \subseteq ever[h]
  BY <1>1 DEF History, RequestsRecall, Recalls, Types, TypeOK
<1>3. \/ Refuse(h, "missing") /\ ~ ToSet(Recipients(h)) \subseteq known
      \/ Refuse(h, "invalid") /\ \E t \in found[h] : ~ t.value \subseteq call[h].given
      \/ Continue(h, "addresses", found[h])
  BY DEF FindRecipients
<1>4. CASE Refuse(h, "missing") /\ ~ ToSet(Recipients(h)) \subseteq known
  <2>1. ids \subseteq known
    BY <1>1, AlwaysNow DEF History, OfCaller
  <2> HIDE DEF known
  <2>2. ~ ToSet(call[h].recipients) \subseteq ids
    BY <1>1, <1>4, <2>1
  <2>3. MissingJustified(h)
    BY <1>1, <2>2 DEF MissingJustified
  <2> QED  BY <1>4, <2>3, RefuseIs DEF Justifies
<1>5. CASE Refuse(h, "invalid") /\ \E t \in found[h] : ~ t.value \subseteq call[h].given
  <2>1. PICK t \in found[h] : ~ t.value \subseteq call[h].given
    BY <1>5
  <2>2. t \in ever[h] /\ ActiveTemplate(h, t)
    BY <1>1, <1>2 DEF NotifyRecall
  <2>3. PICK ch \in ToSet(call[h].channels) :
          <<"templates", tenant[h], call[h].name, ch>> \in t.keys
    BY <1>1, <2>2 DEF ActiveTemplate
  <2>4. InvalidJustified(h)
    BY <1>1, <2>1, <2>2, <2>3 DEF InvalidJustified, ActiveTemplate
  <2>5. reply'[h] = "invalid"
    BY <1>5, RefuseIs
  <2> QED  BY <2>4, <2>5 DEF Justifies
<1> HIDE DEF known
<1> QED  BY <1>3, <1>4, <1>5, ContinueIs DEF NotifySteps

\* The loop over the addresses answers nothing, and a new request is not an answer that says
\* more than its fan-out.
LEMMA SubmitJustified ==
    ASSUME History, NEW h \in Requests, FindAddresses(h) \/ Submit(h), pc'[h] = "done"
    PROVE  Justifies(h, reply'[h])
<1>1. CASE FindAddresses(h)
  <2>1. PICK i \in Ahead(h) : LET rows == found[h] \cup AddressesOn(h, Channels(h)[i])
                              IN  Continue(h, "addresses", rows) \/ Continue(h, "submit", rows)
    BY <1>1 DEF FindAddresses, Round
  <2> DEFINE rows == found[h] \cup AddressesOn(h, Channels(h)[i])
  <2>2. Continue(h, "addresses", rows) \/ Continue(h, "submit", rows)
    BY <2>1
  <2> HIDE DEF rows
  <2> QED  BY <2>2, ContinueIs DEF NotifySteps
<1>2. CASE Submit(h)
  <2>1. call[h].op = "notify"
    <3>1. pc[h] \in NotifySteps
      BY <1>2 DEF Submit, NotifySteps
    <3> QED  BY <3>1, AskedFor
  <2>2. reply'[h] \in {"ok", "error"}
    BY <1>2, AnswerIs, RefuseIs DEF Submit
  <2>3. DoneJustified(h)
    BY <2>1 DEF DoneJustified, Reads, Updates, Deletes, Creates, Upserts
  <2> QED  BY <2>2, <2>3 DEF Justifies
<1> QED  BY <1>1, <1>2

\* Only the request that takes the step is answered.
LEMMA OnlyAnswered ==
    ASSUME History, NEW h \in Requests, pc[h] # "done", pc'[h] = "done", Next
    PROVE  (Manage(h) /\ UNCHANGED progress) \/ Notify(h)
<1>1. PICK g \in Requests : (Manage(g) /\ UNCHANGED progress) \/ Notify(g)
  BY DEF Next
<1>2. OnlyMoves(g)
  BY <1>1, StepMoves DEF History
<1> QED  BY <1>1, <1>2 DEF OnlyMoves

\* Every 404, 409, 422, bootstrap 403 and 2xx was true at some moment of the request.
THEOREM RepliesJustifiedAlways == Spec => RepliesJustified
<1> DEFINE A == \A h \in Requests :
         /\ Answered(h, "missing") => MissingJustified(h)
         /\ Answered(h, "conflict") => ConflictJustified(h)
         /\ Answered(h, "invalid") => InvalidJustified(h)
         /\ Answered(h, "forbidden") => ForbiddenJustified(h)
         /\ Answered(h, "ok") => DoneJustified(h)
<1>1. ASSUME History, Next, NEW h \in Requests, pc[h] \notin {"idle", "done"}, pc'[h] = "done"
      PROVE  Justifies(h, reply'[h])
  <2>1. (Manage(h) /\ UNCHANGED progress) \/ Notify(h)
    BY <1>1, OnlyAnswered
  <2>2. ~ Begin(h)
    BY <1>1 DEF Begin
  <2> QED  BY <1>1, <2>1, <2>2, LoadJustified, CheckJustified, LookJustified, InsertJustified,
              UpdateJustified, DeleteJustified, FindKeyJustified, FindTemplateJustified,
              FindRecipientsJustified, SubmitJustified DEF Manage, Notify
<1>2. ASSUME History, Next
      PROVE  A
  BY <1>1, <1>2 DEF Answered, Justifies
<1>3. ASSUME History, [Next]_allVars
      PROVE  [A]_allVars
  BY <1>2, <1>3
<1> QED  BY <1>3, HistoryInductive, PTL DEF Spec, RepliesJustified

-----------------------------------------------------------------------------
(* Nobody's write is undone. *)

\* An update changes the columns that the call gives, in the row as it is.
LEMMA UpdateAsked ==
    ASSUME History, NEW h \in Requests, Update(h), NEW r \in db \ db'
    PROVE  LET c == call[h]
               after == {s \in db' : s.id = r.id}
           IN  /\ Answered(h, "ok") /\ c.op \in Updates \cup Upserts
               /\ after # {} /\ r \in Named(h, db)
               /\ \A s \in after :
                    /\ s.keys = r.keys \/ (c.name # None /\ s.keys = Renamed(r, c.name))
                    /\ s.value = r.value \/ (c.value # None /\ s.value = c.value)
<1> DEFINE c == call[h]
           keysOf(row) == IF c.name = None THEN row.keys ELSE Renamed(row, c.name)
           valueOf(row) == IF c.value = None THEN row.value ELSE c.value
           rowsOf(row) == {Written(q, row, keysOf(row), valueOf(row)) : q \in db}
<1>1. pc[h] = "write" /\ c.op \in Updates \cup Upserts
  BY DEF Update
<1>2. PICK row \in found[h] :
        /\ row.table = TableOf[c.op]
        /\ Refuse(h, "error") \/ Commit(h, rowsOf(row))
  BY DEF Update
<1> DEFINE keys == keysOf(row)
           value == valueOf(row)
           rows == rowsOf(row)
<1>3. db' = rows /\ Answer(h, "ok")
  <2> HIDE DEF rowsOf
  <2>1. ~ Refuse(h, "error")
    BY RefuseIs
  <2> QED  BY <1>2, <2>1 DEF Commit
<1>4. /\ \A q \in db : DOMAIN q = Fields /\ Sound(q)
      /\ \A p, q \in db : p.id = q.id => p = q
  BY DEF History, Inv, DirectoryOK, RowsOK, Sound
<1> HIDE DEF keys, value
<1>5. ASSUME NEW q \in db
      PROVE  LET w == Written(q, row, keys, value)
             IN  /\ w \in db' /\ w.id = q.id /\ (q.id # row.id => w = q)
                 /\ w.keys = IF q.id = row.id /\ keys # row.keys THEN keys ELSE q.keys
                 /\ w.value = IF q.id = row.id /\ value # row.value THEN value ELSE q.value
  <2>1. Written(q, row, keys, value) \in db'
    BY <1>3 DEF keys, value
  <2>2. q.id # row.id => Written(q, row, keys, value) = q
    BY DEF Written
  <2> QED  BY <1>4, <2>1, <2>2, WrittenForm
<1>6. r.id = row.id
  BY <1>5
<1>7. Same(r, row) /\ r \in Named(h, db) /\ Sound(row)
  <2>1. FoundKnown(h)
    BY <1>1 DEF History, Inv, RequestsKnow, Knows
  <2> QED  BY <1>1, <1>2, <1>6, <2>1, WritesNamed DEF FoundKnown
<1>8. keys = row.keys \/ (c.name # None /\ keys = Renamed(r, c.name))
  <2>1. \A name : Renamed(r, name) = Renamed(row, name)
    BY <1>4, <1>7, RenamedAlike DEF Same, Sound, WellKeyed
  <2> QED  BY <2>1 DEF keys
<1>9. value = row.value \/ (c.value # None /\ value = c.value)
  BY DEF value
<1>10. ASSUME NEW s \in db', s.id = r.id
       PROVE  /\ s.keys = r.keys \/ (c.name # None /\ s.keys = Renamed(r, c.name))
              /\ s.value = r.value \/ (c.value # None /\ s.value = c.value)
  <2>1. PICK q \in db : s = Written(q, row, keys, value)
    BY <1>3 DEF keys, value
  <2>2. q = r
    BY <1>4, <1>5, <1>10, <2>1
  <2> QED  BY <1>5, <1>8, <1>9, <2>1, <2>2
<1>11. {s \in db' : s.id = r.id} # {}
  BY <1>5
<1>12. Answered(h, "ok")
  BY <1>1, <1>3, AnswerIs DEF Answered
<1> QED  BY <1>1, <1>7, <1>10, <1>11, <1>12

\* A delete takes along what hangs on the row that it names.
LEMMA DeleteAsked ==
    ASSUME History, NEW h \in Requests, Delete(h), NEW r \in db \ db'
    PROVE  /\ Answered(h, "ok") /\ call[h].op \in Deletes
           /\ {s \in db' : s.id = r.id} = {}
           /\ \E o \in Named(h, db) : o.id \in {r.id, r.owner}
<1>1. pc[h] = "write" /\ call[h].op \in Deletes
  BY DEF Delete
<1>2. PICK row \in found[h] :
        /\ row.table = TableOf[call[h].op]
        /\ \/ Refuse(h, "error")
           \/ db' = {q \in db : row.id \notin {q.id, q.owner}} /\ Answer(h, "ok")
  BY DEF Delete
<1>3. db' = {q \in db : row.id \notin {q.id, q.owner}} /\ Answer(h, "ok")
  BY <1>2, RefuseIs
<1>4. row.id \in {r.id, r.owner}
  BY <1>3
<1>5. {s \in db' : s.id = r.id} = {}
  <2>1. \A s \in db : s.id = r.id => s = r
    BY DEF History, Inv, DirectoryOK, RowsOK
  <2> QED  BY <1>3, <2>1
<1>6. PICK o \in db : o.id = row.id
  <2>1. row.id # None
    BY <1>1 DEF History, Inv, RequestsKnow, Knows, FoundKnown, Sound
  <2>2. WellOwned(r, db)
    BY DEF History, Inv, DirectoryOK, RowsOK
  <2> QED  BY <1>4, <2>1, <2>2 DEF WellOwned
<1>7. o \in Named(h, db)
  BY <1>1, <1>2, <1>6, WritesNamed
<1>8. Answered(h, "ok")
  BY <1>1, <1>3, AnswerIs DEF Answered
<1> QED  BY <1>1, <1>4, <1>5, <1>6, <1>7, <1>8

\* The other steps take no row away.
LEMMA OthersTakeNothing ==
    ASSUME History, NEW h \in Requests, Manage(h) \/ Notify(h), ~ Update(h), ~ Delete(h)
    PROVE  db \subseteq db'
<1>1. CASE Begin(h) \/ Load(h) \/ Check(h) \/ Look(h) \/ FindKey(h) \/ FindRecipients(h)
  BY <1>1 DEF Begin, Load, Check, Look, FindKey, FindRecipients, Admit, Continue, Refuse
<1>2. CASE FindTemplate(h) \/ FindAddresses(h)
  BY <1>2 DEF FindTemplate, FindAddresses, Round, Continue, Refuse
<1>3. CASE Insert(h)
  BY <1>3 DEF Insert, Commit, Refuse
<1>4. CASE Submit(h)
  BY <1>4 DEF Submit, Refuse
<1> QED  BY <1>1, <1>2, <1>3, <1>4 DEF Manage, Notify

\* A row changes only as a call asks that names it, whatever was committed between the load of
\* the row and the write: no write is undone, and nothing vanishes that nobody deleted.
THEOREM ChangesAreAskedAlways == Spec => ChangesAreAsked
<1> DEFINE A == \A r \in db \ db' : \E h \in Requests :
         LET c == call[h]
             after == {s \in db' : s.id = r.id}
         IN  /\ Answered(h, "ok")
             /\ \/ /\ after = {} /\ c.op \in Deletes
                   /\ \E o \in Named(h, db) : o.id \in {r.id, r.owner}
                \/ /\ after # {} /\ c.op \in Updates \cup Upserts /\ r \in Named(h, db)
                   /\ \A s \in after :
                        /\ s.keys = r.keys \/ (c.name # None /\ s.keys = Renamed(r, c.name))
                        /\ s.value = r.value \/ (c.value # None /\ s.value = c.value)
<1>1. ASSUME History, Next
      PROVE  A
  <2>1. PICK h \in Requests : Manage(h) \/ Notify(h)
    BY <1>1 DEF Next
  <2>2. CASE Update(h)
    BY <1>1, <2>2, UpdateAsked
  <2>3. CASE Delete(h)
    BY <1>1, <2>3, DeleteAsked
  <2>4. CASE ~ Update(h) /\ ~ Delete(h)
    BY <1>1, <2>1, <2>4, OthersTakeNothing
  <2> QED  BY <2>2, <2>3, <2>4
<1>2. ASSUME History, [Next]_allVars
      PROVE  [A]_allVars
  BY <1>1, <1>2 DEF allVars, vars
<1> QED  BY <1>2, HistoryInductive, PTL DEF Spec, ChangesAreAsked

-----------------------------------------------------------------------------
(* What a new request fans out to. *)

\* No two positions of first mention have the same.
LEMMA FirstInjective ==
    ASSUME NEW s, DOMAIN s \subseteq Nat, NEW i \in First(s), NEW j \in First(s), s[i] = s[j]
    PROVE  i = j
<1>1. i <= j /\ j <= i /\ i \in Nat /\ j \in Nat
  BY DEF First
<1> QED  BY <1>1

\* Channel n is whole, and what it says was so.
WholeAndReal(h, n) ==
    LET c == call[h]
        has(rows, id) == {r \in On(rows, "addresses", n.channel) : r.owner = id}
    IN  /\ n.skipped \cup {a.recipient : a \in ToSet(n.attempts)} = ToSet(c.recipients)
        /\ IsInjective([i \in DOMAIN n.attempts |-> n.attempts[i].recipient])
        /\ \A a \in ToSet(n.attempts) :
             a.recipient \notin n.skipped
             /\ \E r \in has(ever[h], a.recipient) : r.value = a.address
        /\ \A id \in n.skipped : has(always[h], id) = {}
        /\ \E r \in ever[h] :
             /\ r.id = n.template /\ r.value = n.body /\ n.body \subseteq c.given
             /\ <<"templates", tenant[h], c.name, n.channel>> \in r.keys

\* A channel of a new request fails if nobody can be reached on it.
LEMMA ChannelJustified ==
    ASSUME History, NEW h \in Requests, pc[h] = "submit", NEW j \in DOMAIN Channels(h)
    PROVE  LET n == Channel(h, Channels(h)[j])
           IN  /\ n.channel = Channels(h)[j] /\ WholeAndReal(h, n)
               /\ n.status = IF ToSet(n.attempts) = {} THEN "failed" ELSE Status(h)
<1> DEFINE c == call[h]
           ch == Channels(h)[j]
           n == Channel(h, ch)
           R == Recipients(h)
           reached == Reached(h, ch)
           has(rows, id) == {r \in On(rows, "addresses", ch) : r.owner = id}
<1>1. /\ pc[h] \in NotifySteps /\ NotifyRecall(h) /\ FoundKnown(h) /\ found[h] \subseteq ever[h]
      /\ On(found[h], "templates", ch) # {} /\ AddressesSeen(h, ch)
  <2>1. NotifyRecall(h)
    BY DEF NotifySteps, History, RequestsRecall, Recalls
  <2>2. On(found[h], "templates", ch) # {} /\ AddressesSeen(h, ch)
    BY <2>1 DEF NotifyRecall
  <2> QED  BY <2>1, <2>2 DEF NotifySteps, History, Inv, RequestsKnow, Knows, Types, TypeOK
<1>2. ToSet(R) = ToSet(c.recipients)
  BY <1>1, AskedFor
<1>3. \A i, k \in DOMAIN R : R[i] = R[k] => i = k
  <2>1. /\ DOMAIN R = First(c.recipients) /\ DOMAIN c.recipients \subseteq Nat
        /\ \A i \in DOMAIN R : R[i] = c.recipients[i]
    BY <1>1, PositionsForm, CallsAssumption DEF History
  <2> HIDE DEF R
  <2> QED  BY <2>1, FirstInjective
<1> HIDE DEF ch, n
<1>4. FansTo(h, ch, n)
  BY <1>1, ChannelForm DEF n
<1>5. n.channel = ch /\ n.status = IF reached = {} THEN "failed" ELSE Status(h)
  BY <1>4 DEF FansTo
<1>6. \E t \in On(found[h], "templates", ch) : n.template = t.id /\ n.body = t.value
  BY <1>4 DEF FansTo
<1>7. n.skipped = {R[i] : i \in DOMAIN R \ reached} /\ DOMAIN n.attempts = reached
  BY <1>4 DEF FansTo
<1>8. \A i \in reached :
        /\ n.attempts[i].recipient = R[i]
        /\ \E r \in On(found[h], "addresses", ch) : r.owner = R[i] /\ n.attempts[i].address = r.value
  BY <1>4 DEF FansTo
<1>9. reached \subseteq DOMAIN R
  BY DEF Reached
<1>10. \A i \in DOMAIN R \ reached : \A r \in On(found[h], "addresses", ch) : r.owner # R[i]
  BY DEF Reached
<1> HIDE DEF reached, R
<1>11. n.status = IF ToSet(n.attempts) = {} THEN "failed" ELSE Status(h)
  <2>1. ToSet(n.attempts) = {n.attempts[i] : i \in reached}
    BY <1>7 DEF ToSet
  <2>2. (ToSet(n.attempts) = {}) <=> (reached = {})
    BY <2>1
  <2> QED  BY <1>5, <2>2
<1>12. {a.recipient : a \in ToSet(n.attempts)} = {R[i] : i \in reached}
  BY <1>7, <1>8 DEF ToSet
<1>13. n.skipped \cup {a.recipient : a \in ToSet(n.attempts)} = ToSet(c.recipients)
  BY <1>2, <1>7, <1>9, <1>12 DEF ToSet
<1>14. IsInjective([i \in DOMAIN n.attempts |-> n.attempts[i].recipient])
  BY <1>3, <1>7, <1>8, <1>9 DEF IsInjective
<1>15. ASSUME NEW a \in ToSet(n.attempts)
       PROVE  /\ a.recipient \notin n.skipped
              /\ \E r \in has(ever[h], a.recipient) : r.value = a.address
  <2>1. PICK i \in reached : a = n.attempts[i]
    BY <1>7 DEF ToSet
  <2>2. a.recipient = R[i] /\ R[i] \notin n.skipped
    BY <1>3, <1>7, <1>8, <1>9, <2>1
  <2>3. PICK r \in On(found[h], "addresses", ch) : r.owner = R[i] /\ a.address = r.value
    BY <1>8, <2>1
  <2>4. r \in On(ever[h], "addresses", ch)
    BY <1>1, <2>3 DEF On
  <2> QED  BY <2>2, <2>3, <2>4
<1>16. ASSUME NEW id \in n.skipped
       PROVE  has(always[h], id) = {}
  <2>1. PICK i \in DOMAIN R \ reached : id = R[i]
    BY <1>7
  <2>2. id \in ToSet(Recipients(h))
    BY <2>1 DEF ToSet, R
  <2> QED  BY <1>1, <1>10, <2>1, <2>2 DEF AddressesSeen
<1>17. \E r \in ever[h] :
         /\ r.id = n.template /\ r.value = n.body /\ n.body \subseteq c.given
         /\ <<"templates", tenant[h], c.name, ch>> \in r.keys
  <2>1. PICK t \in On(found[h], "templates", ch) : n.template = t.id /\ n.body = t.value
    BY <1>6
  <2>2. t \in found[h] /\ t.table = "templates" /\ Sound(t) /\ t.value \subseteq c.given
    BY <1>1, <2>1 DEF On, FoundKnown, NotifyRecall
  <2>3. PICK k \in t.keys : k[4] = ch
    BY <2>1 DEF On
  <2>4. PICK l \in t.keys : l = <<"templates", tenant[h], c.name, l[4]>>
    BY <1>1, <2>2 DEF NotifyRecall, ActiveTemplate
  <2>5. k = l
    BY <2>2, OneKey
  <2> QED  BY <1>1, <2>1, <2>2, <2>3, <2>4, <2>5
<1>18. n.channel = ch
  BY <1>5
<1>19. WholeAndReal(h, n)
  BY <1>13, <1>14, <1>15, <1>16, <1>17, <1>18 DEF WholeAndReal
<1> QED  BY <1>11, <1>18, <1>19 DEF n, ch

\* A new request has one fan-out, and its status is that of its channels.
LEMMA SubmitForm ==
    ASSUME History, FanoutsOK, NEW h \in Requests, Submit(h), reply'[h] = "ok"
    PROVE  \E f \in fanout' \ fanout, q \in db' \ db :
             LET c == call[h]
                 attempts == UNION {ToSet(f.channels[i].attempts) : i \in DOMAIN f.channels}
             IN  /\ f.id = q.id /\ q.tenant = tenant[h]
                 /\ {f.channels[i].channel : i \in DOMAIN f.channels} = ToSet(c.channels)
                 /\ q.value = {IF attempts = {} THEN "failed" ELSE Status(h)}
                 /\ \A i \in DOMAIN f.channels : WholeAndReal(h, f.channels[i])
<1> DEFINE c == call[h]
           channels == [i \in DOMAIN Channels(h) |-> Channel(h, Channels(h)[i])]
           value == {IF Failed(channels) THEN "failed" ELSE Status(h)}
           q == Row(<<h>>, "requests", tenant[h], tenant[h], RequestKeys(h), value)
           f == [id |-> <<h>>, channels |-> channels]
           attempts == UNION {ToSet(channels[i].attempts) : i \in DOMAIN channels}
<1>1. /\ pc[h] = "submit" /\ pc[h] \in NotifySteps
      /\ db' = db \cup {q} /\ fanout' = fanout \cup {f}
  <2>1. ~ Refuse(h, "error")
    BY RefuseIs
  <2> QED  BY <2>1 DEF Submit, NotifySteps
<1>2. q.id = <<h>> /\ q.tenant = tenant[h] /\ q.value = value
  BY DEF Row
<1>3. f.id = <<h>> /\ f.channels = channels
  OBVIOUS
<1>4. ASSUME NEW j \in DOMAIN channels
      PROVE  /\ channels[j].channel = Channels(h)[j] /\ WholeAndReal(h, channels[j])
             /\ channels[j].status = IF ToSet(channels[j].attempts) = {} THEN "failed" ELSE Status(h)
  <2>1. j \in DOMAIN Channels(h) /\ channels[j] = Channel(h, Channels(h)[j])
    OBVIOUS
  <2> HIDE DEF channels
  <2> QED  BY <1>1, <2>1, ChannelJustified
<1>5. DOMAIN channels = DOMAIN Channels(h)
  OBVIOUS
<1> HIDE DEF channels
<1>6. {channels[i].channel : i \in DOMAIN channels} = ToSet(c.channels)
  <2>1. ToSet(Channels(h)) = ToSet(c.channels)
    BY <1>1, AskedFor
  <2> QED  BY <1>4, <1>5, <2>1 DEF ToSet
<1>7. value = {IF attempts = {} THEN "failed" ELSE Status(h)}
  <2>1. Status(h) # "failed"
    BY DEF Status
  <2>2. Failed(channels) <=> \A i \in DOMAIN channels : ToSet(channels[i].attempts) = {}
    BY <1>4, <2>1 DEF Failed
  <2>3. attempts = {} <=> \A i \in DOMAIN channels : ToSet(channels[i].attempts) = {}
    OBVIOUS
  <2> QED  BY <2>2, <2>3
<1> HIDE DEF value
<1>8. f \notin fanout /\ q \notin db
  <2>1. ~ Taken(<<h>>)
    BY <1>1 DEF Taken, From
  <2> HIDE DEF f, q
  <2> QED  BY <1>2, <1>3, <2>1 DEF FanoutsOK, FanoutOK, History, Inv, DirectoryOK
<1>9. f \in fanout' \ fanout /\ q \in db' \ db
  BY <1>1, <1>8
<1> HIDE DEF f, q
<1>10. /\ f.id = q.id /\ q.tenant = tenant[h]
       /\ {f.channels[i].channel : i \in DOMAIN f.channels} = ToSet(c.channels)
       /\ q.value = {IF UNION {ToSet(f.channels[i].attempts) : i \in DOMAIN f.channels} = {}
                     THEN "failed" ELSE Status(h)}
       /\ \A i \in DOMAIN f.channels : WholeAndReal(h, f.channels[i])
  BY <1>2, <1>3, <1>4, <1>6, <1>7
<1> QED  BY <1>9, <1>10

\* What a new request fans out to is whole and was real.
THEOREM FanoutJustifiedAlways == Spec => FanoutJustified
<1> DEFINE A == \A h \in Requests : pc[h] = "submit" /\ reply'[h] = "ok" =>
         \E f \in fanout' \ fanout, q \in db' \ db :
           LET c == call[h]
               attempts == UNION {ToSet(f.channels[i].attempts) : i \in DOMAIN f.channels}
           IN  /\ f.id = q.id /\ q.tenant = tenant[h]
               /\ {f.channels[i].channel : i \in DOMAIN f.channels} = ToSet(c.channels)
               /\ q.value = {IF attempts = {} THEN "failed" ELSE IF c.scheduled THEN "scheduled" ELSE "created"}
               /\ \A i \in DOMAIN f.channels :
                    LET n == f.channels[i]
                        has(rows, id) == {r \in On(rows, "addresses", n.channel) : r.owner = id}
                    IN  /\ n.skipped \cup {a.recipient : a \in ToSet(n.attempts)} = ToSet(c.recipients)
                        /\ IsInjective([j \in DOMAIN n.attempts |-> n.attempts[j].recipient])
                        /\ \A a \in ToSet(n.attempts) :
                             a.recipient \notin n.skipped
                             /\ \E r \in has(ever[h], a.recipient) : r.value = a.address
                        /\ \A id \in n.skipped : has(always[h], id) = {}
                        /\ \E r \in ever[h] :
                             /\ r.id = n.template /\ r.value = n.body /\ n.body \subseteq c.given
                             /\ <<"templates", tenant[h], c.name, n.channel>> \in r.keys
<1>1. ASSUME History, History', FanoutsOK, Next, NEW h \in Requests,
             pc[h] = "submit", reply'[h] = "ok"
      PROVE  Submit(h)
  <2>1. pc'[h] = "done"
    BY <1>1, NoneAssumption DEF History, Types, TypeOK, Replies
  <2>2. (Manage(h) /\ UNCHANGED progress) \/ Notify(h)
    BY <1>1, <2>1, OnlyAnswered
  <2> QED  BY <1>1, <2>2 DEF Manage, Begin, Load, Check, Look, Insert, Update, Delete, Notify,
                             FindKey, FindTemplate, FindRecipients, FindAddresses
<1>2. ASSUME History, History', FanoutsOK, Next
      PROVE  A
  <2> SUFFICES ASSUME NEW h \in Requests, pc[h] = "submit", reply'[h] = "ok"
               PROVE  A!(h)
    OBVIOUS
  <2>1. Submit(h)
    BY <1>1, <1>2
  <2> QED  BY <1>2, <2>1, SubmitForm DEF WholeAndReal, Status
<1>3. ASSUME History, History', FanoutsOK, [Next]_allVars
      PROVE  [A]_allVars
  BY <1>2, <1>3
<1> QED  BY <1>3, HistoryInductive, FanoutsInductive, PTL DEF Spec, FanoutJustified

-----------------------------------------------------------------------------
(* A 500 needs a race: what a request recalls of a time in which nobody     *)
(* committed anything is what the constraints look at.                      *)

\* Nobody committed anything since the first SELECT.
Undisturbed(h) == pc[h] \notin {"idle", "done"} /\ Outline(ever[h]) = always[h]

\* The same row but for its value.
Alike(r, q) ==
    r.id = q.id /\ r.table = q.table /\ r.tenant = q.tenant /\ r.owner = q.owner /\ r.keys = q.keys

\* What was there is there.
LEMMA Still ==
    ASSUME History, NEW h \in Requests, Undisturbed(h), NEW r \in ever[h]
    PROVE  \E q \in db : Alike(r, q)
<1> DEFINE o == [r EXCEPT !.value = @ \cap {"inactive"}]
<1>1. o \in always[h]
  BY DEF Undisturbed, Outline
<1>2. PICK q \in db : Alike(o, q)
  BY <1>1, AlwaysNow DEF History, Alike
<1>3. o \in Outline(db)
  BY <1>1 DEF History, Types, TypeOK
<1>4. DOMAIN o = Fields
  <2>1. PICK s \in db : o = [s EXCEPT !.value = @ \cap {"inactive"}]
    BY <1>3 DEF Outline
  <2> HIDE DEF o
  <2>2. DOMAIN s = Fields
    BY DEF History, Inv, DirectoryOK, RowsOK, Sound
  <2> QED  BY <2>1, <2>2
<1>5. DOMAIN r = {"id", "table", "tenant", "owner", "keys", "value"}
  BY <1>4 DEF Fields
<1>6. Alike(o, r)
  BY <1>5 DEF Alike
<1> HIDE DEF o
<1> QED  BY <1>2, <1>6 DEF Alike

\* What is there was there all the time.
LEMMA StillThere ==
    ASSUME History, NEW h \in Requests, Undisturbed(h), NEW q \in db
    PROVE  \E r \in always[h] : Alike(r, q)
<1> DEFINE o == [q EXCEPT !.value = @ \cap {"inactive"}]
<1>1. q \in ever[h]
  BY DEF History, RequestsRecall, Recalls, Undisturbed
<1>2. o \in always[h]
  BY <1>1 DEF Undisturbed, Outline
<1>3. DOMAIN q = {"id", "table", "tenant", "owner", "keys", "value"}
  BY DEF History, Inv, DirectoryOK, RowsOK, Sound, Fields
<1>4. Alike(o, q)
  BY <1>3 DEF Alike
<1> HIDE DEF o
<1> QED  BY <1>2, <1>4

\* So a key that was free is free.
LEMMA StillFree ==
    ASSUME History, NEW h \in Requests, Undisturbed(h), NEW keys, Unclaimed(h, keys), NEW q \in db
    PROVE  q.keys \cap keys = {}
BY StillThere DEF Unclaimed, Alike

\* New rows fit if their keys are free and they hang on a row.
LEMMA AddedFit ==
    ASSUME Inv, NEW new,
           \A r \in db, s \in new : r.keys \cap s.keys = {},
           \A r, s \in new : r.id # s.id => r.keys \cap s.keys = {},
           \A s \in new : s.owner = None \/ \E o \in db \cup new : o.id = s.owner
    PROVE  Fits(db \cup new)
<1>1. ASSUME NEW r \in db \cup new, NEW s \in db \cup new, r.id # s.id
      PROVE  r.keys \cap s.keys = {}
  <2>1. CASE r \in db /\ s \in db
    BY <1>1, <2>1 DEF Inv, DirectoryOK, RowsOK
  <2>2. CASE r \in db /\ s \in new
    BY <2>2
  <2>3. CASE r \in new /\ s \in db
    BY <2>3
  <2>4. CASE r \in new /\ s \in new
    BY <1>1, <2>4
  <2> QED  BY <2>1, <2>2, <2>3, <2>4
<1>2. ASSUME NEW r \in db
      PROVE  r.owner = None \/ \E o \in db : o.id = r.owner
  BY DEF Inv, DirectoryOK, RowsOK, WellOwned
<1> QED  BY <1>1, <1>2 DEF Fits

\* The rows of a create have no key that is taken.
LEMMA InsertFree ==
    ASSUME History, NEW h \in Requests, Undisturbed(h), pc[h] = "write",
           call[h].op \in Creates \/ (call[h].op \in Upserts /\ found[h] = {}), NEW q \in db
    PROVE  /\ q.keys \cap Keys(h) = {}
           /\ \A x : <<"addresses", <<h>>, None, x>> \notin q.keys
<1> DEFINE c == call[h]
<1>1. WriteRecall(h)
  BY DEF History, RequestsRecall, Recalls
<1>2. Sound(q) /\ WellOwned(q, db)
  BY DEF History, Inv, DirectoryOK, RowsOK
<1>3. ASSUME c.op # "bootstrap"
      PROVE  q.keys \cap Keys(h) = {}
  <2>1. Unclaimed(h, Keys(h))
    BY <1>1, <1>3 DEF WriteRecall
  <2> QED  BY <2>1, StillFree
<1>4. ASSUME c.op = "bootstrap"
      PROVE  q.keys \cap Keys(h) = {}
  <2>1. PlatformAdmins(db) = {}
    <3>1. PlatformAdmins(always[h]) = {}
      BY <1>1, <1>4 DEF WriteRecall
    <3> QED  BY <3>1, StillThere DEF PlatformAdmins, Alike
  <2>2. q.table # "users"
    BY <2>1 DEF History, Inv, DirectoryOK, UsersOK
  <2>3. \A k \in Keys(h) : k[1] = "users"
    BY <1>4 DEF Keys, TableOf
  <2>4. \A k \in q.keys : k[1] = q.table
    BY <1>2 DEF Sound, WellKeyed
  <2> QED  BY <2>2, <2>3, <2>4
<1>5. ASSUME NEW x, <<"addresses", <<h>>, None, x>> \in q.keys
      PROVE  FALSE
  <2>1. q.table = "addresses" /\ q.owner = <<h>>
    BY <1>2, <1>5 DEF Sound, WellKeyed
  <2>2. PICK o \in db : o.id = <<h>>
    BY <1>2, <2>1 DEF WellOwned
  <2>3. ~ From(<<h>>, h)
    BY <2>2 DEF History, Inv, DirectoryOK, Taken
  <2> QED  BY <2>3 DEF From
<1> QED  BY <1>3, <1>4, <1>5

\* A create fails only if it says an address twice.
LEMMA InsertFits ==
    ASSUME History, NEW h \in Requests, Undisturbed(h), ~ KnownFault(h), pc[h] = "write",
           call[h].op \in Creates \/ (call[h].op \in Upserts /\ found[h] = {})
    PROVE  Fits(db \cup NewRows(h))
<1> DEFINE c == call[h]
           address(i) == <<"addresses", <<h>>, None, c.channels[i]>>
<1>1. PICK main \in NewRows(h) :
        /\ main.id = <<h>> /\ main.table = TableOf[c.op] /\ main.keys = Keys(h)
        /\ main.owner = IF c.op \in {"createTenant", "bootstrap"} THEN None
                        ELSE IF c.op \in {"createUser", "upsertAddress"} THEN c.id
                        ELSE tenant[h]
        /\ \A r \in NewRows(h) : r = main \/ \E i \in DOMAIN c.channels :
             /\ r.id = <<h, i>> /\ r.owner = <<h>> /\ r.keys = {address(i)}
  BY NewRowsForm
<1>2. /\ \A q \in db : q.keys \cap Keys(h) = {}
      /\ \A q \in db : \A x : <<"addresses", <<h>>, None, x>> \notin q.keys
  BY InsertFree
<1>3. /\ c \in Calls /\ CallerKnown(h) /\ Knows(h) /\ Recalls(h)
      /\ c.op \in Creates \cup Upserts
  BY DEF History, Inv, RequestsKnow, Knows, CallerKnown, ManageSteps, RequestsRecall
<1>4. ASSUME NEW i \in DOMAIN c.channels
      PROVE  c.op = "createRecipient" /\ IsInjective(c.channels)
  <2>1. c.op # "notify"
    BY <1>3 DEF Creates, Upserts
  <2>2. c.op = "createRecipient"
    BY <1>3, <2>1, CallsAssumption
  <2> QED  BY <2>2 DEF KnownFault
<1>5. ASSUME NEW i \in DOMAIN c.channels
      PROVE  address(i) \notin Keys(h)
  <2>1. \A k \in Keys(h) : k[1] = "recipients"
    BY <1>4, <1>5 DEF Keys, TableOf
  <2>2. address(i)[1] = "addresses"
    OBVIOUS
  <2> QED  BY <2>1, <2>2
<1>6. \A i, j \in DOMAIN c.channels : address(i) = address(j) => i = j
  BY <1>4 DEF IsInjective
<1>7. \A i \in DOMAIN c.channels : \A q \in db : address(i) \notin q.keys
  BY <1>2
<1>8. main.owner = None \/ \E o \in db : o.id = main.owner
  <2>1. CASE c.op \in {"createTenant", "bootstrap"}
    BY <1>1, <2>1
  <2>2. CASE c.op = "createUser"
    BY <1>1, <1>3, <2>2 DEF Knows, IsTenant
  <2>3. CASE c.op = "upsertAddress"
    BY <1>1, <1>3, <2>3, Still DEF Recalls, Alike
  <2>4. CASE c.op \notin {"createTenant", "bootstrap", "createUser", "upsertAddress"}
    <3>1. tenant[h] # None
      BY <1>3, <2>4 DEF CallerKnown, Creates, Upserts, PlatformOps
    <3> QED  BY <1>1, <1>3, <2>4, <3>1 DEF CallerKnown, IsTenant
  <2> QED  BY <2>1, <2>2, <2>3, <2>4
<1> HIDE DEF address
<1>9. \A r \in db, s \in NewRows(h) : r.keys \cap s.keys = {}
  BY <1>1, <1>2, <1>7
<1>10. \A r, s \in NewRows(h) : r.id # s.id => r.keys \cap s.keys = {}
  BY <1>1, <1>5, <1>6
<1>11. \A s \in NewRows(h) : s.owner = None \/ \E o \in db \cup NewRows(h) : o.id = s.owner
  BY <1>1, <1>8
<1> QED  BY <1>9, <1>10, <1>11, AddedFit DEF History

\* The row of an update is there, so the ORM's UPDATE meets it.
LEMMA UpdateMeets ==
    ASSUME History, NEW h \in Requests, Undisturbed(h), pc[h] = "write", NEW row \in found[h],
           NEW changed
    PROVE  ~ Vanished(h, row, changed) /\ \E q \in db : Alike(row, q)
<1>1. row \in ever[h]
  BY DEF History, Types, TypeOK
<1> QED  BY <1>1, Still DEF Vanished, Alike

\* A key that a renamed row gets is its own already or nobody's.
LEMMA RenamedFree ==
    ASSUME History, NEW h \in Requests, Undisturbed(h), ~ KnownFault(h), pc[h] = "write",
           call[h].op \in {"updateTenant", "updateTemplate"}, call[h].name # None,
           NEW row \in found[h], row.table = TableOf[call[h].op],
           Renamed(row, call[h].name) # row.keys, NEW q \in db, q.id # row.id
    PROVE  q.keys \cap Renamed(row, call[h].name) = {}
<1> DEFINE c == call[h]
<1>1. FoundRecall(h) /\ WriteRecall(h) /\ Sound(row)
  BY DEF History, RequestsRecall, Recalls, Inv, RequestsKnow, Knows, FoundKnown
<1>2. row.id = c.id
  BY <1>1 DEF FoundRecall, LoadedOps
<1>3. CASE c.op = "updateTemplate"
  <2>1. row.table = "templates"
    BY <1>3 DEF TableOf
  <2>2. \A r \in always[h] : r.id # c.id => r.keys \cap Renamed(row, c.name) = {}
    BY <1>1, <1>3, <2>1 DEF WriteRecall
  <2> QED  BY <1>2, <2>2, StillThere DEF Alike
<1>4. CASE c.op = "updateTenant"
  <2> SUFFICES ASSUME NEW k \in q.keys, k \in Renamed(row, c.name)
               PROVE  FALSE
    OBVIOUS
  <2>1. PICK l \in row.keys : k = IF l[4] = "slug" THEN l ELSE [l EXCEPT ![3] = c.name]
    BY DEF Renamed
  <2>2. DOMAIN l = {1, 2, 3, 4}
    BY <1>1 DEF Sound, WellKeyed
  <2>3. CASE l[4] # "slug"
    <3>1. k[1] = l[1] /\ k[3] = c.name /\ k[4] # "slug"
      BY <2>1, <2>2, <2>3
    <3>2. l[1] = "tenants" /\ WellKeyed(q)
      BY <1>1, <1>4 DEF Sound, WellKeyed, TableOf, History, Inv, DirectoryOK, RowsOK
    <3>3. q.table = "tenants"
      BY <3>1, <3>2 DEF WellKeyed
    <3> QED  BY <1>2, <1>4, <3>1, <3>3 DEF KnownFault
  <2>4. CASE l[4] = "slug"
    <3>1. PICK p \in db : Alike(row, p)
      BY UpdateMeets
    <3>2. p.id # q.id /\ k \in p.keys
      BY <2>1, <2>4, <3>1 DEF Alike
    <3> QED  BY <3>2 DEF History, Inv, DirectoryOK, RowsOK
  <2> QED  BY <2>3, <2>4
<1> QED  BY <1>3, <1>4

\* An update fails only if a tenant takes another's name.
LEMMA UpdateFits ==
    ASSUME History, NEW h \in Requests, Undisturbed(h), ~ KnownFault(h), pc[h] = "write",
           call[h].op \in Updates \cup Upserts,
           NEW row \in found[h], row.table = TableOf[call[h].op], NEW value
    PROVE  LET keys == IF call[h].name = None THEN row.keys ELSE Renamed(row, call[h].name)
           IN  Fits({Written(r, row, keys, value) : r \in db})
<1> DEFINE c == call[h]
           keys == IF c.name = None THEN row.keys ELSE Renamed(row, c.name)
           rows == {Written(r, row, keys, value) : r \in db}
<1>1. \A q \in db : DOMAIN q = Fields /\ WellOwned(q, db)
  BY DEF History, Inv, DirectoryOK, RowsOK, Sound
<1>2. ASSUME keys # row.keys, NEW q \in db, q.id # row.id
      PROVE  q.keys \cap keys = {}
  <2>1. c.op \in {"updateTenant", "updateTemplate"}
    <3>1. c \in Calls
      BY DEF History, Inv, RequestsKnow, Knows, CallerKnown, ManageSteps
    <3> QED  BY <1>2, <3>1, CallsAssumption DEF Updates
  <2> QED  BY <1>2, <2>1, RenamedFree
<1> HIDE DEF keys
<1>3. ASSUME NEW q \in db
      PROVE  LET w == Written(q, row, keys, value)
             IN  /\ w.id = q.id /\ w.owner = q.owner
                 /\ w.keys = IF q.id = row.id /\ keys # row.keys THEN keys ELSE q.keys
  BY <1>1, WrittenForm
<1>4. ASSUME NEW p \in db, NEW q \in db, p.id # q.id
      PROVE  Written(p, row, keys, value).keys \cap Written(q, row, keys, value).keys = {}
  <2>1. p.keys \cap q.keys = {}
    BY <1>4 DEF History, Inv, DirectoryOK, RowsOK
  <2> QED  BY <1>2, <1>3, <1>4, <2>1
<1>5. \A r, s \in rows : r.id # s.id => r.keys \cap s.keys = {}
  BY <1>3, <1>4
<1>6. \A r \in rows : r.owner = None \/ \E o \in rows : o.id = r.owner
  BY <1>1, <1>3 DEF WellOwned
<1> HIDE DEF rows
<1>7. Fits(rows)
  BY <1>5, <1>6 DEF Fits
<1> QED  BY <1>7 DEF keys, rows

\* The conflict SELECT meets one row at most, apart from a tenant's name and slug and from
\* several platform admins.
LEMMA CheckFaultless ==
    ASSUME History, NEW h \in Requests, Check(h), ~ KnownFault(h)
    PROVE  reply'[h] # "error"
<1> DEFINE c == call[h]
           wanted == IF c.op = "updateTemplate" THEN UNION {Renamed(r, c.name) : r \in found[h]}
                     ELSE Keys(h)
           clash == IF c.op = "bootstrap" THEN PlatformAdmins(db)
                    ELSE {r \in db : r.id # c.id /\ r.keys \cap wanted # {}}
<1>1. /\ pc[h] = "check" /\ FoundRecall(h) /\ FoundKnown(h) /\ c \in Calls
      /\ c.op \in Creates \cup {"updateTemplate"}
  BY DEF Check, History, RequestsRecall, Recalls, Inv, RequestsKnow, Knows, CallerKnown, ManageSteps
<1>2. \A r, s \in db : r = s \/ r.keys \cap s.keys = {}
  BY DEF History, Inv, DirectoryOK, RowsOK
<1>3. ASSUME NEW r \in clash, NEW s \in clash
      PROVE  r = s
  <2>1. CASE c.op = "bootstrap"
    BY <1>3, <2>1 DEF KnownFault
  <2>2. CASE c.op = "createTenant"
    BY <1>3, <2>2 DEF KnownFault
  <2>3. CASE c.op \in Creates \ {"createTenant", "bootstrap"}
    <3>1. c.slug = None
      BY <1>1, <2>3, CallsAssumption DEF Creates
    <3>2. \A k, l \in Keys(h) : k = l
      BY <3>1 DEF Keys
    <3>3. r \in db /\ s \in db /\ r.keys \cap Keys(h) # {} /\ s.keys \cap Keys(h) # {}
      BY <1>3, <2>3 DEF Creates
    <3> QED  BY <1>2, <3>2, <3>3
  <2>4. CASE c.op = "updateTemplate"
    <3>1. r \in db /\ s \in db /\ r.keys \cap wanted # {} /\ s.keys \cap wanted # {}
      BY <1>3, <2>4
    <3>2. ASSUME NEW k \in wanted, NEW l \in wanted
          PROVE  k = l
      <4>1. PICK row \in found[h] : k \in Renamed(row, c.name)
        BY <2>4, <3>2
      <4>2. PICK other \in found[h] : l \in Renamed(other, c.name)
        BY <2>4, <3>2
      <4>3. other = row /\ row.table = "templates" /\ Sound(row)
        BY <1>1, <2>4 DEF FoundRecall, FoundKnown
      <4>4. \A x, y \in row.keys : x = y
        BY <4>3, OneKey
      <4> QED  BY <4>1, <4>2, <4>3, <4>4 DEF Renamed
    <3> HIDE DEF wanted
    <3> QED  BY <1>2, <3>1, <3>2
  <2> QED  BY <1>1, <2>1, <2>2, <2>3, <2>4
<1>4. \/ Continue(h, "write", found[h])
      \/ Refuse(h, "forbidden") \/ Refuse(h, "conflict")
      \/ (\E r, s \in clash : r # s) /\ Refuse(h, "error")
  BY DEF Check
<1> HIDE DEF clash
<1>5. Refuse(h, "forbidden") \/ Refuse(h, "conflict") => reply'[h] # "error"
  BY RefuseIs
<1>6. Continue(h, "write", found[h]) => reply'[h] # "error"
  BY <1>1, NoneAssumption DEF Continue, History, Types, TypeOK, Replies
<1> QED  BY <1>3, <1>4, <1>5, <1>6

\* A create meets no constraint.
LEMMA InsertFaultless ==
    ASSUME History, NEW h \in Requests, Insert(h), Undisturbed(h), ~ KnownFault(h)
    PROVE  reply'[h] # "error"
<1>1. Fits(db \cup NewRows(h)) /\ Commit(h, db \cup NewRows(h))
  BY InsertFits DEF Insert
<1> QED  BY <1>1, AnswerIs DEF Commit

\* An update meets its row and no constraint.
LEMMA UpdateFaultless ==
    ASSUME History, NEW h \in Requests, Update(h), Undisturbed(h), ~ KnownFault(h)
    PROVE  reply'[h] # "error"
<1> DEFINE c == call[h]
           keysOf(row) == IF c.name = None THEN row.keys ELSE Renamed(row, c.name)
           valueOf(row) == IF c.value = None THEN row.value ELSE c.value
           rowsOf(row) == {Written(r, row, keysOf(row), valueOf(row)) : r \in db}
<1>1. PICK row \in found[h] :
        /\ row.table = TableOf[c.op]
        /\ IF Vanished(h, row, keysOf(row) # row.keys \/ valueOf(row) # row.value) THEN Refuse(h, "error")
           ELSE Commit(h, rowsOf(row))
  BY DEF Update
<1>2. /\ pc[h] = "write"
      /\ c.op \in Updates \cup Upserts
  BY DEF Update
<1>3. ~ Vanished(h, row, keysOf(row) # row.keys \/ valueOf(row) # row.value)
  BY <1>2, UpdateMeets
<1>4. Fits(rowsOf(row))
  BY <1>1, <1>2, UpdateFits
<1> HIDE DEF rowsOf
<1>5. Commit(h, rowsOf(row))
  BY <1>1, <1>3
<1> QED  BY <1>4, <1>5, AnswerIs DEF Commit

\* A delete is refused only by the addresses that came with a recipient.
LEMMA DeleteFaultless ==
    ASSUME History, NEW h \in Requests, Delete(h), ~ KnownFault(h)
    PROVE  reply'[h] # "error"
<1> DEFINE c == call[h]
<1>1. /\ pc[h] = "write" /\ FoundRecall(h)
      /\ c.op \in Deletes
  BY DEF Delete, History, RequestsRecall, Recalls
<1>2. PICK row \in found[h] :
        /\ row.table = TableOf[c.op]
        /\ (\E r \in found[h] : r.owner = row.id) \/ Answer(h, "ok")
  BY DEF Delete
<1>3. ASSUME NEW r \in found[h], r.owner = row.id
      PROVE  FALSE
  <2>1. row.table = "recipients"
    BY <1>1, <1>3 DEF FoundRecall
  <2>2. c.op = "deleteRecipient"
    BY <1>1, <1>2, <2>1 DEF TableOf, Deletes
  <2>3. row.id = c.id
    BY <1>1, <1>2, <2>2 DEF FoundRecall, LoadedOps
  <2> QED  BY <1>3, <2>2, <2>3 DEF KnownFault
<1> QED  BY <1>2, <1>3, AnswerIs

\* The idempotency key is free, and the tenant is there.
LEMMA RequestFits ==
    ASSUME History, NEW h \in Requests, pc[h] = "submit", Undisturbed(h), ~ KnownFault(h), NEW value
    PROVE  Fits(db \cup {Row(<<h>>, "requests", tenant[h], tenant[h], RequestKeys(h), value)})
<1> DEFINE c == call[h]
           q == Row(<<h>>, "requests", tenant[h], tenant[h], RequestKeys(h), value)
<1>1. /\ c.op = "notify" /\ CallerKnown(h) /\ NotifyRecall(h)
  BY DEF History, Inv, RequestsKnow, Knows, RequestsRecall, Recalls, NotifySteps
<1>2. q.id = <<h>> /\ q.owner = tenant[h] /\ q.keys = RequestKeys(h)
  BY DEF Row
<1> HIDE DEF q
<1>3. ASSUME NEW r \in db
      PROVE  r.keys \cap RequestKeys(h) = {}
  <2>1. CASE c.key = None
    BY <2>1 DEF RequestKeys
  <2>2. CASE c.key = ""
    BY <1>1, <2>2 DEF KnownFault
  <2>3. CASE c.key \notin {None, ""}
    <3>1. Unclaimed(h, RequestKeys(h))
      BY <1>1, <2>3 DEF NotifyRecall
    <3> QED  BY <3>1, StillFree
  <2> QED  BY <2>1, <2>2, <2>3
<1>4. \E o \in db : o.id = tenant[h]
  BY <1>1 DEF CallerKnown, PlatformOps, IsTenant
<1>5. Fits(db \cup {q})
  BY <1>2, <1>3, <1>4, AddedFit DEF History
<1> QED  BY <1>5 DEF q

\* Templates and recipients are there, and a channel is there once.
LEMMA ChannelsFit ==
    ASSUME History, NEW h \in Requests, pc[h] = "submit", Undisturbed(h)
    PROVE  FanoutFits([i \in DOMAIN Channels(h) |-> Channel(h, Channels(h)[i])])
<1> DEFINE c == call[h]
           channels == [i \in DOMAIN Channels(h) |-> Channel(h, Channels(h)[i])]
<1>1. pc[h] \in NotifySteps /\ NotifyRecall(h)
  BY DEF History, RequestsRecall, Recalls, NotifySteps
<1>2. ASSUME NEW i \in DOMAIN channels
      PROVE  channels[i].channel = Channels(h)[i] /\ WholeAndReal(h, channels[i])
  <2>1. i \in DOMAIN Channels(h) /\ channels[i] = Channel(h, Channels(h)[i])
    OBVIOUS
  <2> HIDE DEF channels
  <2> QED  BY <2>1, ChannelJustified
<1>3. DOMAIN channels = DOMAIN Channels(h)
  OBVIOUS
<1> HIDE DEF channels
<1>4. \A i, j \in DOMAIN channels : channels[i].channel = channels[j].channel => i = j
  <2>1. /\ DOMAIN Channels(h) = First(c.channels) /\ DOMAIN c.channels \subseteq Nat
        /\ \A i \in DOMAIN Channels(h) : Channels(h)[i] = c.channels[i]
    BY <1>1, PositionsForm, CallsAssumption DEF History
  <2> QED  BY <1>2, <1>3, <2>1, FirstInjective
<1>5. \A r \in ever[h] : \E q \in db : q.id = r.id
  BY Still DEF Alike
<1>6. ASSUME NEW i \in DOMAIN channels
      PROVE  {channels[i].template} \cup {a.recipient : a \in ToSet(channels[i].attempts)}
                 \subseteq {r.id : r \in db}
  <2>1. \E r \in ever[h] : r.id = channels[i].template
    BY <1>2 DEF WholeAndReal
  <2>2. \A id \in ToSet(c.recipients) : \E r \in ever[h] : r.id = id
    BY <1>1, AskedFor DEF NotifyRecall
  <2>3. {a.recipient : a \in ToSet(channels[i].attempts)} \subseteq ToSet(c.recipients)
    <3>1. channels[i].skipped \cup {a.recipient : a \in ToSet(channels[i].attempts)}
             = ToSet(c.recipients)
      BY <1>2 DEF WholeAndReal
    <3> QED  BY <3>1
  <2> QED  BY <1>5, <2>1, <2>2, <2>3
<1>7. FanoutFits(channels)
  BY <1>4, <1>6 DEF FanoutFits
<1> QED  BY <1>7 DEF channels

\* A notification request meets no constraint.
LEMMA SubmitFaultless ==
    ASSUME History, NEW h \in Requests, Submit(h), Undisturbed(h), ~ KnownFault(h)
    PROVE  reply'[h] # "error"
<1> DEFINE channels == [i \in DOMAIN Channels(h) |-> Channel(h, Channels(h)[i])]
           rows == db \cup {Row(<<h>>, "requests", tenant[h], tenant[h], RequestKeys(h),
                                {IF Failed(channels) THEN "failed" ELSE Status(h)})}
<1>1. pc[h] = "submit"
  BY DEF Submit
<1>2. Fits(rows)
  BY <1>1, RequestFits
<1>3. FanoutFits(channels)
  BY <1>1, ChannelsFit
<1>4. Fits(rows) /\ FanoutFits(channels) => Answer(h, "ok")
  BY DEF Submit
<1> HIDE DEF rows, channels
<1> QED  BY <1>2, <1>3, <1>4, AnswerIs

\* The SELECTs of POST /notifications answer no 500.
LEMMA NotifyReadsFaultless ==
    ASSUME History, NEW h \in Requests, reply[h] = None,
           FindKey(h) \/ FindTemplate(h) \/ FindRecipients(h) \/ FindAddresses(h)
    PROVE  reply'[h] # "error"
<1>1. ASSUME NEW step, NEW rows, Continue(h, step, rows)
      PROVE  reply'[h] # "error"
  BY <1>1, NoneAssumption DEF Continue, Replies
<1>2. CASE FindKey(h)
  BY <1>1, <1>2, RefuseIs DEF FindKey
<1>3. CASE FindTemplate(h)
  <2>1. PICK i \in Ahead(h) :
          LET rows == found[h] \cup TemplatesFor(h, Channels(h)[i])
          IN  (\E step \in {pc[h], "recipients"} : Continue(h, step, rows)) \/ Refuse(h, "missing")
    BY <1>3 DEF FindTemplate, Round
  <2> DEFINE rows == found[h] \cup TemplatesFor(h, Channels(h)[i])
  <2>2. (\E step \in {pc[h], "recipients"} : Continue(h, step, rows)) \/ Refuse(h, "missing")
    BY <2>1
  <2> HIDE DEF rows
  <2> QED  BY <1>1, <2>2, RefuseIs
<1>4. CASE FindRecipients(h)
  BY <1>1, <1>4, RefuseIs DEF FindRecipients
<1>5. CASE FindAddresses(h)
  <2>1. PICK i \in Ahead(h) :
          LET rows == found[h] \cup AddressesOn(h, Channels(h)[i])
          IN  \E step \in {pc[h], "submit"} : Continue(h, step, rows)
    BY <1>5 DEF FindAddresses, Round
  <2> DEFINE rows == found[h] \cup AddressesOn(h, Channels(h)[i])
  <2>2. \E step \in {pc[h], "submit"} : Continue(h, step, rows)
    BY <2>1
  <2> HIDE DEF rows
  <2> QED  BY <1>1, <2>2
<1> QED  BY <1>2, <1>3, <1>4, <1>5

\* Nor do those of the management API and the look at the caller.
LEMMA ManageReadsFaultless ==
    ASSUME History, NEW h \in Requests, reply[h] = None, Begin(h) \/ Load(h) \/ Look(h)
    PROVE  reply'[h] # "error"
<1>1. ASSUME NEW step, NEW rows, Continue(h, step, rows)
      PROVE  reply'[h] # "error"
  BY <1>1, NoneAssumption DEF Continue, Replies
<1>2. ASSUME NEW c, NEW t, Admit(h, c, t)
      PROVE  reply'[h] # "error"
  BY <1>2, NoneAssumption DEF Admit, Replies
<1>3. CASE Begin(h)
  BY <1>2, <1>3, RefuseIs DEF Begin
<1>4. CASE Load(h)
  BY <1>1, <1>4, RefuseIs DEF Load
<1>5. CASE Look(h)
  BY <1>1, <1>5, RefuseIs DEF Look
<1> QED  BY <1>3, <1>4, <1>5

\* Apart from the known faults a 500 needs a race: if nobody committed anything since the first
\* SELECT, the checks of the service agree with the constraints of the database.
THEOREM FaultsNeedARaceAlways == Spec => FaultsNeedARace
<1> DEFINE A == \A h \in Requests : reply'[h] = "error" /\ reply[h] = None =>
                    Outline(ever[h]) # always[h] \/ KnownFault(h)
<1>1. ASSUME History, History', Next
      PROVE  A
  <2> SUFFICES ASSUME NEW h \in Requests, reply'[h] = "error", reply[h] = None,
                      Outline(ever[h]) = always[h], ~ KnownFault(h)
               PROVE  FALSE
    OBVIOUS
  <2>1. pc[h] # "done" /\ pc'[h] = "done"
    BY <1>1, NoneAssumption DEF History, Types, TypeOK, Replies
  <2>2. (Manage(h) /\ UNCHANGED progress) \/ Notify(h)
    BY <1>1, <2>1, OnlyAnswered
  <2>3. CASE Begin(h) \/ Load(h) \/ Look(h)
    BY <1>1, <2>3, ManageReadsFaultless
  <2>4. CASE FindKey(h) \/ FindTemplate(h) \/ FindRecipients(h) \/ FindAddresses(h)
    BY <1>1, <2>4, NotifyReadsFaultless
  <2>5. CASE Check(h) \/ Delete(h)
    BY <1>1, <2>5, CheckFaultless, DeleteFaultless
  <2>6. CASE Insert(h) \/ Update(h) \/ Submit(h)
    <3>1. Undisturbed(h)
      BY <2>6 DEF Undisturbed, Insert, Update, Submit
    <3> QED  BY <1>1, <2>6, <3>1, InsertFaultless, UpdateFaultless, SubmitFaultless
  <2> QED  BY <2>2, <2>3, <2>4, <2>5, <2>6 DEF Manage, Notify
<1>2. ASSUME History, History', [Next]_allVars
      PROVE  [A]_allVars
  BY <1>1, <1>2
<1> QED  BY <1>2, HistoryInductive, PTL DEF Spec, FaultsNeedARace
=============================================================================
