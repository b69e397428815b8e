------------------------ MODULE NotificationCreate ------------------------
(***************************************************************************)
(* POST /notifications over the directory it reads: NotificationService.   *)
(* create looks up the idempotency key, the template of every channel, the *)
(* recipients and their addresses on every channel, one SELECT after the   *)
(* other, and then writes the request, its channels and their attempts in  *)
(* one transaction.  Every other endpoint may commit between the SELECTs.  *)
(*                                                                         *)
(* A call is [op |-> "notify", by, name, channels, recipients, given, key, *)
(* scheduled]: the template's name, the variables it gives, and its        *)
(* idempotency key.                                                        *)
(***************************************************************************)
EXTENDS Directory

VARIABLE progress  \* the position of the last channel the running loop of SELECTs asked for

allVars == <<vars, progress>>

\* The positions of first mention.
First(s) == {i \in DOMAIN s : \A j \in DOMAIN s : s[j] = s[i] => i <= j}

\* Variant: the request is taken as it was sent.
AsSent(s) == s

\* list(dict.fromkeys(s)): each where it is mentioned first.
Distinct(s) == Restrict(s, First(s))

Channels(h) == Distinct(call[h].channels)
Recipients(h) == Distinct(call[h].recipients)

RequestKeys(h) == IF call[h].key = None THEN {} ELSE {<<"requests", tenant[h], call[h].key, None>>}

\* Rows of a table on a channel, which is the last part of their key.
On(rows, table, ch) == {r \in rows : r.table = table /\ \E k \in r.keys : k[4] = ch}

-----------------------------------------------------------------------------
(* The SELECTs. *)

\* Variant: the key is left to the unique constraint.
FindKeyUnchecked(h) == pc[h] = "key" /\ Continue(h, "templates", {}) /\ UNCHANGED progress

\* Only a truthy key is looked up; the empty string is stored all the same.
FindKey(h) ==
    /\ pc[h] = "key"
    /\ IF \E r \in db : r.keys \cap RequestKeys(h) # {} THEN Refuse(h, "conflict")
       ELSE Continue(h, "templates", {})
    /\ UNCHANGED progress

\* The channels that the running loop has not asked for yet.
Ahead(h) == {i \in DOMAIN Channels(h) : i > progress[h]}

\* The round of a loop that asks for the next of them, i.
Round(h, i, rows, next) ==
    /\ \A j \in Ahead(h) : i <= j
    /\ IF Ahead(h) # {i}
       THEN Continue(h, pc[h], rows) /\ progress' = [progress EXCEPT ![h] = i]
       ELSE next /\ progress' = [progress EXCEPT ![h] = 0]

\* Variant: a template of any tenant will do.
TemplatesOfAnyone(h, ch) ==
    {r \in On(db, "templates", ch) :
        "inactive" \notin r.value /\ \E k \in r.keys : k[3] = call[h].name}

TemplatesFor(h, ch) ==
    {r \in db : "inactive" \notin r.value /\ <<"templates", tenant[h], call[h].name, ch>> \in r.keys}

\* _resolve_templates: all channels are looked at before a missing one is reported.
FindTemplate(h) ==
    /\ pc[h] = "templates"
    /\ \E i \in Ahead(h) :
         LET rows == found[h] \cup TemplatesFor(h, Channels(h)[i])
         IN  Round(h, i, rows,
                 IF \A ch \in ToSet(Channels(h)) : On(rows, "templates", ch) # {}
                 THEN Continue(h, "recipients", rows) ELSE Refuse(h, "missing"))

\* _validate_recipients_exist, then _validate_variables_complete.
FindRecipients(h) ==
    /\ pc[h] = "recipients"
    /\ LET known == {r.id : r \in {x \in db : x.table = "recipients" /\ x.tenant = tenant[h]}}
       IN  IF ~ ToSet(Recipients(h)) \subseteq known THEN Refuse(h, "missing")
           ELSE IF \E t \in found[h] : ~ t.value \subseteq call[h].given THEN Refuse(h, "invalid")
           ELSE Continue(h, "addresses", found[h])
    /\ UNCHANGED progress

AddressesOn(h, ch) ==
    {r \in On(db, "addresses", ch) : r.tenant = tenant[h] /\ r.owner \in ToSet(Recipients(h))}

\* _resolve_addresses
FindAddresses(h) ==
    /\ pc[h] = "addresses"
    /\ \E i \in Ahead(h) :
         LET rows == found[h] \cup AddressesOn(h, Channels(h)[i])
         IN  Round(h, i, rows, Continue(h, "submit", rows))

-----------------------------------------------------------------------------
(* The write. *)

Status(h) == IF call[h].scheduled THEN "scheduled" ELSE "created"

\* One NotificationChannel with its attempts; the body is rendered from the template as it
\* was when it was loaded.
Channel(h, ch) ==
    LET template == CHOOSE r \in On(found[h], "templates", ch) : TRUE
        addresses(id) == {r \in On(found[h], "addresses", ch) : r.owner = id}
        reachable == {i \in DOMAIN Recipients(h) : addresses(Recipients(h)[i]) # {}}
    IN  [channel |-> ch, template |-> template.id, body |-> template.value,
         status |-> IF reachable = {} THEN "failed" ELSE Status(h),
         skipped |-> {Recipients(h)[i] : i \in DOMAIN Recipients(h) \ reachable},
         attempts |-> [i \in reachable |->
             [recipient |-> Recipients(h)[i],
              address |-> (CHOOSE r \in addresses(Recipients(h)[i]) : TRUE).value]]]

\* Variant: the request fails as soon as one channel does.
FailedByOne(channels) == \E i \in DOMAIN channels : channels[i].status = "failed"

Failed(channels) == \A i \in DOMAIN channels : channels[i].status = "failed"

\* A channel appears once in a request; templates and recipients are still there.
FanoutFits(channels) ==
    /\ \A i, j \in DOMAIN channels : channels[i].channel = channels[j].channel => i = j
    /\ \A i \in DOMAIN channels :
         {channels[i].template} \cup {a.recipient : a \in ToSet(channels[i].attempts)}
             \subseteq {r.id : r \in db}

Submit(h) ==
    /\ pc[h] = "submit"
    /\ LET channels == [i \in DOMAIN Channels(h) |-> Channel(h, Channels(h)[i])]
           rows == db \cup {Row(<<h>>, "requests", tenant[h], tenant[h], RequestKeys(h),
                                {IF Failed(channels) THEN "failed" ELSE Status(h)})}
       IN  IF Fits(rows) /\ FanoutFits(channels)
           THEN /\ db' = rows
                /\ fanout' = fanout \cup {[id |-> <<h>>, channels |-> channels]}
                /\ Answer(h, "ok") /\ Watch(rows)
           ELSE Refuse(h, "error")
    /\ UNCHANGED progress

Notify(h) ==
    FindKey(h) \/ FindTemplate(h) \/ FindRecipients(h) \/ FindAddresses(h) \/ Submit(h)

InitAll == Init /\ progress = [h \in Requests |-> 0]

Next == \E h \in Requests : (Manage(h) /\ UNCHANGED progress) \/ Notify(h)

Spec == InitAll /\ [][Next]_allVars

-----------------------------------------------------------------------------
(* Properties. *)

TypeOK ==
    /\ pc \in [Requests -> {"idle", "load", "check", "look", "write", "key", "templates",
                            "recipients", "addresses", "submit", "done"}]
    /\ \A h \in Requests :
         /\ pc[h] \in {"idle", "done"} <=> call[h] = None
         /\ call[h] \in Calls \cup {None}
         /\ reply[h] \in Replies \cup {None}
         /\ (reply[h] = None) = (pc[h] # "done")
         /\ found[h] \subseteq ever[h] /\ always[h] \subseteq Outline(ever[h]) \cap Outline(db)
         /\ progress[h] > 0 => pc[h] \in {"templates", "addresses"}

\* A row belongs to the tenant of the row it hangs on, whatever requests of several tenants
\* interleave: the copies of tenant_id never disagree with the foreign keys.
SameTenant ==
    \A r \in db : r.owner # None => \E o \in db : o.id = r.owner /\ o.tenant = r.tenant

\* A request fans out to templates and recipients of its own tenant.
FanoutSameTenant ==
    \A f \in fanout, q \in db : q.id = f.id =>
        \A i \in DOMAIN f.channels : \A x \in db :
            x.id \in {f.channels[i].template} \cup {a.recipient : a \in ToSet(f.channels[i].attempts)}
                => x.tenant = q.tenant

\* A request changes rows of its caller's tenant only, and a platform admin only tenants and
\* users.  get_by_id's filter and the tenant taken from the caller are all there is to it.
TenantIsolation ==
    [][\A h \in Requests : pc[h] # "done" /\ pc'[h] = "done" =>
           \A r \in (db \ db') \cup (db' \ db) :
               IF tenant[h] = None THEN r.table \in {"tenants", "users"} ELSE r.tenant = tenant[h]]_allVars

\* Request h, whose caller was let in, is answered with r.
Answered(h, r) == pc[h] \notin {"idle", "done"} /\ pc'[h] = "done" /\ reply'[h] = r

\* Those of the rows that the call names, by the id in its path or by a natural key.
Named(h, rows) ==
    {r \in rows : IF call[h].op \in Upserts \cup KeyedReads THEN r.keys \cap Keys(h) # {}
                  ELSE r.id = call[h].id /\ r.table = TableOf[call[h].op] /\ OfCaller(h, r)}

\* Nobody's write is undone by a request that loaded the row before it: a row that was there
\* changes only by a call that names it, and only in the columns that the call gives, and it
\* vanishes only by a delete of itself or of the row it hangs on.
ChangesAreAsked ==
    [][\A r \in db \ db' : \E h \in Requests :
         LET c == call[h]
             after == {s \in db' : s.id = r.id}
         IN  /\ Answered(h, "ok")
             /\ \/ /\ after = {} /\ c.op \in Deletes
                   /\ \E o \in Named(h, db) : o.id \in {r.id, r.owner}
                \/ /\ after # {} /\ c.op \in Updates \cup Upserts /\ r \in Named(h, db)
                   /\ \A s \in after :
                        /\ s.keys = r.keys \/ (c.name # None /\ s.keys = Renamed(r, c.name))
                        /\ s.value = r.value \/ (c.value # None /\ s.value = c.value)]_allVars

\* The requests that fail with a 500 although nothing else happened.
KnownFault(h) ==
    LET c == call[h]
        taken(keys) == {r \in db : r.keys \cap keys # {}}
    IN  \/ c.op = "createRecipient" /\ ~ IsInjective(c.channels)
        \/ c.op = "deleteRecipient" /\ \E r \in found[h] : r.owner = c.id
        \/ c.op = "updateTenant" /\ \E r \in db : r.table = "tenants" /\ r.id # c.id
                                    /\ \E k \in r.keys : k[3] = c.name /\ k[4] # "slug"
        \/ c.op = "createTenant" /\ \E r, s \in taken(Keys(h)) : r # s
        \/ c.op = "bootstrap" /\ \E r, s \in PlatformAdmins(db) : r # s
        \/ c.op = "notify" /\ c.key = "" /\ taken(RequestKeys(h)) # {}

\* Apart from those a 500 needs a race: if no other request committed anything from the first
\* SELECT on, every check of the service agrees with every constraint of the database.
FaultsNeedARace ==
    [][\A h \in Requests : reply'[h] = "error" /\ reply[h] = None =>
           Outline(ever[h]) # always[h] \/ KnownFault(h)]_allVars

\* 404: what the call names was not there all the time.
MissingJustified(h) ==
    LET c == call[h]
        ids(table) == {r.id : r \in {x \in always[h] : x.table = table /\ OfCaller(h, x)}}
    IN  \/ c.op \in DOMAIN Loads /\ c.id \notin ids(Loads[c.op])
        \/ c.op \in KeyedReads /\ Named(h, always[h]) = {}
        \/ c.op = "notify" /\ ~ ToSet(c.recipients) \subseteq ids("recipients")
        \/ c.op = "notify" /\ \E ch \in ToSet(c.channels) : \A r \in always[h] :
             <<"templates", tenant[h], c.name, ch>> \in r.keys => "inactive" \in r.value

\* 409: another row had the key that the call asks for.
ConflictJustified(h) ==
    LET c == call[h]
    IN  \E r \in ever[h] :
          \/ c.op \in Creates /\ r.keys \cap Keys(h) # {}
          \/ c.op = "notify" /\ r.keys \cap RequestKeys(h) # {}
          \/ /\ c.op = "updateTemplate" /\ r.id # c.id
             /\ \E s \in ever[h] : s.id = c.id /\ r.keys \cap Renamed(s, c.name) # {}

\* 422: an active template of that name wanted a variable that is not given.
InvalidJustified(h) ==
    LET c == call[h]
    IN  /\ c.op = "notify"
        /\ \E r \in ever[h] : \E ch \in ToSet(c.channels) :
             /\ <<"templates", tenant[h], c.name, ch>> \in r.keys
             /\ "inactive" \notin r.value /\ ~ r.value \subseteq c.given

\* 403, after the check of the caller: there was a platform admin.
ForbiddenJustified(h) == call[h].op = "bootstrap" /\ PlatformAdmins(ever[h]) # {}

\* 2xx: what was read was there; what was created is there, under no other admin if it is
\* the first one; each column that was to be written stood as the call gives it; what was
\* deleted was there and is gone, with all that hung on it.
DoneJustified(h) ==
    LET c == call[h]
        stood == ever[h] \cup db'
        new == db' \ db
    IN  /\ c.op \in Reads \cup Updates \cup Deletes => Named(h, ever[h]) # {}
        /\ c.op \in Creates => \E r \in new :
             /\ r.table = TableOf[c.op] /\ r.keys = Keys(h) /\ r.value = c.value
             /\ \A ch \in ToSet(c.channels) :
                  \E s \in On(new, "addresses", ch) : s.owner = r.id /\ s.value = c.value
        /\ c.op = "bootstrap" => PlatformAdmins(always[h]) = {}
        /\ c.op \in Upserts => \E r \in Named(h, stood) : r.value = c.value
        /\ c.op \in Updates /\ c.name # None =>
             \E r \in stood : r.id = c.id /\ \E k \in r.keys : k[3] = c.name /\ k[4] # "slug"
        /\ c.op \in Updates /\ c.value # None => \E r \in stood : r.id = c.id /\ r.value = c.value
        /\ c.op \in Deletes => \E r \in Named(h, ever[h]) : \A s \in db' : r.id \notin {s.id, s.owner}

\* Whatever a request is answered was true at some moment of it, although it never saw the
\* database at one moment.  (For a 500 see FaultsNeedARace, for a new notification request
\* FanoutJustified.)
RepliesJustified ==
    [][\A h \in Requests :
         /\ Answered(h, "missing") => MissingJustified(h)
         /\ Answered(h, "conflict") => ConflictJustified(h)
         /\ Answered(h, "invalid") => InvalidJustified(h)
         /\ Answered(h, "forbidden") => ForbiddenJustified(h)
         /\ Answered(h, "ok") => DoneJustified(h)]_allVars

\* What a new request fans out to is whole and was real: every channel asked for once, every
\* recipient once on it, attempted at an address it had, or skipped though known, when at some
\* moment it had none; every body from a template that was active under that name; the request
\* failed only if nobody can be reached.
FanoutJustified ==
    [][\A h \in Requests : pc[h] = "submit" /\ reply'[h] = "ok" =>
         \E f \in fanout' \ fanout, q \in db' \ db :
           LET c == call[h]
               attempts == UNION {ToSet(f.channels[i].attempts) : i \in DOMAIN f.channels}
           IN  /\ f.id = q.id /\ q.tenant = tenant[h]
               /\ {f.channels[i].channel : i \in DOMAIN f.channels} = ToSet(c.channels)
               /\ q.value = {IF attempts = {} THEN "failed" ELSE IF c.scheduled THEN "scheduled" ELSE "created"}
               /\ \A i \in DOMAIN f.channels :
                    LET n == f.channels[i]
                        has(rows, id) == {r \in On(rows, "addresses", n.channel) : r.owner = id}
                    IN  /\ n.skipped \cup {a.recipient : a \in ToSet(n.attempts)} = ToSet(c.recipients)
                        /\ IsInjective([j \in DOMAIN n.attempts |-> n.attempts[j].recipient])
                        /\ \A a \in ToSet(n.attempts) :
                             a.recipient \notin n.skipped
                             /\ \E r \in has(ever[h], a.recipient) : r.value = a.address
                        /\ \A id \in n.skipped : has(always[h], id) = {}
                        /\ \E r \in ever[h] :
                             /\ r.id = n.template /\ r.value = n.body /\ n.body \subseteq c.given
                             /\ <<"templates", tenant[h], c.name, n.channel>> \in r.keys]_allVars

\* "One-time bootstrap endpoint: creates the first platform admin. Returns 403 once any
\* platform admin exists" (auth_router.py).
OneTimeBootstrap == Cardinality(PlatformAdmins(db)) <= 1
=============================================================================
