----------------------------- MODULE Directory -----------------------------
(***************************************************************************)
(* The management API: tenants, users, templates, recipients with their    *)
(* addresses, and channel configurations.  Every endpoint is an            *)
(* authenticated caller, then SELECTs of what it needs, then one write.    *)
(* (The SELECT of the addresses that come with a recipient is taken to be  *)
(* one with the recipient's own.)                                          *)
(*                                                                         *)
(* A SELECT is a transaction of its own: the driver opens one only at the  *)
(* first write, which takes SQLite's single write lock until get_db        *)
(* commits.  So other requests commit between any two steps of a handler,  *)
(* and a write with its commit is one step.                                *)
(*                                                                         *)
(* A row is its id, table, tenant, unique keys, the row whose deletion     *)
(* takes it along (owner) and a value: a set that stands for the other     *)
(* columns (for a template the variables it names, "inactive" if it is     *)
(* switched off; for an address the address).                              *)
(***************************************************************************)
EXTENDS Integers, FiniteSets, Sequences, SequencesExt

CONSTANTS
    Requests,  \* requests in flight; a request is also the source of its new rows' ids
    Calls,     \* what a client may ask: [op, by, id, name, slug, channel, channels, value]
    Seed,      \* the rows there are at first
    None

VARIABLES
    db,      \* the committed rows
    fanout,  \* the channels and attempts of the committed notification requests
    pc,      \* the step a request is at
    call,    \* what it asks
    tenant,  \* the tenant of its caller, None for a platform admin
    found,   \* the rows its SELECTs returned
    reply,   \* how it was answered
    ever,    \* history: the rows committed at some moment of the request
    always   \* history: the rows, in outline, committed at every moment of it

vars == <<db, fanout, pc, call, tenant, found, reply, ever, always>>

\* The rows each operation is about.
TableOf ==
    [createTenant |-> "tenants", getTenant |-> "tenants", updateTenant |-> "tenants",
     createUser |-> "users", bootstrap |-> "users",
     createTemplate |-> "templates", getTemplate |-> "templates",
     updateTemplate |-> "templates", deleteTemplate |-> "templates",
     createRecipient |-> "recipients", getRecipient |-> "recipients",
     updateRecipient |-> "recipients", deleteRecipient |-> "recipients",
     upsertAddress |-> "addresses", deleteAddress |-> "addresses",
     upsertConfig |-> "configs", getConfig |-> "configs", deleteConfig |-> "configs"]

PlatformOps == {"createTenant", "getTenant", "updateTenant", "createUser"}

\* Operations that start with a get_by_id, and the table it reads.
Loads ==
    [getTenant |-> "tenants", updateTenant |-> "tenants", createUser |-> "tenants",
     getTemplate |-> "templates", updateTemplate |-> "templates",
     deleteTemplate |-> "templates", getRecipient |-> "recipients",
     updateRecipient |-> "recipients", deleteRecipient |-> "recipients",
     upsertAddress |-> "recipients", deleteAddress |-> "recipients"]

Creates == {"createTenant", "createUser", "bootstrap", "createTemplate", "createRecipient"}
Upserts == {"upsertAddress", "upsertConfig"}
KeyedReads == {"deleteAddress", "getConfig", "deleteConfig"}
Updates == {"updateTenant", "updateTemplate", "updateRecipient"}
Deletes == {"deleteTemplate", "deleteRecipient", "deleteAddress", "deleteConfig"}
Reads == {"getTenant", "getTemplate", "getRecipient", "getConfig"}

Row(id, table, t, owner, keys, value) ==
    [id |-> id, table |-> table, tenant |-> t, owner |-> owner, keys |-> keys, value |-> value]

\* A unique key: table, scope, name and channel, "slug" for a tenant's slug.
Scope(h) ==
    IF TableOf[call[h].op] = "addresses" THEN call[h].id
    ELSE IF TableOf[call[h].op] \in {"tenants", "users"} THEN <<>> ELSE tenant[h]

Keys(h) ==
    LET c == call[h]
        key(name, channel) == <<TableOf[c.op], Scope(h), name, channel>>
    IN  {key(c.name, c.channel)} \cup (IF c.slug = None THEN {} ELSE {key(c.slug, "slug")})

Replies == {"ok", "error", "missing", "conflict", "forbidden", "unauthorized", "invalid"}

\* An id that request h may give to a row.
From(id, h) == id = <<h>> \/ \E c \in Calls : \E i \in DOMAIN c.channels : id = <<h, i>>

\* What the schemas and the paths of the endpoints let through.
ASSUME CallsAssumption ==
    \A c \in Calls :
        /\ c.op \in DOMAIN TableOf \cup {"notify"}
        /\ c.op \notin {"createRecipient", "notify"} => c.channels = <<>>
        /\ c.op # "notify" => "slug" \notin {c.channel} \cup ToSet(c.channels)
        /\ c.op \notin {"createTenant", "notify"} => c.slug = None
        /\ c.op \in Creates \ {"createUser"} => c.id = None
        /\ c.op \in {"updateRecipient"} \cup Upserts => c.name = None
        /\ c.op \in Upserts => c.value # None
        /\ c.op = "notify" => \A s \in {c.channels, c.recipients} :
                                Len(s) \in Nat \ {0} /\ DOMAIN s = 1 .. Len(s)

ASSUME NoneAssumption == None \notin Calls /\ None \notin Replies

Fields == {"id", "table", "tenant", "owner", "keys", "value"}

\* Where a row hangs among the given rows; what its keys start with, and how many it has:
\* a tenant a name and a slug, a request at most one, the others one.
WellOwned(r, rows) ==
    \/ r.owner = None /\ r.table = "tenants" /\ r.tenant = r.id
    \/ r.owner = None /\ r.table = "users" /\ r.tenant = None
    \/ /\ r.table = "addresses"
       /\ \E o \in rows : o.id = r.owner /\ o.table = "recipients" /\ o.tenant = r.tenant
    \/ /\ r.table \in {"users", "templates", "recipients", "configs", "requests"}
       /\ r.owner = r.tenant
       /\ \E o \in rows : o.id = r.owner /\ o.table = "tenants" /\ o.tenant = r.tenant

WellKeyed(r) ==
    \A k \in r.keys :
        /\ DOMAIN k = {1, 2, 3, 4} /\ k[1] = r.table
        /\ r.table = "addresses" => k[2] = r.owner
        /\ r.table \in {"templates", "recipients", "configs", "requests"} => k[2] = r.tenant
        /\ \A l \in r.keys : k[4] = l[4] \/ r.table # "tenants" => k = l

HasName(r) == r.table # "requests" => \E k \in r.keys : k[4] # "slug"

PlatformAdmins(rows) == {u \in rows : u.table = "users" /\ u.tenant = None}

\* Only a platform admin creates users.
ASSUME UsersAssumption == (\E u \in Seed : u.table = "users") => PlatformAdmins(Seed) # {}

ASSUME SeedAssumption ==
    /\ \A r \in Seed : /\ DOMAIN r = Fields /\ WellOwned(r, Seed) /\ WellKeyed(r) /\ HasName(r)
                       /\ r.id # None /\ \A h \in Requests : ~From(r.id, h)
    /\ \A r, s \in Seed : r = s \/ (r.id # s.id /\ r.keys \cap s.keys = {})
    /\ \A h \in Requests : ~From(None, h)

Init ==
    /\ db = Seed /\ fanout = {}
    /\ pc = [h \in Requests |-> "idle"]
    /\ call = [h \in Requests |-> None]
    /\ tenant = [h \in Requests |-> None]
    /\ found = [h \in Requests |-> {}]
    /\ reply = [h \in Requests |-> None]
    /\ ever = [h \in Requests |-> {}]
    /\ always = [h \in Requests |-> {}]

-----------------------------------------------------------------------------
(* Shapes of a step. *)

\* What of a row decides whether it is found.
Outline(rows) == {[r EXCEPT !.value = @ \cap {"inactive"}] : r \in rows}

\* The history of the requests that are not finished.
Watch(rows) ==
    /\ ever' = [h \in Requests |-> IF pc'[h] \in {"idle", "done"} THEN {} ELSE ever[h] \cup rows]
    /\ always' = [h \in Requests |->
                    IF pc'[h] \in {"idle", "done"} THEN {}
                    ELSE IF pc[h] = "idle" THEN Outline(rows) ELSE always[h] \cap Outline(rows)]

\* Variant: the session keeps what it has loaded.
AnswerKeeping(h, r) ==
    /\ pc' = [pc EXCEPT ![h] = "done"]
    /\ reply' = [reply EXCEPT ![h] = r]
    /\ call' = [call EXCEPT ![h] = None]
    /\ tenant' = [tenant EXCEPT ![h] = None]
    /\ UNCHANGED found

\* The request is answered; its session is given back.
Answer(h, r) ==
    /\ pc' = [pc EXCEPT ![h] = "done"]
    /\ reply' = [reply EXCEPT ![h] = r]
    /\ call' = [call EXCEPT ![h] = None]
    /\ tenant' = [tenant EXCEPT ![h] = None]
    /\ found' = [found EXCEPT ![h] = {}]

\* Answered without a write, or after a rollback.
Refuse(h, r) == Answer(h, r) /\ UNCHANGED <<db, fanout>> /\ Watch(db)

\* A SELECT returned rows and the handler goes on.
Continue(h, step, rows) ==
    /\ pc' = [pc EXCEPT ![h] = step]
    /\ found' = [found EXCEPT ![h] = rows]
    /\ UNCHANGED <<db, fanout, call, tenant, reply>>
    /\ Watch(db)

\* What the constraints of the tables let a transaction commit.
Fits(rows) ==
    /\ \A r, s \in rows : r.id # s.id => r.keys \cap s.keys = {}
    /\ \A r \in rows : r.owner = None \/ \E o \in rows : o.id = r.owner

Commit(h, rows) ==
    IF Fits(rows)
    THEN /\ db' = rows /\ Answer(h, "ok") /\ UNCHANGED fanout /\ Watch(rows)
    ELSE Refuse(h, "error")

-----------------------------------------------------------------------------
(* The caller. *)

\* Variant: the role is not looked at.
MayCallAnything(u, c) == TRUE

\* require_platform_admin, or get_current_tenant_id, which turns a platform admin away.
MayCall(u, c) == u.tenant = None <=> c.op \in PlatformOps

FirstStep(c) ==
    IF c.op = "notify" THEN IF c.key \in {None, ""} THEN "templates" ELSE "key"
    ELSE IF c.op \in DOMAIN Loads THEN "load"
    ELSE IF c.op \in Creates THEN "check" ELSE "look"

Admit(h, c, t) ==
    /\ call' = [call EXCEPT ![h] = c]
    /\ tenant' = [tenant EXCEPT ![h] = t]
    /\ pc' = [pc EXCEPT ![h] = FirstStep(c)]
    /\ UNCHANGED <<db, fanout, found, reply>>
    /\ Watch(db)

\* get_current_user.  Only the bootstrap asks for no user.
Begin(h) ==
    /\ pc[h] = "idle"
    /\ \E c \in Calls :
         LET users == {u \in db : u.table = "users" /\ u.id = c.by}
         IN  \/ c.op = "bootstrap" /\ Admit(h, c, None)
             \/ c.op # "bootstrap" /\ users = {} /\ Refuse(h, "unauthorized")
             \/ /\ c.op # "bootstrap"
                /\ \E u \in users : IF MayCall(u, c) THEN Admit(h, c, u.tenant)
                                    ELSE Refuse(h, "forbidden")

-----------------------------------------------------------------------------
(* The steps of a handler. *)

\* Variant: the row is looked up by its id alone.
OfAnyTenant(h, r) == TRUE

OfCaller(h, r) == tenant[h] = None \/ r.tenant = tenant[h]

\* What a unique key becomes when its row is renamed.
Renamed(r, name) == {IF k[4] = "slug" THEN k ELSE [k EXCEPT ![3] = name] : k \in r.keys}

\* get_by_id; a recipient comes with its addresses.
Load(h) ==
    /\ pc[h] = "load"
    /\ LET c == call[h]
           rows == {r \in db : r.id = c.id /\ r.table = Loads[c.op] /\ OfCaller(h, r)}
           children == {r \in db : \E o \in rows : r.table = "addresses" /\ r.owner = o.id}
           renamed == c.op = "updateTemplate" /\ c.name # None
                      /\ \E r \in rows : Renamed(r, c.name) # r.keys
       IN  IF rows = {} THEN Refuse(h, "missing")
           ELSE IF c.op \in Reads THEN Refuse(h, "ok")
           ELSE IF c.op = "createUser" \/ renamed THEN Continue(h, "check", rows)
           ELSE IF c.op \in Upserts \cup KeyedReads THEN Continue(h, "look", {})
           ELSE Continue(h, "write", rows \cup children)

\* The conflict SELECT of a create, a rename or the bootstrap (scalar_one_or_none: two
\* rows are an error).
Check(h) ==
    /\ pc[h] = "check"
    /\ LET c == call[h]
           wanted == IF c.op = "updateTemplate" THEN UNION {Renamed(r, c.name) : r \in found[h]}
                     ELSE Keys(h)
           clash == IF c.op = "bootstrap" THEN PlatformAdmins(db)
                    ELSE {r \in db : r.id # c.id /\ r.keys \cap wanted # {}}
       IN  IF clash = {} THEN Continue(h, "write", found[h])
           ELSE Refuse(h, IF \E r, s \in clash : r # s THEN "error"
                          ELSE IF c.op = "bootstrap" THEN "forbidden" ELSE "conflict")

\* The SELECT by the natural key, of an address or a channel configuration.
Look(h) ==
    /\ pc[h] = "look"
    /\ LET rows == {r \in db : r.keys \cap Keys(h) # {}}
       IN  IF rows = {} /\ call[h].op \notin Upserts THEN Refuse(h, "missing")
           ELSE IF call[h].op \in Reads THEN Refuse(h, "ok")
           ELSE Continue(h, "write", rows)

\* The rows a create adds: its own, and the addresses a recipient comes with.
NewRows(h) ==
    LET c == call[h]
        owner == IF c.op \in {"createTenant", "bootstrap"} THEN None
                 ELSE IF c.op \in {"createUser", "upsertAddress"} THEN c.id ELSE tenant[h]
        of == IF c.op = "createTenant" THEN <<h>> ELSE IF c.op = "createUser" THEN c.id ELSE tenant[h]
    IN  {Row(<<h>>, TableOf[c.op], of, owner, Keys(h), c.value)}
        \cup {Row(<<h, i>>, "addresses", tenant[h], <<h>>,
                  {<<"addresses", <<h>>, None, c.channels[i]>>}, c.value) : i \in DOMAIN c.channels}

Insert(h) ==
    /\ pc[h] = "write"
    /\ call[h].op \in Creates \/ (call[h].op \in Upserts /\ found[h] = {})
    /\ Commit(h, db \cup NewRows(h))

\* Variant: a row that is gone by now is not noticed.
NoticesNothing(h, row, changed) == FALSE

\* Variant: the row is written as it was loaded, with what the call changes.
WrittenWhole(r, row, keys, value) ==
    IF r.id # row.id THEN r ELSE [r EXCEPT !.keys = keys, !.value = value]

\* The ORM writes the columns that differ from what was loaded.
Written(r, row, keys, value) ==
    IF r.id # row.id THEN r
    ELSE [r EXCEPT !.keys = IF keys = row.keys THEN @ ELSE keys,
                   !.value = IF value = row.value THEN @ ELSE value]

\* It raises when its UPDATE meets no row.
Vanished(h, row, changed) == changed /\ \A r \in db : r.id # row.id

Update(h) ==
    /\ pc[h] = "write"
    /\ call[h].op \in Updates \cup Upserts
    /\ \E row \in found[h] :
         LET c == call[h]
             keys == IF c.name = None THEN row.keys ELSE Renamed(row, c.name)
             value == IF c.value = None THEN row.value ELSE c.value
         IN  /\ row.table = TableOf[c.op]
             /\ IF Vanished(h, row, keys # row.keys \/ value # row.value) THEN Refuse(h, "error")
                ELSE Commit(h, {Written(r, row, keys, value) : r \in db})

\* What ON DELETE does to the notifications: attempts go with their recipient, channels
\* forget their template.
Without(n, id) ==
    [n EXCEPT !.template = IF @ = id THEN None ELSE @,
              !.attempts = Restrict(@, {i \in DOMAIN @ : @[i].recipient # id})]

Bereft(f, id) ==
    [f EXCEPT !.channels = [i \in DOMAIN @ |-> Without(@[i], id)]]

\* The ORM first detaches the addresses that came with a recipient, which their NOT NULL
\* recipient_id refuses.  It only warns when its DELETE meets no row.
Delete(h) ==
    /\ pc[h] = "write"
    /\ call[h].op \in Deletes
    /\ \E row \in found[h] :
         /\ row.table = TableOf[call[h].op]
         /\ IF \E r \in found[h] : r.owner = row.id THEN Refuse(h, "error")
            ELSE LET rows == {r \in db : row.id \notin {r.id, r.owner}}
                 IN  /\ db' = rows /\ fanout' = {Bereft(f, row.id) : f \in fanout}
                     /\ Answer(h, "ok") /\ Watch(rows)

Manage(h) ==
    Begin(h) \/ Load(h) \/ Check(h) \/ Look(h) \/ Insert(h) \/ Update(h) \/ Delete(h)
=============================================================================
