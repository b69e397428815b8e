# Verification of the multi-tenant notification service

TLA+ models of the notification service in `src/`, the TLC configurations that
check them on small instances, and theorems about them that TLAPS checks for
every instance. Paths below are relative to `src/` unless they end in `.tla` or
`.cfg`.

## 1. The system

One Uvicorn process serves an HTTP API (FastAPI), keeps everything in one SQLite
file, and runs a delivery engine as tasks of the same event loop. A tenant's
`POST /notifications` becomes one request, one channel row for each requested
channel, and one delivery attempt for each recipient with an address on it; the
engine works the attempts off.

| Component | State it keeps | Operations | Interaction | What makes it correct |
|---|---|---|---|---|
| Claim, send and settle (`app/delivery/dispatch.py:86-225`) | `delivery_attempts`, `notification_channels.status`, `audit_logs` | `claim_and_send`, `_recompute_channel_status`, `_write_audit` | run by every worker; calls the provider | no message twice; row, provider, audit trail and channel agree |
| Dispatch engine (`app/delivery/engine.py`, `dispatch.py:26-83`) | `EngineState`: tenant queues, buckets, `in_flight`, work queue | poll loop, dispatch round, worker loop, `start`, `stop` | reads due rows, asks the buckets, feeds the workers | nothing queued twice, nothing lost in memory, no tenant held up by another |
| Token bucket (`app/delivery/rate_limit.py`) | `tokens`, `last_refill` | `full`, `try_acquire` | asked by the dispatch round | never more than burst plus rate; a token that is there is given |
| Backoff (`app/delivery/backoff.py`) | none | `compute_backoff` | called by settle | retry is later, by a capped delay |
| Provider (`app/delivery/provider.py`) | none | `send` | called by a worker | external in production, a mock here |
| Notification requests (`app/notifications/`) | `notification_requests`, channels and attempts at creation | `create` | reads templates, recipients and addresses; inserts what the poll loop finds | one request per idempotency key; all rows or none; a fan-out that was true of some moment; skipped recipients recorded |
| Recipients (`app/recipients/`) | `recipients`, their addresses | create, get, update, delete, address upsert and delete | a delete cascades to attempts | one address per channel; keys unique; tenants apart |
| Tenants (`app/tenants/`) | `tenants` with rate limits | create, get, update | limits are read when a bucket is made | names and slugs unique; limits in force |
| Templates (`app/templates/`) | `templates` | create, get, update, delete, `render` | rendered when a request is created | one per name and channel; tenants apart |
| Channel configurations (`app/channel_configs/`) | `channel_configs` | get, upsert, delete | read by nobody | one per channel; tenants apart |
| Users and authentication (`app/users/`, `app/common/auth*.py`) | `users` | create, login, one-time bootstrap | guards the routes, supplies the tenant of every query | a caller acts for its own tenant only; one bootstrap only |
| Sessions (`app/common/database.py`) | the SQLite connection's modes | `get_db` | every component | commit or rollback as a whole |
| Schema migrations (`alembic/`) | `alembic_version` and the tables themselves | five scripts, up and down | run by `lifespan` before the first request | what is served has the schema the models declare; an interrupted upgrade takes nothing away |
| Start and stop (`main.py`) | none | `lifespan` | migrates, then starts and stops the engine | nothing is served before the schema is at the head |

What is hard about it:

- ten workers, the poll loop, the dispatcher and HTTP handlers interleave at
  every `await`; the only lock between workers is one conditional `UPDATE`;
- a delivery is several transactions with a send in the middle, and the process
  may stop, a statement may fail, or the row may be deleted between any two;
- values are read in one transaction and used in a later one: the attempt and the
  channel object of a worker, the poll loop's batch, the limit in a bucket, and
  every row an endpoint reads before it writes;
- tenants are kept apart by a `WHERE tenant_id = ...` in each query and by nothing
  in the database; uniqueness is checked by a SELECT and decided by a constraint;
- most DDL statements of a migration are durable one by one, its version is not;
- memory (`in_flight`, queues, buckets) and database (`status`,
  `next_attempt_at`) each hold half of the truth about an attempt;
- time: backoff, scheduled sends, and buckets that depend on the wall clock.

`PROJECT.json` lists the hazards, each at its line with the properties that would
catch it going wrong.

## 2. The modules

```
DeliveryLifecycle  <--implements--  ClaimAndSend  <--EXTENDS--  DispatchEngine
                                     |       |                       |
                          RecountAlone     ClaimAndSend_proofs  <--  DispatchEngine_proofs
                                     |       |
                                   RecountAlone_proofs
RateLimit          <--implements--  TokenBucket   <--  TokenBucket_proofs

Directory  <--EXTENDS--  NotificationCreate  <--  NotificationCreate_proofs
                                                    <--  ApiHistory_proofs  <--  ApiAnswers_proofs
Startup    <--  Startup_proofs
Startup, Schema  <--EXTENDS--  MCStartup
```

The upper half is the delivery of messages, the lower one the API and the start of
the process. They meet in the rows: what `NotificationCreate!Submit` commits is
what `ClaimAndSend!Create` takes as given (channels with a status `created`,
`scheduled` or `failed`, one attempt for each reachable recipient), and the
deletion of a recipient is `ClaimAndSend!DeleteRecipient` for a worker.

**`ClaimAndSend.tla`**: any number of workers in `claim_and_send` against one
database. `pc[w]` names the await a worker is at, and each action is what it does
up to the next one:

| `pc` | actions | code |
|---|---|---|
| `idle` | `Take` | `engine.py:71-75`, the item is given |
| `claim` | `ClaimWon`, `ClaimLost` | `dispatch.py:96-126`: UPDATE, load, audit row, commit |
| `load` | `LoadChannel` | `dispatch.py:128` |
| `send` | `Send` | `dispatch.py:130-133`; an exception counts as a failure |
| `settle` | `SettleSent`, `SettleFailed`, `SettleStale` | `dispatch.py:135-168`; `SettleStale` is SQLAlchemy's `StaleDataError` when the row is gone |
| `recount` | `Recount` | the SELECT and the arithmetic of `_recompute_channel_status` |
| `write` | `WriteChannel` | `dispatch.py:211` and the commit |
| `close` | `Release` | the session closes, `finally` |

Around the workers: `Create` (the rows a request inserts), `DeleteRecipient` (the
cascade), `BackoffElapses` (the clock passes a `next_attempt_at`), `DatabaseError`
(the statement a worker is at fails) and `Restart` (memory is lost, commits stay).

What makes a step atomic: SQLite has one writer, and a transaction that begins
with a write holds the lock until its commit, so UPDATE to COMMIT is one step.
The driver opens a transaction only at the first write, so a SELECT outside of
one is a step of its own and may be stale afterwards. `expire_on_commit=False`
(`app/common/database.py`) keeps a loaded object as it was: `loaded[w]` and
`seen[w]` are the two columns of loaded objects that are used later. The ORM
writes a column only when it changed from what was loaded, hence the condition in
`WriteChannel`.

**`DeliveryLifecycle.tla`** is the promise about one delivery: it waits, is
tried, confirmed, given back or buried; its recipient is reached at most once.
It knows of no workers, statuses or transactions. `ClaimAndSend` implements it
under the mapping `PhaseOf(status)`.

**`TokenBucket.tla`** is `try_acquire` over whole seconds and exact fractions of a
token, with a clock that may be set back; **`RateLimit.tla`** is the limiter it
implements: a level that fills continuously. The code computes the level only
when asked; the mapping takes `level` to be what the next call would compute.

**`DispatchEngine.tla`** extends `ClaimAndSend` with `EngineState`. `PollSelect`
reads the due rows; `PollItem` looks at one of them (the loop may suspend at each
one to load a tenant, so workers run in between); `PollFails` is the `except`
of a tick; `DispatchRound` is a whole round (none of its awaits suspends);
`WorkerGet`, `WorkerWorks` and `WorkerDone` are the worker loop around the
actions of `ClaimAndSend`; `UpdateLimit` is `PATCH /tenants/{id}`;
`EngineRestart` is a new `EngineState`. Buckets are counted in whole tokens with
a `Refill` step for each one that has flowed in when it is asked, which is what `RateLimit`
allows `TokenBucket` to be seen as. `batch` is a set: the order in which a poll
looks at its rows is left open.

**`RecountAlone.tla`** extends `ClaimAndSend` with one history variable: the
channels on which two workers were ever between the load and the write of the
channel's status at the same time, a recount was lost, or an attempt was deleted.
It separates what is wrong with recounts (run `rollup_race`) from what can be
relied on: on every other channel the final status is right.

**`Directory.tla`** is the management API as one machine: `n` requests, each at a
step `pc[h]` of its handler.

| `pc` | action | code |
|---|---|---|
| `idle` | `Begin` | `get_current_user`, the role checks, `get_current_tenant_id` (`app/common/auth.py`); the bootstrap asks for nobody |
| `load` | `Load` | the `get_by_id` of each service, always with the caller's tenant in its WHERE |
| `check` | `Check` | the conflict SELECT of the creates, the rename of a template and the bootstrap |
| `look` | `Look` | the SELECT by the natural key in `upsert`, `upsert_address`, `get`, `delete_address` |
| `write` | `Insert`, `Update`, `Delete` | flush and the commit of `get_db` |

The services differ in their table, their natural key and which of these steps they
take (`TableOf`, `Keys`, `Loads`, `Creates`, `Upserts`, `KeyedReads`), and this is
how they are written down. A row is its id, table, tenant, unique keys, the row
whose deletion takes it along, and a value for the rest. The ids a request gives
out are tuples that begin with it, which is what a random UUID is good for.

A SELECT is a transaction of its own: the `sqlite3` driver sends BEGIN before
INSERT, UPDATE and DELETE only, so every SELECT before the first write sees what
is committed at that moment, and the rows may change until the write. From the
first write on the connection holds SQLite's one write lock, so flush and commit
are one step. `Fits` is what the constraints of the tables decide then; a
violation is the 500 of an uncaught `IntegrityError`. `found[h]` is what the
session has loaded: the ORM writes only columns that differ from it, and raises
`StaleDataError` when its UPDATE meets no row (`Vanished`), but only warns when a
DELETE does. A recipient comes with its addresses in a second SELECT
(`selectinload`), which is taken as one with the first.

**`NotificationCreate.tla`** extends it with `POST /notifications`: `FindKey`,
`FindTemplate` and `FindAddresses` (one SELECT for each distinct channel),
`FindRecipients` with the check of the variables, and `Submit`, the one write
transaction with the fan-out. `fanout` keeps the channels and attempts of each
request; the body of a channel is the value its template had when it was loaded.
`list(dict.fromkeys(...))` is `Distinct`: the list cut down to the positions at which
something is mentioned first. So channels, recipients and attempts are functions on
positions of the call, in its order, with gaps where a repetition was or a recipient
without an address is skipped; `progress` is the position that a loop of SELECTs last
asked for, and `Ahead` what it has left.
`ever` and `always` are history variables, the rows committed at some moment and
at every moment of a request: the properties say of answers and fan-outs that they
were true then.

**`Startup.tla`** executes migration scripts, given to it as the constants `Upgrades`
and `Downgrades`, one sequence of statements for each revision. `BeginUpgrade` takes
the next script, `Step` and `StepFails` execute its statement at position `done + 1`,
`FinishScript` writes the version, `Serve` is the `yield` of `lifespan`, `Die` what a
crash or an error leaves. A script runs in a transaction of its own, of which the
driver begins the database's only at the first statement that writes rows, so that the
DDL before it is durable at once (`disk`) and the rest with the version (`db` until
then). `batch_alter_table` is three statements: create the copy, fill it and swap,
recreate the indexes; the scripts run with `foreign_keys` off, which only the
application's own engine switches on. The process may crash between any two
statements, rows may not fit a new constraint, an operator may go one revision down.
`Revision[v]` is what the scripts up to `v` build when nothing disturbs them, and
`ScriptsSound` says what is asked of each script alone: it runs to its end from its own
revision; until an upgrade writes rows it only adds tables; a downgrade undoes its
upgrade; at the head are the tables the models declare (`Declared`).

**`Schema.tla`** has the scripts and the models of the repository as data:
`DeclaredTables`, what the models say, and `UpgradeScripts` and `DowngradeScripts`,
every statement of the five scripts. **`MCStartup.tla`** puts both together.

**`MC*.tla`** give constants their values, and each `.cfg` is one run.

Some definitions are preceded by a *variant* of themselves: the same code with a
plausible bug in it. No specification uses a variant; it is what the property
named for it in `PROJECT.json` must, and does, reject when it takes the place of
the definition, so that every property is known to be about the code.

## 3. What is checked

Runs that pass:

| run | cfg | question | properties |
|---|---|---|---|
| `claim_race` | `MCClaimRace.cfg` | Can a race of workers, an error, a restart or a deletion send a message twice or make the database say what is not so? When can a channel's final status be trusted? | `TypeOK`, `OneSender`, `NoDuplicateDelivery`, `RowMatchesProvider`, `ChannelTruthful`, `AuditChained`, `UndisturbedAgrees`, `ImplementsLifecycle` |
| `token_bucket` | `TokenBucket.cfg` | Does a bucket keep its rate in every window, whatever the clock does? | `TypeOK`, `RateBound`, `ImplementsRateLimit` |
| `engine_race` | `MCEngineRace.cfg` | Can the loops queue an attempt twice, or forget one? Can a channel that skipped a recipient claim to have reached everybody? | `EngineTypeOK`, `InFlightExact`, `QueuesServable`, `SendingIsHeld`, `ChannelTruthful` |
| `quiet_tenant` | `MCQuietTenant.cfg` | Is a tenant served while another floods its queue and may send nothing? | `QuietTenantServed` |
| `api_race` | `MCApiRace.cfg` | Can three requests of any kind, one SELECT at a time, mix tenants, undo each other's writes, answer what never was so, fan out to what never was there, or fail for no reason? | `TypeOK`, `SameTenant`, `FanoutSameTenant`, `TenantIsolation`, `ChangesAreAsked`, `FaultsNeedARace`, `RepliesJustified`, `FanoutJustified` |
| `migrations` | `MCStartup.cfg` | Does every start, from any revision and after any crash, serve the schema the models declare, and can it take something away? Is each script alone what the theorems ask of it? | `TypeOK`, `StartsSound`, `ServesDeclaredSchema`, `CleanIsExact`, `OldSchemaSurvives`, `TargetsExist`, `FailsForACause` |

Runs that find a disagreement between the code and what its documents say:

| run | cfg | the documents | the code |
|---|---|---|---|
| `rollup_race` | `MCRollupRace.cfg` | a channel's status is "recomputed after each attempt settles" (`README.md:59`), "all SENT and nobody skipped -> COMPLETED" (`dispatch.py:179`) | two workers recount one channel: one counts while the other's attempt is still SENDING (PROCESSING), the other settles, counts and writes COMPLETED, then the first writes its older PROCESSING over it, and nobody recounts again |
| `crash` | `MCCrash.cfg` | failures are retried, "eventually dead-lettering" (`README.md:82`) | a restart between claim and settling commit leaves SENDING, which neither poll nor claim accepts |
| `scheduled` | `MCScheduled.cfg` | the poll loop "handles scheduled sends for free" (`README.md:98`) | scheduled attempts get the status SCHEDULED, which the poll does not select |
| `early_retry` | `MCEarlyRetry.cfg` | "RETRYING whose backoff has elapsed" (`dispatch.py:28`) | the row of an old batch is queued again after its worker left it, and the claim does not look at `next_attempt_at` |
| `stale_limit` | `MCStaleLimit.cfg` | rate limits are updated via PATCH (`README.md:128`) | a bucket that exists keeps its capacity and rate |
| `bootstrap` | `MCBootstrap.cfg` | "One-time bootstrap endpoint ... Returns 403 once any platform admin exists" (`app/common/auth_router.py:48`) | two calls that both look before either commits both create an admin; every later call meets two rows and answers 500 |

`RollupAgrees` fails when two workers are on one channel, which is what the run shows, and
also when a recount is lost: it is a second transaction behind that of the result, an error
in it is logged (`app/delivery/engine.py:76`), and nothing recounts later, as the row is
settled (one worker and `MaxFaults = 1` in `MCRollupRace.cfg` show it; no property of a
passing run does). The two are all there is, beside deletions. That a worker compares with
the status it loaded before its send (`dispatch.py:128`) does no harm by itself: it loads
while its own attempt is SENDING, so what it loads is no final status, and whoever recounts
last, when all rows are settled, finds a difference and writes. What holds in place of `RollupAgrees`:
`ChannelTruthful` in all cases (a channel never claims more than its rows allow, it
may only lag behind), and `UndisturbedAgrees`, the equation of `RollupAgrees` for
every channel without an overlap, a lost recount or a deletion.

`FaultsNeedARace` says that a request with nobody else committing is never answered
with a 500, and its exceptions (`KnownFault`) are what the code does get wrong
without any race, each read off the source and met by a call of the run:

- a recipient created with one channel named twice (`app/recipients/service.py:34`);
- the deletion of a recipient that has addresses: they are loaded with it, and
  without `passive_deletes` the ORM first sets their NOT NULL `recipient_id` to NULL
  (`app/recipients/service.py:78`);
- a tenant renamed to a taken name, which nothing checks (`app/tenants/service.py:57`);
- a tenant whose name and slug belong to two others, and the bootstrap with two
  platform admins: `scalar_one_or_none` meets two rows;
- a second request with the idempotency key `""`, which is stored but never looked
  up (`app/notifications/service.py:26`).

`RepliesJustified` has a part for each answer: 404 (`MissingJustified`), 409
(`ConflictJustified`), 422 (`InvalidJustified`), the 403 of the bootstrap
(`ForbiddenJustified`), and every 2xx (`DoneJustified`): what was read was there; what was
created is there afterwards, with its addresses; a name and a value that an update gives
each stood at some moment of the request, at its commit or before; what was deleted is
gone, with all that hung on it. `ChangesAreAsked` says the same from the side of the rows:
a committed row changes only by a request that names it, only in the columns that the
request gives, and vanishes only by a delete of it or of the row it hangs on. So two
PATCHes of different columns both stand, although each loaded the row before the other's
commit; it rests on the ORM writing only what differs from what was loaded (`Written`).

One comment disagrees with this and with `TemplateService.update`, which takes a new name,
checks it for a conflict and writes it: `app/templates/schemas.py:18`, directly above the
field `name` of `TemplateUpdate`, says "name/channel are the natural key together — not
mutable after creation". The model follows the code, so the name half of a template's key
changes (`Renamed`); the channel does not. No run is spent on what one PATCH shows.

That two requests never share an idempotency key is no property here: it is the database's
unique constraint (`Fits`) whatever the service does. What the service adds is to look
first and answer 409; that its look agrees with the constraint is `FaultsNeedARace`.

`RepliesJustified` and `FanoutJustified` are as strong as statement-by-statement
reading allows: a request may combine a template of one moment with an address of
a later one, and no single snapshot need have held both.

### Bounds

- *Attempts, channels, workers.* Two attempts race on one channel, which is what a
  recount needs. The third is on another channel and SCHEDULED: it is created and may be
  deleted, but never claimed, so that in `claim_race` it stands for the rows that
  everything else must leave alone, and channels do not race each other; with a third
  claimable attempt the states are more than TLC gets through in minutes. Two workers:
  every race in this code is between a worker and one other actor. In `claim_race` no
  recipient is skipped, in `engine_race` one is, so that a channel is COMPLETED in one and
  at most PARTIALLY_FAILED in the other. The theorems below have no such bounds.
- *`MaxAttempts = 2`*: one retry and the dead-letter state both happen.
- *`MaxFaults`, `MaxRestarts` = 0 or 1*: one error or restart at any point. The
  actions that count them have no other limit; the theorems hold for any number.
- *`MaxUpdates = 1`*: one change of a limit, before or after the bucket is made.
- *Engine.* One channel kind; limits 0, 1 and 2. `engine_race` has one tenant with
  two attempts (the same queue, the same bucket), `quiet_tenant` two tenants.
- *Bucket.* Limit 2 and a minute of 6 seconds, so that one token takes three
  seconds; pauses below, at and above that, up to nine seconds, six calls and one
  setback of the clock. `MaxCalls` and `MaxNow` bound the behaviours only.
- *Requests.* Three at once, of 33 kinds of call by five callers over eleven rows of
  two tenants: two that race and one that changes what they read. Every operation
  occurs with its row there, missing or another tenant's; every unique key can be
  contended; one template may be renamed, changed or switched off under a request,
  one recipient has an address and one has none. A third request
  lets two different commits fall between two SELECTs of one handler.
- *Migrations.* The five scripts and the models, all of their statements, are the values
  of the constants. A database starts at any revision with or without rows that do not
  fit; crashes and downgrades have no bound, and the state space is explored to its end.
- *Symmetry* of workers and of requests is used in runs without liveness.
- Deadlock is checked in the runs of `ClaimAndSend`, `TokenBucket` and `Startup` (an
  action of the environment or the program is always left). The engine's runs switch
  it off, as an engine with nothing due does nothing but poll, and so stutters; the
  API's do, as each request is answered once and that is all.

### Fairness

`FairEngineSpec` assumes what the scheduling of one event loop gives: the poll and
dispatch loops run again and again, tokens flow, a worker whose await has ended
goes on (weak fairness for each), and time passes a `next_attempt_at`. A row of
the poll's batch is looked at with strong fairness: a tick may end with an error
before it comes to the row, but not each tick for ever. Nothing is assumed of
requests, deletions, updates, errors and restarts. `QuietTenantServed` leaves out
the two cases in which the code gives no such guarantee: a row that an error or a
restart left in SENDING (run `crash`), and a tenant with a limit of 0 on some
channel, whose other channels wait behind it in the same queue.

## 4. What is proved

For all values of the constants, any number of rows, workers, tenants, requests,
errors and restarts, and any `MaxAttempts >= 1`; the assumptions are those named
`ConstantsAssumption`, `EngineAssumption`, `BucketAssumption`, `CallsAssumption`,
`NoneAssumption`, `UsersAssumption`, `SeedAssumption` and `ScriptsAssumption` (scripts are
lists of statements, tables go by name). Those about the API say what
the code around the handlers gives: a body and a path have what the schemas let
through (a new row brings no id, only a tenant has a slug, an upsert names no row and
has a value, a notification names a channel and a recipient: `min_length=1`); the rows
there are at first are rows the service can have written, each hanging on its tenant
or recipient, with its own kind of keys; and if there are users, one is a platform
admin, as only such a one creates the others.

**`ClaimAndSend_proofs.tla`.** No property is inductive on its own: that a message
goes out once depends on what a worker between claim and settling commit knows of
the row. `SenderState` says it: the row is in SENDING (or deleted), the loaded
`attempt_count` is current, and the provider is exactly one send ahead when the
worker is at `settle`. It holds because of `OneSender`, and `OneSender` because a
row in SENDING is not claimable: the two are proved together. `TallyTruthful` says
that a status on its way into a channel is true of the rows, and stays true while
others settle theirs, because settled rows never change back; `RowsOfCreated` and
`HolderState` say that no attempt joins a channel that was already recounted.
`IInv` joins these with the properties, and gives `TypeCorrect`,
`ExclusiveSending`, `RowsMatchProvider`, `AtMostOnce`, `ChannelNeverLies`,
`AuditComplete`, and the refinement `RefinesLifecycle`, whose step lemma maps a
claim to `Try`, a successful send to `Reach`, the settling commits to `Confirm` and
`Fail`, and everything else to a stutter.

**`TokenBucket_proofs.tla`.** `RateLimited` follows from an invariant that adds what
is left in the bucket to what was granted; `RefinesRateLimit` from a lemma on how
`Refilled` grows with the clock and one on what a call leaves of it.

**`DispatchEngine_proofs.tla`.** The engine's steps are steps of `ClaimAndSend`
(`EngineImplementsWorkers`), given that the work queue holds attempts; so
`AtMostOnce` and the others hold of the process (`EngineAtMostOnce`).
`InFlightIsExact` rests on three lemmas about queues (append, pop, join) and on
`QueuesServable`: an attempt is in its own tenant's queue only, so the fronts that
a round takes are distinct and leave no other queue.

`NothingElseStrands` is `SendingIsHeld`: a row in SENDING has a worker at it, or
errors and restarts were counted.

**`RecountAlone_proofs.tla`.** `UndisturbedAgrees` needs, beside `IInv`, what the
one worker busy with an undisturbed channel knows: from its load to its write
`seen` is the channel's status, what it counted is what the rows say, and once
all rows are settled and nobody has a recount left to do, the status is already the
one they ask for. Each of
these is true only while nobody else is busy there, which is what `disturbed`
records; so the proof shows that overlap, lost recounts and deletions are all that
can go wrong.

**`NotificationCreate_proofs.tla`.** A handler writes with what it read before, so
`SameTenant` and `TenantIsolation` need what a read is still worth at the write. `Inv` says it in three parts: `Shape`; `DirectoryOK`, that every
row has a key of its own form, hangs on a row of its tenant, and has an id that no
running request will give out; and `RequestsKnow`, that the caller's tenant exists,
that each row found is still the same row (`Same`: id, table, tenant and owner, and the
keys but for the name in them) or gone, and that the parent of an address belongs to the caller. Two lemmas keep the
other requests out of every proof: `StepKeeps` for a step without a commit, and
`CommitKeeps` for a commit of rows that `Succeeds` the present ones. The rest is one
lemma for each action. What makes it work: no update touches table, tenant or owner;
tenants are never deleted; ids are not used twice; and the foreign key of an
inserted address is checked at the commit, after the recipient may have gone.
`TypeCorrect` adds the replies, the loop counter and the two histories: whatever a
request holds was committed at some moment of it.

**`ApiHistory_proofs.tla`.** `RequestsKnow` says what a row that was found is still
worth; an answer needs more: what it is worth that a row was *not* found. The two
history variables say it. A row that was found is in `ever`; where none was found,
none of `always` is of that kind; `ever` only grows and `always` only shrinks,
so both stay true whatever the others commit (`LongerRecall`), and one lemma for each
action shows what its SELECT adds. `Recalls` lists it by the step a request is at:
`FoundRecall` (the rows loaded are the call's own, also those that an upsert or a delete
looked up by a key, and only addresses hang on one of them), `WriteRecall` (the key about to be written was free at some moment, no platform
admin was there all the time, a template's new name was free), and `NotifyRecall` (the
templates so far are of the call's name and were active, the key was free, every
recipient was known, every address on the channels so far was found or there was
none). `HistoryInductive` joins this with `Inv` and the types.

`FanoutSameTenantAlways` needs `FanoutsOK`, which is about committed fan-outs: an id
that is mentioned is never given to another row, and the row that has it, as long as
it is there, is of the request's tenant. It is kept by updates since a row never
changes its tenant, by deletions since `Bereft` only takes mentions away, and it is
true of a new fan-out since what was found was the caller's (`SubmitMentions`).

**`ApiAnswers_proofs.tla`.** `RepliesJustifiedAlways` goes through the actions that
answer: a SELECT that just met nothing is about `always`, one that just met something
about `ever`, an "ok" about what was written or, when the ORM had nothing to write,
about the row that was loaded, column by column. `ChangesAreAskedAlways` is the other
half: a row that an update or an upsert writes is still one that the call names
(`NamedNow`), as neither its id nor its part of a key that is not a name ever changes, and
what is written differs from it in the columns of the call only (`UpdateAsked`,
`DeleteAsked`); no other action takes a row away (`OthersTakeNothing`).
`FanoutJustifiedAlways` needs that `Distinct` keeps
everything once (`FirstMention`, by the least position, which the well-founded order
of the naturals gives without an induction; `FirstInjective`) and that `Channel` splits
the recipients into reached and skipped; `NotifyRecall` says the rest.

`FaultsNeedARaceAlways` turns this around. If nobody committed anything, `ever` and
`always` are the same rows but for their values, and these are the rows in the
database (`Still`, `StillThere`): what was found is there, so no UPDATE meets nothing and
no foreign key dangles; what was free is free (`StillFree`). Then `Fits` holds of what
each action writes (`InsertFits`, `UpdateFits`, `RequestFits`, `ChannelsFit`), and
`scalar_one_or_none` never meets two rows (`CheckFaultless`), but for the cases
`KnownFault` names. So the list of faults in section 3 is complete: every other 500 that
a constraint, a row that is gone or a second row that is found gives these endpoints
needs another request that commits between two of their statements.

**`Startup_proofs.tla`.** The theorems are about any scripts, those of later revisions
too, and all have the hypothesis `ScriptsSound`. It is a formula over the constants
only, each script run alone and undisturbed; the run `migrations` evaluates it for the
scripts of the repository and finds it true (`StartsSound`). It is a hypothesis and not
an assumption of the module, so that TLC can also check starts with a script that has a
mistake in it, and name the properties that break. What the theorems add is everything a run of
one script does not show: crashes and failures at every statement, starts that meet what
earlier ones left, and downgrades in between, any number of times.

The invariant relates the database to `Ideal`, where the undisturbed script would be by
now. `Control` says which script runs, how far, and that without a transaction disk and
connection agree. `Exact`: as long as no script was cut short, tables and copies are
those of `Ideal`, and what is on disk is an earlier point of the same course.
`Surplus`: as long as no *downgrade* was cut short, everything of `Ideal` is there, and
what is there in addition are tables that scripts still ahead create (`Ahead`) and the
running one has not come to yet. This is the reason why a start after a dead one either
does the same or fails: the next statement meets its table as it expects it or, for a
`create`, meets it too early, and then the script stops before its version is written. A
statement can therefore be executed on more tables than it was written for with the same
effect on the old ones (`ExecuteOnMore`), and at the head nothing is ahead, so nothing
is left over: `DeclaredSchemaServed`. `CleanIsExactAlways` and `OldSchemaAlwaysSurvives`
read off `Exact` and `Surplus`; `TargetsAlwaysExist` and `FailuresHaveACause` need that
the course of a sound script passes its guards at every position. `TypeCorrect` needs
no more than where tables come from.

`Course` and `Revision` are recursive functions. That they are what their definition says
is proved from the least position without a value (`LeastNumber`, `UpTo`), the
well-founded order of the naturals taking the place of an induction theorem.

Only model-checked: the liveness property `QuietTenantServed`, and `StartsSound`, that
the scripts of the repository satisfy `ScriptsSound`: one evaluation, with no state in it.
Liveness under fairness, `ENABLED`, induction theorems and `RECURSIVE` operators are
outside of what the installed provers do; the modules use no `RECURSIVE` operator, and
where order matters in a theorem they speak of positions instead of folding a list.

## 5. What is not modelled

- The amount of a backoff and its jitter: only that it lies in the future.
- A provider that delivers and then fails to say so. `MockProvider` has no such
  case; with a real one `NoDuplicateDelivery` would be about calls that returned
  True, as at-most-once delivery is not possible then.
- Several processes on one file: the documents rule them out. (The theorems about
  `ClaimAndSend` and about the API do not depend on it.)
- Rounding of floating point numbers in the bucket.
- Python-level cancellation inside of a handler other than at a step: `stop`
  is a `Restart` at any step. A request that is cancelled stops at a step with
  nothing written, which `Spec` allows as it states no fairness.
- The list endpoints and the reads of a notification request: one SELECT, no state.
- Login, tokens and password hashes: the service keeps nothing of them; a call comes
  with the user it is made by.
- The audit rows that `create` writes; the audit trail is modelled from the claim on.
- The text of a rendered body: a body stands for the template version it came from.
- Validation of request bodies by the schemas, other than the repetitions they let
  through; wording of errors, logging.
- Column types, constraint names and alembic's offline mode.
- `busy_timeout` running out: a writer is taken to wait for its turn.

## 6. Plan

Done, in this order since the delivery of messages is what the service is for:

1. `ClaimAndSend`, its abstract `DeliveryLifecycle`, proofs.
2. `TokenBucket`, its abstract `RateLimit`, proofs.
3. `DispatchEngine` over both, proofs of its invariants.
4. `RecountAlone`: when a channel's status can be trusted, with its proof.
5. `Directory` and `NotificationCreate`: the whole API a statement at a time, with
   the proofs that tenants stay apart, that answers and fan-outs were true, and that a
   500 needs a race.
6. `Schema` and `Startup`: the migrations and what a crash leaves of them, with the proofs
   that scripts which are right alone are right under crashes.

Left, with what stands in the way:

- A step by step composition of `NotificationCreate` with the engine: the product of
  both is out of TLC's reach at bounds that show anything, and the rows they share
  are named above.
- Hazards without a property: the front of a tenant's queue that blocks its other
  channels (`dispatch.py:70`), which follows from the code and is promised nowhere
  otherwise; the aggregate status of a request (`app/notifications/models.py:57`), which
  nothing updates after creation and which decides nothing: it is only shown; the flushes
  inside of a request's one transaction (`app/notifications/service.py:98`), whose
  atomicity is taken from the database; and a downgrade that was cut short
  (`main.py:30`), after which the scripts promise nothing. That starts after a dead one may
  fail for good (`FailsForACause` allows it) is in the model, and nothing in the
  repository says otherwise.
