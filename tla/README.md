# cjt2mcp: TLA+ models, checks and proofs

`app/` is a small FastAPI service that stands between AI clients and the
Chanjet T+ platform. An administrator enters tenants and their credentials; the
platform pushes an appTicket every ten minutes; a client calls MCP tools with a
key; a tool call makes sure the tenant has an accessToken and sends one business
query with it. State lives in one SQLite file.

The specifications here model the parts of the service where several actors
write the same rows (the cached token, the keys and the calls under way, the
pushes, the trusted domains), how the service comes up and what it can still
read when it does, and the two pure algorithms everything passes through: the
shapes of the platform's answers and the padding of its messages. They are
checked with TLC on small instances. The safety properties of all of them are
also proved with TLAPS, for every value of the constants, and the liveness
properties from one condition each, that whoever's turn it is can do something.

## 1. The system

### Who runs when

One uvicorn worker (Dockerfile). `async def` handlers (`receive_message`,
`mcp_endpoint`, `mcp_key_create`, the trusted-domain form) run on the event loop
and hold it from one `await` to the next. Their only awaits are for the body of
the request; the HTTP calls they make are blocking, so the loop stands still
during a query. `def` handlers (all other administrator's pages, the connection
test) run on threads of a pool and interleave with the loop and with each other.

Every function of `store.py` opens a connection, runs one transaction and closes
it. So one store call is one atomic step, and anything may happen between two.
The start-up is different: `sqlite3` opens no transaction for DDL, so every
CREATE and ALTER commits by itself. The container is restarted whenever the
process ends (`docker-compose.yml:6`), on whatever was committed.

### Components

| Component | State | Operations | Hard behaviour | What makes it correct |
|---|---|---|---|---|
| Token manager, `chanjet/token_mgr.py` | token, expiry, ticket, credentials in `tenants` | `ensure_access_token`: read the row, serve or refresh, save | read, HTTP and save are not atomic; two workers refresh at once; credentials and rows change underneath; clock read late; killed between mint and save | a token in use is alive, belongs to the tenant, stops using old credentials in bounded time; deleted rows stay deleted; calls end |
| MCP endpoint, `mcpsrv/server.py` | a request under way, `call_logs` | authenticate, await body, touch key, read tenant, dispatch, log | the check comes before the await; the `finally` clause may fail | a tool runs only within the grant of its key; an answered call is logged; a revoked or deleted key stays out |
| Tools, `mcpsrv/tools.py` | none | token, secret, query; error classes | exceptions that are not `ToolError` | errors say what happened |
| Webhook, `chanjet/webhook.py` | ticket and authorization code in `tenants` | find tenant by code, decrypt, store, acknowledge | redelivery, lost answers, delete between read and write, the loop blocked by a tool call or by a wait for the database | what a tenant has of a message was sealed with a secret entered for it, an old ticket does not replace a new one without cause, a ticket shown as fresh is |
| Administration, `admin/routes.py` | `tenants`, `mcp_clients` | create, credentials, delete; create, revoke, enable key | look-up and INSERT are not atomic | one tenant per code, no key without tenant |
| Connection test, `chanjet/conntest.py` | none | its own read of the row, then as a tool call | its row may be stale; which exceptions are a verdict | a test that passed has read what a tool call reads |
| Client, `chanjet/client.py` | none | HTTP exchange, shape of the answer | success and failure told apart by shape | rows are the platform's rows, refusals are refusals |
| Trusted domain, `main.py`, `admin/routes.py` | domain and file content in `tenants` | form with two awaits, look-up by host | domains are not unique, ports, case | a host is answered with its own tenant's file |
| Session, `security.py` | a signed cookie | log in, log out | no server-side state; every answer carries the cookie | a session is of the administrator's password |
| Schema and first administrator, `db.py`, `store.py` | the tables | create, migrate, insert | cut off between two statements; older databases | nothing is served on half a schema; the service comes up |
| Cryptography, `crypto.py`, `security.py` | MASTER_KEY, read once | seal and open columns and messages | another key after a restart; the block's boundary | what was sealed is read back, or a way out exists |
| Configuration, templates, deployment | - | - | read once per process | - |

`PROJECT.json` lists the components with their status and, under `hazards`, what
is hard to test in each, at its line.

### How they interact

`mcp_endpoint` -> tool handler -> `ensure_access_token` -> `generate_token` ->
`save_token_bundle`, then the query, then `log_call`. `run_connection_test` takes
the same path on a pool thread. The webhook writes the ticket the refresh needs.
The administrator writes or deletes the rows all of them read. There is no lock:
the rows are the only shared state, the event loop the only mutual exclusion.

## 2. Modules

| Module | Models | Runs |
|---|---|---|
| `TokenMgr` | `token_mgr.py`, its columns of `tenants`, both callers up to the end of the query | `token_*` |
| `TokenUse` | abstract: what the token manager promises whoever sends a query | `token_time` (`KeepsPromise`) |
| `McpServer` | `server.py`, `tools.py`, tenants, keys, logs and the forms that write them | `mcp_*` |
| `KeyGate` | abstract: what a key stands for | `mcp_calls` (`KeepsGate`) |
| `Tenants` | abstract: what every component takes the table of tenants for; with its own theorem | `mcp_calls`, `token_tenants` (`KeepsTable`) |
| `Webhook` | `webhook.py`, its columns of `tenants`, the platform's redelivery, the blocked loop, the freshness shown | `webhook_*` |
| `Site` | start-up and migration, administrator and sessions, trusted domain and its public page | `site`, `site_port` |
| `Client` | `client.py`: what is made of an answer, as operators | through `Exchange` |
| `Crypto` | `crypto.py`: padding, as operators | through `Exchange` |
| `Exchange` | one exchange from end to end over `Client` and `Crypto`, with restarts under another MASTER_KEY | `exchange` |
| `MC*` | instances: sets for the constants, symmetry | |
| `TokenMgrProofs`, `TokenUseProofs`, `McpServerProofs`, `WebhookProofs`, `SiteProofs`, `CryptoProofs`, `ExchangeProofs` | theorems | |

`TokenMgr`, `McpServer`, `Webhook` and `Site` share the table `tenants` but, apart
from its life cycle (created, enabled, deleted), no column of it: each has its
own row with the columns its code reads, and its own copy of the actions that
create, disable and delete a tenant. `Tenants` is what these copies have in
common, and each of the four is proved to implement it. Where else they meet is
abstracted on both sides:
`McpServer.EnsureToken` may succeed or raise in any way `TokenMgr` can, and
`Webhook.CallBegins` .. `CallEnds` stands for the time a tool call holds the loop.
`Exchange` cuts the other way: it takes one tenant and one exchange at a time,
leaves the races to the others, and follows the data through all the layers.

### TokenMgr and TokenUse

State: the clock `now`; `row[t]`, a row of `tenants`; `job[w]`, what worker `w`
(the event loop or a pool thread) holds in its local variables; two sets that
belong to the platform and to history. A credential column holds the number of
the write that set it, a token the tenant and credentials it was minted for and
the time. A call passes through

    idle -Begin-> ensure -ReadTenant-> check -ServeCached-> ready
                                       check -RefreshToken-> posting
    posting -PlatformMints, ReceiveToken-> saving -SaveTokenBundle-> ready
    ready -SendQuery-> using -QueryReturns, QueryRejected-> idle

and leaves it for `idle` at every place where the code raises; `Crash` sends all
workers there at once. `Begin` is the caller's own read of the row: the query
later takes app key and secret from that row, not from the one the token was
refreshed with (`snap`); `ctx` is whether that row has both. `Tick` lets a worker
stay in one place at most `HttpMax` in an exchange and `PauseMax` elsewhere.
`Expiry` counts from the arrival of the answer, as `now_dt` does, while the token
ages from the moment it is minted.

`TokenUse` knows of all this a clock and, per worker, the token of the query
under way. Its steps are: take a token that is good, drop it, and let time pass
only while every query under way stays entitled to it. `KeepsPromise` says that
`TokenMgr` implements it with `held` read off the jobs at `using`.

### McpServer and KeyGate

State: `tenant`, `key`, `log` (three tables), `visit` (forms of an administrator)
and `req` (MCP requests). A deleted row keeps its columns in the model so that
properties can say what it was. `LoopFree` is the event loop: a request that is
past its body, or a key form past its look-up, keeps other async handlers out,
but not the sync ones. `Authenticate` comes before the await and `BodyArrives`
after it, as in the code. `LogCall` is the `finally` clause; `LogFails` is its
exception, which replaces the answer; `Crash` ends all requests and forms and
leaves the tables as they are.

`KeyGate` knows four things: whether a key is a gate that is open, closed or shut
for good, what it was made for, which requests are inside and what they run. A
request enters through an open gate only and runs within the grant; the
administrator turns gates but never opens one that was shut and never changes a
grant. `KeepsGate` is the refinement: `gate` is computed from the key's row, its
tenant's and the two flags, `pass` and `runs` from the place of the request.

### Tenants

One table with an id, a code and a flag per row, the ids that were ever used, and
per worker the tenant it serves. A row is inserted under an id and a code that no
row has, switched, or deleted for good; a worker begins to serve the tenant of a
row that is there and enabled, and ends whenever it likes, perhaps after the row.
`Table` in each of four modules is the instance for the component: `RowOf` is the
row it has, `Serves` the tenant of a call that goes on to the platform (`TokenMgr`,
`McpServer`), of a message about to be stored (`Webhook`), of a form whose body is
awaited (`Site`). `TokenMgr` and `Site` read no code, so each tenant has its own
there, and `Site` reads no flag.

What this is for: `McpServer` creates a tenant as the code does, in two look-ups
and an INSERT that may lose a race; the other modules do it in one step. All of
them are steps of one table, so the one step says no more than what the three
come to. And the `UPDATE` at the end of a refresh, of a delivery or of a form, which
may find its tenant gone, is a step the table does not see: it makes no row.

### Webhook

State: the clock, `row`, `post` (one POST each), `held` (since when a tool call or
an UPDATE holds the loop), `issued` (per application on the platform, when its last
ticket was issued) and `entered` (history: the secrets entered for a tenant). A
message is a kind, the application it is of, the secret that sealed it and, for
tickets, the time of issue: nothing else of a message matters. Secrets are values,
and the code decides by the value: two tenants may have been given the same one,
and so may a tenant and the one made after it under its code.

`HandleMessage` reads the row, decrypts and decides: `UnknownTenant`,
`Acknowledged` without anything stored, or `StoringBegins`. `StoreMessage` is the
UPDATE later, with a deletion or a form possibly in between. sqlite waits up to
five seconds (`BusyMax`) for a lock, on the loop; then the UPDATE is done or fails
(`StoreFails`), and either answer may be too late. The stamp of the ticket is taken
before the wait. A look-up that waits for a lock holds the loop in the same way and
is one of the waits of `CallBegins` .. `CallEnds`. `Retry` posts a message again when no
success came in time, another answer came, or none: an answer that is overdue is
lost (`Reply`), `AnswerLost` loses one on its way and `Crash` loses what is under
way, the UPDATE done or not. `TicketInfo` is what the detail page shows
(`_compute_ticket_info`), with its truncation to minutes.

### Site

State: where the process stands (`proc`), the environment it was started with,
the tables and added columns that exist, the administrator's row, one cookie per
browser, the rows of `tenants` with domain and content, and forms under way.
`Start`, `CreateTables`, `MigrateColumns`, `EnsureInitialAdmin` are the lifespan,
one statement per step, over a database that is empty or left by any older
version; `Crash` may come anywhere. A trusted-domain form checks the session and
the tenant first (`TrustedDomainForm`) and writes when its body has come
(`UpdateTrustedDomain`), perhaps to a tenant that is gone, and its answer carries
back the session it came with. A domain is a name, whether it was typed with a
port and whether in upper case, which is all `strip().lower()` and
`split(":")[0]` tell apart. `asked` is history: what was last asked for.

### Client, Crypto, Exchange

`Client` has one operator per function that reads an answer. A JSON value is its
shape (array, object with `Data`, JSON text of an array, ...) and the rows in it, a
body the value and the fields `result`, `value`, `error`. The other side is the
platform's, from the descriptions: `RowBodies` are bodies that mean these rows, in
the shapes described where the code reads the interface; `OtherRowBodies` mean them
too, in the shapes the plan has for T+ queries in general; `Refusals` mean no;
`OddBodies` no description knows.

`Crypto` is the padding, byte by byte, and the admissible key lengths.

`Exchange` has a row whose columns are known by the key that sealed them, and one
job. A tool call or a connection test goes through ensure, generateToken, the
headers' secret and the query; at each point the model says which exception leaves
by which door (`Told`): a code for the caller, an exception that becomes a 500
(`raised`), or one of the cipher (`unreadable`). `truth` is what the platform meant.
A push is padded and sealed, and stored or dropped. `Restart` brings the process up
with any master key or none, which nothing compares with the database.

## 3. Runs and what they show

Passing runs check their properties on every reachable state of the instance.

| Run | Instance | Shows |
|---|---|---|
| `token_time` | one tenant, loop and one thread, Life 5, Skew 3, exchange 1, pause 1, clock to 6, crashes | `UsedTokenLive`, `OldCredentialsFade`, `ExpiryRegressionBounded`, the refinement `KeepsPromise` |
| `token_tenants` | two tenants, loop and one thread, partial forms, crashes, clock stands still | `OwnToken`, `NoResurrection`, the refinement `KeepsTable`, and under fairness `CallEnds` |
| `mcp_calls` | two tenants, codes, keys and forms, one request, two grants, crashes | `UniqueCode`, `NoOrphanKey`, `RunsWithinGrant`, `AnswerLogged`, `LogTells`, `RevokedStaysOut`, the refinements `KeepsGate` and `KeepsTable` |
| `webhook_push` | two tenants, one code, two secrets, one application, three deliveries, a limit of 1, tool calls and UPDATEs of up to 2, clock to 3, lost answers, crashes | `OwnMessages`, `OldTicketOnlyByRetry`, `FreshMeansRecent` |
| `site` | every older database, one crash, two passwords, one browser, two forms, two tenants that may name one domain | `ServesMigrated`, `Starts`, `SessionOfAdmin`, `AnswersDeclared`, `AnswersOnlyAsked`, `ContentKept` |
| `exchange` | two master keys or none, every shape of an answer, texts one byte short of a block, a whole block and nearly none, a secret that is no AES key | `RowsArrive`, `RefusalsReported`, `PushArrives`, `TestMeansReadable`, `Recovers` |

Six runs, on smaller instances, each check one statement of a document or a
comment that the code does not keep; TLC prints the counterexample.

| Run | Statement | What the code does |
|---|---|---|
| `token_rejected` | `clear_token` is for tokens that lost their validity (store.py:256) | it has no caller: a refused token is served again |
| `mcp_log_status` | a log row says success or error (docs/plan-cjt2mcp.md:221) | a `TokenError` is logged as success |
| `mcp_orphan_log` | `delete_tenant` deletes the call logs (store.py:439) | a call under way logs itself afterwards |
| `mcp_customer` | what is not the platform's refusal is a network failure (tools.py:109) | `query_partner` is called with an argument it does not take: nothing is sent |
| `webhook_ack` | success within one second (webhook.py:30) | a tool call blocks the loop for longer |
| `site_port` | the trusted domain may carry a port (README.md:104) | it is stored with the port and looked up without: never found |

### Bounds and why they are enough

* Two tenants: one more is only another bystander; two suffice for a token, key,
  message or file to reach the wrong one, and for one to succeed the other under a
  code or a domain.
* Two workers: the loop and one thread are the smallest race between refreshes.
* `token_time`: with these values `SkewAssumption` holds with equality
  (3 = 1 + 2 * 1), so the bounds are met exactly: the properties fail when the
  skew is one smaller. The clock runs long enough for a token to be minted, be
  served near its end and be replaced; with `MaxTime` below 6 a call in that
  place is not reached. `MaxVersion` 2: one rewrite of the credentials. Forms are
  complete there, so that a token is old or new as a whole.
* `token_tenants` has no time: whose token it is depends on order only.
* `mcp_calls`: one request, because the loop is exclusive and requests share
  nothing but the rows, which the forms change at every await. Two requests with
  one tool (2.97 million states) hold the same properties.
* `webhook_push`: three deliveries are an old message, a newer one and a redelivery.
  Two secrets are one that two tenants share and one they do not. A wait of 2 against
  a limit of 1 makes an acknowledgement late; with the clock to 3 a ticket is issued,
  kept waiting, followed by another (`Interval` 2) and posted again.
* `site`: one crash at any statement, of a first start or a later one; the forms
  are two because two are needed to write domain and file at once.
* `exchange` has no bound but its constant sets: exchanges and restarts go on for
  ever. The three texts are the cases of the padding's length.
* `MaxTime`, `MaxVersion`, `MaxRevocations`, `MaxCrashes` and the finite id
  sets are the only bounds; each is a guard in the action it limits. The proofs
  hold for every value of them.

`CHECK_DEADLOCK FALSE` in every configuration: clocks and id sets are bounded,
and a service with nothing to do rightly stops.

### Fairness

* `token_tenants` assumes weak fairness of each worker's own steps: a thread that
  can run does (the operating system and asyncio schedule it), and `httpx` gives
  up on a silent peer (`client._TIMEOUT`), so `RefreshFails` is always possible in
  an exchange. Nothing is assumed of the platform, the administrator or the clock.
* `site` assumes weak fairness of the steps of the start-up, `Start` included: the
  restart policy starts the container again. Crashes are bounded.
* `exchange` assumes that time passes (`TokenAges`) and that an exchange under way
  goes on (`JobStep`), by its timeout at the latest. Nothing is assumed of the
  administrator: that the credentials are entered again is the hypothesis of
  `Recovers`.
* `McpServer.FairSpec`: a handler that has the event loop goes on, until its next
  `await` or its end (`ServeFair`, `InsertFair`). Its store calls return and its
  HTTP exchanges come to their timeouts. No client has to send the body of a
  request, no administrator the form.
* `Webhook.FairSpec`: the same for whoever has the loop (`LoopGoesOn`: a tool call, or
  an UPDATE, which sqlite gives up in the end), and strong
  fairness of `HandleMessage` for each POST that has come (`Turn`). Weak fairness
  would not do, because tool calls take the loop again and again; asyncio runs
  its ready queue first in, first out, so nobody is passed over for ever.

The last two specifications are not those of a run: `mcp_calls` and `webhook_push`
use symmetry, which is unsound for liveness. What follows from them
(`LoopComesFree`, `PushesEnd`) is proved instead.

## 4. What is proved

For any sets of tenants, keys, threads, requests, forms, messages and any numbers
that satisfy the modules' assumptions. Besides `ConstantsAssumption` of each
module (numbers are naturals, `NULL` is none of the things it stands in for):

* `TokenMgr.SkewAssumption`: `Skew >= PauseMax + 2 * HttpMax` and
  `Life > Skew + PauseMax`. In the code 600 s against timeouts of 5 and 15 s and
  lifetimes of days.
* `Webhook.IntervalAssumption`: `AckLimit < Interval`. In the code 1 s, and the
  platform's ten minutes.

| Module | Theorem | Property |
|---|---|---|
| `TokenMgrProofs` | `TypeCorrect` | `TypeOK` |
| | `InvCorrect`, `FullInvCorrect`, `FadeInvCorrect` | the inductive invariants `Inv`, `FullInv`, `FadeInv` |
| | `NoExpiredTokenInUse` | `UsedTokenLive` |
| | `ExpiryNearlyMonotone` | `ExpiryRegressionBounded` |
| | `TokensStayHome` | `OwnToken` |
| | `OldCredentialsGone` | `OldCredentialsFade` |
| | `DeletedStaysDeleted` | `NoResurrection` |
| | `CallsEnd` | `CallEnds`, given `NeverStuck` |
| `TokenUseProofs` | `PromiseKept` | `KeepsPromise`: `TokenMgr` implements `TokenUse` |
| | `PromiseMeans`, `EveryQueryEntitled` | `TokenUse`, hence `TokenMgr`, implies `AlwaysGood` |
| `Tenants` | `TableMeans` | `Tenants` implies `Sound` and `NeverUndone` |
| `TokenUseProofs`, `McpServerProofs`, `WebhookProofs`, `SiteProofs` | `TableKept` | `KeepsTable`: the component implements `Tenants` |
| | `TableIsSound` | hence its table is sound and nothing in it is undone |
| `McpServerProofs` | `TypeCorrect`, `CodesUnique`, `KeysHaveTenants` | `TypeOK`, `UniqueCode`, `NoOrphanKey` |
| | `CallsWithinGrant` | `RunsWithinGrant` |
| | `AnswersAreLogged`, `LogTellsTheCall` | `AnswerLogged`, `LogTells` |
| | `RevokedIsFinal` | `RevokedStaysOut` |
| | `GateKept` | `KeepsGate`: `McpServer` implements `KeyGate` |
| | `GateMeans`, `EndpointKeepsGates` | `KeyGate`, hence `McpServer`, implies `WithinGrant` and `StaysShut` |
| | `LoopGivenBack` | `LoopComesFree`, given `NeverStuck` |
| `WebhookProofs` | `TypeCorrect`, `MessagesStayHome` | `TypeOK`, `OwnMessages` |
| | `FreshIsRecent` | `FreshMeansRecent` |
| | `OldTicketsNeedRetry` | `OldTicketOnlyByRetry` |
| | `PushesComeToAnEnd` | `PushesEnd`, given `NeverStuck` |
| `SiteProofs` | `TypeCorrect`, `NothingServedEarly` | `TypeOK`, `ServesMigrated` |
| | `SessionsAreAdmins` | `SessionOfAdmin` |
| | `DeclaredIsAnswered`, `NothingElseIsAnswered` | `AnswersDeclared`, `AnswersOnlyAsked` |
| | `FilesAreKept` | `ContentKept` |
| | `StartsEndByCrashOnly` | nothing but `Crash` takes the service down |
| | `ComesUp` | `Starts`, given `StartNeverStuck` and that crashes come to an end |
| `CryptoProofs` | `UnpadUndoesPad`, `PadUndoesUnpad`, `PadIsInjective`, `PadFillsBlocks` | about the operators of `Crypto` |
| `ExchangeProofs` | `TypeCorrect`, `AllRowsArrive`, `AllRefusalsReported` | `TypeOK`, `RowsArrive`, `RefusalsReported` |
| | `TestReadAll` | `TestMeansReadable` |
| | `AllPushesArrive` | `PushArrives` |
| | `TestHolds` | what a test has read stays readable until a restart |
| | `RecoversInTheEnd` | `Recovers`, given `NeverStuck` |

### The arguments

**Ages of tokens.** `UsedTokenLive` speaks of the last place of a call only and is
not inductive. `Inv` says for every place how old what the call holds may be: a
stored expiry is at most `HttpMax + Life` after the token was minted (`ExpiryInv`,
also of the snapshot a call took); no call is overdue at its place (`ActiveInv`);
at `saving` the token is at most one exchange old, at `ready` and `using` the
distance to its end is at least the skew less an exchange and a pause (`AgeInv`).
Each step moves the bound from one place to the next. A token that has just been
minted is covered by `Life > Skew + PauseMax`, one from the cache by the check
against the skew. `FullInv` adds whose token each of them is: the snapshot, the
answer on the wire and the token kept are all of the call's tenant.

**Old credentials.** `FadeInv` bounds, for each place of a call, how long after the
rewrite the call may have come there if what it holds is of other credentials
than the row (`Lag`): it read the old row before the rewrite, so it entered
`posting` at most a pause after it, `saving` an exchange later, and what it saves
expires a lifetime after that at the latest; a call that takes the token from the
row must find it valid by the skew. A rewrite itself makes everything old and
satisfies all the bounds at once, because nothing is dated later than now.

**TokenUse.** Every step of `TokenMgr` is, through the mapping, a `Take`, a `Drop`, a
`Tick` or a stutter. That `SendQuery` is a `Take` and the clock's step a `Tick` needs
`UsedTokenLive` before and after the step, so the refinement rests on `FullInv`.
`PromiseMeans` goes the other way: the three steps alone keep every token in use
alive and at home, so nothing of the cache is needed to know what a query gets.

**Keys.** `RunsWithinGrant` compares a request with rows it read two awaits ago. The
invariant `Within` says of every request past its key check, not only of those that
run a tool, that what it copied is still what the key's row and its tenant's say,
deleted or not; the tool chosen is in scope. It is kept because no step unmakes
what was made: `Kept` (a made tenant keeps its code, a made key its tenant and
scopes, a shut key stays shut) is shown of each action once and then serves
`StaysWithin`, `RevokedStaysOut` and the administrator's half of the refinement.

**Tenants.** The step that is not obvious is the INSERT of a form, which looked its
code up two steps ago: `FormsInv` says that a form with look-ups or INSERT to come
holds a code, and UNIQUE does the rest. An INSERT that finds the code taken by
then is a stutter (`IntegrityError`), and so is every UPDATE of a token, a
ticket, a message or a domain, because `RowOf` has none of these columns; that it is
one also when the row is gone is what a `save` that inserts would break. A crash
ends all workers at once, which is one `Finish`. `Admit` needs that the read that
lets a worker go on is the read that looks at the flag. `TableMeans` is
proved of the abstract steps alone, without anything of the components, and each
`TableIsSound` takes it over by instantiation.

**Tickets.** That an older ticket comes only by a missed acknowledgement needs:
tickets of one application that are in deliveries are `Interval` apart
(`TicketsApart`), the stored ticket is one of them, and was stamped at most `AckLimit`
after it was issued unless a POST of it was not acknowledged (`RowOK`); a delivery
under way is as fresh, or its message was not acknowledged before (`PostOK`). A
delivery of an older ticket that was acknowledged each time would have to be more
than `Interval` old, which is more than `AckLimit`. A store that waits for the
database needs that its handler has the loop and no other is storing
(`OneHandler`, part of the invariant): `held` is then the time of its stamp.

**Secrets.** `OwnMessages` compares a stored message with the history of its tenant's
secrets. Between the look at the secret and the UPDATE the tenant may be deleted
and its successor may have the code; the UPDATE goes by the id. What the property
cannot say is whose message it is: for tenants that share a secret nobody can tell.

**Domains.** `RowsOK` says that a row that was not deleted holds what was asked for,
in lower case. Two domains that are looked up alike are then kept alike unless
one has a port (`KeptAlike`), so the answer comes from one row. For
`AnswersOnlyAsked` no row need be alone: whichever row answers holds what its own
tenant was last given.

**The log.** `LogTells` compares a row with a request that ended, and nothing else
writes either: an ended request stays as it is (`EndedStays`), a log row comes
from `LogCall` only (`NewRows`), and the key a tool call came in by was made, so it
keeps its tenant (`Kept`).

**KeyGate.** `GateMeans` is proved of the abstract steps alone: besides the grants
it needs that whoever is inside came with a key that was made, because only a
made key's grant is fixed (`Inside`).

**Liveness.** A proof is a chain of leads-to steps, one for each place a call can
be in: a step of somebody else leaves the call where it is with what it holds, a
step of its own takes it to a later place (`CallMoves`, `ServeMoves`, `TablesStep`,
`WaitingMoves`, ...), and fairness makes one happen. The last link needs that the
fair action is enabled. `ENABLED` is out of the prover's reach, so `[]NeverStuck`
(`StartNeverStuck` in `SiteProofs`) is a hypothesis of each theorem: wherever a call
stands its owner can do something by itself. It is defined next to the theorem and
holds by the guards: each place of a call has a step that fails, or ends it, whose
guard is the place alone. TLC finds it invariant on the five passing instances with
these modules, but no run repeats that, as no change of an action's effect could
break it. The rest, which is the order of the steps, is proved for all constants.
For the endpoint the chain needs that one handler has the loop at a time
(`OneHandlerAtATime`): a step of the loop is otherwise perhaps another handler's.
`PushesEnd` uses `[]NeverStuck` to show that the loop comes free again and again,
and `Turn` to let the POST in. `Starts` is proved under `<>[][~Crash]_vars` and not
from the bound on crashes: that a counter that only grows to a bound stops
growing is an induction. `Recovers` needs no chain over places: once the
credentials are readable for good, a cached token that is not readable is never
stored again, and it expires (`TokenAges`).

**Exchange.** `RowsTold`, `OtherRowsTold` and `RefusalTold` are the case analysis over
the shapes for any rows and codes; `JobOK` says what is readable at each place of an exchange;
`AllPushesArrive` rests on `UnpadUndoesPad`, which is by arithmetic on the lengths.

The proof that a step preserves an invariant has a lemma per action or group of
like actions, with the rows and the local variables shown separately.

### Only model-checked

* `Starts` with a number of crashes instead of an end of them.
* The counterexamples.

The other way round, `KeepsTable` is checked by a run for `McpServer` and `TokenMgr`;
for `Webhook` and `Site` it is a theorem and no run repeats it. The inductive
invariants were model-checked on the instances above before they were proved;
they live with the proofs and no run repeats them either.

## 5. What is not modelled, and assumptions

* `httpx` timeouts are per read; a platform that sends its answer in trickles
  could exceed `HttpMax`. The model takes the timeout for a bound of the exchange.
* The clock does not go back and the service's clock runs at the platform's rate.
* A locked database is modelled where it loses something (`SaveFails`, `LogFails`,
  `StoreFails`) or makes an answer late (`BusyMax`); elsewhere it only ends the
  request. `BusyMax <= HoldMax`: sqlite's five seconds are less than the timeouts
  of a tool call.
* Message secrets are not assumed to differ. Who was given the same secret (another
  tenant of the same application, or the tenant made again under the code of a
  deleted one) takes the message, as in the code, which compares neither the appKey
  inside it nor anything else with the tenant.
* Two shapes of an answer that the plan has for T+ queries in general do not reach
  the caller as rows: `{result: payload}` (docs/plan-cjt2mcp.md:274) is an error on the
  stock query, which takes every `result` that is not `true` for a failure
  (`_parse_envelope`), and `{result: true, value: rows}` (docs/plan-cjt2mcp.md:82, "both
  must be understood") comes out as no rows on the other five (`_as_rows`).
  `RowsArrive` says so; whether the platform sends them the repository does not tell.
* The ciphers, Base64, nonces, bcrypt and the signature of cookies are libraries:
  what one key sealed that key opens. In `Exchange` a wrong key of a right length
  never yields valid JSON with a ticket, the row's `app_key` is folded into
  `app_secret`, and one exchange runs at a time.
* User names: one administrator. Nothing writes `admin_users` but the first start
  and the stamp of the last login.
* The basic data form (`update_tenant_basic`: name, contact, phone, remark), the
  last-used and last-login stamps and the listing pages: no decision reads them.
* Filters and page numbers of queries (but for the error they raise), rendering,
  templates, logging, indexes, PUBLIC_BASE_URL, the Dockerfile.
* `set_tenant_enabled` has no caller in the code; it is modelled because every
  reader of the row checks the column. `clear_token` has none and is not.
* `account_sets` is never written; a key's `expires_at` never read or written;
  `pending_auth_code` never read, and `pending_auth_code_at` never written.

## 6. Plan

Done: token manager, MCP endpoint, webhook, their abstract specifications and
refinements, the table of tenants they share, the site, the exchange, the safety proofs of all of them and their
liveness. Left:

1. `TokenMgr` and `Exchange` in one module, so that a restart with another
   MASTER_KEY races with refreshes under way (it ends them, so nothing new is
   expected beyond what each shows).
2. An instance of `webhook_push` with four deliveries, for a redelivery on both
   sides of a newer ticket; three make 4.2 million states.

## 7. Running

    tlc -workers 2 -config token_time.cfg MCTokenMgr.tla
    tlapm TokenMgrProofs.tla

and likewise each configuration with the module of its run in `PROJECT.json`, and
each `*Proofs` module and `Tenants` with `tlapm`. The longest run is
`webhook_push`, two to three minutes.
