----------------------------- MODULE McpServer ------------------------------
(***************************************************************************)
(* MCP keys and MCP calls: the tables tenants, mcp_clients and call_logs   *)
(* (app/db.py, app/store.py), the administrator's handlers that write them *)
(* (app/admin/routes.py) and the endpoint that authenticates, dispatches   *)
(* and logs a call (app/mcpsrv/server.py, app/mcpsrv/tools.py).            *)
(*                                                                         *)
(* Async handlers share one event loop: between two awaits a handler holds *)
(* it, so no other async handler runs, but the sync admin handlers run on  *)
(* pool threads and may interleave at every store call.  The only awaits   *)
(* are for a request's body, and both come AFTER a check on the tables.    *)
(***************************************************************************)
EXTENDS Naturals, FiniteSets

CONSTANTS
  Tenant,   \* ids of tenants rows (uuid4: never reused)
  Code,     \* client codes: unique among the rows, part of the URL
  Key,      \* keys, by their hash (random: never reused)
  Request,  \* MCP requests, each served once
  Visit,    \* administrator's requests in progress
  Tool,     \* tools that are called
  Grants,   \* the sets of scopes a key is made with
  NULL      \* no tool, an unknown tool or key

\* ALL_TOOLS: the scope that makes a tool visible and callable.
ScopeOf == [query_current_stock  |-> "stock:read",
            query_inventory      |-> "archive:read",
            query_customer       |-> "archive:read",
            query_warehouse      |-> "archive:read",
            query_sales_order    |-> "sales:read",
            query_purchase_order |-> "purchase:read"]
Scope == {ScopeOf[x] : x \in DOMAIN ScopeOf}

ASSUME ConstantsAssumption ==
  /\ Tool \subseteq DOMAIN ScopeOf
  /\ Grants \subseteq SUBSET Scope
  /\ NULL \notin Tool \cup Tenant \cup Code \cup Key

VARIABLES
  tenant,  \* the tenants table
  key,     \* the mcp_clients table
  log,     \* the call_logs table
  visit,   \* administrator's requests
  req      \* MCP requests

vars == <<tenant, key, log, visit, req>>

(***************************************************************************)
(* A row that was deleted keeps its columns in the model, so that a        *)
(* property can still say what it was; only "live" rows are in the table.  *)
(***************************************************************************)
TenantRow == [status: {"none", "live", "deleted"}, code: Code \cup {NULL},
              enabled: BOOLEAN]
KeyRow == [status: {"none", "live", "deleted"}, tenant: Tenant \cup {NULL},
           scopes: SUBSET Scope, enabled: BOOLEAN, revoked: BOOLEAN,
           used: BOOLEAN]
LogRow == [req: Request, tenant: Tenant, status: {"success", "error"}]

VisitJob == [pc: {"idle", "create", "insert", "form", "insertKey"},
             code: Code \cup {NULL}, tenant: Tenant \cup {NULL},
             scopes: SUBSET Scope]

(***************************************************************************)
(* A request in progress: the key and the URL it came with, the tenant and *)
(* the scopes of the record _authenticate returned, the tool it calls, and *)
(* how it ends.  refused stands for every answer no tool has a part in:    *)
(* 401, 400, 202, 500, the JSON-RPC errors, and none at all.  sent says    *)
(* that a query went out to the platform.                                  *)
(***************************************************************************)
Outcome == {"none", "result", "missingSecret", "queryError", "raised",
            "refused"}
RequestJob == [pc: {"new", "body", "tenant", "ensure", "query", "log", "done"},
               key: Key \cup {NULL}, code: Code \cup {NULL},
               tenant: Tenant \cup {NULL}, scopes: SUBSET Scope,
               tool: Tool \cup {NULL}, sent: BOOLEAN, outcome: Outcome]

TypeOK ==
  /\ tenant \in [Tenant -> TenantRow]
  /\ key \in [Key -> KeyRow]
  /\ log \subseteq LogRow
  /\ visit \in [Visit -> VisitJob]
  /\ req \in [Request -> RequestJob]
  /\ \A r \in Request :
       /\ req[r].pc \in {"ensure", "query", "log"} => req[r].tool # NULL
       /\ req[r].pc \notin {"new", "done"} => key[req[r].key].status # "none"

NoTenant == [status |-> "none", code |-> NULL, enabled |-> TRUE]
NoKey == [status |-> "none", tenant |-> NULL, scopes |-> {}, enabled |-> TRUE,
          revoked |-> FALSE, used |-> FALSE]
IdleVisit == [pc |-> "idle", code |-> NULL, tenant |-> NULL, scopes |-> {}]
NewRequest == [pc |-> "new", key |-> NULL, code |-> NULL, tenant |-> NULL,
               scopes |-> {}, tool |-> NULL, sent |-> FALSE,
               outcome |-> "none"]

Init ==
  /\ tenant = [t \in Tenant |-> NoTenant]
  /\ key = [k \in Key |-> NoKey]
  /\ log = {}
  /\ visit = [v \in Visit |-> IdleVisit]
  /\ req = [r \in Request |-> NewRequest]

Live(t) == t \in Tenant /\ tenant[t].status = "live"
CodeInUse(c) == \E t \in Tenant : Live(t) /\ tenant[t].code = c

\* An async handler between two awaits: no other one runs.
OnLoop == {"tenant", "ensure", "query", "log"}

LoopFree ==
  /\ \A r \in Request : req[r].pc \notin OnLoop
  /\ \A v \in Visit : visit[v].pc # "insertKey"

-----------------------------------------------------------------------------
(* The administrator.                                                      *)

Leave(v) == visit' = [visit EXCEPT ![v] = IdleVisit]

\* Bound: a form is sent only while a fresh id is left for it.
IdsLeft(fresh, places) ==
  Cardinality({v \in Visit : visit[v].pc \in places}) < Cardinality(fresh)

\* tenant_create: the route looks the code up before it calls create_tenant.
TenantForm(v, c) ==
  /\ visit[v].pc = "idle"
  /\ IdsLeft({t \in Tenant : tenant[t].status = "none"}, {"create", "insert"})
  /\ ~CodeInUse(c)
  /\ visit' = [visit EXCEPT ![v].pc = "create", ![v].code = c]
  /\ UNCHANGED <<tenant, key, log, req>>

\* create_tenant looks it up again (ValueError).
CheckCode(v) ==
  /\ visit[v].pc = "create"
  /\ IF CodeInUse(visit[v].code)
     THEN Leave(v)
     ELSE visit' = [visit EXCEPT ![v].pc = "insert"]
  /\ UNCHANGED <<tenant, key, log, req>>

WithRow(t, c) ==
  [tenant EXCEPT ![t] = [status |-> "live", code |-> c, enabled |-> TRUE]]

InsertedNotUnique(t, c) == WithRow(t, c)

\* INSERT INTO tenants: client_code is UNIQUE (IntegrityError).
Inserted(t, c) == IF CodeInUse(c) THEN tenant ELSE WithRow(t, c)

InsertTenant(v, t) ==
  /\ visit[v].pc = "insert"
  /\ tenant[t].status = "none"
  /\ tenant' = Inserted(t, visit[v].code)
  /\ Leave(v)
  /\ UNCHANGED <<key, log, req>>

\* mcp_key_create looks the tenant up, then awaits the form.
KeyForm(v, t, S) ==
  /\ visit[v].pc = "idle"
  /\ IdsLeft({k \in Key : key[k].status = "none"}, {"form", "insertKey"})
  /\ LoopFree
  /\ Live(t)
  /\ visit' = [visit EXCEPT ![v].pc = "form", ![v].tenant = t, ![v].scopes = S]
  /\ UNCHANGED <<tenant, key, log, req>>

\* create_mcp_key looks it up again (ValueError).
CheckTenant(v) ==
  /\ visit[v].pc = "form"
  /\ LoopFree
  /\ IF Live(visit[v].tenant)
     THEN visit' = [visit EXCEPT ![v].pc = "insertKey"]
     ELSE Leave(v)
  /\ UNCHANGED <<tenant, key, log, req>>

WithKey(k, t, S) ==
  [key EXCEPT ![k] = [NoKey EXCEPT !.status = "live", !.tenant = t,
                                   !.scopes = S]]

KeyInsertedUnchecked(k, t, S) == WithKey(k, t, S)

\* INSERT INTO mcp_clients: tenant_id REFERENCES tenants (IntegrityError).
KeyInserted(k, t, S) == IF Live(t) THEN WithKey(k, t, S) ELSE key

InsertKey(v, k) ==
  /\ visit[v].pc = "insertKey"
  /\ key[k].status = "none"
  /\ key' = KeyInserted(k, visit[v].tenant, visit[v].scopes)
  /\ Leave(v)
  /\ UNCHANGED <<tenant, log, req>>

RevokeKey(k) ==
  /\ key[k].status = "live"
  /\ key' = [key EXCEPT ![k].revoked = TRUE, ![k].enabled = FALSE]
  /\ UNCHANGED <<tenant, log, visit, req>>

\* The route does not ask whether the key has been revoked.
SetKeyEnabled(k, b) ==
  /\ key[k].status = "live"
  /\ key' = [key EXCEPT ![k].enabled = b]
  /\ UNCHANGED <<tenant, log, visit, req>>

\* store.set_tenant_enabled: no route calls it, an operator's script may.
SetTenantEnabled(t, b) ==
  /\ Live(t)
  /\ tenant' = [tenant EXCEPT ![t].enabled = b]
  /\ UNCHANGED <<key, log, visit, req>>

\* One transaction: the keys, the account sets, the logs, the tenant.
DeleteTenant(t) ==
  /\ Live(t)
  /\ tenant' = [tenant EXCEPT ![t].status = "deleted"]
  /\ key' = [k \in Key |-> IF key[k].status = "live" /\ key[k].tenant = t
                           THEN [key[k] EXCEPT !.status = "deleted"]
                           ELSE key[k]]
  /\ log' = {e \in log : e.tenant # t}
  /\ UNCHANGED <<visit, req>>

-----------------------------------------------------------------------------
(* An MCP request.                                                         *)

End(r, outcome) ==
  req' = [req EXCEPT ![r].pc = "done", ![r].outcome = outcome]

ActiveIfEnabled(k) ==
  /\ key[k].status = "live"
  /\ key[k].enabled
  /\ Live(key[k].tenant)
  /\ tenant[key[k].tenant].enabled

\* get_active_client_by_key: keys JOIN tenants, both enabled, not revoked.
Active(k) ==
  /\ key[k].status = "live"
  /\ key[k].enabled
  /\ ~key[k].revoked
  /\ Live(key[k].tenant)
  /\ tenant[key[k].tenant].enabled

AdmitsAnywhere(k, c) == Active(k)

\* _authenticate: the key must be of the tenant in the URL.
Admits(k, c) == Active(k) /\ tenant[key[k].tenant].code = c

Authenticate(r, k, c) ==
  /\ req[r].pc = "new"
  /\ LoopFree
  /\ IF Admits(k, c)
     THEN req' = [req EXCEPT ![r].pc = "body", ![r].key = k, ![r].code = c,
                             ![r].tenant = key[k].tenant,
                             ![r].scopes = key[k].scopes]
     ELSE End(r, "refused")
  /\ UNCHANGED <<tenant, key, log, visit>>

\* The body is not JSON-RPC or is a notification, or touch_mcp_key finds the
\* database locked.
BodyEnds(r) ==
  /\ req[r].pc = "body"
  /\ LoopFree
  /\ End(r, "refused")
  /\ UNCHANGED <<tenant, key, log, visit>>

\* The body asks for something: touch_mcp_key, an UPDATE.  A call of no tool
\* stands for initialize, tools/list, ping and what is not known.
BodyArrives(r, x) ==
  /\ req[r].pc = "body"
  /\ LoopFree
  /\ key' = [key EXCEPT ![req[r].key].used = @ \/ key[req[r].key].status = "live"]
  /\ req' = [req EXCEPT ![r].pc = "tenant", ![r].tool = x]
  /\ UNCHANGED <<tenant, log, visit>>

MayCallUnknown(r) ==
  req[r].tool = NULL \/ ScopeOf[req[r].tool] \in req[r].scopes

MayCallAny(r) == req[r].tool # NULL

MayCall(r) == req[r].tool # NULL /\ ScopeOf[req[r].tool] \in req[r].scopes

\* get_tenant (the row is gone, or the database is locked: a 500) and the
\* dispatch of the method.
ReadTenant(r) ==
  /\ req[r].pc = "tenant"
  /\ \/ End(r, "refused")  \* also if the method or tool is unknown or not granted
     \/ /\ Live(req[r].tenant)
        /\ MayCall(r)
        /\ req' = [req EXCEPT ![r].pc = "ensure"]
     \/ /\ Live(req[r].tenant)
        /\ req[r].tool = NULL
        /\ End(r, "result")
  /\ UNCHANGED <<tenant, key, log, visit>>

ToLog(r, outcome) ==
  req' = [req EXCEPT ![r].pc = "log", ![r].outcome = outcome]

Raises(r) == ToLog(r, "raised")

\* The handler asks for a token.  A TokenError, or a ValueError for a page
\* number, leaves the handler as it is; a missing secret is a ToolError.
EnsureToken(r) ==
  /\ req[r].pc = "ensure"
  /\ \/ Raises(r)
     \/ /\ Live(req[r].tenant)
        /\ tenant[req[r].tenant].enabled
        /\ \/ ToLog(r, "missingSecret")
           \/ req' = [req EXCEPT ![r].pc = "query"]
  /\ UNCHANGED <<tenant, key, log, visit>>

\* _handle_customer passes client.query_partner an argument it does not take:
\* the TypeError becomes a ToolError and nothing is sent.
Sends(x) == x # "query_customer"

\* A query that fails may fail before it is sent: for a page number that is no
\* number, where the parameters are built inside _run_query, or inside httpx,
\* for a header without an app key.
Query(r) ==
  /\ req[r].pc = "query"
  /\ \E outcome \in {"result", "queryError"}, sent \in BOOLEAN :
       /\ sent => Sends(req[r].tool)
       /\ outcome = "result" => sent
       /\ req' = [req EXCEPT ![r].pc = "log", ![r].outcome = outcome,
                             ![r].sent = sent]
  /\ UNCHANGED <<tenant, key, log, visit>>

ToolError == {"missingSecret", "queryError"}
Status(outcome) == IF outcome \in ToolError THEN "error" ELSE "success"

\* The tenant of the row, if it were looked up by the code in the URL.
TenantNow(r) ==
  IF CodeInUse(req[r].code)
  THEN CHOOSE t \in Tenant : Live(t) /\ tenant[t].code = req[r].code
  ELSE req[r].tenant

EntryOfUrl(r) == [req |-> r, tenant |-> TenantNow(r),
                  status |-> Status(req[r].outcome)]

Entry(r) == [req |-> r, tenant |-> req[r].tenant,
             status |-> Status(req[r].outcome)]

\* The finally clause: log_call, an INSERT that refers to nothing.  What was
\* raised goes on to the client as an internal error.
LogCall(r) ==
  /\ req[r].pc = "log"
  /\ log' = log \cup {Entry(r)}
  /\ req' = [req EXCEPT ![r].pc = "done"]
  /\ UNCHANGED <<tenant, key, visit>>

FailsSilently(r) == End(r, req[r].outcome)

FailsLoudly(r) == End(r, "refused")

\* The INSERT fails (database is locked): the exception replaces the answer.
LogFails(r) ==
  /\ req[r].pc = "log"
  /\ FailsLoudly(r)
  /\ UNCHANGED <<tenant, key, log, visit>>

\* The process is killed and the container restarted: forms and calls under
\* way are cut off, the tables stay as the last commit left them.
Crash ==
  /\ visit' = [v \in Visit |-> IdleVisit]
  /\ req' = [r \in Request |->
               IF req[r].pc \in {"new", "done"} THEN req[r]
               ELSE [req[r] EXCEPT !.pc = "done", !.outcome = "refused"]]
  /\ UNCHANGED <<tenant, key, log>>

-----------------------------------------------------------------------------

VisitStep(v) ==
  \/ \E c \in Code : TenantForm(v, c)
  \/ CheckCode(v)
  \/ \E t \in Tenant : InsertTenant(v, t)
  \/ \E t \in Tenant, S \in Grants : KeyForm(v, t, S)
  \/ CheckTenant(v)
  \/ \E k \in Key : InsertKey(v, k)

Administer ==
  \/ \E k \in Key : RevokeKey(k) \/ \E b \in BOOLEAN : SetKeyEnabled(k, b)
  \/ \E t \in Tenant : DeleteTenant(t) \/ \E b \in BOOLEAN : SetTenantEnabled(t, b)

\* What the loop does for a request once it has the request's body.
Serve(r) ==
  ReadTenant(r) \/ EnsureToken(r) \/ Query(r) \/ LogCall(r) \/ LogFails(r)

Receive(r) ==
  \/ \E k \in Key, c \in Code : Authenticate(r, k, c)
  \/ BodyEnds(r)
  \/ \E x \in Tool \cup {NULL} : BodyArrives(r, x)

Next ==
  \/ \E v \in Visit : VisitStep(v)
  \/ Administer
  \/ \E r \in Request : Receive(r) \/ Serve(r)
  \/ Crash

Spec == Init /\ [][Next]_vars

InsertsKey(v) == \E k \in Key : InsertKey(v, k)

\* The loop goes on with the handler that has it; nobody has to send a form
\* or a body.
ServeFair(r) == WF_vars(Serve(r))

InsertFair(v) == WF_vars(InsertsKey(v))

FairSpec ==
  /\ Spec
  /\ \A r \in Request : ServeFair(r)
  /\ \A v \in Visit : InsertFair(v)

-----------------------------------------------------------------------------
(* What the tables and the endpoint promise.                               *)

(***************************************************************************)
(* Two forms for the same code may both pass both look-ups, but one row is *)
(* made: a client code names at most one tenant.                           *)
(***************************************************************************)
UniqueCode ==
  \A t, u \in Tenant : Live(t) /\ Live(u) /\ t # u => tenant[t].code # tenant[u].code

(***************************************************************************)
(* A tenant may be deleted between the look-ups of mcp_key_create and its  *)
(* INSERT, but no key is left that belongs to no tenant.                   *)
(***************************************************************************)
NoOrphanKey == \A k \in Key : key[k].status = "live" => Live(key[k].tenant)

(***************************************************************************)
(* Once revoked or deleted, a key stays so, whatever is enabled or made    *)
(* again under the same names afterwards, and no request is admitted with  *)
(* it any more; one that was admitted before may go on (server.py checks   *)
(* the key once, before it awaits the body).                               *)
(***************************************************************************)
Shut(k) == key[k].revoked \/ key[k].status = "deleted"

RevokedStaysOut ==
  [][\A k \in Key : Shut(k) =>
       /\ Shut(k)'
       /\ \A r \in Request : req'[r].key = k => req[r].key = k]_vars

(***************************************************************************)
(* A tool runs for the tenant its key was made for, under the URL of that  *)
(* tenant, and within the scopes the key was made with, whatever was       *)
(* deleted and made again under the same code since the request came.      *)
(***************************************************************************)
RunsWithinGrant ==
  \A r \in Request :
    req[r].pc \in {"ensure", "query", "log"} =>
      LET k == req[r].key IN
        /\ key[k].status # "none"
        /\ req[r].tenant = key[k].tenant
        /\ req[r].code = tenant[key[k].tenant].code
        /\ ScopeOf[req[r].tool] \in key[k].scopes

(***************************************************************************)
(* The two promises above as one specification, KeyGate: what an           *)
(* administrator may rely on, without the tables and the awaits.  A gate   *)
(* is open while get_active_client_by_key finds the key; a request is      *)
(* inside from _authenticate on and runs from the handler on.              *)
(***************************************************************************)
Gate(k) ==
  CASE key[k].status = "none" -> "none"
    [] key[k].status # "none" /\ Shut(k) -> "shut"
    [] OTHER -> IF Active(k) THEN "open" ELSE "closed"

Grant(k) ==
  IF key[k].status = "none" THEN {}
  ELSE {[tenant |-> key[k].tenant, code |-> tenant[key[k].tenant].code,
         scopes |-> key[k].scopes]}

Running == {"ensure", "query", "log"}

Pass(r) ==
  IF req[r].pc \in {"body", "tenant"} \cup Running
  THEN {[key |-> req[r].key, code |-> req[r].code]} ELSE {}

Runs(r) ==
  IF req[r].pc \in Running
  THEN {[tenant |-> req[r].tenant, scope |-> ScopeOf[req[r].tool]]} ELSE {}

GateKeeper ==
  INSTANCE KeyGate WITH gate <- [k \in Key |-> Gate(k)],
                        grant <- [k \in Key |-> Grant(k)],
                        pass <- [r \in Request |-> Pass(r)],
                        runs <- [r \in Request |-> Runs(r)]

KeepsGate == GateKeeper!Spec

(***************************************************************************)
(* The table of tenants is one that every component can take for Tenants,  *)
(* although the look-ups of the forms race with their INSERTs; a call that *)
(* queries the platform has found its tenant there and enabled.            *)
(***************************************************************************)
RowOf(t) == [id |-> t, code |-> tenant[t].code, enabled |-> tenant[t].enabled]

Serves(r) == IF req[r].pc = "query" THEN {req[r].tenant} ELSE {}

Table ==
  INSTANCE Tenants WITH
    Worker <- Request,
    rows <- {RowOf(t) : t \in {u \in Tenant : Live(u)}},
    used <- {t \in Tenant : tenant[t].status # "none"},
    serving <- [r \in Request |-> Serves(r)]

KeepsTable == Table!Spec

(***************************************************************************)
(* A client that has been given the answer of a tool has left a log row    *)
(* that says how the call ended, until its tenant is deleted.              *)
(***************************************************************************)
AnswerLogged ==
  \A r \in Request :
    /\ req[r].pc = "done"
    /\ req[r].tool # NULL
    /\ req[r].outcome \in ToolError \cup {"result"}
    => Entry(r) \in log \/ tenant[req[r].tenant].status = "deleted"

(***************************************************************************)
(* A log row tells what became of one call: of a tool, by the tenant its   *)
(* key was made for, with the status of its outcome, whatever was deleted  *)
(* or made again under the tenant's code while the call ran.               *)
(***************************************************************************)
LogTells ==
  \A e \in log :
    /\ req[e.req].pc = "done"
    /\ req[e.req].tool # NULL
    /\ e = Entry(e.req)
    /\ e.tenant = key[req[e.req].key].tenant

(***************************************************************************)
(* The event loop comes free: whichever handler has it, for the whole of a *)
(* tool call or for the INSERT of a key, gives it back, whatever became of *)
(* the tenant and the key meanwhile.                                       *)
(***************************************************************************)
LoopComesFree ==
  /\ \A r \in Request : req[r].pc \in OnLoop ~> LoopFree
  /\ \A v \in Visit : visit[v].pc = "insertKey" ~> LoopFree

(***************************************************************************)
(* The plan says a log row's status is success or error, with an error     *)
(* code such as CHANJET_TOKEN_EXPIRED (docs/plan-cjt2mcp.md): a row that   *)
(* says success is of a call that gave its client a result.                *)
(***************************************************************************)
SuccessMeansResult ==
  \A e \in log : e.status = "success" => req[e.req].outcome = "result"

(***************************************************************************)
(* delete_tenant is documented to delete the tenant with its call_logs     *)
(* (store.py:438): no log row is of a tenant that is gone.                 *)
(***************************************************************************)
NoOrphanLog == \A e \in log : Live(e.tenant)

(***************************************************************************)
(* A failed query is reported as the platform's refusal or as a network    *)
(* failure (tools.py:109): the query has been sent.                        *)
(***************************************************************************)
QueryErrorMeansSent ==
  \A r \in Request : req[r].outcome = "queryError" => req[r].sent

=============================================================================
