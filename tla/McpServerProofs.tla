-------------------------- MODULE McpServerProofs ---------------------------
(***************************************************************************)
(* Theorems about McpServer, for any number of tenants, keys, requests and *)
(* forms.  The inductive invariant says of a key and of a request what the *)
(* rows they were made from said, so that it holds across every await.     *)
(***************************************************************************)
EXTENDS McpServer, TLAPS

\* A key, once made, is of a tenant that was made; a revoked key was made.
KeyInv ==
  \A k \in Key :
    /\ key[k].status # "none" => /\ key[k].tenant \in Tenant
                                 /\ tenant[key[k].tenant].status # "none"
    /\ key[k].revoked => key[k].status # "none"

\* What _authenticate copied from the row of the key still is what it says.
Within(r) ==
  LET k == req[r].key IN
    /\ k \in Key
    /\ key[k].status # "none"
    /\ req[r].tenant = key[k].tenant
    /\ req[r].code = tenant[key[k].tenant].code
    /\ req[r].scopes = key[k].scopes
    /\ req[r].pc \in Running =>
         /\ req[r].tool \in Tool
         /\ ScopeOf[req[r].tool] \in req[r].scopes

TablesInv ==
  /\ tenant \in [Tenant -> TenantRow]
  /\ key \in [Key -> KeyRow]
  /\ log \subseteq LogRow
  /\ visit \in [Visit -> VisitJob]
  /\ UniqueCode
  /\ NoOrphanKey
  /\ KeyInv

RequestsInv ==
  /\ req \in [Request -> RequestJob]
  /\ \A r \in Request :
       /\ req[r].pc \notin {"new", "done"} => Within(r)
       /\ req[r].tool # NULL => req[r].tenant \in Tenant

IInv == TablesInv /\ RequestsInv /\ AnswerLogged

\* What every step leaves of the rows: nothing that was made is unmade, and
\* what a key is for does not change.
Kept ==
  /\ \A t \in Tenant :
       /\ tenant[t].status # "none" => /\ tenant'[t].status # "none"
                                       /\ tenant'[t].code = tenant[t].code
       /\ tenant[t].status = "deleted" => tenant'[t].status = "deleted"
  /\ \A k \in Key :
       /\ key[k].status # "none" => /\ key'[k].status # "none"
                                    /\ key'[k].tenant = key[k].tenant
                                    /\ key'[k].scopes = key[k].scopes
       /\ Shut(k) => Shut(k)'

-----------------------------------------------------------------------------
(* Parts of the inductive step.                                            *)

LEMMA NullIsNothing == NULL \notin Tenant \cup Tool \cup Code \cup Key
BY ConstantsAssumption

LEMMA ToolHasScope == \A x \in Tool : ScopeOf[x] \in Scope
BY ConstantsAssumption DEF Scope

\* A request that a step leaves alone stays within the rows it was let in by.
LEMMA StaysWithin ==
  ASSUME TablesInv, Kept, NEW r \in Request, Within(r),
         req'[r].key = req[r].key, req'[r].tenant = req[r].tenant,
         req'[r].code = req[r].code, req'[r].scopes = req[r].scopes,
         req'[r].pc \in Running =>
           /\ req'[r].tool \in Tool
           /\ ScopeOf[req'[r].tool] \in req[r].scopes
  PROVE  Within(r)'
BY DEF TablesInv, KeyInv, Kept, Within

LEMMA ImpliesInvariants == IInv => TypeOK /\ RunsWithinGrant
<1> SUFFICES ASSUME IInv PROVE TypeOK /\ RunsWithinGrant
  OBVIOUS
<1>1. TypeOK
  BY NullIsNothing DEF IInv, TablesInv, RequestsInv, TypeOK, Within, Running
<1>2. RunsWithinGrant
  BY DEF IInv, RequestsInv, RunsWithinGrant, Within, Running
<1> QED
  BY <1>1, <1>2

LEMMA InitInv == Init => IInv
<1> SUFFICES ASSUME Init PROVE IInv
  OBVIOUS
<1>1. TablesInv
  BY DEF Init, TablesInv, TenantRow, KeyRow, VisitJob, NoTenant, NoKey,
     IdleVisit, UniqueCode, NoOrphanKey, KeyInv, Live
<1>2. RequestsInv /\ AnswerLogged
  BY DEF Init, RequestsInv, RequestJob, Outcome, NewRequest, AnswerLogged
<1> QED
  BY <1>1, <1>2 DEF IInv

-----------------------------------------------------------------------------
(* Forms that have not come to their INSERT yet.                           *)

FormStep(v) ==
  \/ \E c \in Code : TenantForm(v, c)
  \/ CheckCode(v)
  \/ \E t \in Tenant, S \in Grants : KeyForm(v, t, S)
  \/ CheckTenant(v)

LEMMA FormInv ==
  ASSUME TablesInv, NEW v \in Visit, FormStep(v)
  PROVE  UNCHANGED <<tenant, key, log, req>> /\ visit' \in [Visit -> VisitJob]
<1>0. visit \in [Visit -> VisitJob] /\ IdleVisit \in VisitJob
  BY DEF TablesInv, VisitJob, IdleVisit
<1>1. ASSUME NEW c \in Code, TenantForm(v, c)
      PROVE  visit' \in [Visit -> VisitJob]
  BY <1>0, <1>1 DEF TenantForm, VisitJob
<1>2. CASE CheckCode(v)
  BY <1>0, <1>2 DEF CheckCode, Leave, VisitJob
<1>3. ASSUME NEW t \in Tenant, NEW S \in Grants, KeyForm(v, t, S)
      PROVE  visit' \in [Visit -> VisitJob]
  <2>1. S \in SUBSET Scope
    BY ConstantsAssumption
  <2> QED
    BY <1>0, <1>3, <2>1 DEF KeyForm, VisitJob
<1>4. CASE CheckTenant(v)
  BY <1>0, <1>4 DEF CheckTenant, Leave, VisitJob
<1> QED
  BY <1>1, <1>2, <1>3, <1>4 DEF FormStep, TenantForm, CheckCode, KeyForm,
     CheckTenant

-----------------------------------------------------------------------------
(* Steps that write tenants and keys.                                      *)

LEMMA InsertTenantInv ==
  ASSUME TablesInv, NEW v \in Visit, NEW t \in Tenant, InsertTenant(v, t)
  PROVE  TablesInv' /\ Kept
<1> DEFINE c == visit[v].code
<1>0. /\ c \in Code \cup {NULL} /\ visit' \in [Visit -> VisitJob]
      /\ tenant[t].status = "none" /\ key' = key /\ log' = log
  BY DEF TablesInv, InsertTenant, Leave, VisitJob, IdleVisit
<1>1. CASE CodeInUse(c)
  BY <1>0, <1>1 DEF InsertTenant, Inserted, TablesInv, UniqueCode,
     NoOrphanKey, KeyInv, Kept, Shut, Live
<1>2. CASE ~CodeInUse(c)
  <2>1. /\ tenant' = WithRow(t, c)
        /\ tenant' \in [Tenant -> TenantRow]
        /\ Live(t)' /\ tenant'[t].code = c
        /\ \A u \in Tenant \ {t} : tenant'[u] = tenant[u]
    BY <1>0, <1>2 DEF InsertTenant, Inserted, WithRow, TablesInv, TenantRow,
       Live
  <2>2. UniqueCode'
    BY <1>2, <2>1 DEF TablesInv, UniqueCode, CodeInUse, Live
  <2>3. NoOrphanKey' /\ KeyInv' /\ Kept
    BY <1>0, <2>1 DEF TablesInv, NoOrphanKey, KeyInv, Kept, Live, Shut
  <2> QED
    BY <1>0, <2>1, <2>2, <2>3 DEF TablesInv
<1> QED
  BY <1>1, <1>2

LEMMA InsertKeyInv ==
  ASSUME TablesInv, NEW v \in Visit, NEW k \in Key, InsertKey(v, k)
  PROVE  TablesInv' /\ Kept
<1> DEFINE t == visit[v].tenant
           S == visit[v].scopes
<1>0. /\ S \in SUBSET Scope /\ visit' \in [Visit -> VisitJob]
      /\ key[k].status = "none" /\ tenant' = tenant /\ log' = log
  BY DEF TablesInv, InsertKey, Leave, VisitJob, IdleVisit
<1>1. UniqueCode'
  BY <1>0 DEF TablesInv, UniqueCode, Live
<1>2. CASE ~Live(t)
  BY <1>0, <1>1, <1>2 DEF InsertKey, KeyInserted, TablesInv, NoOrphanKey,
     KeyInv, Kept, Shut, Live
<1>3. CASE Live(t)
  <2>1. /\ key' \in [Key -> KeyRow]
        /\ key'[k].status = "live" /\ key'[k].tenant = t
        /\ ~key'[k].revoked
        /\ \A j \in Key \ {k} : key'[j] = key[j]
    BY <1>0, <1>3 DEF InsertKey, KeyInserted, WithKey, NoKey, TablesInv,
       KeyRow, Live
  <2>2. NoOrphanKey' /\ KeyInv' /\ Kept
    BY <1>0, <1>3, <2>1 DEF TablesInv, NoOrphanKey, KeyInv, Kept, Live, Shut
  <2> QED
    BY <1>0, <1>1, <2>1, <2>2 DEF TablesInv
<1> QED
  BY <1>2, <1>3

LEMMA KeyFlagsInv ==
  ASSUME TablesInv, NEW k \in Key,
         RevokeKey(k) \/ \E b \in BOOLEAN : SetKeyEnabled(k, b)
  PROVE  TablesInv' /\ Kept
<1> DEFINE Flags ==
      /\ key[k].status = "live" /\ UNCHANGED <<tenant, log, visit, req>>
      /\ key' \in [Key -> KeyRow]
      /\ \A j \in Key : /\ key'[j].status = key[j].status
                        /\ key'[j].tenant = key[j].tenant
                        /\ key'[j].scopes = key[j].scopes
                        /\ key[j].revoked => key'[j].revoked
                        /\ key'[j].revoked => key[j].revoked \/ j = k
<1>1. Flags
  <2>1. CASE RevokeKey(k)
    BY <2>1 DEF TablesInv, KeyRow, RevokeKey
  <2>2. ASSUME NEW b \in BOOLEAN, SetKeyEnabled(k, b) PROVE Flags
    BY <2>2 DEF TablesInv, KeyRow, SetKeyEnabled
  <2> QED
    BY <2>1, <2>2
<1> QED
  BY <1>1 DEF TablesInv, UniqueCode, NoOrphanKey, KeyInv, Kept, Live, Shut

LEMMA SetTenantEnabledInv ==
  ASSUME TablesInv, NEW t \in Tenant, NEW b \in BOOLEAN, SetTenantEnabled(t, b)
  PROVE  TablesInv' /\ Kept
<1>1. /\ UNCHANGED <<key, log, visit, req>>
      /\ tenant' \in [Tenant -> TenantRow]
      /\ \A u \in Tenant : /\ tenant'[u].status = tenant[u].status
                           /\ tenant'[u].code = tenant[u].code
  BY DEF TablesInv, TenantRow, SetTenantEnabled
<1> QED
  BY <1>1 DEF TablesInv, UniqueCode, NoOrphanKey, KeyInv, Kept, Live, Shut

LEMMA DeleteTenantInv ==
  ASSUME TablesInv, NEW t \in Tenant, DeleteTenant(t)
  PROVE  TablesInv' /\ Kept
<1>1. /\ tenant' \in [Tenant -> TenantRow]
      /\ tenant[t].status = "live" /\ tenant'[t].status = "deleted"
      /\ tenant'[t].code = tenant[t].code
      /\ \A u \in Tenant \ {t} : tenant'[u] = tenant[u]
  BY DEF TablesInv, TenantRow, DeleteTenant, Live
<1>2. /\ key' \in [Key -> KeyRow]
      /\ \A k \in Key :
           IF key[k].status = "live" /\ key[k].tenant = t
           THEN key'[k] = [key[k] EXCEPT !.status = "deleted"]
           ELSE key'[k] = key[k]
  BY DEF TablesInv, KeyRow, DeleteTenant
<1>3. \A k \in Key : /\ key'[k].tenant = key[k].tenant
                     /\ key'[k].scopes = key[k].scopes
                     /\ key'[k].revoked = key[k].revoked
                     /\ key'[k].status = "none" <=> key[k].status = "none"
                     /\ key'[k].status = "live" =>
                          key[k].status = "live" /\ key[k].tenant # t
                     /\ key[k].status = "deleted" => key'[k].status = "deleted"
  BY <1>2 DEF TablesInv, KeyRow
<1>4. log' \subseteq LogRow /\ visit' = visit
  BY DEF TablesInv, DeleteTenant
<1>5. UniqueCode' /\ NoOrphanKey'
  BY <1>1, <1>3 DEF TablesInv, UniqueCode, NoOrphanKey, Live
<1>6. KeyInv' /\ Kept
  BY <1>1, <1>3 DEF TablesInv, KeyInv, Kept, Shut
<1> QED
  BY <1>1, <1>2, <1>4, <1>5, <1>6 DEF TablesInv

LEMMA TableStepInv ==
  ASSUME IInv, (\E v \in Visit : VisitStep(v)) \/ Administer
  PROVE  IInv' /\ Kept /\ req' = req
<1>1. TablesInv' /\ Kept /\ req' = req
  <2>1. ASSUME NEW v \in Visit, FormStep(v)
        PROVE  TablesInv' /\ Kept /\ req' = req
    <3>1. UNCHANGED <<tenant, key, log, req>> /\ visit' \in [Visit -> VisitJob]
      BY <2>1, FormInv DEF IInv
    <3> QED
      BY <3>1 DEF IInv, TablesInv, UniqueCode, NoOrphanKey, KeyInv, Kept,
         Live, Shut
  <2>2. ASSUME NEW v \in Visit, NEW t \in Tenant, InsertTenant(v, t)
        PROVE  TablesInv' /\ Kept /\ req' = req
    BY <2>2, InsertTenantInv DEF IInv, InsertTenant
  <2>3. ASSUME NEW v \in Visit, NEW k \in Key, InsertKey(v, k)
        PROVE  TablesInv' /\ Kept /\ req' = req
    BY <2>3, InsertKeyInv DEF IInv, InsertKey
  <2>4. ASSUME NEW k \in Key,
               RevokeKey(k) \/ \E b \in BOOLEAN : SetKeyEnabled(k, b)
        PROVE  TablesInv' /\ Kept /\ req' = req
    BY <2>4, KeyFlagsInv DEF IInv, RevokeKey, SetKeyEnabled
  <2>5. ASSUME NEW t \in Tenant, DeleteTenant(t)
        PROVE  TablesInv' /\ Kept /\ req' = req
    BY <2>5, DeleteTenantInv DEF IInv, DeleteTenant
  <2>6. ASSUME NEW t \in Tenant, NEW b \in BOOLEAN, SetTenantEnabled(t, b)
        PROVE  TablesInv' /\ Kept /\ req' = req
    BY <2>6, SetTenantEnabledInv DEF IInv, SetTenantEnabled
  <2> QED
    BY <2>1, <2>2, <2>3, <2>4, <2>5, <2>6 DEF VisitStep, FormStep, Administer
<1>2. RequestsInv'
  <2>1. ASSUME NEW r \in Request, req'[r].pc \notin {"new", "done"}
        PROVE  Within(r)'
    <3>1. Within(r) /\ req'[r] = req[r]
      BY <1>1, <2>1 DEF IInv, RequestsInv
    <3> QED
      BY <1>1, <3>1, StaysWithin DEF IInv, Within
  <2> QED
    BY <1>1, <2>1 DEF IInv, RequestsInv
<1>3. AnswerLogged'
  <2>1. \A e \in log :
          \/ e \in log'
          \/ e.tenant \in Tenant /\ tenant'[e.tenant].status = "deleted"
    <3>1. ASSUME NEW t \in Tenant, DeleteTenant(t)
          PROVE  \A e \in log : e \in log' \/ e.tenant = t
      BY <3>1 DEF DeleteTenant
    <3>2. ASSUME NEW t \in Tenant, DeleteTenant(t)
          PROVE  tenant'[t].status = "deleted"
      BY <3>2 DEF DeleteTenant, IInv, TablesInv, TenantRow
    <3>3. CASE log' = log
      BY <3>3
    <3>4. log' = log \/ \E t \in Tenant : DeleteTenant(t)
      BY DEF VisitStep, TenantForm, CheckCode, InsertTenant, KeyForm,
         CheckTenant, InsertKey, Administer, RevokeKey, SetKeyEnabled,
         SetTenantEnabled
    <3> QED
      BY <3>1, <3>2, <3>3, <3>4
  <2>2. ASSUME NEW r \in Request, req[r].pc = "done", req[r].tool # NULL,
               req[r].outcome \in ToolError \cup {"result"}
        PROVE  Entry(r) \in log' \/ tenant'[req[r].tenant].status = "deleted"
    <3>1. CASE Entry(r) \in log
      <4>1. Entry(r).tenant = req[r].tenant
        BY DEF Entry
      <4> QED
        BY <2>1, <3>1, <4>1
    <3>2. CASE tenant[req[r].tenant].status = "deleted"
      <4>1. req[r].tenant \in Tenant
        BY <2>2 DEF IInv, RequestsInv
      <4> QED
        BY <1>1, <3>2, <4>1 DEF Kept
    <3> QED
      BY <2>2, <3>1, <3>2 DEF IInv, AnswerLogged
  <2> QED
    BY <1>1, <2>2 DEF AnswerLogged, Entry
<1> QED
  BY <1>1, <1>2, <1>3 DEF IInv

-----------------------------------------------------------------------------
(* Steps of a request.                                                     *)

\* What touch_mcp_key may change of a key.
Touched ==
  /\ key' \in [Key -> KeyRow]
  /\ \A k \in Key : /\ key'[k].status = key[k].status
                    /\ key'[k].tenant = key[k].tenant
                    /\ key'[k].scopes = key[k].scopes
                    /\ key'[k].enabled = key[k].enabled
                    /\ key'[k].revoked = key[k].revoked

\* What a step of a request has to keep for the request itself.
StepOf(r) ==
  /\ req' \in [Request -> RequestJob]
  /\ \A s \in Request \ {r} : req'[s] = req[s]
  /\ req'[r].pc \notin {"new", "done"} => Within(r)'
  /\ req'[r].tool # NULL => req'[r].tenant \in Tenant
  /\ /\ req'[r].pc = "done"
     /\ req'[r].tool # NULL
     /\ req'[r].outcome \in ToolError \cup {"result"}
     => Entry(r)' \in log'

LEMMA TouchedInv ==
  ASSUME TablesInv, UNCHANGED <<tenant, visit>>, Touched, log' \subseteq LogRow
  PROVE  TablesInv' /\ Kept
BY DEF TablesInv, Touched, UniqueCode, NoOrphanKey, KeyInv, Kept, Live, Shut

LEMMA RequestStepInv ==
  ASSUME IInv, NEW r \in Request, UNCHANGED <<tenant, visit>>, Touched,
         log \subseteq log', log' \subseteq LogRow, StepOf(r)
  PROVE  IInv' /\ Kept
<1>1. TablesInv' /\ Kept
  BY TouchedInv DEF IInv
<1>2. ASSUME NEW s \in Request \ {r}, req'[s].pc \notin {"new", "done"}
      PROVE  Within(s)'
  <2>1. Within(s) /\ req'[s] = req[s]
    BY <1>2 DEF IInv, RequestsInv, StepOf
  <2> QED
    BY <1>1, <2>1, StaysWithin DEF IInv, Within
<1>3. RequestsInv'
  BY <1>2 DEF IInv, RequestsInv, StepOf
<1>4. AnswerLogged'
  BY DEF IInv, AnswerLogged, StepOf, Entry
<1> QED
  BY <1>1, <1>3, <1>4 DEF IInv

LEMMA AuthenticateInv ==
  ASSUME IInv, NEW r \in Request, NEW k \in Key, NEW c \in Code,
         Authenticate(r, k, c)
  PROVE  StepOf(r) /\ Touched /\ UNCHANGED <<tenant, key, visit, log>>
<1>0. /\ UNCHANGED <<tenant, key, visit, log>>
      /\ req \in [Request -> RequestJob] /\ key \in [Key -> KeyRow]
      /\ req[r].pc = "new"
      /\ req[r].tool # NULL => req[r].tenant \in Tenant
  BY DEF Authenticate, IInv, TablesInv, RequestsInv
<1>1. CASE ~Admits(k, c)
  BY <1>0, <1>1 DEF Authenticate, End, StepOf, Touched, RequestJob, Outcome,
     ToolError
<1>2. CASE Admits(k, c)
  <2>1. /\ key[k].tenant \in Tenant /\ key[k].status = "live"
        /\ tenant[key[k].tenant].code = c /\ key[k].scopes \in SUBSET Scope
    BY <1>0, <1>2 DEF Admits, Active, Live, KeyRow
  <2>2. /\ req' \in [Request -> RequestJob]
        /\ \A s \in Request \ {r} : req'[s] = req[s]
        /\ req'[r].pc = "body" /\ req'[r].key = k /\ req'[r].code = c
        /\ req'[r].tenant = key[k].tenant /\ req'[r].scopes = key[k].scopes
    BY <1>0, <1>2, <2>1 DEF Authenticate, RequestJob
  <2>3. Within(r)'
    BY <1>0, <2>1, <2>2 DEF Within, Running
  <2> QED
    BY <1>0, <2>1, <2>2, <2>3 DEF StepOf, Touched
<1> QED
  BY <1>1, <1>2

LEMMA BodyArrivesInv ==
  ASSUME IInv, NEW r \in Request, NEW x \in Tool \cup {NULL}, BodyArrives(r, x)
  PROVE  StepOf(r) /\ Touched /\ UNCHANGED <<tenant, visit, log>>
<1>0. /\ UNCHANGED <<tenant, visit, log>>
      /\ req \in [Request -> RequestJob] /\ key \in [Key -> KeyRow]
      /\ req[r].pc = "body" /\ Within(r) /\ req[r].tenant \in Tenant
  BY DEF BodyArrives, IInv, TablesInv, RequestsInv, KeyInv, Within
<1>1. Touched
  <2> DEFINE k == req[r].key
  <2>1. k \in Key /\ key' = [key EXCEPT ![k].used = @ \/ key[k].status = "live"]
    BY <1>0 DEF BodyArrives, Within
  <2> HIDE DEF k
  <2> QED
    BY <1>0, <2>1 DEF Touched, KeyRow
<1>2. /\ req' \in [Request -> RequestJob]
      /\ \A s \in Request \ {r} : req'[s] = req[s]
      /\ req'[r].pc = "tenant" /\ req'[r].key = req[r].key
      /\ req'[r].code = req[r].code /\ req'[r].tenant = req[r].tenant
      /\ req'[r].scopes = req[r].scopes
  BY <1>0 DEF BodyArrives, RequestJob
<1>3. Within(r)'
  BY <1>0, <1>1, <1>2 DEF Within, Running, Touched
<1> QED
  BY <1>0, <1>1, <1>2, <1>3 DEF StepOf

\* A step of an admitted request that moves it on or ends it.
LEMMA ServeInv ==
  ASSUME IInv, NEW r \in Request, BodyEnds(r) \/ Serve(r)
  PROVE  /\ StepOf(r) /\ Touched /\ UNCHANGED <<tenant, key, visit>>
         /\ log \subseteq log' /\ log' \subseteq LogRow
<1>0. /\ req \in [Request -> RequestJob] /\ key \in [Key -> KeyRow]
      /\ log \subseteq LogRow /\ Within(r) /\ UNCHANGED <<tenant, key, visit>>
      /\ req[r].tenant \in Tenant
  BY DEF BodyEnds, Serve, ReadTenant, EnsureToken, Query, LogCall, LogFails,
     IInv, TablesInv, RequestsInv, KeyInv, Within
<1>1. Touched
  BY <1>0 DEF Touched
<1> DEFINE Moves(p, o) ==
      /\ req' \in [Request -> RequestJob]
      /\ \A s \in Request \ {r} : req'[s] = req[s]
      /\ req'[r].pc = p /\ req'[r].outcome = o /\ req'[r].key = req[r].key
      /\ req'[r].code = req[r].code /\ req'[r].tenant = req[r].tenant
      /\ req'[r].scopes = req[r].scopes /\ req'[r].tool = req[r].tool
<1>2. ASSUME NEW p \in Running, NEW o, Moves(p, o),
             req[r].tool \in Tool /\ ScopeOf[req[r].tool] \in req[r].scopes
      PROVE  StepOf(r)
  <2>1. Within(r)'
    BY <1>0, <1>2 DEF Within
  <2> QED
    BY <1>0, <1>2, <2>1 DEF StepOf, Running
<1>3. ASSUME NEW o, Moves("done", o),
             \/ Entry(r)' \in log'
             \/ o \notin ToolError \cup {"result"}
             \/ req[r].tool = NULL
      PROVE  StepOf(r)
  BY <1>0, <1>3 DEF StepOf
<1>4. ASSUME NEW o \in Outcome, End(r, o) PROVE Moves("done", o)
  BY <1>0, <1>4 DEF End, RequestJob
<1>5. ASSUME NEW o \in Outcome, ToLog(r, o) PROVE Moves("log", o)
  BY <1>0, <1>5 DEF ToLog, RequestJob
<1>6. ASSUME NEW p \in Running \cup {"done"}, req' = [req EXCEPT ![r].pc = p]
      PROVE  Moves(p, req[r].outcome)
  BY <1>0, <1>6 DEF RequestJob, Running
<1>7. End(r, "refused") => StepOf(r)
  BY <1>3, <1>4 DEF Outcome, ToolError
<1>8. CASE BodyEnds(r)
  BY <1>0, <1>1, <1>7, <1>8 DEF BodyEnds
<1>9. CASE ReadTenant(r)
  <2>1. ASSUME MayCall(r), req' = [req EXCEPT ![r].pc = "ensure"]
        PROVE  StepOf(r)
    <3>1. req[r].tool \in Tool /\ ScopeOf[req[r].tool] \in req[r].scopes
      BY <1>0, <2>1 DEF MayCall, RequestJob
    <3> HIDE DEF Moves
    <3> QED
      BY <1>2, <1>6, <2>1, <3>1 DEF Running
  <2>2. ASSUME req[r].tool = NULL, End(r, "result")
        PROVE  StepOf(r)
    <3> HIDE DEF Moves
    <3> QED
      BY <1>3, <1>4, <2>2 DEF Outcome
  <2>3. StepOf(r)
    BY <1>7, <1>9, <2>1, <2>2 DEF ReadTenant
  <2> QED
    BY <1>0, <1>1, <1>9, <2>3 DEF ReadTenant
<1>10. req[r].pc \in Running => req[r].tool \in Tool
                                 /\ ScopeOf[req[r].tool] \in req[r].scopes
  BY <1>0 DEF Within
<1>11. CASE EnsureToken(r)
  <2>1. req[r].pc \in Running /\ log' = log
    BY <1>11 DEF EnsureToken, Running
  <2>2. \/ ToLog(r, "raised") \/ ToLog(r, "missingSecret")
        \/ req' = [req EXCEPT ![r].pc = "query"]
    BY <1>11 DEF EnsureToken, Raises
  <2> HIDE DEF Moves
  <2>3. StepOf(r)
    BY <1>2, <1>5, <1>6, <1>10, <2>1, <2>2 DEF Outcome, Running
  <2> QED
    BY <1>0, <1>1, <2>1, <2>3
<1>12. CASE Query(r)
  <2>1. req[r].pc \in Running /\ log' = log
    BY <1>12 DEF Query, Running
  <2>2. ASSUME NEW o \in {"result", "queryError"}, NEW sent \in BOOLEAN,
               req' = [req EXCEPT ![r].pc = "log", ![r].outcome = o,
                                  ![r].sent = sent]
        PROVE  Moves("log", o)
    BY <1>0, <2>2 DEF RequestJob, Outcome
  <2>3. \E o \in {"result", "queryError"}, sent \in BOOLEAN :
          req' = [req EXCEPT ![r].pc = "log", ![r].outcome = o,
                             ![r].sent = sent]
    BY <1>12 DEF Query
  <2> HIDE DEF Moves
  <2>4. StepOf(r)
    BY <1>2, <1>5, <1>10, <2>1, <2>2, <2>3 DEF Outcome, Running
  <2> QED
    BY <1>0, <1>1, <2>1, <2>4
<1>13. CASE LogCall(r)
  <2>1. /\ log' = log \cup {Entry(r)}
        /\ req' = [req EXCEPT ![r].pc = "done"]
    BY <1>13 DEF LogCall
  <2>2. Entry(r) \in LogRow
    BY <1>0 DEF Entry, LogRow, Status
  <2>3. Moves("done", req[r].outcome)
    BY <1>6, <2>1
  <2>4. Entry(r)' = Entry(r)
    BY <2>3 DEF Entry
  <2> HIDE DEF Moves
  <2>5. StepOf(r)
    BY <1>3, <2>1, <2>3, <2>4
  <2> QED
    BY <1>0, <1>1, <2>1, <2>2, <2>5
<1>14. CASE LogFails(r)
  BY <1>0, <1>1, <1>7, <1>14 DEF LogFails, FailsLoudly
<1> QED
  BY <1>8, <1>9, <1>11, <1>12, <1>13, <1>14 DEF Serve

LEMMA CrashInv == ASSUME IInv, Crash PROVE IInv' /\ Kept
<1>0. /\ UNCHANGED <<tenant, key, log>> /\ req \in [Request -> RequestJob]
  BY DEF Crash, IInv, RequestsInv
<1>1. \A r \in Request :
        IF req[r].pc \in {"new", "done"} THEN req'[r] = req[r]
        ELSE req'[r] = [req[r] EXCEPT !.pc = "done", !.outcome = "refused"]
  BY DEF Crash
<1>2. req' \in [Request -> RequestJob]
  BY <1>0 DEF Crash, RequestJob, Outcome
<1>3. TablesInv' /\ Kept
  <2>1. visit' \in [Visit -> VisitJob]
    BY DEF Crash, IdleVisit, VisitJob
  <2> QED
    BY <1>0, <2>1 DEF IInv, TablesInv, UniqueCode, NoOrphanKey, KeyInv, Kept,
       Live, Shut
<1>4. \A r \in Request : /\ req'[r].pc \in {"new", "done"}
                         /\ req'[r].tool = req[r].tool
                         /\ req'[r].tenant = req[r].tenant
                         /\ req'[r] = req[r] \/ req'[r].outcome = "refused"
  BY <1>0, <1>1 DEF RequestJob
<1>5. RequestsInv'
  BY <1>2, <1>4 DEF IInv, RequestsInv
<1>6. AnswerLogged'
  BY <1>0, <1>4 DEF IInv, AnswerLogged, Entry, ToolError
<1> QED
  BY <1>3, <1>5, <1>6 DEF IInv

-----------------------------------------------------------------------------
(* The inductive step, and what follows from it.                           *)

LEMMA NextInv == ASSUME IInv, [Next]_vars PROVE IInv' /\ Kept
<1>1. CASE UNCHANGED vars
  BY <1>1 DEF vars, IInv, TablesInv, UniqueCode, NoOrphanKey, KeyInv,
     RequestsInv, Within, AnswerLogged, Entry, Kept, Live, Shut
<1>2. CASE (\E v \in Visit : VisitStep(v)) \/ Administer
  BY <1>2, TableStepInv
<1>3. CASE \E r \in Request : Receive(r) \/ Serve(r)
  <2>1. PICK r \in Request : Receive(r) \/ Serve(r)
    BY <1>3
  <2>2. /\ StepOf(r) /\ Touched /\ UNCHANGED <<tenant, visit>>
        /\ log \subseteq log' /\ log' \subseteq LogRow
    BY <2>1, AuthenticateInv, BodyArrivesInv, ServeInv
       DEF Receive, IInv, TablesInv
  <2> QED
    BY <2>2, RequestStepInv
<1>4. CASE Crash
  BY <1>4, CrashInv
<1> QED
  BY <1>1, <1>2, <1>3, <1>4 DEF Next

(***************************************************************************)
(* The inductive invariant holds: every request that is inside carries     *)
(* what the row of its key said, whatever the administrator did meanwhile. *)
(***************************************************************************)
THEOREM InvCorrect == Spec => []IInv
<1>1. IInv /\ [Next]_vars => IInv'
  BY NextInv
<1> QED
  BY InitInv, <1>1, PTL DEF Spec

(***************************************************************************)
(* The tables and the requests have their types, and a call is past the    *)
(* dispatch of server.py only with a tool.                                 *)
(***************************************************************************)
THEOREM TypeCorrect == Spec => []TypeOK
BY InvCorrect, ImpliesInvariants, PTL

(***************************************************************************)
(* No interleaving of forms makes two tenants of one code.                 *)
(***************************************************************************)
THEOREM CodesUnique == Spec => []UniqueCode
<1>1. IInv => UniqueCode
  BY DEF IInv, TablesInv
<1> QED
  BY InvCorrect, <1>1, PTL

(***************************************************************************)
(* No key outlives its tenant or is made for one that is gone.             *)
(***************************************************************************)
THEOREM KeysHaveTenants == Spec => []NoOrphanKey
<1>1. IInv => NoOrphanKey
  BY DEF IInv, TablesInv
<1> QED
  BY InvCorrect, <1>1, PTL

(***************************************************************************)
(* A tool runs for the tenant, under the code and within the scopes of its *)
(* key, for any number of tenants that succeed each other under a code.    *)
(***************************************************************************)
THEOREM CallsWithinGrant == Spec => []RunsWithinGrant
BY InvCorrect, ImpliesInvariants, PTL

(***************************************************************************)
(* No answer of a tool leaves without its row in call_logs.                *)
(***************************************************************************)
THEOREM AnswersAreLogged == Spec => []AnswerLogged
<1>1. IInv => AnswerLogged
  BY DEF IInv
<1> QED
  BY InvCorrect, <1>1, PTL

LEMMA NoEntryWhenShut ==
  ASSUME IInv, [Next]_vars, NEW k \in Key, Shut(k), NEW r \in Request,
         req'[r].key = k
  PROVE  req[r].key = k
<1>0. req \in [Request -> RequestJob]
  BY DEF IInv, RequestsInv
<1>1. CASE UNCHANGED vars
  BY <1>1 DEF vars
<1>2. CASE (\E v \in Visit : VisitStep(v)) \/ Administer
  BY <1>2, TableStepInv
<1>3. ASSUME NEW s \in Request, NEW j \in Key, NEW c \in Code,
             Authenticate(s, j, c)
      PROVE  req[r].key = k
  <2>1. CASE Admits(j, c)
    <3>1. j # k
      BY <2>1 DEF Admits, Active, Shut
    <3>2. r # s => req'[r] = req[r]
      BY <1>0, <1>3 DEF Authenticate, End
    <3>3. req'[s].key = j
      BY <1>0, <1>3, <2>1 DEF Authenticate, RequestJob
    <3> QED
      BY <3>1, <3>2, <3>3
  <2>2. CASE ~Admits(j, c)
    BY <1>0, <1>3, <2>2 DEF Authenticate, End, RequestJob
  <2> QED
    BY <2>1, <2>2
<1>4. CASE \E s \in Request :
             \/ BodyEnds(s) \/ Serve(s)
             \/ \E x \in Tool \cup {NULL} : BodyArrives(s, x)
  <2>1. PICK s \in Request :
          \/ BodyEnds(s) \/ Serve(s)
          \/ \E x \in Tool \cup {NULL} : BodyArrives(s, x)
    BY <1>4
  <2> QED
    BY <1>0, <2>1 DEF BodyEnds, BodyArrives, Serve, ReadTenant, EnsureToken,
       Raises, Query, LogCall, LogFails, FailsLoudly, End, ToLog, RequestJob
<1>5. CASE Crash
  BY <1>0, <1>5 DEF Crash, RequestJob
<1> QED
  BY <1>1, <1>2, <1>3, <1>4, <1>5 DEF Next, Receive

(***************************************************************************)
(* A key that is revoked or deleted lets no request in ever after.         *)
(***************************************************************************)
THEOREM RevokedIsFinal == Spec => RevokedStaysOut
<1>1. IInv /\ [Next]_vars =>
        [\A k \in Key : Shut(k) =>
           /\ Shut(k)'
           /\ \A r \in Request : req'[r].key = k => req[r].key = k]_vars
  BY NextInv, NoEntryWhenShut DEF Kept
<1> QED
  BY InvCorrect, <1>1, PTL DEF Spec, RevokedStaysOut

-----------------------------------------------------------------------------
(* McpServer implements KeyGate.                                           *)

LEMMA InitGate == Init => GateKeeper!Init
BY DEF Init, NoKey, NewRequest, GateKeeper!Init, Gate, Grant, Pass, Runs,
   Running

\* A step that writes tables only: gates turn, and what a made key is for stays.
LEMMA AdministerGate ==
  ASSUME IInv, Kept, req' = req,
         \A k \in Key : key[k].status = "none" =>
           \/ key'[k].status = "none"
           \/ key'[k].status = "live" /\ ~key'[k].revoked
  PROVE  GateKeeper!Administer
<1>1. ASSUME NEW k \in Key PROVE <<Gate(k), Gate(k)'>> \in GateKeeper!Turns
  <2>1. CASE key[k].status = "none"
    BY <2>1 DEF Gate, Shut, GateKeeper!Turns
  <2>2. CASE key[k].status # "none" /\ Shut(k)
    BY <2>2 DEF Gate, Kept, GateKeeper!Turns
  <2>3. CASE key[k].status # "none" /\ ~Shut(k)
    <3>1. key'[k].status # "none"
      BY <2>3 DEF Kept
    <3>2. Gate(k) \in {"open", "closed"}
      BY <2>3 DEF Gate
    <3>3. Gate(k)' \in {"open", "closed", "shut"}
      BY <3>1 DEF Gate
    <3> QED
      BY <3>2, <3>3 DEF GateKeeper!Turns
  <2> QED
    BY <2>1, <2>2, <2>3
<1>2. ASSUME NEW k \in Key, Gate(k) # "none" PROVE Grant(k)' = Grant(k)
  <2>1. key[k].status # "none"
    BY <1>2 DEF Gate
  <2> QED
    BY <2>1 DEF IInv, TablesInv, KeyInv, Kept, Grant
<1>3. \A r \in Request : Pass(r)' = Pass(r) /\ Runs(r)' = Runs(r)
  BY DEF Pass, Runs
<1> QED
  BY <1>1, <1>2, <1>3 DEF GateKeeper!Administer

\* Steps of a request and crashes leave gates and grants alone.
LEMMA GatesStay ==
  ASSUME IInv, tenant' = tenant, Touched
  PROVE  \A k \in Key : Gate(k)' = Gate(k) /\ Grant(k)' = Grant(k)
BY DEF Touched, Gate, Grant, Shut, Active, Live

LEMMA LeaveGate ==
  ASSUME IInv, tenant' = tenant, Touched,
         \A r \in Request : \/ Pass(r)' = Pass(r) /\ Runs(r)' = Runs(r)
                            \/ Pass(r)' = {} /\ Runs(r)' = {}
  PROVE  GateKeeper!Leave
<1> DEFINE R == {r \in Request : Pass(r)' = {} /\ Runs(r)' = {}}
<1>1. R \in SUBSET Request
  OBVIOUS
<1>2. /\ [r \in Request |-> Pass(r)']
           = [r \in Request |->
                IF r \in R THEN {} ELSE [s \in Request |-> Pass(s)][r]]
      /\ [r \in Request |-> Runs(r)']
           = [r \in Request |->
                IF r \in R THEN {} ELSE [s \in Request |-> Runs(s)][r]]
  OBVIOUS
<1> QED
  BY <1>1, <1>2, GatesStay DEF GateKeeper!Leave

\* Only _authenticate lets a request in.
LEMMA EnterGate ==
  ASSUME IInv, NEW r \in Request, NEW k \in Key, NEW c \in Code,
         Authenticate(r, k, c)
  PROVE  GateKeeper!Enter(r) \/ GateKeeper!Leave
<1>0. /\ req \in [Request -> RequestJob] /\ req[r].pc = "new"
      /\ tenant' = tenant /\ Touched
  BY AuthenticateInv DEF Authenticate, IInv, RequestsInv
<1>1. CASE ~Admits(k, c)
  <2>1. \A s \in Request : Pass(s)' = Pass(s) /\ Runs(s)' = Runs(s)
    BY <1>0, <1>1 DEF Authenticate, End, Pass, Runs, Running, RequestJob
  <2> QED
    BY <1>0, <2>1, LeaveGate
<1>2. CASE Admits(k, c)
  <2> DEFINE p == [key |-> k, code |-> c]
  <2>1. /\ req'[r].pc = "body" /\ req'[r].key = k /\ req'[r].code = c
        /\ \A s \in Request \ {r} : req'[s] = req[s]
    BY <1>0, <1>2 DEF Authenticate, RequestJob
  <2>2. Pass(r) = {} /\ Pass(r)' = {p} /\ Runs(r) = {} /\ Runs(r)' = {}
    BY <1>0, <2>1 DEF Pass, Runs, Running
  <2>3. \A s \in Request \ {r} : Pass(s)' = Pass(s) /\ Runs(s)' = Runs(s)
    BY <2>1 DEF Pass, Runs
  <2>4. Gate(k) = "open" /\ \E g \in Grant(k) : c = g.code
    BY <1>2 DEF Admits, Active, Gate, Grant, Shut
  <2>5. [s \in Request |-> Pass(s)']
          = [[s \in Request |-> Pass(s)] EXCEPT ![r] = {p}]
    BY <2>2, <2>3
  <2>6. [s \in Request |-> Runs(s)'] = [s \in Request |-> Runs(s)]
    BY <2>2, <2>3
  <2> QED
    BY <1>0, <2>2, <2>4, <2>5, <2>6, GatesStay DEF GateKeeper!Enter
<1> QED
  BY <1>1, <1>2

\* Only the dispatch makes an admitted request run a tool.
LEMMA RunGate ==
  ASSUME IInv, NEW r \in Request, ReadTenant(r)
  PROVE  GateKeeper!Run(r) \/ GateKeeper!Leave
<1>0. /\ req \in [Request -> RequestJob] /\ req[r].pc = "tenant"
      /\ tenant' = tenant /\ Within(r) /\ Touched
  BY ServeInv DEF ReadTenant, Serve, IInv, RequestsInv
<1>1. CASE req'[r].pc = "done" /\ \A s \in Request \ {r} : req'[s] = req[s]
  <2>1. Pass(r)' = {} /\ Runs(r)' = {}
    BY <1>1 DEF Pass, Runs, Running
  <2>2. \A s \in Request \ {r} : Pass(s)' = Pass(s) /\ Runs(s)' = Runs(s)
    BY <1>1 DEF Pass, Runs
  <2> QED
    BY <1>0, <2>1, <2>2, LeaveGate
<1>2. CASE MayCall(r) /\ req' = [req EXCEPT ![r].pc = "ensure"]
  <2> DEFINE p == [key |-> req[r].key, code |-> req[r].code]
             u == [tenant |-> req[r].tenant, scope |-> ScopeOf[req[r].tool]]
  <2>1. /\ req'[r].pc = "ensure" /\ req'[r].key = req[r].key
        /\ req'[r].code = req[r].code /\ req'[r].tenant = req[r].tenant
        /\ req'[r].tool = req[r].tool
        /\ \A s \in Request \ {r} : req'[s] = req[s]
    BY <1>0, <1>2 DEF RequestJob
  <2>2. Pass(r) = {p} /\ Pass(r)' = {p} /\ Runs(r) = {} /\ Runs(r)' = {u}
    BY <1>0, <2>1 DEF Pass, Runs, Running
  <2>3. \A s \in Request \ {r} : Pass(s)' = Pass(s) /\ Runs(s)' = Runs(s)
    BY <2>1 DEF Pass, Runs
  <2>4. /\ p.key \in Key
        /\ \E g \in Grant(p.key) : u.tenant = g.tenant /\ u.scope \in g.scopes
    BY <1>0, <1>2 DEF Within, Grant, MayCall
  <2>5. [s \in Request |-> Runs(s)']
          = [[s \in Request |-> Runs(s)] EXCEPT ![r] = {u}]
    BY <2>2, <2>3
  <2>6. [s \in Request |-> Pass(s)'] = [s \in Request |-> Pass(s)]
    BY <2>2, <2>3
  <2> HIDE DEF p, u
  <2> QED
    BY <1>0, <2>2, <2>4, <2>5, <2>6, GatesStay DEF GateKeeper!Run
<1>3. ASSUME NEW o, End(r, o)
      PROVE  req'[r].pc = "done" /\ \A s \in Request \ {r} : req'[s] = req[s]
  BY <1>0, <1>3 DEF End, RequestJob
<1> QED
  BY <1>1, <1>2, <1>3 DEF ReadTenant

LEMMA ServeGate ==
  ASSUME IInv, NEW r \in Request,
         \/ BodyEnds(r) \/ \E x \in Tool \cup {NULL} : BodyArrives(r, x)
         \/ EnsureToken(r) \/ Query(r) \/ LogCall(r) \/ LogFails(r)
  PROVE  GateKeeper!Leave
<1>0. req \in [Request -> RequestJob] /\ tenant' = tenant /\ Touched
  BY ServeInv, BodyArrivesInv DEF Serve, IInv, RequestsInv
<1>1. \A s \in Request \ {r} : req'[s] = req[s]
  BY ServeInv, BodyArrivesInv DEF Serve, StepOf
<1>2. \/ req'[r].pc = "done"
      \/ /\ req'[r].key = req[r].key /\ req'[r].code = req[r].code
         /\ req'[r].tenant = req[r].tenant
         /\ \/ req[r].pc \in Running /\ req'[r].pc \in Running
               /\ req'[r].tool = req[r].tool
            \/ req[r].pc = "body" /\ req'[r].pc = "tenant"
  <2>1. CASE BodyEnds(r)
    BY <1>0, <2>1 DEF BodyEnds, End, RequestJob
  <2>2. ASSUME NEW x \in Tool \cup {NULL}, BodyArrives(r, x)
        PROVE  /\ req'[r].key = req[r].key /\ req'[r].code = req[r].code
               /\ req'[r].tenant = req[r].tenant
               /\ req[r].pc = "body" /\ req'[r].pc = "tenant"
    BY <1>0, <2>2 DEF BodyArrives, RequestJob
  <2>3. CASE EnsureToken(r)
    BY <1>0, <2>3 DEF EnsureToken, Raises, ToLog, Running, RequestJob
  <2>4. CASE Query(r)
    <3>1. PICK o \in {"result", "queryError"}, sent \in BOOLEAN :
            req' = [req EXCEPT ![r].pc = "log", ![r].outcome = o,
                               ![r].sent = sent]
      BY <2>4 DEF Query
    <3>2. req[r].pc = "query"
      BY <2>4 DEF Query
    <3> QED
      BY <1>0, <3>1, <3>2 DEF Running, RequestJob
  <2>5. CASE LogCall(r) \/ LogFails(r)
    BY <1>0, <2>5 DEF LogCall, LogFails, FailsLoudly, End, RequestJob
  <2> QED
    BY <2>1, <2>2, <2>3, <2>4, <2>5
<1>3. \/ Pass(r)' = Pass(r) /\ Runs(r)' = Runs(r)
      \/ Pass(r)' = {} /\ Runs(r)' = {}
  BY <1>2 DEF Pass, Runs, Running
<1>4. \A s \in Request \ {r} : Pass(s)' = Pass(s) /\ Runs(s)' = Runs(s)
  BY <1>1 DEF Pass, Runs
<1> QED
  BY <1>0, <1>3, <1>4, LeaveGate

LEMMA CrashGate == ASSUME IInv, Crash PROVE GateKeeper!Leave
<1>1. tenant' = tenant /\ Touched
  BY DEF Crash, Touched, IInv, TablesInv
<1>2. \A r \in Request : req'[r] = req[r] \/ req'[r].pc = "done"
  BY DEF Crash, IInv, RequestsInv, RequestJob
<1>3. \A r \in Request : \/ Pass(r)' = Pass(r) /\ Runs(r)' = Runs(r)
                         \/ Pass(r)' = {} /\ Runs(r)' = {}
  BY <1>2 DEF Pass, Runs, Running
<1> QED
  BY <1>1, <1>3, LeaveGate

LEMMA TableGate ==
  ASSUME IInv, (\E v \in Visit : VisitStep(v)) \/ Administer
  PROVE  GateKeeper!Administer
<1>1. Kept /\ req' = req /\ key \in [Key -> KeyRow]
  BY TableStepInv DEF IInv, TablesInv
<1> DEFINE MadeLive ==
      \A k \in Key : key[k].status = "none" =>
        \/ key'[k].status = "none"
        \/ key'[k].status = "live" /\ ~key'[k].revoked
<1>2. ASSUME NEW v \in Visit, NEW k \in Key, InsertKey(v, k) PROVE MadeLive
  BY <1>1, <1>2 DEF InsertKey, KeyInserted, WithKey, NoKey, KeyRow
<1>3. ASSUME NEW k \in Key,
             RevokeKey(k) \/ \E b \in BOOLEAN : SetKeyEnabled(k, b)
      PROVE  MadeLive
  BY <1>1, <1>3 DEF RevokeKey, SetKeyEnabled, KeyRow
<1>4. ASSUME NEW t \in Tenant, DeleteTenant(t) PROVE MadeLive
  BY <1>1, <1>4 DEF DeleteTenant, KeyRow
<1>5. key' = key => MadeLive
  OBVIOUS
<1>6. MadeLive
  BY <1>2, <1>3, <1>4, <1>5 DEF VisitStep, TenantForm, CheckCode, InsertTenant,
     KeyForm, CheckTenant, Administer, SetTenantEnabled
<1> QED
  BY <1>1, <1>6, AdministerGate

LEMMA StepGate == ASSUME IInv, [Next]_vars
  PROVE  GateKeeper!Next \/ UNCHANGED <<[k \in Key |-> Gate(k)],
    [k \in Key |-> Grant(k)], [r \in Request |-> Pass(r)],
    [r \in Request |-> Runs(r)]>>
<1>1. CASE UNCHANGED vars
  BY <1>1 DEF vars, Gate, Grant, Pass, Runs, Shut, Active, Live
<1>2. CASE (\E v \in Visit : VisitStep(v)) \/ Administer
  BY <1>2, TableGate DEF GateKeeper!Next
<1>3. ASSUME NEW r \in Request, Receive(r) \/ Serve(r)
      PROVE  GateKeeper!Next
  BY <1>3, EnterGate, RunGate, ServeGate DEF Receive, Serve, GateKeeper!Next
<1>4. CASE Crash
  BY <1>4, CrashGate DEF GateKeeper!Next
<1> QED
  BY <1>1, <1>2, <1>3, <1>4 DEF Next

(***************************************************************************)
(* The endpoint, the forms and the three tables together implement         *)
(* KeyGate: whatever interleaves, every step turns gates as an             *)
(* administrator may, lets one request in through an open gate, lets one   *)
(* run within its grant, or ends some.                                     *)
(***************************************************************************)
THEOREM GateKept == Spec => KeepsGate
<1>1. IInv /\ [Next]_vars =>
        [GateKeeper!Next]_<<[k \in Key |-> Gate(k)], [k \in Key |-> Grant(k)],
                           [r \in Request |-> Pass(r)],
                           [r \in Request |-> Runs(r)]>>
  BY StepGate
<1> QED
  BY InitGate, InvCorrect, <1>1, PTL DEF Spec, KeepsGate, GateKeeper!Spec

-----------------------------------------------------------------------------
(* What KeyGate means.                                                     *)

\* Besides: who is inside came with a key that was made.
Inside ==
  \A r \in Request : \A p \in Pass(r) : p.key \in Key /\ Gate(p.key) # "none"

Granted ==
  \A r \in Request :
    /\ \A p \in Pass(r) : \E g \in Grant(p.key) : p.code = g.code
    /\ \A u \in Runs(r) : \E p \in Pass(r) : \E g \in Grant(p.key) :
         u.tenant = g.tenant /\ u.scope \in g.scopes

LEMMA EnterMeans ==
  ASSUME NEW r \in Request, GateKeeper!Enter(r)
  PROVE  /\ \A k \in Key : Gate(k)' = Gate(k) /\ Grant(k)' = Grant(k)
         /\ \A s \in Request : Runs(s)' = Runs(s)
         /\ \A s \in Request \ {r} : Pass(s)' = Pass(s)
         /\ \E p : /\ Pass(r)' = {p} /\ p.key \in Key
                   /\ Gate(p.key) = "open"
                   /\ \E g \in Grant(p.key) : p.code = g.code
<1>1. /\ [k \in Key |-> Gate(k)]' = [k \in Key |-> Gate(k)]
      /\ [k \in Key |-> Grant(k)]' = [k \in Key |-> Grant(k)]
      /\ [s \in Request |-> Runs(s)]' = [s \in Request |-> Runs(s)]
  BY DEF GateKeeper!Enter
<1>2. PICK p \in [s \in Request |-> Pass(s)]'[r] :
        /\ p.key \in Key
        /\ [k \in Key |-> Gate(k)][p.key] = "open"
        /\ \E g \in [k \in Key |-> Grant(k)][p.key] : p.code = g.code
        /\ [s \in Request |-> Pass(s)]'
             = [[s \in Request |-> Pass(s)] EXCEPT ![r] = {p}]
  BY DEF GateKeeper!Enter
<1>3. \A s \in Request : Pass(s)' = IF s = r THEN {p} ELSE Pass(s)
  BY <1>2
<1>4. \A k \in Key : Gate(k)' = Gate(k) /\ Grant(k)' = Grant(k)
  BY <1>1
<1>5. \A s \in Request : Runs(s)' = Runs(s)
  BY <1>1
<1>6. Gate(p.key) = "open" /\ \E g \in Grant(p.key) : p.code = g.code
  BY <1>2
<1> QED
  BY <1>2, <1>3, <1>4, <1>5, <1>6

LEMMA RunMeans ==
  ASSUME NEW r \in Request, GateKeeper!Run(r), Inside
  PROVE  /\ \A k \in Key : Gate(k)' = Gate(k) /\ Grant(k)' = Grant(k)
         /\ \A s \in Request : Pass(s)' = Pass(s)
         /\ \A s \in Request \ {r} : Runs(s)' = Runs(s)
         /\ \A u \in Runs(r)' : \E p \in Pass(r) : \E g \in Grant(p.key) :
              u.tenant = g.tenant /\ u.scope \in g.scopes
<1>1. /\ [k \in Key |-> Gate(k)]' = [k \in Key |-> Gate(k)]
      /\ [k \in Key |-> Grant(k)]' = [k \in Key |-> Grant(k)]
      /\ [s \in Request |-> Pass(s)]' = [s \in Request |-> Pass(s)]
  BY DEF GateKeeper!Run
<1>2. PICK p \in [s \in Request |-> Pass(s)][r],
           u \in [s \in Request |-> Runs(s)]'[r] :
        /\ \E g \in [k \in Key |-> Grant(k)][p.key] :
             u.tenant = g.tenant /\ u.scope \in g.scopes
        /\ [s \in Request |-> Runs(s)]'
             = [[s \in Request |-> Runs(s)] EXCEPT ![r] = {u}]
  BY DEF GateKeeper!Run
<1>3. \A s \in Request : Runs(s)' = IF s = r THEN {u} ELSE Runs(s)
  BY <1>2
<1>4. p \in Pass(r)
  BY <1>2
<1>5. p.key \in Key
  BY <1>4 DEF Inside
<1>6. \E g \in Grant(p.key) : u.tenant = g.tenant /\ u.scope \in g.scopes
  BY <1>2, <1>5
<1>7. \A k \in Key : Gate(k)' = Gate(k) /\ Grant(k)' = Grant(k)
  BY <1>1
<1>8. \A s \in Request : Pass(s)' = Pass(s)
  BY <1>1
<1> QED
  BY <1>3, <1>4, <1>6, <1>7, <1>8

LEMMA LeaveMeans ==
  ASSUME GateKeeper!Leave
  PROVE  /\ \A k \in Key : Gate(k)' = Gate(k) /\ Grant(k)' = Grant(k)
         /\ \A s \in Request : \/ Pass(s)' = Pass(s) /\ Runs(s)' = Runs(s)
                               \/ Pass(s)' = {} /\ Runs(s)' = {}
<1>1. PICK R \in SUBSET Request :
        /\ [s \in Request |-> Pass(s)]'
             = [s \in Request |->
                  IF s \in R THEN {} ELSE [q \in Request |-> Pass(q)][s]]
        /\ [s \in Request |-> Runs(s)]'
             = [s \in Request |->
                  IF s \in R THEN {} ELSE [q \in Request |-> Runs(q)][s]]
  BY DEF GateKeeper!Leave
<1>2. \A s \in Request : /\ Pass(s)' = IF s \in R THEN {} ELSE Pass(s)
                         /\ Runs(s)' = IF s \in R THEN {} ELSE Runs(s)
  BY <1>1
<1>3. /\ [k \in Key |-> Gate(k)]' = [k \in Key |-> Gate(k)]
      /\ [k \in Key |-> Grant(k)]' = [k \in Key |-> Grant(k)]
  BY DEF GateKeeper!Leave
<1>4. \A k \in Key : Gate(k)' = Gate(k) /\ Grant(k)' = Grant(k)
  BY <1>3
<1> QED
  BY <1>2, <1>4

LEMMA TurnsMean ==
  ASSUME GateKeeper!Administer
  PROVE  /\ \A k \in Key : <<Gate(k), Gate(k)'>> \in GateKeeper!Turns
         /\ \A k \in Key : Gate(k) # "none" => Grant(k)' = Grant(k)
         /\ \A s \in Request : Pass(s)' = Pass(s) /\ Runs(s)' = Runs(s)
<1>1. /\ [s \in Request |-> Pass(s)]' = [s \in Request |-> Pass(s)]
      /\ [s \in Request |-> Runs(s)]' = [s \in Request |-> Runs(s)]
  BY DEF GateKeeper!Administer
<1>2. \A s \in Request : Pass(s)' = Pass(s) /\ Runs(s)' = Runs(s)
  BY <1>1
<1>3. \A k \in Key :
        /\ <<[i \in Key |-> Gate(i)][k], [i \in Key |-> Gate(i)]'[k]>>
             \in GateKeeper!Turns
        /\ [i \in Key |-> Gate(i)][k] # "none" =>
             [i \in Key |-> Grant(i)]'[k] = [i \in Key |-> Grant(i)][k]
  BY DEF GateKeeper!Administer
<1> QED
  BY <1>2, <1>3

LEMMA StandingMeans ==
  ASSUME UNCHANGED <<[k \in Key |-> Gate(k)], [k \in Key |-> Grant(k)],
                     [r \in Request |-> Pass(r)], [r \in Request |-> Runs(r)]>>
  PROVE  /\ \A k \in Key : Gate(k)' = Gate(k) /\ Grant(k)' = Grant(k)
         /\ \A s \in Request : Pass(s)' = Pass(s) /\ Runs(s)' = Runs(s)
OBVIOUS

LEMMA InsideStep ==
  ASSUME Inside, Granted,
         [GateKeeper!Next]_<<[k \in Key |-> Gate(k)], [k \in Key |-> Grant(k)],
                            [r \in Request |-> Pass(r)],
                            [r \in Request |-> Runs(r)]>>
  PROVE  Inside' /\ Granted'
<1>1. CASE GateKeeper!Administer
  <2>1. \A k \in Key : Gate(k) # "none" =>
          Gate(k)' # "none" /\ Grant(k)' = Grant(k)
    BY <1>1, TurnsMean DEF GateKeeper!Turns
  <2> QED
    BY <1>1, <2>1, TurnsMean DEF Inside, Granted
<1>2. ASSUME NEW r \in Request, GateKeeper!Enter(r)
      PROVE  Inside' /\ Granted'
  <2>1. Runs(r) = {}
    BY <1>2 DEF GateKeeper!Enter, Granted
  <2> QED
    BY <1>2, <2>1, EnterMeans DEF Inside, Granted
<1>3. ASSUME NEW r \in Request, GateKeeper!Run(r)
      PROVE  Inside' /\ Granted'
  BY <1>3, RunMeans DEF Inside, Granted
<1>4. CASE GateKeeper!Leave
  BY <1>4, LeaveMeans DEF Inside, Granted
<1>5. CASE UNCHANGED <<[k \in Key |-> Gate(k)], [k \in Key |-> Grant(k)],
             [r \in Request |-> Pass(r)], [r \in Request |-> Runs(r)]>>
  BY <1>5, StandingMeans DEF Inside, Granted
<1> QED
  BY <1>1, <1>2, <1>3, <1>4, <1>5 DEF GateKeeper!Next

LEMMA ShutStep ==
  ASSUME Inside,
         [GateKeeper!Next]_<<[k \in Key |-> Gate(k)], [k \in Key |-> Grant(k)],
                            [r \in Request |-> Pass(r)],
                            [r \in Request |-> Runs(r)]>>
  PROVE  GateKeeper!ShutIsFinal
<1> SUFFICES ASSUME NEW k \in Key, Gate(k) = "shut"
             PROVE  /\ Gate(k)' = "shut" /\ Grant(k)' = Grant(k)
                    /\ \A r \in Request : \A p \in Pass(r)' :
                         p.key = k => p \in Pass(r)
  BY DEF GateKeeper!ShutIsFinal
<1>1. CASE GateKeeper!Administer
  BY <1>1, TurnsMean DEF GateKeeper!Turns
<1>2. ASSUME NEW s \in Request, GateKeeper!Enter(s)
      PROVE  /\ Gate(k)' = "shut" /\ Grant(k)' = Grant(k)
             /\ \A r \in Request : \A p \in Pass(r)' :
                  p.key = k => p \in Pass(r)
  BY <1>2, EnterMeans
<1>3. ASSUME NEW s \in Request, GateKeeper!Run(s)
      PROVE  /\ Gate(k)' = "shut" /\ Grant(k)' = Grant(k)
             /\ \A r \in Request : \A p \in Pass(r)' :
                  p.key = k => p \in Pass(r)
  BY <1>3, RunMeans
<1>4. CASE GateKeeper!Leave
  BY <1>4, LeaveMeans
<1>5. CASE UNCHANGED <<[i \in Key |-> Gate(i)], [i \in Key |-> Grant(i)],
             [r \in Request |-> Pass(r)], [r \in Request |-> Runs(r)]>>
  BY <1>5, StandingMeans
<1> QED
  BY <1>1, <1>2, <1>3, <1>4, <1>5 DEF GateKeeper!Next

(***************************************************************************)
(* KeyGate means what a holder of a key and an administrator take from it, *)
(* whatever implements it: what is inside is within a grant, and a gate    *)
(* that was shut lets nobody in again.                                     *)
(***************************************************************************)
THEOREM GateMeans ==
  GateKeeper!Spec => []GateKeeper!WithinGrant /\ GateKeeper!StaysShut
<1>1. GateKeeper!Init => Inside /\ Granted
  <2> SUFFICES ASSUME GateKeeper!Init
               PROVE  \A r \in Request : Pass(r) = {} /\ Runs(r) = {}
    BY DEF Inside, Granted
  <2>1. /\ [r \in Request |-> Pass(r)] = [r \in Request |-> {}]
        /\ [r \in Request |-> Runs(r)] = [r \in Request |-> {}]
    BY DEF GateKeeper!Init
  <2> QED
    BY <2>1
<1>2. Inside /\ Granted
      /\ [GateKeeper!Next]_<<[k \in Key |-> Gate(k)], [k \in Key |-> Grant(k)],
                             [r \in Request |-> Pass(r)],
                             [r \in Request |-> Runs(r)]>>
      => Inside' /\ Granted' /\ GateKeeper!ShutIsFinal
  BY InsideStep, ShutStep
<1>3. Inside /\ Granted => GateKeeper!WithinGrant
  BY DEF Inside, Granted, GateKeeper!WithinGrant
<1> QED
  BY <1>1, <1>2, <1>3, PTL DEF GateKeeper!Spec, GateKeeper!StaysShut

(***************************************************************************)
(* So it holds of the endpoint, which implements KeyGate.                  *)
(***************************************************************************)
COROLLARY EndpointKeepsGates ==
  Spec => []GateKeeper!WithinGrant /\ GateKeeper!StaysShut
BY GateKept, GateMeans DEF KeepsGate

-----------------------------------------------------------------------------
(* What the log says.                                                      *)

\* LogTells, and that the key of a logged call was made: its tenant stays.
LogInv ==
  /\ LogTells
  /\ \A e \in log : /\ req[e.req].key \in Key
                    /\ key[req[e.req].key].status # "none"

LEMMA EndedStays ==
  ASSUME IInv, [Next]_vars, NEW r \in Request, req[r].pc = "done"
  PROVE  req'[r] = req[r]
<1>1. ASSUME NEW s \in Request, Receive(s) \/ Serve(s)
      PROVE  req'[r] = req[r]
  <2>1. s # r
    BY <1>1 DEF Receive, Authenticate, BodyEnds, BodyArrives, Serve,
       ReadTenant, EnsureToken, Query, LogCall, LogFails
  <2>2. StepOf(s)
    BY <1>1, AuthenticateInv, BodyArrivesInv, ServeInv DEF Receive
  <2> QED
    BY <2>1, <2>2 DEF StepOf
<1>2. CASE Crash
  BY <1>2 DEF Crash
<1> QED
  BY <1>1, <1>2, TableStepInv DEF Next, vars

\* The only row that a step can add is of the call that it ends.
LEMMA NewRows ==
  ASSUME IInv, [Next]_vars
  PROVE  \A e \in log' : \/ e \in log
                         \/ \E r \in Request : LogCall(r) /\ e = Entry(r)
<1>1. ASSUME NEW r \in Request, LogCall(r)
      PROVE  log' = log \cup {Entry(r)}
  BY <1>1 DEF LogCall
<1>2. ASSUME NEW t \in Tenant, DeleteTenant(t)
      PROVE  log' \subseteq log
  BY <1>2 DEF DeleteTenant
<1>3. \/ log' \subseteq log \/ \E r \in Request : LogCall(r)
  BY <1>2 DEF Next, vars, VisitStep, TenantForm, CheckCode, InsertTenant,
     KeyForm, CheckTenant, InsertKey, Administer, RevokeKey, SetKeyEnabled,
     SetTenantEnabled, Receive, Authenticate, BodyEnds, BodyArrives, Serve,
     ReadTenant, EnsureToken, Query, LogFails, Crash
<1> QED
  BY <1>1, <1>3

LEMMA LogStep ==
  ASSUME IInv, LogInv, [Next]_vars
  PROVE  LogInv'
<1>0. IInv' /\ Kept /\ log \subseteq LogRow
  BY NextInv DEF IInv, TablesInv
<1> DEFINE Told(e) == /\ req'[e.req].pc = "done"
                      /\ req'[e.req].tool # NULL
                      /\ e = Entry(e.req)'
                      /\ e.tenant = key'[req'[e.req].key].tenant
                      /\ req'[e.req].key \in Key
                      /\ key'[req'[e.req].key].status # "none"
<1>1. ASSUME NEW e \in log PROVE Told(e)
  <2>1. e.req \in Request /\ req[e.req].pc = "done"
    BY <1>0 DEF LogRow, LogInv, LogTells
  <2>2. req'[e.req] = req[e.req]
    BY <2>1, EndedStays
  <2> QED
    BY <1>0, <2>2 DEF LogInv, LogTells, Kept, Entry
<1>2. ASSUME NEW e, NEW r \in Request, LogCall(r), e = Entry(r)
      PROVE  Told(e)
  <2>1. /\ req \in [Request -> RequestJob] /\ Within(r)
        /\ req[r].tool \in Tool
    BY <1>2 DEF LogCall, IInv, RequestsInv, Within, Running
  <2>2. /\ req'[r] = [req[r] EXCEPT !.pc = "done"] /\ key' = key
    BY <1>2, <2>1 DEF LogCall
  <2>3. /\ req'[r].pc = "done" /\ req'[r].tool = req[r].tool
        /\ req'[r].key = req[r].key /\ req'[r].tenant = req[r].tenant
        /\ req'[r].outcome = req[r].outcome
    BY <2>1, <2>2 DEF RequestJob
  <2>4. e.req = r /\ e.tenant = req[r].tenant /\ e = Entry(r)'
    BY <1>2, <2>3 DEF Entry
  <2>5. r \in Request /\ Entry(e.req)' = Entry(r)'
    BY <2>4 DEF Entry
  <2> QED
    BY <2>1, <2>2, <2>3, <2>4, <2>5, NullIsNothing DEF Within
<1>3. ASSUME NEW e \in log' PROVE Told(e)
  <2>1. CASE e \in log
    BY <1>1, <2>1
  <2>2. CASE \E r \in Request : LogCall(r) /\ e = Entry(r)
    BY <1>2, <2>2
  <2> QED
    BY <2>1, <2>2, NewRows
<1> QED
  BY <1>3 DEF LogInv, LogTells

(***************************************************************************)
(* Every row of call_logs tells what became of one call, under the tenant  *)
(* its key was made for, however many tenants succeed each other under a   *)
(* code while calls run.                                                   *)
(***************************************************************************)
THEOREM LogTellsTheCall == Spec => []LogTells
<1>1. Init => LogInv
  BY DEF Init, LogInv, LogTells
<1>2. IInv /\ LogInv /\ [Next]_vars => LogInv'
  BY LogStep
<1>3. LogInv => LogTells
  BY DEF LogInv
<1> QED
  BY <1>1, <1>2, <1>3, InvCorrect, PTL DEF Spec

-----------------------------------------------------------------------------
(* The event loop: one handler has it, and gives it back.                  *)

\* At most one handler is between two awaits.
OneHandler ==
  /\ \A r, s \in Request :
       req[r].pc \in OnLoop /\ req[s].pc \in OnLoop => r = s
  /\ \A u, v \in Visit :
       visit[u].pc = "insertKey" /\ visit[v].pc = "insertKey" => u = v
  /\ \A r \in Request, v \in Visit :
       ~(req[r].pc \in OnLoop /\ visit[v].pc = "insertKey")

\* A step by which nobody comes to have the loop.
NoneTakes ==
  /\ \A r \in Request : req'[r].pc \in OnLoop => req[r].pc \in OnLoop
  /\ \A v \in Visit :
       visit'[v].pc = "insertKey" => visit[v].pc = "insertKey"

\* A step by which one handler may take the free loop.
OneTakes ==
  /\ LoopFree
  /\ \/ /\ visit' = visit
        /\ \E r \in Request : \A s \in Request \ {r} : req'[s] = req[s]
     \/ /\ req' = req
        /\ \E v \in Visit : \A u \in Visit \ {v} : visit'[u] = visit[u]

LEMMA TakesLoop ==
  ASSUME IInv, [Next]_vars
  PROVE  NoneTakes \/ OneTakes
<1>0. /\ req \in [Request -> RequestJob] /\ visit \in [Visit -> VisitJob]
      /\ IdleVisit.pc = "idle"
  BY DEF IInv, TablesInv, RequestsInv, IdleVisit
<1>1. CASE UNCHANGED vars
  BY <1>1 DEF vars, NoneTakes
<1>2. CASE Administer
  BY <1>2 DEF Administer, RevokeKey, SetKeyEnabled, DeleteTenant,
     SetTenantEnabled, NoneTakes
<1>3. ASSUME NEW v \in Visit, VisitStep(v) PROVE NoneTakes \/ OneTakes
  <2>1. ASSUME NEW c \in Code, TenantForm(v, c) PROVE NoneTakes
    BY <1>0, <2>1 DEF TenantForm, NoneTakes, VisitJob
  <2>2. CASE CheckCode(v)
    BY <1>0, <2>2 DEF CheckCode, Leave, NoneTakes, VisitJob
  <2>3. ASSUME NEW t \in Tenant, InsertTenant(v, t) PROVE NoneTakes
    BY <1>0, <2>3 DEF InsertTenant, Leave, NoneTakes
  <2>4. ASSUME NEW t \in Tenant, NEW S \in Grants, KeyForm(v, t, S)
        PROVE  NoneTakes
    BY <1>0, <2>4 DEF KeyForm, NoneTakes, VisitJob
  <2>5. CASE CheckTenant(v)
    BY <1>0, <2>5 DEF CheckTenant, Leave, OneTakes
  <2>6. ASSUME NEW k \in Key, InsertKey(v, k) PROVE NoneTakes
    BY <1>0, <2>6 DEF InsertKey, Leave, NoneTakes
  <2> QED
    BY <1>3, <2>1, <2>2, <2>3, <2>4, <2>5, <2>6 DEF VisitStep
<1>4. ASSUME NEW r \in Request, Receive(r) PROVE OneTakes
  <2>1. LoopFree /\ visit' = visit
    BY <1>4 DEF Receive, Authenticate, BodyEnds, BodyArrives
  <2>2. \A s \in Request \ {r} : req'[s] = req[s]
    BY <1>4, AuthenticateInv, BodyArrivesInv, ServeInv DEF Receive, StepOf
  <2> QED
    BY <2>1, <2>2 DEF OneTakes
<1>5. ASSUME NEW r \in Request, Serve(r) PROVE NoneTakes
  <2>1. /\ req[r].pc \in OnLoop /\ visit' = visit
        /\ \A s \in Request \ {r} : req'[s] = req[s]
    BY <1>5, ServeInv DEF StepOf, Serve, ReadTenant, EnsureToken, Query,
       LogCall, LogFails, OnLoop
  <2> QED
    BY <2>1 DEF NoneTakes
<1>6. CASE Crash
  BY <1>0, <1>6 DEF Crash, NoneTakes, OnLoop, RequestJob
<1> QED
  BY <1>1, <1>2, <1>3, <1>4, <1>5, <1>6 DEF Next

LEMMA OneHandlerAtATime == Spec => []OneHandler
<1>1. Init => OneHandler
  BY DEF Init, OneHandler, NewRequest, IdleVisit, OnLoop
<1>2. ASSUME IInv, OneHandler, [Next]_vars PROVE OneHandler'
  <2>1. CASE NoneTakes
    BY <1>2, <2>1 DEF OneHandler, NoneTakes
  <2>2. CASE OneTakes
    BY <2>2 DEF OneHandler, OneTakes, LoopFree
  <2> QED
    BY <1>2, <2>1, <2>2, TakesLoop
<1> QED
  BY <1>1, <1>2, InvCorrect, PTL DEF Spec

\* Where a request goes next once the loop has its body.
Onward == {<<"tenant", "ensure">>, <<"ensure", "query">>, <<"ensure", "log">>,
           <<"query", "log">>}

LEMMA ServeMoves ==
  ASSUME IInv, NEW r \in Request, Serve(r)
  PROVE  /\ req[r].pc \in OnLoop
         /\ req'[r].pc = "done" \/ <<req[r].pc, req'[r].pc>> \in Onward
<1>0. req \in [Request -> RequestJob]
  BY DEF IInv, RequestsInv
<1>1. CASE ReadTenant(r)
  BY <1>0, <1>1 DEF ReadTenant, End, Onward, OnLoop,
     RequestJob
<1>2. CASE EnsureToken(r)
  BY <1>0, <1>2 DEF EnsureToken, Raises, ToLog, Onward, OnLoop,
     RequestJob
<1>3. CASE Query(r)
  BY <1>0, <1>3 DEF Query, ToLog, Onward, OnLoop,
     RequestJob
<1>4. CASE LogCall(r) \/ LogFails(r)
  BY <1>0, <1>4 DEF LogCall, LogFails, FailsLoudly, End, Onward, OnLoop,
     RequestJob
<1> QED
  BY <1>1, <1>2, <1>3, <1>4 DEF Serve

\* While a request has the loop, it goes on, stays, or leaves the loop free.
LEMMA HolderMoves ==
  ASSUME IInv, OneHandler, [Next]_vars, NEW r \in Request,
         req[r].pc \in OnLoop
  PROVE  /\ \/ LoopFree'
            \/ req'[r].pc = req[r].pc
            \/ <<req[r].pc, req'[r].pc>> \in Onward
         /\ Serve(r) => LoopFree' \/ <<req[r].pc, req'[r].pc>> \in Onward
<1>1. NoneTakes
  BY TakesLoop DEF OneTakes, LoopFree
<1>2. req'[r].pc = "done" => LoopFree'
  BY <1>1 DEF NoneTakes, OneHandler, LoopFree, OnLoop
<1>3. ASSUME NEW s \in Request, Receive(s) PROVE FALSE
  BY <1>3 DEF Receive, Authenticate, BodyEnds, BodyArrives, LoopFree
<1>4. ASSUME NEW s \in Request, Serve(s)
      PROVE  LoopFree' \/ <<req[r].pc, req'[r].pc>> \in Onward
  <2>1. s = r
    BY <1>4, ServeMoves DEF OneHandler
  <2> QED
    BY <1>2, <1>4, <2>1, ServeMoves
<1>5. CASE Crash
  BY <1>2, <1>5 DEF Crash, IInv, RequestsInv, RequestJob, OnLoop
<1> QED
  BY <1>3, <1>4, <1>5, TableStepInv DEF Next, vars

LEMMA InserterMoves ==
  ASSUME IInv, OneHandler, [Next]_vars, NEW v \in Visit,
         visit[v].pc = "insertKey"
  PROVE  /\ LoopFree' \/ visit'[v].pc = "insertKey"
         /\ InsertsKey(v) => LoopFree'
<1>1. NoneTakes
  BY TakesLoop DEF OneTakes, LoopFree
<1>2. visit'[v].pc # "insertKey" => LoopFree'
  BY <1>1 DEF NoneTakes, OneHandler, LoopFree
<1>3. ASSUME InsertsKey(v) PROVE visit'[v].pc = "idle"
  BY <1>3 DEF InsertsKey, InsertKey, Leave, IdleVisit, IInv, TablesInv
<1> QED
  BY <1>2, <1>3

(***************************************************************************)
(* What that rests on besides fairness: the handler that has the loop can  *)
(* go on.  Every place has a step whose guard is the place itself (Raises, *)
(* LogCall and the like), so this holds by the guards; it is a hypothesis  *)
(* of the theorem because ENABLED is out of the prover's reach.            *)
(***************************************************************************)
NeverStuck ==
  /\ \A r \in Request : req[r].pc \in OnLoop => ENABLED <<Serve(r)>>_vars
  /\ \A v \in Visit :
       visit[v].pc = "insertKey" => ENABLED <<InsertsKey(v)>>_vars

(***************************************************************************)
(* A handler that has the event loop, for the whole of a tool call or for  *)
(* the INSERT of a key, gives it back, provided that it is never stuck: no *)
(* interleaving of forms, deletions and requests keeps the loop for good.  *)
(***************************************************************************)
THEOREM LoopGivenBack == FairSpec /\ []NeverStuck => LoopComesFree
<1>1. ASSUME NEW r \in Request
      PROVE  FairSpec /\ []NeverStuck => (req[r].pc \in OnLoop ~> LoopFree)
  <2> DEFINE At(place) == req[r].pc = place
  <2>1. FairSpec => Spec /\ ServeFair(r)
    BY DEF FairSpec
  <2>2. NeverStuck /\ req[r].pc \in OnLoop => ENABLED <<Serve(r)>>_vars
    BY DEF NeverStuck
  <2>3. req[r].pc \in OnLoop
          <=> At("tenant") \/ At("ensure") \/ At("query") \/ At("log")
    BY DEF OnLoop
  <2>4. IInv /\ OneHandler /\ At("tenant") /\ [Next]_vars
          => At("tenant")' \/ At("ensure")' \/ LoopFree'
    BY HolderMoves DEF Onward, OnLoop
  <2>5. IInv /\ OneHandler /\ At("tenant") /\ [Next]_vars /\ <<Serve(r)>>_vars
          => At("ensure")' \/ LoopFree'
    BY HolderMoves DEF Onward, OnLoop
  <2>6. IInv /\ OneHandler /\ At("ensure") /\ [Next]_vars
          => At("ensure")' \/ At("query")' \/ At("log")' \/ LoopFree'
    BY HolderMoves DEF Onward, OnLoop
  <2>7. IInv /\ OneHandler /\ At("ensure") /\ [Next]_vars /\ <<Serve(r)>>_vars
          => At("query")' \/ At("log")' \/ LoopFree'
    BY HolderMoves DEF Onward, OnLoop
  <2>8. IInv /\ OneHandler /\ At("query") /\ [Next]_vars
          => At("query")' \/ At("log")' \/ LoopFree'
    BY HolderMoves DEF Onward, OnLoop
  <2>9. IInv /\ OneHandler /\ At("query") /\ [Next]_vars /\ <<Serve(r)>>_vars
          => At("log")' \/ LoopFree'
    BY HolderMoves DEF Onward, OnLoop
  <2>10. IInv /\ OneHandler /\ At("log") /\ [Next]_vars
           => At("log")' \/ LoopFree'
    BY HolderMoves DEF Onward, OnLoop
  <2>11. IInv /\ OneHandler /\ At("log") /\ [Next]_vars /\ <<Serve(r)>>_vars
           => LoopFree'
    BY HolderMoves DEF Onward, OnLoop
  <2> HIDE DEF At
  <2> QED
    BY <2>1, <2>2, <2>3, <2>4, <2>5, <2>6, <2>7, <2>8, <2>9, <2>10, <2>11,
       InvCorrect, OneHandlerAtATime, PTL DEF Spec, ServeFair
<1>2. ASSUME NEW v \in Visit
      PROVE  FairSpec /\ []NeverStuck
               => (visit[v].pc = "insertKey" ~> LoopFree)
  <2> DEFINE Inserting == visit[v].pc = "insertKey"
  <2>1. FairSpec => Spec /\ InsertFair(v)
    BY DEF FairSpec
  <2>2. NeverStuck /\ Inserting => ENABLED <<InsertsKey(v)>>_vars
    BY DEF NeverStuck
  <2>3. IInv /\ OneHandler /\ Inserting /\ [Next]_vars
          => Inserting' \/ LoopFree'
    BY InserterMoves
  <2>4. IInv /\ OneHandler /\ Inserting /\ [Next]_vars
          /\ <<InsertsKey(v)>>_vars
          => LoopFree'
    BY InserterMoves
  <2>5. Inserting <=> visit[v].pc = "insertKey"
    OBVIOUS
  <2> HIDE DEF Inserting
  <2> QED
    BY <2>1, <2>2, <2>3, <2>4, <2>5, InvCorrect, OneHandlerAtATime, PTL
    DEF Spec, InsertFair
<1> QED
  BY <1>1, <1>2 DEF LoopComesFree

-----------------------------------------------------------------------------
(* McpServer implements Tenants.                                           *)

\* A form that is past its first look-up asks for a code.
FormsInv ==
  \A v \in Visit : visit[v].pc \in {"create", "insert"} => visit[v].code \in Code

LEMMA FormsStep ==
  ASSUME IInv, FormsInv, [Next]_vars
  PROVE  FormsInv'
<1>0. visit \in [Visit -> VisitJob] /\ IdleVisit.pc = "idle"
  BY DEF IInv, TablesInv, IdleVisit
<1>1. CASE visit' = visit
  BY <1>1 DEF FormsInv
<1>2. ASSUME NEW v \in Visit, VisitStep(v) PROVE FormsInv'
  <2>1. ASSUME NEW c \in Code, TenantForm(v, c) PROVE FormsInv'
    BY <1>0, <2>1 DEF TenantForm, FormsInv, VisitJob
  <2>2. CASE CheckCode(v)
    BY <1>0, <2>2 DEF CheckCode, Leave, FormsInv, VisitJob
  <2>3. CASE visit' = [visit EXCEPT ![v] = IdleVisit]
    BY <1>0, <2>3 DEF FormsInv
  <2>4. ASSUME NEW t \in Tenant, NEW S \in Grants, KeyForm(v, t, S)
        PROVE  FormsInv'
    BY <1>0, <2>4 DEF KeyForm, FormsInv, VisitJob
  <2>5. CASE visit' = [visit EXCEPT ![v].pc = "insertKey"]
    BY <1>0, <2>5 DEF FormsInv, VisitJob
  <2> QED
    BY <1>2, <2>1, <2>2, <2>3, <2>4, <2>5 DEF VisitStep, InsertTenant,
       CheckTenant, InsertKey, Leave
<1>3. CASE visit' = [v \in Visit |-> IdleVisit]
  BY <1>0, <1>3 DEF FormsInv
<1>4. Administer => visit' = visit
  BY DEF Administer, RevokeKey, SetKeyEnabled, DeleteTenant, SetTenantEnabled
<1>5. ASSUME NEW r \in Request, Receive(r) \/ Serve(r)
      PROVE  visit' = visit
  BY <1>5 DEF Receive, Authenticate, BodyEnds, BodyArrives, Serve, ReadTenant,
     EnsureToken, Query, LogCall, LogFails
<1> QED
  BY <1>1, <1>2, <1>3, <1>4, <1>5 DEF Next, vars, Crash

LEMMA FormsCorrect == Spec => []FormsInv
<1>1. Init => FormsInv
  BY DEF Init, FormsInv, IdleVisit
<1> QED
  BY <1>1, FormsStep, InvCorrect, PTL DEF Spec

\* The table as Tenants sees it.
Rows == {RowOf(t) : t \in {u \in Tenant : Live(u)}}
Used == {t \in Tenant : tenant[t].status # "none"}
Serving == [r \in Request |-> Serves(r)]

LEMMA RowParts ==
  \A t : /\ RowOf(t).id = t
         /\ RowOf(t).code = tenant[t].code
         /\ RowOf(t).enabled = tenant[t].enabled
BY DEF RowOf

\* Tenants that a step leaves alone.
RowStays(t) == /\ Live(t)' = Live(t)
               /\ RowOf(t)' = RowOf(t)
               /\ (tenant'[t].status = "none") = (tenant[t].status = "none")

LEMMA StepInsert ==
  ASSUME IInv, NEW t \in Tenant, NEW c \in Code, tenant[t].status = "none",
         ~CodeInUse(c), tenant' = WithRow(t, c), req' = req
  PROVE  Table!Insert(t, c)
<1> DEFINE new == [id |-> t, code |-> c, enabled |-> TRUE]
<1>1. /\ ~Live(t) /\ Live(t)' /\ RowOf(t)' = new /\ tenant'[t].status # "none"
      /\ \A u \in Tenant \ {t} : RowStays(u)
  BY DEF IInv, TablesInv, TenantRow, WithRow, Live, RowOf, RowStays
<1>2. \A e \in Rows : e.code # c
  BY RowParts DEF Rows, CodeInUse
<1> HIDE DEF new
<1>3. Rows' = Rows \cup {new}
  BY <1>1 DEF Rows, RowStays
<1>4. Used' = Used \cup {t} /\ t \notin Used
  BY <1>1 DEF Used, RowStays
<1>5. Serving' = Serving
  BY DEF Serving, Serves
<1> QED
  BY <1>2, <1>3, <1>4, <1>5 DEF Table!Insert, Rows, Used, Serving, new
LEMMA StepSwitch ==
  ASSUME IInv, NEW t \in Tenant, NEW b \in BOOLEAN, SetTenantEnabled(t, b)
  PROVE  \E e \in Rows : Table!Switch(e, b)
<1> DEFINE new == [RowOf(t) EXCEPT !.enabled = b]
<1>1. /\ Live(t) /\ Live(t)' /\ RowOf(t)' = new /\ RowOf(t) \in Rows
      /\ tenant[t].status # "none" /\ tenant'[t].status # "none"
      /\ \A u \in Tenant \ {t} : RowStays(u)
  BY DEF IInv, TablesInv, TenantRow, SetTenantEnabled, Live, RowOf, RowStays,
     Rows
<1> HIDE DEF new
<1>2. Rows' = (Rows \ {RowOf(t)}) \cup {new}
  BY <1>1, RowParts DEF Rows, RowStays
<1>3. Used' = Used
  BY <1>1 DEF Used, RowStays
<1>4. Serving' = Serving
  BY DEF Serving, Serves, SetTenantEnabled
<1> QED
  BY <1>1, <1>2, <1>3, <1>4 DEF Table!Switch, Rows, Used, Serving, new

LEMMA StepDelete ==
  ASSUME IInv, NEW t \in Tenant, DeleteTenant(t)
  PROVE  \E e \in Rows : Table!Delete(e)
<1>1. /\ Live(t) /\ ~Live(t)' /\ RowOf(t) \in Rows
      /\ tenant[t].status # "none" /\ tenant'[t].status # "none"
      /\ \A u \in Tenant \ {t} : RowStays(u)
  BY DEF IInv, TablesInv, TenantRow, DeleteTenant, Live, RowOf, RowStays, Rows
<1>2. Rows' = Rows \ {RowOf(t)}
  BY <1>1, RowParts DEF Rows, RowStays
<1>3. Used' = Used
  BY <1>1 DEF Used, RowStays
<1>4. Serving' = Serving
  BY DEF Serving, Serves, DeleteTenant
<1> QED
  BY <1>1, <1>2, <1>3, <1>4 DEF Table!Delete, Rows, Used, Serving

\* Steps that leave the table alone.
LEMMA RowsStay ==
  ASSUME tenant' = tenant
  PROVE  Rows' = Rows /\ Used' = Used
BY DEF Rows, Used, RowOf, Live

LEMMA StepFinish ==
  ASSUME tenant' = tenant,
         \A r \in Request : Serves(r)' = Serves(r) \/ Serves(r)' = {}
  PROVE  Table!Finish
<1> DEFINE R == {r \in Request : Serves(r)' = {}}
<1>1. R \in SUBSET Request
  OBVIOUS
<1>2. Serving' = [r \in Request |-> IF r \in R THEN {} ELSE Serving[r]]
  BY DEF Serving
<1> QED
  BY <1>1, <1>2, RowsStay DEF Table!Finish, Rows, Used, Serving

LEMMA StepAdmit ==
  ASSUME IInv, NEW r \in Request, EnsureToken(r), req'[r].pc = "query"
  PROVE  \E e \in Rows : Table!Admit(r, e)
<1> DEFINE t == req[r].tenant
<1>1. /\ req \in [Request -> RequestJob] /\ req[r].pc = "ensure"
      /\ tenant' = tenant
      /\ Live(t) /\ tenant[t].enabled
      /\ req' = [req EXCEPT ![r].pc = "query"]
  BY DEF EnsureToken, Raises, ToLog, IInv, RequestsInv, RequestJob
<1>2. /\ RowOf(t) \in Rows /\ RowOf(t).id = t /\ RowOf(t).enabled
  BY <1>1, RowParts DEF Rows, Live
<1>3. /\ Serves(r) = {} /\ Serves(r)' = {t}
      /\ \A s \in Request \ {r} : Serves(s)' = Serves(s)
  BY <1>1 DEF Serves, RequestJob
<1> HIDE DEF t
<1>4. Serving' = [Serving EXCEPT ![r] = {t}]
  BY <1>3 DEF Serving
<1>5. Serving[r] = {}
  BY <1>3 DEF Serving
<1> QED
  BY <1>1, <1>2, <1>4, <1>5, RowsStay DEF Table!Admit, Rows, Used, Serving

TableVars == <<Rows, Used, Serving>>

LEMMA FormsTable ==
  ASSUME IInv, FormsInv, NEW v \in Visit, VisitStep(v)
  PROVE  Table!Next \/ UNCHANGED TableVars
<1>1. ASSUME NEW t \in Tenant, InsertTenant(v, t)
      PROVE  Table!Next \/ UNCHANGED TableVars
  <2>1. CASE CodeInUse(visit[v].code)
    BY <1>1, <2>1, RowsStay DEF InsertTenant, Inserted, TableVars, Serving,
       Serves
  <2>2. CASE ~CodeInUse(visit[v].code)
    <3>1. PICK c \in Code : c = visit[v].code
      BY <1>1 DEF InsertTenant, FormsInv
    <3>2. /\ tenant[t].status = "none" /\ req' = req
          /\ ~CodeInUse(c) /\ tenant' = WithRow(t, c)
      BY <1>1, <2>2, <3>1 DEF InsertTenant, Inserted
    <3>3. Table!Insert(t, c)
      BY <3>2, StepInsert
    <3> QED
      BY <3>3 DEF Table!Next
  <2> QED
    BY <2>1, <2>2
<1>2. CASE ~\E t \in Tenant : InsertTenant(v, t)
  <2>1. tenant' = tenant /\ req' = req
    BY <1>2 DEF VisitStep, TenantForm, CheckCode, KeyForm, CheckTenant,
       InsertKey
  <2> QED
    BY <2>1, RowsStay DEF TableVars, Serving, Serves
<1> QED
  BY <1>1, <1>2

LEMMA AdministerTable ==
  ASSUME IInv, Administer
  PROVE  Table!Next \/ UNCHANGED TableVars
<1>1. ASSUME NEW k \in Key,
             RevokeKey(k) \/ \E b \in BOOLEAN : SetKeyEnabled(k, b)
      PROVE  UNCHANGED TableVars
  <2>1. tenant' = tenant /\ req' = req
    BY <1>1 DEF RevokeKey, SetKeyEnabled
  <2> QED
    BY <2>1, RowsStay DEF TableVars, Serving, Serves
<1>2. ASSUME NEW t \in Tenant, DeleteTenant(t) PROVE Table!Next
  BY <1>2, StepDelete DEF Table!Next, Rows
<1>3. ASSUME NEW t \in Tenant, NEW b \in BOOLEAN, SetTenantEnabled(t, b)
      PROVE  Table!Next
  BY <1>3, StepSwitch DEF Table!Next, Rows
<1> QED
  BY <1>1, <1>2, <1>3 DEF Administer

LEMMA RequestTable ==
  ASSUME IInv, NEW r \in Request, Receive(r) \/ Serve(r)
  PROVE  Table!Next
<1>1. /\ tenant' = tenant /\ req \in [Request -> RequestJob]
      /\ \A s \in Request \ {r} : req'[s] = req[s]
  BY AuthenticateInv, BodyArrivesInv, ServeInv DEF Receive, StepOf, IInv,
     RequestsInv
<1>2. CASE EnsureToken(r) /\ req'[r].pc = "query"
  BY <1>2, StepAdmit DEF Table!Next, Rows
<1>3. CASE ~(EnsureToken(r) /\ req'[r].pc = "query")
  <2>1. req'[r].pc # "query"
    <3>1. CASE Receive(r)
      <4>1. ASSUME NEW k \in Key, NEW c \in Code, Authenticate(r, k, c)
            PROVE  req'[r].pc \in {"body", "done"}
        BY <1>1, <4>1 DEF Authenticate, End, RequestJob
      <4>2. CASE BodyEnds(r)
        BY <1>1, <4>2 DEF BodyEnds, End, RequestJob
      <4>3. ASSUME NEW x \in Tool \cup {NULL}, BodyArrives(r, x)
            PROVE  req'[r].pc = "tenant"
        BY <1>1, <4>3 DEF BodyArrives, RequestJob
      <4> QED
        BY <3>1, <4>1, <4>2, <4>3 DEF Receive
    <3>2. CASE ReadTenant(r)
      BY <1>1, <3>2 DEF ReadTenant, End, RequestJob
    <3>3. CASE Query(r)
      BY <1>1, <3>3 DEF Query, ToLog, RequestJob
    <3>4. CASE LogCall(r) \/ LogFails(r)
      BY <1>1, <3>4 DEF LogCall, LogFails, FailsLoudly, End, RequestJob
    <3> QED
      BY <1>3, <3>1, <3>2, <3>3, <3>4 DEF Serve
  <2>2. Serves(r)' = {} /\ \A s \in Request \ {r} : Serves(s)' = Serves(s)
    BY <1>1, <2>1 DEF Serves
  <2> QED
    BY <1>1, <2>2, StepFinish DEF Table!Next
<1> QED
  BY <1>2, <1>3

LEMMA StepTable ==
  ASSUME IInv, FormsInv, [Next]_vars
  PROVE  Table!Next \/ UNCHANGED TableVars
<1>1. CASE UNCHANGED vars
  BY <1>1, RowsStay DEF vars, TableVars, Serving, Serves
<1>2. CASE Crash
  <2>1. tenant' = tenant
    BY <1>2 DEF Crash
  <2>2. \A r \in Request : req'[r] = req[r] \/ req'[r].pc = "done"
    BY <1>2 DEF Crash, IInv, RequestsInv, RequestJob
  <2>3. \A r \in Request : Serves(r)' = Serves(r) \/ Serves(r)' = {}
    BY <2>2 DEF Serves
  <2> QED
    BY <2>1, <2>3, StepFinish DEF Table!Next
<1> QED
  BY <1>1, <1>2, FormsTable, AdministerTable, RequestTable DEF Next

(***************************************************************************)
(* Whatever forms, deletions and calls interleave, the table of tenants    *)
(* and the calls that query implement Tenants: two forms for one code make *)
(* one row, and no deletion is undone by a form that was under way.        *)
(***************************************************************************)
THEOREM TableKept == Spec => KeepsTable
<1>1. Init => Table!Init
  <2> SUFFICES ASSUME Init PROVE Table!Init
    OBVIOUS
  <2>1. Rows = {} /\ Used = {}
    BY DEF Init, NoTenant, Rows, Used, Live
  <2>2. Serving = [r \in Request |-> {}]
    BY DEF Init, NewRequest, Serving, Serves
  <2> QED
    BY <2>1, <2>2 DEF Table!Init, Rows, Used, Serving
<1>2. IInv /\ FormsInv /\ [Next]_vars => [Table!Next]_(Table!vars)
  BY StepTable DEF Table!vars, TableVars, Rows, Used, Serving
<1> QED
  BY <1>1, <1>2, InvCorrect, FormsCorrect, PTL
     DEF Spec, KeepsTable, Table!Spec

(***************************************************************************)
(* So no code ever names two tenants, no tenant comes back after its       *)
(* deletion, and a query is sent for a tenant found there and enabled.     *)
(***************************************************************************)
COROLLARY TableIsSound == Spec => []Table!Sound /\ Table!NeverUndone
BY TableKept, Table!TableMeans DEF KeepsTable
=============================================================================
