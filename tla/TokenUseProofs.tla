--------------------------- MODULE TokenUseProofs ---------------------------
(***************************************************************************)
(* TokenMgr implements TokenUse and Tenants, for any number of tenants and *)
(* workers and any bounds that satisfy its assumptions.                    *)
(***************************************************************************)
EXTENDS TokenMgrProofs

LEMMA InitPromise == Init => Promise!Init
BY DEF Init, IdleJob, Promise!Init, Held

LEMMA DropPromise ==
  ASSUME now' = now,
         \A w \in Worker : Held(w)' = Held(w) \/ Held(w)' = {}
  PROVE  Promise!Drop
<1> DEFINE W == {w \in Worker : Held(w)' = {}}
<1>1. W \in SUBSET Worker
  OBVIOUS
<1>2. [w \in Worker |-> Held(w)']
        = [w \in Worker |-> IF w \in W THEN {} ELSE Held(w)]
  OBVIOUS
<1>3. [w \in Worker |-> Held(w)']
        = [w \in Worker |->
             IF w \in W THEN {} ELSE [v \in Worker |-> Held(v)][w]]
  BY <1>2
<1> QED
  BY <1>1, <1>3 DEF Promise!Drop

\* Only SendQuery puts a token to use.
LEMMA SendPromise ==
  ASSUME FullInv, UsedTokenLive', NEW w \in Worker, SendQuery(w)
  PROVE  Promise!Take(w) \/ Promise!Drop
<1>0. /\ job \in [Worker -> Job] /\ job[w].pc = "ready" /\ now' = now
      /\ Owned(job[w].token, job[w].tenant) /\ JobOK(job[w])
  BY DEF FullInv, OwnToken, Inv, TypeOK, SendQuery, env
<1>1. CASE Finish(w)
  <2>1. \A v \in Worker : Held(v)' = Held(v) \/ Held(v)' = {}
    BY <1>0, <1>1 DEF Finish, Held, IdleJob
  <2> QED
    BY <1>0, <2>1, DropPromise
<1>2. CASE Goto(w, "using")
  <2> DEFINE u == [for |-> job[w].tenant, of |-> job[w].token.of,
                   born |-> job[w].token.born]
  <2>1. /\ job'[w].pc = "using" /\ job'[w].token = job[w].token
        /\ job'[w].tenant = job[w].tenant
        /\ \A v \in Worker \ {w} : job'[v] = job[v]
    BY <1>0, <1>2 DEF Goto, Job
  <2>2. Held(w) = {} /\ Held(w)' = {u}
    BY <1>0, <2>1 DEF Held
  <2>3. \A v \in Worker \ {w} : Held(v)' = Held(v)
    BY <2>1 DEF Held
  <2>4. Promise!Good(u, now)
    BY <1>0, <2>1 DEF Promise!Good, Owned, JobOK, UsedTokenLive
  <2>5. [v \in Worker |-> Held(v)']
          = [[v \in Worker |-> Held(v)] EXCEPT ![w] = {u}]
    BY <2>2, <2>3
  <2> QED
    BY <1>0, <2>2, <2>4, <2>5 DEF Promise!Take
<1> QED
  BY <1>1, <1>2 DEF SendQuery

\* Every other step of a worker leaves what is under way alone or ends it.
LEMMA WorkerPromise ==
  ASSUME FullInv, UsedTokenLive', NEW w \in Worker,
         WorkerStep(w) \/ PlatformMints(w) \/ \E t \in Tenant : Begin(w, t)
  PROVE  Promise!Next
<1>0. job \in [Worker -> Job]
  BY DEF FullInv, Inv, TypeOK
<1>1. CASE SendQuery(w)
  BY <1>1, SendPromise DEF Promise!Next
<1>2. ASSUME now' = now, job'[w].pc # "using",
             \A v \in Worker \ {w} : job'[v] = job[v]
      PROVE  Promise!Next
  <2>1. \A v \in Worker : Held(v)' = Held(v) \/ Held(v)' = {}
    BY <1>2 DEF Held
  <2> QED
    BY <1>2, <2>1, DropPromise DEF Promise!Next
<1>3. CASE Finish(w) /\ now' = now
  BY <1>0, <1>2, <1>3 DEF Finish, IdleJob
<1>4. CASE \E t \in Tenant : Begin(w, t)
  <2>1. PICK t \in Tenant : Begin(w, t)
    BY <1>4
  <2> DEFINE b == HasApp(row[t].cred)
  <2>2. /\ job' = [job EXCEPT ![w].pc = "ensure", ![w].since = now,
                              ![w].tenant = t, ![w].ctx = b]
        /\ now' = now
    BY <2>1 DEF Begin, env
  <2> HIDE DEF b
  <2> QED
    BY <1>0, <1>2, <2>2 DEF Job
<1>5. CASE ReadTenant(w) /\ ~Finish(w)
  <2> DEFINE r == row[job[w].tenant]
  <2>1. /\ job' = [job EXCEPT ![w].pc = "check", ![w].since = now,
                              ![w].snap = r]
        /\ now' = now
    BY <1>5 DEF ReadTenant, env
  <2> HIDE DEF r
  <2> QED
    BY <1>0, <1>2, <2>1 DEF Job
<1>6. CASE ServeCached(w)
  BY <1>0, <1>2, <1>6 DEF ServeCached, env, Job
<1>7. CASE RefreshToken(w) /\ ~Finish(w)
  <2>1. Goto(w, "posting") /\ now' = now
    BY <1>7 DEF RefreshToken, env
  <2> QED
    BY <1>0, <1>2, <2>1 DEF Goto, Job
<1>8. CASE PlatformMints(w)
  BY <1>0, <1>2, <1>8 DEF PlatformMints, env, Job
<1>9. CASE ReceiveToken(w)
  BY <1>0, <1>2, <1>9 DEF ReceiveToken, env, Job
<1>10. CASE SaveTokenBundle(w)
  BY <1>0, <1>2, <1>10 DEF SaveTokenBundle, Job
<1>11. WorkerStep(w) => now' = now
  BY DEF WorkerStep, ReadTenant, ServeCached, RefreshToken, ReceiveToken,
     RefreshFails, SaveTokenBundle, SaveFails, SendQuery, QueryReturns,
     QueryRejected, env
<1>12. CASE RefreshFails(w) \/ SaveFails(w) \/ QueryReturns(w) \/ QueryRejected(w)
  <2>1. Finish(w)
    BY <1>12 DEF RefreshFails, SaveFails, QueryReturns, QueryRejected
  <2> QED
    BY <1>3, <1>11, <1>12, <2>1 DEF WorkerStep
<1> QED
  BY <1>1, <1>3, <1>4, <1>5, <1>6, <1>7, <1>8, <1>9, <1>10, <1>11, <1>12
     DEF WorkerStep

LEMMA TickPromise ==
  ASSUME FullInv, UsedTokenLive', Tick
  PROVE  Promise!Tick
<1>1. now' = now + 1 /\ job' = job /\ \A w \in Worker : Held(w)' = Held(w)
  BY DEF Tick, Held
<1>2. ASSUME NEW w \in Worker, NEW u \in Held(w)
      PROVE  Promise!Good(u, now')
  BY <1>1, <1>2 DEF Held, Promise!Good, FullInv, OwnToken, Owned, Inv, TypeOK,
     JobOK, UsedTokenLive
<1> QED
  BY <1>1, <1>2 DEF Promise!Tick

LEMMA NextPromise ==
  FullInv /\ UsedTokenLive' /\ [Next]_vars
    => [Promise!Next]_<<now, [w \in Worker |-> Held(w)]>>
<1> SUFFICES ASSUME FullInv, UsedTokenLive', [Next]_vars
             PROVE  Promise!Next \/ UNCHANGED <<now, [w \in Worker |-> Held(w)]>>
  OBVIOUS
<1>1. ASSUME NEW t \in Tenant,
             \/ \E S \in Forms : CreateTenant(t, S) \/ UpdateCredentials(t, S)
             \/ UpdateAppTicket(t)
             \/ \E b \in BOOLEAN : SetEnabled(t, b)
             \/ DeleteTenant(t) \/ PlatformRevokes(t)
      PROVE  UNCHANGED <<now, [w \in Worker |-> Held(w)]>>
  <2>1. now' = now /\ job' = job
    BY <1>1 DEF CreateTenant, UpdateCredentials, UpdateAppTicket, SetEnabled,
       DeleteTenant, PlatformRevokes
  <2> QED
    BY <2>1 DEF Held
<1>2. ASSUME NEW w \in Worker,
             WorkerStep(w) \/ PlatformMints(w) \/ \E t \in Tenant : Begin(w, t)
      PROVE  Promise!Next
  BY <1>2, WorkerPromise
<1>3. CASE Tick
  BY <1>3, TickPromise DEF Promise!Next
<1>4. CASE Crash
  BY <1>4, DropPromise DEF Crash, env, Held, IdleJob, Promise!Next
<1>5. CASE UNCHANGED vars
  BY <1>5 DEF vars, Held
<1> QED
  BY <1>1, <1>2, <1>3, <1>4, <1>5 DEF Next

(***************************************************************************)
(* Every behaviour of the token manager, with its caches, races, failures  *)
(* and crashes, is one its callers may expect: no query starts, or goes on *)
(* as time passes, without a token of its own tenant that lasts.           *)
(***************************************************************************)
THEOREM PromiseKept == Spec => KeepsPromise
<1>1. FullInv => UsedTokenLive
  BY InvUsedTokenLive DEF FullInv
<1> QED
  BY <1>1, InitPromise, NextPromise, FullInvCorrect, PTL
     DEF Spec, KeepsPromise, Promise!Spec

-----------------------------------------------------------------------------
(***************************************************************************)
(* TokenUse means what a sender of a query takes from it, whatever         *)
(* implements it: its token is its own tenant's and alive for as long as   *)
(* the query is under way.                                                 *)
(***************************************************************************)
THEOREM PromiseMeans == Promise!Spec => []Promise!AlwaysGood
<1> DEFINE AllGood ==
      \A w \in Worker : \A u \in Held(w) : Promise!Good(u, now)
<1>1. AllGood <=> Promise!AlwaysGood
  BY DEF Promise!AlwaysGood
<1>2. Promise!Init => AllGood
  <2>1. ASSUME [w \in Worker |-> Held(w)] = [w \in Worker |-> {}]
        PROVE  AllGood
    <3>1. \A w \in Worker : Held(w) = {}
      BY <2>1
    <3> QED
      BY <3>1
  <2> QED
    BY <2>1 DEF Promise!Init
<1>3. ASSUME AllGood,
             [Promise!Next]_<<now, [w \in Worker |-> Held(w)]>>
      PROVE  AllGood'
  <2>1. ASSUME NEW w \in Worker, Promise!Take(w)
        PROVE  AllGood'
    <3>1. PICK u \in [v \in Worker |-> Held(v)]'[w] :
            /\ Promise!Good(u, now)
            /\ [v \in Worker |-> Held(v)]'
                 = [[v \in Worker |-> Held(v)] EXCEPT ![w] = {u}]
      BY <2>1 DEF Promise!Take
    <3>2. \A v \in Worker : Held(v)' = IF v = w THEN {u} ELSE Held(v)
      BY <3>1
    <3>3. now' = now
      BY <2>1 DEF Promise!Take
    <3> QED
      BY <1>3, <3>1, <3>2, <3>3 DEF Promise!Good
  <2>2. CASE Promise!Drop
    <3>1. PICK W \in SUBSET Worker :
            [v \in Worker |-> Held(v)]'
              = [w \in Worker |->
                   IF w \in W THEN {} ELSE [v \in Worker |-> Held(v)][w]]
      BY <2>2 DEF Promise!Drop
    <3>2. \A v \in Worker : Held(v)' = IF v \in W THEN {} ELSE Held(v)
      BY <3>1
    <3>3. now' = now
      BY <2>2 DEF Promise!Drop
    <3> QED
      BY <1>3, <3>2, <3>3 DEF Promise!Good
  <2>3. CASE Promise!Tick
    <3>1. \A w \in Worker : \A u \in [v \in Worker |-> Held(v)][w] :
            Promise!Good(u, now')
      BY <2>3 DEF Promise!Tick
    <3>2. [v \in Worker |-> Held(v)]' = [v \in Worker |-> Held(v)]
      BY <2>3 DEF Promise!Tick
    <3>3. \A v \in Worker : Held(v)' = Held(v)
      BY <3>2
    <3> QED
      BY <3>1, <3>3 DEF Promise!Good
  <2>4. CASE UNCHANGED <<now, [w \in Worker |-> Held(w)]>>
    <3>1. now' = now /\ \A v \in Worker : Held(v)' = Held(v)
      BY <2>4
    <3> QED
      BY <1>3, <3>1 DEF Promise!Good
  <2> QED
    BY <1>3, <2>1, <2>2, <2>3, <2>4 DEF Promise!Next
<1>4. AllGood /\ [Promise!Next]_<<now, [w \in Worker |-> Held(w)]>> => AllGood'
  BY <1>3
<1> HIDE DEF AllGood
<1> QED
  BY <1>1, <1>2, <1>4, PTL DEF Promise!Spec

(***************************************************************************)
(* So it holds of every query of the token manager's callers.              *)
(***************************************************************************)
COROLLARY EveryQueryEntitled == Spec => []Promise!AlwaysGood
BY PromiseKept, PromiseMeans DEF KeepsPromise

-----------------------------------------------------------------------------
(* TokenMgr implements Tenants.                                            *)

\* The table as Tenants sees it.
Rows == {RowOf(t) : t \in {u \in Tenant : row[u].status = "live"}}
Used == {t \in Tenant : row[t].status # "none"}
Serving == [w \in Worker |-> Serves(w)]

LEMMA RowParts ==
  \A t : /\ RowOf(t).id = t
         /\ RowOf(t).code = t
         /\ RowOf(t).enabled = row[t].enabled
BY DEF RowOf

\* A step that leaves of a tenant what Tenants sees of it.
StaysRow(t) == /\ row'[t].status = row[t].status
               /\ row'[t].enabled = row[t].enabled

LEMMA StaysMeans ==
  \A t : StaysRow(t) => RowOf(t)' = RowOf(t)
BY DEF StaysRow, RowOf

LEMMA StepInsert ==
  ASSUME TypeOK, NEW t \in Tenant, NEW S \in Forms, CreateTenant(t, S)
  PROVE  Table!Insert(t, t)
<1> DEFINE new == [id |-> t, code |-> t, enabled |-> TRUE]
<1>0. row \in [Tenant -> Row] /\ row[t].status = "none" /\ job' = job
  BY DEF TypeOK, CreateTenant
<1>1. /\ row'[t].status = "live" /\ row'[t].enabled = TRUE
      /\ \A u \in Tenant \ {t} : row'[u] = row[u]
  <2> DEFINE c == Written(NoCreds, S, 1)
  <2>1. row' = [row EXCEPT ![t] = [BlankRow EXCEPT !.status = "live",
                                                   !.cred = c]]
    BY DEF CreateTenant
  <2> HIDE DEF c
  <2> QED
    BY <1>0, <2>1 DEF BlankRow
<1>2. RowOf(t)' = new /\ \A u \in Tenant \ {t} : StaysRow(u)
  BY <1>1 DEF RowOf, StaysRow
<1>3. \A e \in Rows : e.code # t
  BY <1>0, RowParts DEF Rows
<1> HIDE DEF new
<1>4. Rows' = Rows \cup {new}
  BY <1>0, <1>1, <1>2, StaysMeans DEF Rows, StaysRow
<1>5. Used' = Used \cup {t} /\ t \notin Used
  BY <1>0, <1>1 DEF Used
<1>6. Serving' = Serving
  BY <1>0 DEF Serving, Serves
<1> QED
  BY <1>3, <1>4, <1>5, <1>6 DEF Table!Insert, Rows, Used, Serving, new

LEMMA StepSwitch ==
  ASSUME TypeOK, NEW t \in Tenant, NEW b \in BOOLEAN, SetEnabled(t, b)
  PROVE  \E e \in Rows : Table!Switch(e, b)
<1> DEFINE new == [RowOf(t) EXCEPT !.enabled = b]
<1>1. /\ row[t].status = "live" /\ row'[t].status = "live"
      /\ RowOf(t)' = new /\ RowOf(t) \in Rows
      /\ \A u \in Tenant \ {t} : StaysRow(u)
  BY DEF TypeOK, Row, SetEnabled, RowOf, StaysRow, Rows
<1> HIDE DEF new
<1>2. Rows' = (Rows \ {RowOf(t)}) \cup {new}
  BY <1>1, RowParts, StaysMeans DEF Rows, StaysRow
<1>3. Used' = Used
  BY <1>1 DEF Used, StaysRow
<1>4. Serving' = Serving
  BY DEF Serving, Serves, SetEnabled
<1> QED
  BY <1>1, <1>2, <1>3, <1>4 DEF Table!Switch, Rows, Used, Serving, new

LEMMA StepDelete ==
  ASSUME TypeOK, NEW t \in Tenant, DeleteTenant(t)
  PROVE  \E e \in Rows : Table!Delete(e)
<1>1. /\ row[t].status = "live" /\ row'[t].status = "deleted"
      /\ \A u \in Tenant \ {t} : row'[u] = row[u]
  BY DEF TypeOK, DeleteTenant, BlankRow
<1>2. RowOf(t) \in Rows /\ \A u \in Tenant \ {t} : StaysRow(u)
  BY <1>1 DEF StaysRow, Rows
<1>3. Rows' = Rows \ {RowOf(t)}
  BY <1>1, <1>2, RowParts, StaysMeans DEF Rows, StaysRow
<1>4. Used' = Used
  BY <1>1 DEF Used
<1>5. Serving' = Serving
  BY DEF Serving, Serves, DeleteTenant
<1> QED
  BY <1>2, <1>3, <1>4, <1>5 DEF Table!Delete, Rows, Used, Serving

\* Steps that leave the table alone, as Tenants sees it.
LEMMA TableStays ==
  ASSUME \A t \in Tenant : StaysRow(t)
  PROVE  Rows' = Rows /\ Used' = Used
BY StaysMeans DEF Rows, Used, StaysRow

LEMMA StepFinish ==
  ASSUME \A t \in Tenant : StaysRow(t),
         \A w \in Worker : Serves(w)' = Serves(w) \/ Serves(w)' = {}
  PROVE  Table!Finish
<1> DEFINE W == {w \in Worker : Serves(w)' = {}}
<1>1. W \in SUBSET Worker
  OBVIOUS
<1>2. Serving' = [w \in Worker |-> IF w \in W THEN {} ELSE Serving[w]]
  BY DEF Serving
<1> QED
  BY <1>1, <1>2, TableStays DEF Table!Finish, Rows, Used, Serving

\* ensure_access_token goes on only for a row it has found there, enabled.
LEMMA StepAdmit ==
  ASSUME TypeOK, NEW w \in Worker, ReadTenant(w)
  PROVE  Table!Next
<1> DEFINE t == job[w].tenant
<1>0. /\ job \in [Worker -> Job] /\ job[w].pc = "ensure" /\ row' = row
      /\ t \in Tenant
  BY DEF ReadTenant, env, TypeOK, JobOK
<1>1. \A u \in Tenant : StaysRow(u)
  BY <1>0 DEF StaysRow
<1>2. CASE Finish(w)
  <2>1. \A v \in Worker : Serves(v)' = Serves(v) \/ Serves(v)' = {}
    BY <1>0, <1>2 DEF Finish, IdleJob, Serves
  <2> QED
    BY <1>1, <2>1, StepFinish DEF Table!Next
<1>3. CASE ~Finish(w)
  <2> DEFINE r == row[t]
  <2>1. /\ r.status = "live" /\ r.enabled
        /\ job' = [job EXCEPT ![w].pc = "check", ![w].since = now,
                              ![w].snap = r]
    BY <1>3 DEF ReadTenant
  <2>2. RowOf(t) \in Rows /\ RowOf(t).id = t /\ RowOf(t).enabled
    BY <1>0, <2>1, RowParts DEF Rows
  <2> HIDE DEF r
  <2>3. /\ job'[w].pc = "check" /\ job'[w].tenant = t
        /\ \A v \in Worker \ {w} : job'[v] = job[v]
    BY <1>0, <2>1 DEF Job
  <2>4. /\ Serves(w) = {} /\ Serves(w)' = {t}
        /\ \A v \in Worker \ {w} : Serves(v)' = Serves(v)
    BY <1>0, <2>3 DEF Serves
  <2> HIDE DEF t
  <2>5. Serving' = [Serving EXCEPT ![w] = {t}] /\ Serving[w] = {}
    BY <2>4 DEF Serving
  <2>6. Rows' = Rows /\ Used' = Used
    BY <1>1, TableStays
  <2>7. \E e \in Rows : Table!Admit(w, e)
    BY <2>2, <2>5, <2>6 DEF Table!Admit, Rows, Used, Serving
  <2> QED
    BY <2>7 DEF Table!Next, Rows
<1> QED
  BY <1>2, <1>3

\* Every other step of a call serves the tenant it served, or none.
LEMMA CallServes ==
  ASSUME TypeOK, NEW w \in Worker, ~ReadTenant(w),
         WorkerStep(w) \/ PlatformMints(w) \/ \E t \in Tenant : Begin(w, t)
  PROVE  \A v \in Worker : Serves(v)' = Serves(v) \/ Serves(v)' = {}
<1>0. job \in [Worker -> Job]
  BY DEF TypeOK
<1> DEFINE Goal == \A v \in Worker : Serves(v)' = Serves(v) \/ Serves(v)' = {}
<1>1. ASSUME \A v \in Worker \ {w} : job'[v] = job[v],
             \/ job'[w].pc \in {"idle", "ensure"}
             \/ /\ job[w].pc \notin {"idle", "ensure"}
                /\ job'[w].pc \notin {"idle", "ensure"}
                /\ job'[w].tenant = job[w].tenant
      PROVE  Goal
  BY <1>1 DEF Serves
<1> HIDE DEF Goal
<1>2. ASSUME NEW t \in Tenant, Begin(w, t) PROVE Goal
  <2> DEFINE b == HasApp(row[t].cred)
  <2>1. job' = [job EXCEPT ![w].pc = "ensure", ![w].since = now,
                           ![w].tenant = t, ![w].ctx = b]
    BY <1>2 DEF Begin
  <2> HIDE DEF b
  <2> QED
    BY <1>0, <1>1, <2>1 DEF Job
<1>3. Finish(w) => Goal
  BY <1>0, <1>1 DEF Finish, IdleJob
<1>4. ASSUME NEW p \in Place \ {"idle", "ensure"}, Goto(w, p),
             job[w].pc \notin {"idle", "ensure"}
      PROVE  Goal
  BY <1>0, <1>1, <1>4 DEF Goto, Job
<1>5. ASSUME ServeCached(w) PROVE Goal
  BY <1>0, <1>1, <1>5 DEF ServeCached, Job
<1>6. ASSUME RefreshToken(w) \/ SendQuery(w) PROVE Goal
  BY <1>3, <1>4, <1>6 DEF RefreshToken, SendQuery, Place
<1>7. ASSUME PlatformMints(w) PROVE Goal
  BY <1>0, <1>1, <1>7 DEF PlatformMints, Job
<1>8. ASSUME ReceiveToken(w) PROVE Goal
  BY <1>0, <1>1, <1>8 DEF ReceiveToken, Job
<1>9. ASSUME SaveTokenBundle(w) PROVE Goal
  BY <1>0, <1>1, <1>9 DEF SaveTokenBundle, Job
<1>10. ASSUME RefreshFails(w) \/ SaveFails(w) \/ QueryReturns(w) \/ QueryRejected(w)
       PROVE  Goal
  BY <1>3, <1>10 DEF RefreshFails, SaveFails, QueryReturns, QueryRejected
<1>11. Goal
  BY <1>2, <1>5, <1>6, <1>7, <1>8, <1>9, <1>10 DEF WorkerStep
<1> QED
  BY <1>11 DEF Goal

\* The UPDATE of a refresh writes none of what Tenants sees.
LEMMA CallWrites ==
  ASSUME TypeOK, NEW w \in Worker,
         WorkerStep(w) \/ PlatformMints(w) \/ \E t \in Tenant : Begin(w, t)
  PROVE  \A t \in Tenant : StaysRow(t)
<1>1. CASE row' = row
  BY <1>1 DEF StaysRow
<1>2. CASE SaveTokenBundle(w)
  <2> DEFINE t == job[w].tenant
             tok == job[w].token
             e == job[w].exp
             r == [row[t] EXCEPT !.token = tok, !.exp = e,
                                 !.auth = "authorized"]
  <2>1. row \in [Tenant -> Row] /\ t \in Tenant
    BY <1>2 DEF SaveTokenBundle, TypeOK, JobOK
  <2>2. row' = IF row[t].status = "live" THEN [row EXCEPT ![t] = r] ELSE row
    BY <1>2, <2>1 DEF SaveTokenBundle, Saved
  <2> HIDE DEF t, tok, e
  <2>3. r.status = row[t].status /\ r.enabled = row[t].enabled
    BY <2>1 DEF Row
  <2> HIDE DEF r
  <2> QED
    BY <2>1, <2>2, <2>3 DEF StaysRow
<1>3. ~SaveTokenBundle(w) => row' = row
  BY DEF WorkerStep, ReadTenant, ServeCached, RefreshToken, ReceiveToken,
     RefreshFails, SaveFails, SendQuery, QueryReturns, QueryRejected,
     PlatformMints, Begin, env
<1> QED
  BY <1>1, <1>2, <1>3

LEMMA CallTable ==
  ASSUME TypeOK, NEW w \in Worker,
         WorkerStep(w) \/ PlatformMints(w) \/ \E t \in Tenant : Begin(w, t)
  PROVE  Table!Next
<1>1. CASE ReadTenant(w)
  BY <1>1, StepAdmit
<1>2. CASE ~ReadTenant(w)
  BY <1>2, CallServes, CallWrites, StepFinish DEF Table!Next
<1> QED
  BY <1>1, <1>2

LEMMA RowTable ==
  ASSUME TypeOK, NEW t \in Tenant,
         \/ \E S \in Forms : CreateTenant(t, S) \/ UpdateCredentials(t, S)
         \/ UpdateAppTicket(t)
         \/ \E b \in BOOLEAN : SetEnabled(t, b)
         \/ DeleteTenant(t) \/ PlatformRevokes(t)
  PROVE  Table!Next
<1>0. row \in [Tenant -> Row] /\ \A w \in Worker : Serves(w)' = Serves(w)
  BY DEF TypeOK, CreateTenant, UpdateCredentials, UpdateAppTicket, SetEnabled,
     DeleteTenant, PlatformRevokes, Serves
<1>1. ASSUME NEW S \in Forms, CreateTenant(t, S) PROVE Table!Next
  BY <1>1, StepInsert DEF Table!Next
<1>2. ASSUME NEW S \in Forms, UpdateCredentials(t, S) PROVE Table!Next
  <2> DEFINE c == Written(row[t].cred, S, rotation[t].count + 1)
  <2>1. row' = [row EXCEPT ![t].cred = c]
    BY <1>2 DEF UpdateCredentials
  <2> HIDE DEF c
  <2>2. \A u \in Tenant : StaysRow(u)
    BY <1>0, <2>1 DEF StaysRow, Row
  <2> QED
    BY <1>0, <2>2, StepFinish DEF Table!Next
<1>3. CASE UpdateAppTicket(t) \/ PlatformRevokes(t)
  <2>1. \A u \in Tenant : StaysRow(u)
    BY <1>0, <1>3 DEF UpdateAppTicket, PlatformRevokes, StaysRow, Row
  <2> QED
    BY <1>0, <2>1, StepFinish DEF Table!Next
<1>4. ASSUME NEW b \in BOOLEAN, SetEnabled(t, b) PROVE Table!Next
  BY <1>4, StepSwitch DEF Table!Next, Rows
<1>5. CASE DeleteTenant(t)
  BY <1>5, StepDelete DEF Table!Next, Rows
<1> QED
  BY <1>1, <1>2, <1>3, <1>4, <1>5

LEMMA NextTable == ASSUME TypeOK, [Next]_vars PROVE Table!Next
<1>1. CASE Crash
  <2>1. \A w \in Worker : Serves(w)' = {}
    BY <1>1 DEF Crash, IdleJob, Serves
  <2>2. \A t \in Tenant : StaysRow(t)
    BY <1>1 DEF Crash, env, StaysRow
  <2> QED
    BY <2>1, <2>2, StepFinish DEF Table!Next
<1>2. CASE row' = row /\ job' = job
  <2>1. /\ \A w \in Worker : Serves(w)' = Serves(w)
        /\ \A t \in Tenant : StaysRow(t)
    BY <1>2 DEF Serves, StaysRow
  <2> QED
    BY <2>1, StepFinish DEF Table!Next
<1>3. Tick \/ UNCHANGED vars => row' = row /\ job' = job
  BY DEF Tick, vars
<1> QED
  BY <1>1, <1>2, <1>3, RowTable, CallTable DEF Next

(***************************************************************************)
(* The token manager implements Tenants: a call goes on to the cache or to *)
(* the platform only for a tenant found there and enabled, and whatever is *)
(* deleted meanwhile, no UPDATE of a call makes a row.                     *)
(***************************************************************************)
THEOREM TableKept == Spec => KeepsTable
<1>1. Init => Table!Init
  <2> SUFFICES ASSUME Init PROVE Table!Init
    OBVIOUS
  <2>1. Rows = {} /\ Used = {}
    BY DEF Init, BlankRow, Rows, Used
  <2>2. Serving = [w \in Worker |-> {}]
    BY DEF Init, IdleJob, Serving, Serves
  <2> QED
    BY <2>1, <2>2 DEF Table!Init, Rows, Used, Serving
<1>2. TypeOK /\ [Next]_vars => [Table!Next]_(Table!vars)
  BY NextTable
<1> QED
  BY <1>1, <1>2, TypeCorrect, PTL DEF Spec, KeepsTable, Table!Spec

(***************************************************************************)
(* So a call serves no tenant that never was, and none it did not find     *)
(* there, enabled, when it began.                                          *)
(***************************************************************************)
COROLLARY TableIsSound == Spec => []Table!Sound /\ Table!NeverUndone
BY TableKept, Table!TableMeans DEF KeepsTable
=============================================================================
