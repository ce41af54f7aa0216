--------------------------- MODULE TokenMgrProofs ---------------------------
(***************************************************************************)
(* Theorems about TokenMgr, for any number of tenants and workers and any  *)
(* bounds that satisfy its assumptions.                                    *)
(***************************************************************************)
EXTENDS TokenMgr, TLAPS

(***************************************************************************)
(* The inductive invariant behind the bounds.  Along a call it keeps how   *)
(* old each thing may be when the call reaches each place: the snapshot,   *)
(* the token on the wire, the token kept, the expiry computed.             *)
(***************************************************************************)
ExpiryInv(r) ==
  r.exp # NoExpiry =>
    /\ r.token # NULL
    /\ r.exp <= now + Life
    /\ r.exp <= r.token.born + HttpMax + Life

\* A call is for a tenant whose row exists or existed, and is not overdue.
ActiveInv(j) ==
  j.pc # "idle" => /\ row[j.tenant].status # "none"
                   /\ j.since <= now
                   /\ now <= j.since + Patience(j.pc)

\* How long before j.since the token was minted, or may have been.
AgeInv(j) ==
  /\ j.pc = "check" => ExpiryInv(j.snap)
  /\ j.wire # NULL => j.pc = "posting" /\ j.wire.born \in j.since .. now
  /\ j.pc = "saving" => /\ j.token.born <= j.since
                        /\ j.since <= j.token.born + HttpMax
                        /\ j.exp \in {NoExpiry, j.since + Life}
  /\ j.pc = "ready" => j.since + Skew < j.token.born + Life + HttpMax
  /\ j.pc = "using" =>
       j.since + Skew < j.token.born + Life + HttpMax + PauseMax

\* The snapshot of a call is of its own tenant, and complete once it is sent.
OwnInv(j) ==
  /\ j.pc = "check" => Owned(j.snap.token, j.tenant)
  /\ j.pc = "posting" => CanRefresh(j.snap)
  /\ Owned(j.wire, j.tenant)

Inv ==
  /\ TypeOK
  /\ \A t \in Tenant : ExpiryInv(row[t])
  /\ \A w \in Worker : ActiveInv(job[w]) /\ AgeInv(job[w])

FullInv ==
  /\ Inv
  /\ OwnToken
  /\ \A w \in Worker : OwnInv(job[w])

-----------------------------------------------------------------------------
(* Types.                                                                  *)

LEMMA BlankTypes == /\ NoCreds \in Creds
                    /\ BlankRow \in Row
                    /\ IdleJob \in Job
<1>1. NoCreds \in Creds
  BY DEF NoCreds, Creds
<1>2. BlankRow \in Row
  BY <1>1 DEF BlankRow, Row, NoExpiry
<1>3. IdleJob \in Job
  BY <1>1, <1>2 DEF IdleJob, Job, Place, NoExpiry
<1> QED
  BY <1>1, <1>2, <1>3

LEMMA WrittenType ==
  ASSUME NEW c \in Creds, NEW S, NEW v \in Nat
  PROVE  Written(c, S, v) \in Creds
BY DEF Written, Creds

LEMMA InitType == Init => TypeOK
<1> SUFFICES ASSUME Init PROVE TypeOK
  OBVIOUS
<1>1. \A w \in Worker : job[w] = IdleJob
  BY DEF Init
<1> QED
  BY <1>1, BlankTypes DEF Init, TypeOK, IdleJob, JobOK

\* One lemma per kind of step: the steps that write a row, a worker's steps,
\* the platform and the clock.
LEMMA RowStepType ==
  ASSUME TypeOK, NEW t \in Tenant, NEW S \in Forms,
         CreateTenant(t, S) \/ UpdateCredentials(t, S)
  PROVE  TypeOK'
<1>1. CASE CreateTenant(t, S)
  <2>1. Written(NoCreds, S, 1) \in Creds
    BY BlankTypes, WrittenType
  <2>2. [BlankRow EXCEPT !.status = "live",
                         !.cred = Written(NoCreds, S, 1)] \in Row
    BY <2>1, BlankTypes DEF Row
  <2> QED
    BY <1>1, <2>2 DEF CreateTenant, TypeOK, Stamp, JobOK
<1>2. CASE UpdateCredentials(t, S)
  <2>1. Written(row[t].cred, S, rotation[t].count + 1) \in Creds
    BY WrittenType DEF TypeOK, Row
  <2>2. row' \in [Tenant -> Row]
    BY <1>2, <2>1 DEF UpdateCredentials, TypeOK, Row
  <2> QED
    BY <1>2, <2>2 DEF UpdateCredentials, TypeOK, Stamp, JobOK
<1> QED
  BY <1>1, <1>2

LEMMA OtherRowStepType ==
  ASSUME TypeOK, NEW t \in Tenant, NEW b \in BOOLEAN,
         UpdateAppTicket(t) \/ SetEnabled(t, b) \/ DeleteTenant(t)
  PROVE  TypeOK'
<1>1. CASE UpdateAppTicket(t)
  BY <1>1 DEF UpdateAppTicket, TypeOK, Row, JobOK
<1>2. CASE SetEnabled(t, b)
  BY <1>2 DEF SetEnabled, TypeOK, Row, JobOK
<1>3. CASE DeleteTenant(t)
  <2>1. [BlankRow EXCEPT !.status = "deleted"] \in Row
    BY BlankTypes DEF Row
  <2> QED
    BY <1>3, <2>1 DEF DeleteTenant, TypeOK, JobOK
<1> QED
  BY <1>1, <1>2, <1>3

\* A worker's step replaces job[w] and, when it saves, one row.
LEMMA JobStepType ==
  ASSUME TypeOK, NEW w \in Worker, NEW j \in Job, JobOK(j),
         job' = [job EXCEPT ![w] = j], UNCHANGED env
  PROVE  TypeOK'
<1>1. job' \in [Worker -> Job] /\ \A v \in Worker : JobOK(job'[v])
  BY DEF TypeOK
<1> QED
  BY <1>1 DEF TypeOK, env, JobOK

LEMMA IdleJobOK == IdleJob \in Job /\ JobOK(IdleJob)
BY BlankTypes DEF IdleJob, JobOK

LEMMA FinishType ==
  ASSUME TypeOK, NEW w \in Worker, Finish(w), UNCHANGED env
  PROVE  TypeOK'
BY IdleJobOK, JobStepType DEF Finish

LEMMA GotoType ==
  ASSUME TypeOK, NEW w \in Worker, NEW place \in Place, Goto(w, place),
         job[w].pc # "idle", UNCHANGED env,
         place \in {"saving", "ready", "using"} <=> job[w].token # NULL
  PROVE  TypeOK'
<1> DEFINE j == [job[w] EXCEPT !.pc = place, !.since = now]
<1>1. j \in Job /\ JobOK(j)
  BY DEF TypeOK, Job, JobOK
<1>2. job' = [job EXCEPT ![w] = j]
  BY DEF Goto
<1> QED
  BY <1>1, <1>2, JobStepType

LEMMA SavedType ==
  ASSUME TypeOK, NEW w \in Worker, job[w].pc = "saving"
  PROVE  Saved(w) \in [Tenant -> Row]
<1> DEFINE t == job[w].tenant
<1>1. /\ job[w].token \in Token \cup {NULL}
      /\ job[w].exp \in Nat
      /\ t \in Tenant
      /\ row[t] \in Row
  BY DEF TypeOK, Job, JobOK
<1>2. [row[t] EXCEPT !.token = job[w].token, !.exp = job[w].exp,
                     !.auth = "authorized"] \in Row
  BY <1>1 DEF Row
<1> DEFINE r == [row[t] EXCEPT !.token = job[w].token, !.exp = job[w].exp,
                               !.auth = "authorized"]
<1>3. Saved(w) = IF row[t].status = "live" THEN [row EXCEPT ![t] = r] ELSE row
  BY <1>1 DEF Saved, TypeOK
<1>4. r \in Row /\ row \in [Tenant -> Row]
  BY <1>2 DEF TypeOK
<1> QED
  BY <1>1, <1>3, <1>4

LEMMA WorkerStepType ==
  ASSUME TypeOK, NEW w \in Worker,
         WorkerStep(w) \/ PlatformMints(w) \/ \E t \in Tenant : Begin(w, t)
  PROVE  TypeOK'
<1> USE ConstantsAssumption
<1>0. /\ job[w] \in Job /\ JobOK(job[w])
      /\ now \in Nat
      /\ job[w].pc # "idle" => row[job[w].tenant] \in Row
  BY DEF TypeOK, JobOK
<1>1. CASE \E t \in Tenant : Begin(w, t)
  <2> PICK t \in Tenant : Begin(w, t)
    BY <1>1
  <2> DEFINE b == HasApp(row[t].cred)
             j == [job[w] EXCEPT !.pc = "ensure", !.since = now,
                                 !.tenant = t, !.ctx = b]
  <2>1. b \in BOOLEAN
    BY DEF HasApp
  <2>2. job' = [job EXCEPT ![w] = j] /\ UNCHANGED env
    BY DEF Begin
  <2>3. job[w].token = NULL
    BY <1>0 DEF Begin, JobOK
  <2> HIDE DEF b
  <2>4. j \in Job /\ JobOK(j)
    BY <1>0, <2>1, <2>3 DEF Job, Place, JobOK
  <2> QED
    BY <2>2, <2>4, JobStepType
<1>2. CASE ReadTenant(w)
  <2> DEFINE j == [job[w] EXCEPT !.pc = "check", !.since = now,
                                 !.snap = row[job[w].tenant]]
  <2>1. j \in Job /\ JobOK(j)
    BY <1>0, <1>2 DEF ReadTenant, Job, Place, JobOK
  <2>2. (job' = [job EXCEPT ![w] = j] \/ Finish(w)) /\ UNCHANGED env
    BY <1>2 DEF ReadTenant
  <2> QED
    BY <2>1, <2>2, JobStepType, FinishType
<1>3. CASE ServeCached(w)
  <2> DEFINE j == [job[w] EXCEPT !.pc = "ready", !.since = now,
                                 !.token = job[w].snap.token,
                                 !.snap = BlankRow]
  <2>1. job[w].snap.token \in Token /\ job[w].snap.token # NULL
    BY <1>0, <1>3 DEF ServeCached, IsTokenValid, Job, Row
  <2>2. j \in Job /\ JobOK(j)
    BY <1>0, <1>3, <2>1, BlankTypes DEF ServeCached, Job, Place, JobOK
  <2>3. job' = [job EXCEPT ![w] = j] /\ UNCHANGED env
    BY <1>3 DEF ServeCached
  <2> QED
    BY <2>2, <2>3, JobStepType
<1>4. CASE RefreshToken(w)
  BY <1>0, <1>4, FinishType, GotoType DEF RefreshToken, Place, JobOK
<1>5. CASE PlatformMints(w)
  <2> DEFINE x == [of |-> job[w].tenant, cred |-> job[w].snap.cred,
                   born |-> now]
             j == [job[w] EXCEPT !.wire = x]
  <2>1. x \in Token
    BY <1>0, <1>5 DEF PlatformMints, JobOK, Job, Row, Token
  <2>2. j \in Job /\ JobOK(j)
    BY <1>0, <1>5, <2>1 DEF PlatformMints, Job, JobOK
  <2>3. job' = [job EXCEPT ![w] = j] /\ UNCHANGED env
    BY <1>5 DEF PlatformMints
  <2> QED
    BY <2>2, <2>3, JobStepType
<1>6. CASE ReceiveToken(w)
  <2> PICK e \in {Expiry(w), NoExpiry} :
        job' = [job EXCEPT ![w].pc = "saving", ![w].since = now,
                           ![w].token = job[w].wire, ![w].exp = e,
                           ![w].wire = NULL, ![w].snap = BlankRow]
    BY <1>6 DEF ReceiveToken
  <2> DEFINE j == [job[w] EXCEPT !.pc = "saving", !.since = now,
                                 !.token = job[w].wire, !.exp = e,
                                 !.wire = NULL, !.snap = BlankRow]
  <2>1. e \in Nat
    BY <1>0 DEF Expiry, NoExpiry
  <2>2. j \in Job /\ JobOK(j)
    BY <1>0, <1>6, <2>1, BlankTypes DEF ReceiveToken, Job, Place, JobOK
  <2>3. job' = [job EXCEPT ![w] = j] /\ UNCHANGED env
    BY <1>6 DEF ReceiveToken
  <2> QED
    BY <2>2, <2>3, JobStepType
<1>7. CASE SaveTokenBundle(w)
  <2> DEFINE j == [job[w] EXCEPT !.pc = "ready", !.since = now,
                                 !.exp = NoExpiry]
  <2>1. row' \in [Tenant -> Row]
    BY <1>7, SavedType DEF SaveTokenBundle
  <2>2. j \in Job /\ JobOK(j)
    BY <1>0, <1>7 DEF SaveTokenBundle, Job, Place, JobOK, NoExpiry
  <2>3. job' = [job EXCEPT ![w] = j]
    BY <1>7 DEF SaveTokenBundle
  <2>4. job' \in [Worker -> Job] /\ \A v \in Worker : JobOK(job'[v])
    BY <2>2, <2>3 DEF TypeOK
  <2> QED
    BY <1>7, <2>1, <2>4 DEF SaveTokenBundle, TypeOK, JobOK
<1>8. CASE SendQuery(w)
  BY <1>0, <1>8, FinishType, GotoType DEF SendQuery, Place, JobOK
<1>9. CASE RefreshFails(w) \/ SaveFails(w) \/ QueryReturns(w)
  BY <1>9, FinishType DEF RefreshFails, SaveFails, QueryReturns
<1>10. CASE QueryRejected(w)
  <2>1. job[w].token \in Token
    BY <1>0, <1>10 DEF QueryRejected, Job, JobOK
  <2>2. job' \in [Worker -> Job] /\ \A v \in Worker : JobOK(job'[v])
    BY <1>10, IdleJobOK DEF QueryRejected, Finish, TypeOK
  <2> QED
    BY <1>10, <2>1, <2>2 DEF QueryRejected, TypeOK, JobOK
<1> QED
  BY <1>1, <1>2, <1>3, <1>4, <1>5, <1>6, <1>7, <1>8, <1>9, <1>10
     DEF WorkerStep

LEMMA NextType == TypeOK /\ [Next]_vars => TypeOK'
<1> SUFFICES ASSUME TypeOK, [Next]_vars PROVE TypeOK'
  OBVIOUS
<1>1. ASSUME NEW t \in Tenant, NEW S \in Forms,
             CreateTenant(t, S) \/ UpdateCredentials(t, S)
      PROVE  TypeOK'
  BY <1>1, RowStepType
<1>2. ASSUME NEW t \in Tenant, NEW b \in BOOLEAN,
             UpdateAppTicket(t) \/ SetEnabled(t, b) \/ DeleteTenant(t)
      PROVE  TypeOK'
  BY <1>2, OtherRowStepType
<1>3. ASSUME NEW t \in Tenant, PlatformRevokes(t)
      PROVE  TypeOK'
  BY <1>3 DEF PlatformRevokes, TypeOK, Row, JobOK
<1>4. ASSUME NEW w \in Worker,
             WorkerStep(w) \/ PlatformMints(w) \/ \E t \in Tenant : Begin(w, t)
      PROVE  TypeOK'
  BY <1>4, WorkerStepType
<1>5. CASE Tick
  BY <1>5 DEF Tick, TypeOK, JobOK
<1>6. CASE UNCHANGED vars
  BY <1>6 DEF vars, TypeOK, JobOK
<1>7. CASE Crash
  <2>1. job' \in [Worker -> Job] /\ \A v \in Worker : JobOK(job'[v])
    BY <1>7, IdleJobOK DEF Crash
  <2> QED
    BY <1>7, <2>1 DEF Crash, env, TypeOK, JobOK
<1> QED
  BY <1>1, <1>2, <1>3, <1>4, <1>5, <1>6, <1>7 DEF Next

(***************************************************************************)
(* Every value keeps its type, and no call goes on without a tenant, or    *)
(* without a token past ensure_access_token.                               *)
(***************************************************************************)
THEOREM TypeCorrect == Spec => []TypeOK
<1> QED
  BY InitType, NextType, PTL DEF Spec

-----------------------------------------------------------------------------
(* The inductive invariant.                                                *)

LEMMA InitInv == Init => Inv
<1> SUFFICES ASSUME Init PROVE Inv
  OBVIOUS
<1>1. TypeOK
  BY InitType
<1>2. \A t \in Tenant : ExpiryInv(row[t])
  BY DEF Init, BlankRow, ExpiryInv, NoExpiry
<1>3. \A w \in Worker : ActiveInv(job[w]) /\ AgeInv(job[w])
  BY DEF Init, IdleJob, ActiveInv, AgeInv
<1> QED
  BY <1>1, <1>2, <1>3 DEF Inv

\* What a call holds stays within its bounds while another actor writes a
\* row, provided no row vanishes.
LEMMA RowWriteInv ==
  ASSUME Inv, TypeOK', now' = now, job' = job,
         \A t \in Tenant : /\ row[t].status # "none" => row'[t].status # "none"
                           /\ ExpiryInv(row'[t])
  PROVE  Inv'
<1>1. \A t \in Tenant : ExpiryInv(row[t])'
  BY DEF ExpiryInv
<1>2. ASSUME NEW w \in Worker
      PROVE  ActiveInv(job[w])' /\ AgeInv(job[w])'
  <2>1. ActiveInv(job[w]) /\ AgeInv(job[w]) /\ JobOK(job[w])
    BY DEF Inv, TypeOK
  <2> QED
    BY <2>1 DEF ActiveInv, AgeInv, ExpiryInv, Patience, JobOK
<1> QED
  BY <1>1, <1>2 DEF Inv

LEMMA IdleInv == ActiveInv(IdleJob) /\ AgeInv(IdleJob)
BY DEF IdleJob, ActiveInv, AgeInv

LEMMA JobStepInv ==
  ASSUME Inv, TypeOK', now' = now, NEW w \in Worker, NEW j,
         job' = [job EXCEPT ![w] = j], ActiveInv(j), AgeInv(j),
         \A t \in Tenant : /\ row[t].status # "none" => row'[t].status # "none"
                           /\ ExpiryInv(row'[t]),
         j.pc # "idle" => j.tenant \in Tenant
  PROVE  Inv'
<1>1. \A t \in Tenant : ExpiryInv(row[t])'
  BY DEF ExpiryInv
<1>2. ASSUME NEW v \in Worker
      PROVE  ActiveInv(job[v])' /\ AgeInv(job[v])'
  <2>1. ActiveInv(job[v]) /\ AgeInv(job[v]) /\ JobOK(job[v])
    BY DEF Inv, TypeOK
  <2>2. job'[v] = IF v = w THEN j ELSE job[v]
    BY DEF Inv, TypeOK
  <2>3. CASE v = w
    BY <2>2, <2>3 DEF ActiveInv, AgeInv, ExpiryInv, Patience
  <2>4. CASE v # w
    BY <2>1, <2>2, <2>4 DEF ActiveInv, AgeInv, ExpiryInv, Patience, JobOK
  <2> QED
    BY <2>3, <2>4
<1> QED
  BY <1>1, <1>2 DEF Inv

LEMMA FinishInv ==
  ASSUME Inv, TypeOK', NEW w \in Worker, Finish(w), now' = now, row' = row
  PROVE  Inv'
<1>1. IdleJob.pc = "idle"
  BY DEF IdleJob
<1> QED
  BY <1>1, IdleInv, JobStepInv DEF Finish, Inv

\* The facts a step of worker w starts from.
LEMMA JobFacts ==
  ASSUME Inv, NEW w \in Worker
  PROVE  /\ job[w] \in Job /\ JobOK(job[w])
         /\ job[w].since \in Nat /\ job[w].exp \in Nat
         /\ job[w].token # NULL => job[w].token \in Token /\ job[w].token.born \in Nat
         /\ job[w].wire # NULL => job[w].wire \in Token /\ job[w].wire.born \in Nat
         /\ now \in Nat
         /\ ActiveInv(job[w]) /\ AgeInv(job[w])
         /\ job[w].pc # "idle" =>
              row[job[w].tenant] \in Row /\ ExpiryInv(row[job[w].tenant])
         /\ \A t \in Tenant : ExpiryInv(row[t])
BY DEF Inv, TypeOK, JobOK, Job, Token

LEMMA WorkerStepInv ==
  ASSUME Inv, NEW w \in Worker,
         WorkerStep(w) \/ PlatformMints(w) \/ \E t \in Tenant : Begin(w, t)
  PROVE  Inv'
<1> USE ConstantsAssumption, SkewAssumption
<1>T. TypeOK'
  BY WorkerStepType DEF Inv
<1>0. /\ job[w] \in Job /\ JobOK(job[w])
      /\ job[w].since \in Nat /\ job[w].exp \in Nat
      /\ job[w].token # NULL => job[w].token \in Token /\ job[w].token.born \in Nat
      /\ job[w].wire # NULL => job[w].wire \in Token /\ job[w].wire.born \in Nat
      /\ now \in Nat
      /\ ActiveInv(job[w]) /\ AgeInv(job[w])
      /\ job[w].pc # "idle" =>
           row[job[w].tenant] \in Row /\ ExpiryInv(row[job[w].tenant])
      /\ \A t \in Tenant : ExpiryInv(row[t])
  BY JobFacts
<1>1. CASE \E t \in Tenant : Begin(w, t)
  <2> PICK t \in Tenant : Begin(w, t)
    BY <1>1
  <2> DEFINE j == [job[w] EXCEPT !.pc = "ensure", !.since = now,
                                 !.tenant = t, !.ctx = HasApp(row[t].cred)]
  <2>1. j.pc = "ensure" /\ j.since = now /\ j.tenant = t /\ j.wire = job[w].wire
    BY <1>0 DEF Job
  <2>2. row[t].status = "live" /\ job[w].pc = "idle"
    BY DEF Begin
  <2>3. ActiveInv(j)
    BY <1>0, <2>1, <2>2 DEF ActiveInv, Patience
  <2>4. AgeInv(j)
    BY <1>0, <2>1, <2>2 DEF AgeInv
  <2>5. job' = [job EXCEPT ![w] = j] /\ UNCHANGED env
    BY DEF Begin
  <2> HIDE DEF j
  <2> QED
    BY <1>T, <1>0, <2>1, <2>3, <2>4, <2>5, JobStepInv DEF env
<1>2. CASE ReadTenant(w)
  <2> DEFINE j == [job[w] EXCEPT !.pc = "check", !.since = now,
                                 !.snap = row[job[w].tenant]]
  <2>1. /\ j.pc = "check" /\ j.since = now /\ j.tenant = job[w].tenant
        /\ j.wire = job[w].wire /\ j.snap = row[job[w].tenant]
    BY <1>0 DEF Job
  <2>2. ActiveInv(j) /\ AgeInv(j) /\ j.tenant \in Tenant
    BY <1>0, <1>2, <2>1 DEF ReadTenant, ActiveInv, AgeInv, Patience, JobOK
  <2>3. (job' = [job EXCEPT ![w] = j] \/ Finish(w)) /\ UNCHANGED env
    BY <1>2 DEF ReadTenant
  <2> HIDE DEF j
  <2> QED
    BY <1>T, <1>0, <2>2, <2>3, JobStepInv, FinishInv DEF env
<1>3. CASE ServeCached(w)
  <2> DEFINE j == [job[w] EXCEPT !.pc = "ready", !.since = now,
                                 !.token = job[w].snap.token,
                                 !.snap = BlankRow]
  <2>1. /\ j.pc = "ready" /\ j.since = now /\ j.tenant = job[w].tenant
        /\ j.wire = job[w].wire /\ j.token = job[w].snap.token
    BY <1>0 DEF Job
  <2>2. ActiveInv(j)
    BY <1>0, <1>3, <2>1 DEF ServeCached, ActiveInv, Patience
  <2>3. job[w].snap \in Row /\ job[w].snap.exp \in Nat
        /\ job[w].snap.token \in Token /\ job[w].snap.token.born \in Nat
    BY <1>0, <1>3 DEF ServeCached, IsTokenValid, Job, Row, Token
  <2>4. /\ job[w].snap.exp - now > Skew
        /\ job[w].snap.exp <= job[w].snap.token.born + HttpMax + Life
    BY <1>0, <1>3 DEF ServeCached, IsTokenValid, AgeInv, ExpiryInv
  <2>5. now + Skew < job[w].snap.token.born + Life + HttpMax
    BY <1>0, <2>3, <2>4
  <2>6. AgeInv(j)
    BY <1>0, <1>3, <2>1, <2>5 DEF ServeCached, AgeInv
  <2>7. job' = [job EXCEPT ![w] = j] /\ UNCHANGED env /\ j.tenant \in Tenant
    BY <1>0, <1>3, <2>1 DEF ServeCached, JobOK
  <2> HIDE DEF j
  <2> QED
    BY <1>T, <1>0, <2>2, <2>6, <2>7, JobStepInv DEF env
<1>4. CASE RefreshToken(w)
  <2> DEFINE j == [job[w] EXCEPT !.pc = "posting", !.since = now]
  <2>1. /\ j.pc = "posting" /\ j.since = now /\ j.tenant = job[w].tenant
        /\ j.wire = job[w].wire
    BY <1>0 DEF Job
  <2>2. ActiveInv(j) /\ AgeInv(j) /\ j.tenant \in Tenant
    BY <1>0, <1>4, <2>1 DEF RefreshToken, ActiveInv, AgeInv, Patience, JobOK
  <2>3. (job' = [job EXCEPT ![w] = j] \/ Finish(w)) /\ UNCHANGED env
    BY <1>4 DEF RefreshToken, Goto
  <2> HIDE DEF j
  <2> QED
    BY <1>T, <1>0, <2>2, <2>3, JobStepInv, FinishInv DEF env
<1>5. CASE PlatformMints(w)
  <2> DEFINE x == [of |-> job[w].tenant, cred |-> job[w].snap.cred,
                   born |-> now]
             j == [job[w] EXCEPT !.wire = x]
  <2>1. /\ j.pc = "posting" /\ j.since = job[w].since
        /\ j.tenant = job[w].tenant /\ j.wire.born = now
    BY <1>0, <1>5 DEF PlatformMints, Job
  <2>2. ActiveInv(j) /\ j.tenant \in Tenant
    BY <1>0, <1>5, <2>1 DEF PlatformMints, ActiveInv, JobOK
  <2>3. AgeInv(j)
    BY <1>0, <1>5, <2>1 DEF PlatformMints, ActiveInv, AgeInv
  <2>4. job' = [job EXCEPT ![w] = j] /\ UNCHANGED env
    BY <1>5 DEF PlatformMints
  <2> HIDE DEF j
  <2> QED
    BY <1>T, <1>0, <2>2, <2>3, <2>4, JobStepInv DEF env
<1>6. CASE ReceiveToken(w)
  <2> PICK e \in {Expiry(w), NoExpiry} :
        job' = [job EXCEPT ![w].pc = "saving", ![w].since = now,
                           ![w].token = job[w].wire, ![w].exp = e,
                           ![w].wire = NULL, ![w].snap = BlankRow]
    BY <1>6 DEF ReceiveToken
  <2> DEFINE j == [job[w] EXCEPT !.pc = "saving", !.since = now,
                                 !.token = job[w].wire, !.exp = e,
                                 !.wire = NULL, !.snap = BlankRow]
  <2>1. /\ j.pc = "saving" /\ j.since = now /\ j.tenant = job[w].tenant
        /\ j.wire = NULL /\ j.token = job[w].wire /\ j.exp = e
    BY <1>0 DEF Job
  <2>2. ActiveInv(j) /\ j.tenant \in Tenant
    BY <1>0, <1>6, <2>1 DEF ReceiveToken, ActiveInv, Patience, JobOK
  <2>3. /\ job[w].since <= job[w].wire.born /\ job[w].wire.born <= now
        /\ now <= job[w].since + HttpMax
        /\ job[w].wire.born \in Nat
    BY <1>0, <1>6 DEF ReceiveToken, ActiveInv, AgeInv, Patience
  <2>4. now <= job[w].wire.born + HttpMax /\ e \in {NoExpiry, now + Life}
    BY <1>0, <2>3 DEF Expiry
  <2>5. AgeInv(j)
    BY <2>1, <2>3, <2>4 DEF AgeInv
  <2>6. job' = [job EXCEPT ![w] = j] /\ UNCHANGED env
    BY <1>6 DEF ReceiveToken
  <2> HIDE DEF j
  <2> QED
    BY <1>T, <1>0, <2>2, <2>5, <2>6, JobStepInv DEF env
<1>7. CASE SaveTokenBundle(w)
  <2> DEFINE t == job[w].tenant
             j == [job[w] EXCEPT !.pc = "ready", !.since = now,
                                 !.exp = NoExpiry]
  <2>1. /\ j.pc = "ready" /\ j.since = now /\ j.tenant = t
        /\ j.wire = job[w].wire /\ j.token = job[w].token
    BY <1>0 DEF Job
  <2>2. t \in Tenant /\ job[w].token # NULL
    BY <1>0, <1>7 DEF SaveTokenBundle, JobOK
  <2>3. ActiveInv(j)
    BY <1>0, <1>7, <2>1 DEF SaveTokenBundle, ActiveInv, Patience
  <2>4. /\ job[w].since <= now /\ now <= job[w].since + PauseMax
        /\ job[w].token.born <= job[w].since
        /\ job[w].since <= job[w].token.born + HttpMax
        /\ job[w].exp \in {NoExpiry, job[w].since + Life}
        /\ job[w].wire = NULL
    BY <1>0, <1>7 DEF SaveTokenBundle, ActiveInv, AgeInv, Patience
  <2>5. now + Skew < job[w].token.born + Life + HttpMax
    BY <1>0, <2>2, <2>4
  <2>6. AgeInv(j)
    BY <2>1, <2>4, <2>5 DEF AgeInv
  <2>7. job[w].exp # NoExpiry =>
          /\ job[w].exp <= now + Life
          /\ job[w].exp <= job[w].token.born + HttpMax + Life
    BY <1>0, <2>2, <2>4
  <2> DEFINE r == [row[t] EXCEPT !.token = job[w].token, !.exp = job[w].exp,
                                 !.auth = "authorized"]
  <2>8. /\ r.token = job[w].token /\ r.exp = job[w].exp
        /\ r.status = row[t].status
    BY <1>0, <1>7 DEF SaveTokenBundle, Row
  <2>9. ExpiryInv(r)
    BY <2>2, <2>7, <2>8 DEF ExpiryInv
  <2>10. row' = IF row[t].status = "live" THEN [row EXCEPT ![t] = r] ELSE row
    BY <1>7 DEF SaveTokenBundle, Saved
  <2>11. row \in [Tenant -> Row]
    BY DEF Inv, TypeOK
  <2> HIDE DEF r
  <2>12. \A s \in Tenant :
           /\ row[s].status # "none" => row'[s].status # "none"
           /\ ExpiryInv(row'[s])
    BY <1>0, <2>2, <2>8, <2>9, <2>10, <2>11
  <2>13. job' = [job EXCEPT ![w] = j] /\ now' = now
    BY <1>7 DEF SaveTokenBundle
  <2> HIDE DEF j
  <2> QED
    BY <1>T, <2>1, <2>2, <2>3, <2>6, <2>12, <2>13, JobStepInv
<1>8. CASE SendQuery(w)
  <2> DEFINE j == [job[w] EXCEPT !.pc = "using", !.since = now]
  <2>1. /\ j.pc = "using" /\ j.since = now /\ j.tenant = job[w].tenant
        /\ j.wire = job[w].wire /\ j.token = job[w].token
    BY <1>0 DEF Job
  <2>2. ActiveInv(j) /\ j.tenant \in Tenant
    BY <1>0, <1>8, <2>1 DEF SendQuery, ActiveInv, Patience, JobOK
  <2>3. /\ now <= job[w].since + PauseMax
        /\ job[w].since + Skew < job[w].token.born + Life + HttpMax
        /\ job[w].token.born \in Nat /\ job[w].wire = NULL
    BY <1>0, <1>8 DEF SendQuery, ActiveInv, AgeInv, Patience, JobOK
  <2>4. now + Skew < job[w].token.born + Life + HttpMax + PauseMax
    BY <1>0, <2>3
  <2>5. AgeInv(j)
    BY <2>1, <2>3, <2>4 DEF AgeInv
  <2>6. (job' = [job EXCEPT ![w] = j] \/ Finish(w)) /\ UNCHANGED env
    BY <1>8 DEF SendQuery, Goto
  <2> HIDE DEF j
  <2> QED
    BY <1>T, <1>0, <2>2, <2>5, <2>6, JobStepInv, FinishInv DEF env
<1>9. CASE RefreshFails(w) \/ SaveFails(w) \/ QueryReturns(w)
  BY <1>T, <1>9, FinishInv DEF RefreshFails, SaveFails, QueryReturns, env
<1>10. CASE QueryRejected(w)
  BY <1>T, <1>10, FinishInv DEF QueryRejected
<1> QED
  BY <1>1, <1>2, <1>3, <1>4, <1>5, <1>6, <1>7, <1>8, <1>9, <1>10
     DEF WorkerStep

\* The row written keeps its token and expiry, or has none.
LEMMA RowEditInv ==
  ASSUME Inv, TypeOK', NEW t \in Tenant, now' = now, job' = job,
         row'[t].status # "none",
         \/ row'[t].token = row[t].token /\ row'[t].exp = row[t].exp
         \/ row'[t].exp = NoExpiry,
         \A s \in Tenant \ {t} : row'[s] = row[s]
  PROVE  Inv'
<1>1. \A s \in Tenant : ExpiryInv(row[s])
  BY DEF Inv
<1>2. \A s \in Tenant : /\ row[s].status # "none" => row'[s].status # "none"
                        /\ ExpiryInv(row'[s])
  BY <1>1 DEF ExpiryInv
<1> QED
  BY <1>2, RowWriteInv

LEMMA RowStepInv ==
  ASSUME Inv, TypeOK', NEW t \in Tenant, NEW S \in Forms,
         CreateTenant(t, S) \/ UpdateCredentials(t, S)
  PROVE  Inv'
<1>1. row \in [Tenant -> Row]
  BY DEF Inv, TypeOK
<1>2. CASE CreateTenant(t, S)
  BY <1>1, <1>2, RowEditInv DEF CreateTenant, BlankRow
<1>3. CASE UpdateCredentials(t, S)
  BY <1>1, <1>3, RowEditInv DEF UpdateCredentials, Row
<1> QED
  BY <1>2, <1>3

LEMMA OtherRowStepInv ==
  ASSUME Inv, TypeOK', NEW t \in Tenant, NEW b \in BOOLEAN,
         UpdateAppTicket(t) \/ SetEnabled(t, b) \/ DeleteTenant(t)
  PROVE  Inv'
<1>1. row \in [Tenant -> Row]
  BY DEF Inv, TypeOK
<1>2. CASE UpdateAppTicket(t)
  BY <1>1, <1>2, RowEditInv DEF UpdateAppTicket, Row
<1>3. CASE SetEnabled(t, b)
  BY <1>1, <1>3, RowEditInv DEF SetEnabled, Row
<1>4. CASE DeleteTenant(t)
  BY <1>1, <1>4, RowEditInv DEF DeleteTenant, BlankRow
<1> QED
  BY <1>2, <1>3, <1>4

LEMMA TickInv ==
  ASSUME Inv, TypeOK', Tick
  PROVE  Inv'
<1> USE ConstantsAssumption
<1>1. now \in Nat /\ now' = now + 1 /\ row' = row /\ job' = job
  BY DEF Tick, Inv, TypeOK
<1>2. ASSUME NEW t \in Tenant
      PROVE  ExpiryInv(row[t])'
  <2>1. row[t] \in Row /\ ExpiryInv(row[t]) /\ row[t].exp \in Nat
    BY DEF Inv, TypeOK, Row
  <2> QED
    BY <1>1, <2>1 DEF ExpiryInv
<1>3. ASSUME NEW w \in Worker
      PROVE  ActiveInv(job[w])' /\ AgeInv(job[w])'
  <2>1. /\ ActiveInv(job[w]) /\ AgeInv(job[w])
        /\ job[w].since \in Nat
        /\ job[w].snap.exp \in Nat
        /\ job[w].wire # NULL => job[w].wire.born \in Nat
    BY JobFacts DEF Job, Row
  <2>2. job[w].pc # "idle" => now - job[w].since < Patience(job[w].pc)
    BY DEF Tick
  <2>3. Patience(job[w].pc) \in Nat
    BY DEF Patience
  <2>4. ActiveInv(job[w])'
    BY <1>1, <2>1, <2>2, <2>3 DEF ActiveInv, Patience
  <2>5. AgeInv(job[w])'
    BY <1>1, <2>1 DEF AgeInv, ExpiryInv
  <2> QED
    BY <2>4, <2>5
<1> QED
  BY <1>2, <1>3 DEF Inv

LEMMA NextInv == Inv /\ [Next]_vars => Inv'
<1> SUFFICES ASSUME Inv, [Next]_vars PROVE Inv'
  OBVIOUS
<1>T. TypeOK'
  BY NextType DEF Inv
<1>1. ASSUME NEW t \in Tenant, NEW S \in Forms,
             CreateTenant(t, S) \/ UpdateCredentials(t, S)
      PROVE  Inv'
  BY <1>T, <1>1, RowStepInv
<1>2. ASSUME NEW t \in Tenant, NEW b \in BOOLEAN,
             UpdateAppTicket(t) \/ SetEnabled(t, b) \/ DeleteTenant(t)
      PROVE  Inv'
  BY <1>T, <1>2, OtherRowStepInv
<1>3. ASSUME NEW t \in Tenant, PlatformRevokes(t)
      PROVE  Inv'
  <2>1. now' = now /\ row' = row /\ job' = job
    BY <1>3 DEF PlatformRevokes
  <2> QED
    BY <1>T, <2>1, RowWriteInv DEF Inv
<1>4. ASSUME NEW w \in Worker,
             WorkerStep(w) \/ PlatformMints(w) \/ \E t \in Tenant : Begin(w, t)
      PROVE  Inv'
  BY <1>4, WorkerStepInv
<1>5. CASE Tick
  BY <1>T, <1>5, TickInv
<1>6. CASE UNCHANGED vars
  BY <1>T, <1>6, RowWriteInv DEF vars, Inv
<1>7. CASE Crash
  <2>1. row' = row /\ now' = now /\ \A w \in Worker : job'[w] = IdleJob
    BY <1>7 DEF Crash, env
  <2>2. \A t \in Tenant : ExpiryInv(row[t])'
    BY <2>1 DEF Inv, ExpiryInv
  <2>3. \A w \in Worker : ActiveInv(job[w])' /\ AgeInv(job[w])'
    BY <2>1 DEF IdleJob, ActiveInv, AgeInv
  <2> QED
    BY <1>T, <2>2, <2>3 DEF Inv
<1> QED
  BY <1>1, <1>2, <1>3, <1>4, <1>5, <1>6, <1>7 DEF Next

(***************************************************************************)
(* The bounds on the age of what each call holds are kept by every step.   *)
(***************************************************************************)
THEOREM InvCorrect == Spec => []Inv
<1> QED
  BY InitInv, NextInv, PTL DEF Spec

-----------------------------------------------------------------------------
(* What follows from it.                                                   *)

LEMMA InvUsedTokenLive == Inv => UsedTokenLive
<1> USE ConstantsAssumption, SkewAssumption
<1> SUFFICES ASSUME Inv, NEW w \in Worker, job[w].pc = "using"
             PROVE  now < job[w].token.born + Life
  BY DEF UsedTokenLive
<1>1. /\ now \in Nat /\ job[w].since \in Nat /\ job[w].token.born \in Nat
      /\ now <= job[w].since + HttpMax
      /\ job[w].since + Skew < job[w].token.born + Life + HttpMax + PauseMax
  BY JobFacts DEF ActiveInv, AgeInv, Patience, JobOK
<1> QED
  BY <1>1

(***************************************************************************)
(* Whatever the lifetime of a token and the timeouts, as long as the skew  *)
(* covers two exchanges and a pause, no query is under way with a token    *)
(* that has run out.                                                       *)
(***************************************************************************)
THEOREM NoExpiredTokenInUse == Spec => []UsedTokenLive
<1> QED
  BY InvCorrect, InvUsedTokenLive, PTL

LEMMA StepExpiry ==
  ASSUME Inv, [Next]_vars, NEW t \in Tenant,
         row[t].exp # NoExpiry, row'[t].exp # NoExpiry
  PROVE  row'[t].exp >= row[t].exp - PauseMax
<1> USE ConstantsAssumption
<1>1. /\ row \in [Tenant -> Row] /\ row[t] \in Row /\ row[t].exp \in Nat
      /\ row[t].exp <= now + Life /\ now \in Nat
  BY DEF Inv, TypeOK, Row, ExpiryInv
<1>2. ASSUME NEW w \in Worker, SaveTokenBundle(w)
      PROVE  row'[t].exp >= row[t].exp - PauseMax
  <2>1. /\ job[w].exp \in {NoExpiry, job[w].since + Life}
        /\ now <= job[w].since + PauseMax
        /\ job[w].since \in Nat
    BY <1>2, JobFacts DEF SaveTokenBundle, ActiveInv, AgeInv, Patience
  <2>2. row'[t].exp \in {row[t].exp, job[w].exp}
    BY <1>1, <1>2 DEF SaveTokenBundle, Saved, Row
  <2> QED
    BY <1>1, <2>1, <2>2
<1>3. ASSUME NEW s \in Tenant, NEW S \in Forms,
             CreateTenant(s, S) \/ UpdateCredentials(s, S)
      PROVE  row'[t].exp = row[t].exp
  <2>1. CASE CreateTenant(s, S)
    BY <1>1, <2>1 DEF CreateTenant, BlankRow
  <2>2. CASE UpdateCredentials(s, S)
    BY <1>1, <2>2 DEF UpdateCredentials, Row
  <2> QED
    BY <1>3, <2>1, <2>2
<1>4. ASSUME NEW s \in Tenant, NEW b \in BOOLEAN,
             UpdateAppTicket(s) \/ SetEnabled(s, b) \/ DeleteTenant(s)
      PROVE  row'[t].exp = row[t].exp
  BY <1>1, <1>4 DEF UpdateAppTicket, SetEnabled, DeleteTenant, Row, BlankRow
<1>5. CASE UNCHANGED row
  BY <1>1, <1>5
<1>6. ASSUME NEW w \in Worker, WorkerStep(w), ~SaveTokenBundle(w)
      PROVE  UNCHANGED row
  BY <1>6 DEF WorkerStep, ReadTenant, ServeCached, RefreshToken, ReceiveToken,
       RefreshFails, SaveFails, SendQuery, QueryReturns, QueryRejected, env
<1>7. ASSUME NEW w \in Worker, NEW s \in Tenant, Begin(w, s)
      PROVE  UNCHANGED row
  BY <1>7 DEF Begin, env
<1>8. ASSUME NEW w \in Worker, PlatformMints(w) PROVE UNCHANGED row
  BY <1>8 DEF PlatformMints, env
<1>9. ASSUME NEW s \in Tenant, PlatformRevokes(s) PROVE UNCHANGED row
  BY <1>9 DEF PlatformRevokes
<1>10. Crash \/ Tick \/ UNCHANGED vars => UNCHANGED row
  BY DEF Crash, env, Tick, vars
<1>11. row[t].exp >= row[t].exp - PauseMax
  BY <1>1
<1> QED
  BY <1>2, <1>3, <1>4, <1>5, <1>6, <1>7, <1>8, <1>9, <1>10, <1>11 DEF Next

(***************************************************************************)
(* However many workers refresh a tenant at once, the saved expiry goes    *)
(* back by at most one pause.                                              *)
(***************************************************************************)
THEOREM ExpiryNearlyMonotone == Spec => ExpiryRegressionBounded
<1>1. Inv /\ [Next]_vars =>
        [\A t \in Tenant :
           row[t].exp # NoExpiry /\ row'[t].exp # NoExpiry
             => row'[t].exp >= row[t].exp - PauseMax]_vars
  BY StepExpiry
<1> QED
  BY <1>1, InvCorrect, PTL DEF Spec, ExpiryRegressionBounded

-----------------------------------------------------------------------------
(* Whose token it is.                                                      *)

\* What a worker's step must show of the job it leaves behind.
OwnJob(j) == Owned(j.token, j.tenant) /\ OwnInv(j)

LEMMA InitOwn == Init => FullInv
<1> SUFFICES ASSUME Init PROVE FullInv
  OBVIOUS
<1>1. \A t \in Tenant : Owned(row[t].token, t)
  BY DEF Init, BlankRow, Owned
<1>2. \A w \in Worker : Owned(job[w].token, job[w].tenant) /\ OwnInv(job[w])
  BY DEF Init, IdleJob, Owned, OwnInv
<1> QED
  BY <1>1, <1>2, InitInv DEF FullInv, OwnToken

LEMMA IdleOwn == OwnJob(IdleJob)
BY DEF OwnJob, IdleJob, Owned, OwnInv

LEMMA JobStepOwn ==
  ASSUME FullInv, Inv', NEW w \in Worker, NEW j, OwnJob(j),
         job' = [job EXCEPT ![w] = j],
         \A t \in Tenant : Owned(row'[t].token, t)
  PROVE  FullInv'
<1>1. \A t \in Tenant : Owned(row[t].token, t)'
  BY DEF Owned
<1>2. \A v \in Worker : Owned(job[v].token, job[v].tenant)' /\ OwnInv(job[v])'
  <2> SUFFICES ASSUME NEW v \in Worker
               PROVE  Owned(job'[v].token, job'[v].tenant) /\ OwnInv(job'[v])
    BY DEF Owned, OwnInv, CanRefresh
  <2>1. job'[v] = IF v = w THEN j ELSE job[v]
    BY DEF FullInv, Inv, TypeOK
  <2>2. Owned(job[v].token, job[v].tenant) /\ OwnInv(job[v])
    BY DEF FullInv, OwnToken
  <2> QED
    BY <2>1, <2>2 DEF OwnJob
<1> QED
  BY <1>1, <1>2 DEF FullInv, OwnToken

LEMMA WorkerStepOwn ==
  ASSUME FullInv, Inv', NEW w \in Worker,
         WorkerStep(w) \/ PlatformMints(w) \/ \E t \in Tenant : Begin(w, t)
  PROVE  FullInv'
<1>0. /\ job[w] \in Job /\ JobOK(job[w]) /\ AgeInv(job[w])
      /\ Owned(job[w].token, job[w].tenant) /\ OwnInv(job[w])
      /\ job \in [Worker -> Job] /\ row \in [Tenant -> Row]
      /\ \A t \in Tenant : Owned(row[t].token, t)
  BY DEF FullInv, OwnToken, Inv, TypeOK
<1>1. CASE \E t \in Tenant : Begin(w, t)
  <2> PICK t \in Tenant : Begin(w, t)
    BY <1>1
  <2> DEFINE j == [job[w] EXCEPT !.pc = "ensure", !.since = now,
                                 !.tenant = t, !.ctx = HasApp(row[t].cred)]
  <2>1. job[w].token = NULL /\ job[w].wire = NULL
    BY <1>0 DEF Begin, JobOK, AgeInv
  <2>2. OwnJob(j)
    BY <1>0, <2>1 DEF OwnJob, OwnInv, Owned, Job
  <2>3. job' = [job EXCEPT ![w] = j] /\ row' = row
    BY DEF Begin, env
  <2> HIDE DEF j
  <2> QED
    BY <1>0, <2>2, <2>3, JobStepOwn
<1>2. CASE ReadTenant(w)
  <2> DEFINE j == [job[w] EXCEPT !.pc = "check", !.since = now,
                                 !.snap = row[job[w].tenant]]
  <2>1. job[w].token = NULL /\ job[w].wire = NULL /\ job[w].tenant \in Tenant
    BY <1>0, <1>2 DEF ReadTenant, JobOK, AgeInv
  <2>2. OwnJob(j)
    BY <1>0, <2>1 DEF OwnJob, OwnInv, Owned, Job
  <2>3. (job' = [job EXCEPT ![w] = j] \/ Finish(w)) /\ row' = row
    BY <1>2 DEF ReadTenant, env
  <2> HIDE DEF j
  <2> QED
    BY <1>0, <2>2, <2>3, IdleOwn, JobStepOwn DEF Finish
<1>3. CASE ServeCached(w)
  <2> DEFINE j == [job[w] EXCEPT !.pc = "ready", !.since = now,
                                 !.token = job[w].snap.token,
                                 !.snap = BlankRow]
  <2>1. job[w].wire = NULL /\ Owned(job[w].snap.token, job[w].tenant)
    BY <1>0, <1>3 DEF ServeCached, AgeInv, OwnInv
  <2>2. OwnJob(j)
    BY <1>0, <2>1 DEF OwnJob, OwnInv, Owned, Job
  <2>3. job' = [job EXCEPT ![w] = j] /\ row' = row
    BY <1>3 DEF ServeCached, env
  <2> HIDE DEF j
  <2> QED
    BY <1>0, <2>2, <2>3, JobStepOwn
<1>4. CASE RefreshToken(w)
  <2> DEFINE j == [job[w] EXCEPT !.pc = "posting", !.since = now]
  <2>1. job[w].token = NULL /\ job[w].wire = NULL
    BY <1>0, <1>4 DEF RefreshToken, JobOK, AgeInv
  <2>2. CanRefresh(job[w].snap) => OwnJob(j)
    BY <1>0, <2>1 DEF OwnJob, OwnInv, Owned, Job
  <2>3. /\ \/ CanRefresh(job[w].snap) /\ job' = [job EXCEPT ![w] = j]
           \/ Finish(w)
        /\ row' = row
    BY <1>4 DEF RefreshToken, Goto, env
  <2> HIDE DEF j
  <2> QED
    BY <1>0, <2>2, <2>3, IdleOwn, JobStepOwn DEF Finish
<1>5. CASE PlatformMints(w)
  <2> DEFINE x == [of |-> job[w].tenant, cred |-> job[w].snap.cred,
                   born |-> now]
             j == [job[w] EXCEPT !.wire = x]
  <2>1. CanRefresh(job[w].snap) /\ job[w].token = NULL /\ job[w].pc = "posting"
    BY <1>0, <1>5 DEF PlatformMints, OwnInv, JobOK
  <2>2. Owned(x, job[w].tenant)
    BY <2>1 DEF Owned, CanRefresh
  <2>3. OwnJob(j)
    BY <1>0, <2>1, <2>2 DEF OwnJob, OwnInv, Owned, Job
  <2>4. job' = [job EXCEPT ![w] = j] /\ row' = row
    BY <1>5 DEF PlatformMints, env
  <2> HIDE DEF j
  <2> QED
    BY <1>0, <2>3, <2>4, JobStepOwn
<1>6. CASE ReceiveToken(w)
  <2> PICK e \in {Expiry(w), NoExpiry} :
        job' = [job EXCEPT ![w].pc = "saving", ![w].since = now,
                           ![w].token = job[w].wire, ![w].exp = e,
                           ![w].wire = NULL, ![w].snap = BlankRow]
    BY <1>6 DEF ReceiveToken
  <2> DEFINE j == [job[w] EXCEPT !.pc = "saving", !.since = now,
                                 !.token = job[w].wire, !.exp = e,
                                 !.wire = NULL, !.snap = BlankRow]
  <2>1. OwnJob(j)
    BY <1>0 DEF OwnJob, OwnInv, Owned, Job
  <2>2. job' = [job EXCEPT ![w] = j] /\ row' = row
    BY <1>6 DEF ReceiveToken, env
  <2> HIDE DEF j
  <2> QED
    BY <1>0, <2>1, <2>2, JobStepOwn
<1>7. CASE SaveTokenBundle(w)
  <2> DEFINE t == job[w].tenant
             j == [job[w] EXCEPT !.pc = "ready", !.since = now,
                                 !.exp = NoExpiry]
             r == [row[t] EXCEPT !.token = job[w].token, !.exp = job[w].exp,
                                 !.auth = "authorized"]
  <2>1. t \in Tenant /\ row[t] \in Row
    BY <1>0, <1>7 DEF SaveTokenBundle, JobOK
  <2>2. OwnJob(j)
    BY <1>0 DEF OwnJob, OwnInv, Owned, Job
  <2>3. Owned(r.token, t)
    BY <1>0, <2>1 DEF Row
  <2>4. row' = IF row[t].status = "live" THEN [row EXCEPT ![t] = r] ELSE row
    BY <1>7 DEF SaveTokenBundle, Saved
  <2>5. job' = [job EXCEPT ![w] = j]
    BY <1>7 DEF SaveTokenBundle
  <2> HIDE DEF j, r
  <2>6. \A s \in Tenant : Owned(row'[s].token, s)
    BY <1>0, <2>1, <2>3, <2>4
  <2> QED
    BY <2>2, <2>5, <2>6, JobStepOwn
<1>8. CASE SendQuery(w)
  <2> DEFINE j == [job[w] EXCEPT !.pc = "using", !.since = now]
  <2>1. OwnJob(j)
    BY <1>0 DEF OwnJob, OwnInv, Owned, Job
  <2>2. (job' = [job EXCEPT ![w] = j] \/ Finish(w)) /\ row' = row
    BY <1>8 DEF SendQuery, Goto, env
  <2> HIDE DEF j
  <2> QED
    BY <1>0, <2>1, <2>2, IdleOwn, JobStepOwn DEF Finish
<1>9. CASE RefreshFails(w) \/ SaveFails(w) \/ QueryReturns(w) \/ QueryRejected(w)
  <2>1. Finish(w) /\ row' = row
    BY <1>9 DEF RefreshFails, SaveFails, QueryReturns, QueryRejected, env
  <2> QED
    BY <1>0, <2>1, IdleOwn, JobStepOwn DEF Finish
<1> QED
  BY <1>1, <1>2, <1>3, <1>4, <1>5, <1>6, <1>7, <1>8, <1>9 DEF WorkerStep

\* A row is otherwise written without touching its token, or emptied of it.
LEMMA RowEditOwn ==
  ASSUME FullInv, Inv', job' = job,
         \A t \in Tenant : row'[t].token = row[t].token \/ row'[t].token = NULL
  PROVE  FullInv'
<1>1. \A t \in Tenant : Owned(row[t].token, t)'
  BY DEF FullInv, OwnToken, Owned
<1>2. \A w \in Worker : Owned(job[w].token, job[w].tenant)' /\ OwnInv(job[w])'
  BY DEF FullInv, OwnToken, Owned, OwnInv, CanRefresh
<1> QED
  BY <1>1, <1>2 DEF FullInv, OwnToken

LEMMA NextOwn == FullInv /\ [Next]_vars => FullInv'
<1> SUFFICES ASSUME FullInv, [Next]_vars PROVE FullInv'
  OBVIOUS
<1>I. Inv' /\ row \in [Tenant -> Row]
  BY NextInv DEF FullInv, Inv, TypeOK
<1>1. ASSUME NEW t \in Tenant, NEW S \in Forms, CreateTenant(t, S)
      PROVE  FullInv'
  BY <1>I, <1>1, RowEditOwn DEF CreateTenant, BlankRow
<1>2. ASSUME NEW t \in Tenant, NEW S \in Forms, UpdateCredentials(t, S)
      PROVE  FullInv'
  BY <1>I, <1>2, RowEditOwn DEF UpdateCredentials, Row
<1>3. ASSUME NEW t \in Tenant, NEW b \in BOOLEAN,
             UpdateAppTicket(t) \/ SetEnabled(t, b)
      PROVE  FullInv'
  BY <1>I, <1>3, RowEditOwn DEF UpdateAppTicket, SetEnabled, Row
<1>4. ASSUME NEW t \in Tenant, DeleteTenant(t)
      PROVE  FullInv'
  BY <1>I, <1>4, RowEditOwn DEF DeleteTenant, BlankRow
<1>5. ASSUME NEW t \in Tenant, PlatformRevokes(t)
      PROVE  FullInv'
  BY <1>I, <1>5, RowEditOwn DEF PlatformRevokes
<1>6. ASSUME NEW w \in Worker,
             WorkerStep(w) \/ PlatformMints(w) \/ \E t \in Tenant : Begin(w, t)
      PROVE  FullInv'
  BY <1>I, <1>6, WorkerStepOwn
<1>7. CASE Tick \/ UNCHANGED vars
  BY <1>I, <1>7, RowEditOwn DEF Tick, vars
<1>8. CASE Crash
  <2>1. row' = row /\ \A w \in Worker : job'[w] = IdleJob
    BY <1>8 DEF Crash, env
  <2>2. \A t \in Tenant : Owned(row[t].token, t)'
    BY <2>1 DEF FullInv, OwnToken, Owned
  <2>3. \A w \in Worker : Owned(job[w].token, job[w].tenant)' /\ OwnInv(job[w])'
    BY <2>1 DEF IdleJob, Owned, OwnInv
  <2> QED
    BY <1>I, <2>2, <2>3 DEF FullInv, OwnToken
<1> QED
  BY <1>1, <1>2, <1>3, <1>4, <1>5, <1>6, <1>7, <1>8 DEF Next

(***************************************************************************)
(* The bounds and the owners together, as one inductive invariant.         *)
(***************************************************************************)
THEOREM FullInvCorrect == Spec => []FullInv
<1> QED
  BY InitOwn, NextOwn, PTL DEF Spec

(***************************************************************************)
(* No row and no call ever holds another tenant's token, however refreshes *)
(* of different tenants, deletions and rewrites interleave.                *)
(***************************************************************************)
THEOREM TokensStayHome == Spec => []OwnToken
<1>1. FullInv => OwnToken
  BY DEF FullInv
<1> QED
  BY <1>1, FullInvCorrect, PTL

-----------------------------------------------------------------------------
(* A deleted tenant.                                                       *)

LEMMA StepDeleted ==
  ASSUME TypeOK, [Next]_vars, NEW t \in Tenant, row[t].status = "deleted"
  PROVE  row'[t] = row[t]
<1>1. row \in [Tenant -> Row]
  BY DEF TypeOK
<1>2. ASSUME NEW s \in Tenant, NEW S \in Forms,
             CreateTenant(s, S) \/ UpdateCredentials(s, S)
      PROVE  row'[t] = row[t]
  BY <1>1, <1>2 DEF CreateTenant, UpdateCredentials
<1>3. ASSUME NEW s \in Tenant, NEW b \in BOOLEAN,
             UpdateAppTicket(s) \/ SetEnabled(s, b) \/ DeleteTenant(s)
      PROVE  row'[t] = row[t]
  BY <1>1, <1>3 DEF UpdateAppTicket, SetEnabled, DeleteTenant
<1>4. ASSUME NEW w \in Worker, WorkerStep(w)
      PROVE  row'[t] = row[t]
  <2>1. CASE SaveTokenBundle(w)
    BY <1>1, <2>1 DEF SaveTokenBundle, Saved
  <2>2. CASE ~SaveTokenBundle(w)
    BY <1>4, <2>2 DEF WorkerStep, ReadTenant, ServeCached, RefreshToken,
       ReceiveToken, RefreshFails, SaveFails, SendQuery, QueryReturns,
       QueryRejected, env
  <2> QED
    BY <2>1, <2>2
<1>5. ASSUME NEW w \in Worker, NEW s \in Tenant,
             PlatformMints(w) \/ Begin(w, s)
      PROVE  row'[t] = row[t]
  BY <1>5 DEF PlatformMints, Begin, env
<1>6. ASSUME NEW s \in Tenant, PlatformRevokes(s)
      PROVE  row'[t] = row[t]
  BY <1>6 DEF PlatformRevokes
<1>7. ASSUME NEW w \in Worker, PlatformMints(w)
      PROVE  row'[t] = row[t]
  BY <1>7 DEF PlatformMints, env
<1>8. CASE Crash \/ Tick \/ UNCHANGED vars
  BY <1>8 DEF Crash, env, Tick, vars
<1> QED
  BY <1>2, <1>3, <1>4, <1>5, <1>6, <1>7, <1>8 DEF Next

(***************************************************************************)
(* Nothing a call in flight does brings a deleted tenant's row back.       *)
(***************************************************************************)
THEOREM DeletedStaysDeleted == Spec => NoResurrection
<1>1. TypeOK /\ [Next]_vars =>
        [\A t \in Tenant : row[t].status = "deleted" => row'[t] = row[t]]_vars
  BY StepDeleted
<1> QED
  BY <1>1, TypeCorrect, PTL DEF Spec, NoResurrection

-----------------------------------------------------------------------------
(* Every call ends.                                                        *)

(***************************************************************************)
(* Where a call may go next from each place.                               *)
(***************************************************************************)
Moves == {<<"ensure", "check">>, <<"check", "ready">>, <<"check", "posting">>,
          <<"posting", "saving">>, <<"saving", "ready">>, <<"ready", "using">>}

LEMMA WorkerMoves ==
  ASSUME TypeOK, NEW w \in Worker, WorkerStep(w)
  PROVE  /\ \/ job'[w].pc = "idle"
            \/ <<job[w].pc, job'[w].pc>> \in Moves
         /\ job[w].pc # "idle"
         /\ \A u \in Worker \ {w} : job'[u] = job[u]
<1>1. job \in [Worker -> Job]
  BY DEF TypeOK
<1>2. job[w] \in Job
  BY <1>1
<1>3. CASE ReadTenant(w)
  BY <1>1, <1>2, <1>3 DEF ReadTenant, Finish, IdleJob, Moves, Job
<1>4. CASE ServeCached(w)
  BY <1>1, <1>2, <1>4 DEF ServeCached, Moves, Job
<1>5. CASE RefreshToken(w)
  BY <1>1, <1>2, <1>5 DEF RefreshToken, Goto, Finish, IdleJob, Moves, Job
<1>6. CASE ReceiveToken(w)
  BY <1>1, <1>2, <1>6 DEF ReceiveToken, Moves, Job
<1>7. CASE RefreshFails(w)
  BY <1>1, <1>2, <1>7 DEF RefreshFails, Finish, IdleJob, Moves, Job
<1>8. CASE SaveTokenBundle(w)
  BY <1>1, <1>2, <1>8 DEF SaveTokenBundle, Moves, Job
<1>9. CASE SaveFails(w)
  BY <1>1, <1>2, <1>9 DEF SaveFails, Finish, IdleJob, Moves, Job
<1>10. CASE SendQuery(w)
  BY <1>1, <1>2, <1>10 DEF SendQuery, Goto, Finish, IdleJob, Moves, Job
<1>11. CASE QueryReturns(w)
  BY <1>1, <1>2, <1>11 DEF QueryReturns, Finish, IdleJob, Moves, Job
<1>12. CASE QueryRejected(w)
  BY <1>1, <1>2, <1>12 DEF QueryRejected, Finish, IdleJob, Moves, Job
<1> QED
  BY <1>3, <1>4, <1>5, <1>6, <1>7, <1>8, <1>9, <1>10, <1>11, <1>12
  DEF WorkerStep

(***************************************************************************)
(* A step of anyone leaves a call at its place, unless it is the step of   *)
(* the call's own worker or ends every call.                               *)
(***************************************************************************)
LEMMA CallMoves ==
  ASSUME TypeOK, [Next]_vars, NEW w \in Worker, job[w].pc # "idle"
  PROVE  \/ job'[w].pc \in {job[w].pc, "idle"}
         \/ <<job[w].pc, job'[w].pc>> \in Moves
<1>1. job \in [Worker -> Job]
  BY DEF TypeOK
<1>2. CASE job' = job
  BY <1>2
<1>3. ASSUME NEW u \in Worker, NEW t \in Tenant, Begin(u, t)
      PROVE  job'[w] = job[w]
  BY <1>1, <1>3 DEF Begin
<1>4. ASSUME NEW u \in Worker, WorkerStep(u)
      PROVE  \/ job'[w].pc \in {job[w].pc, "idle"}
         \/ <<job[w].pc, job'[w].pc>> \in Moves
  BY <1>4, WorkerMoves
<1>5. ASSUME NEW u \in Worker, PlatformMints(u)
      PROVE  job'[w].pc = job[w].pc
  BY <1>1, <1>5 DEF PlatformMints, Job
<1>6. CASE Crash
  BY <1>6 DEF Crash, IdleJob
<1> QED
  BY <1>2, <1>3, <1>4, <1>5, <1>6
  DEF Next, vars, CreateTenant, UpdateCredentials, UpdateAppTicket, SetEnabled,
      DeleteTenant, PlatformRevokes, Tick

(***************************************************************************)
(* What that rests on besides fairness: wherever a call stands, its worker *)
(* can do something without another's help.  Every place has a step whose  *)
(* guard is the place itself (RefreshFails, SaveFails and the like), so     *)
(* this holds by the guards; it is a hypothesis of the theorem because     *)
(* ENABLED is out of the prover's reach.                                   *)
(***************************************************************************)
NeverStuck ==
  \A w \in Worker : job[w].pc # "idle" => ENABLED <<WorkerStep(w)>>_vars

(***************************************************************************)
(* Every tool call and every test ends, if its worker is never stuck and   *)
(* takes its own steps in the end, whatever the other workers, the forms,  *)
(* the platform and the clock do meanwhile.                                *)
(***************************************************************************)
THEOREM CallsEnd == FairSpec /\ []NeverStuck => CallEnds
<1> SUFFICES ASSUME NEW w \in Worker
             PROVE  FairSpec /\ []NeverStuck
                      => (job[w].pc # "idle" ~> job[w].pc = "idle")
  BY DEF CallEnds
<1> DEFINE At(place) == job[w].pc = place
<1>1. FairSpec => Spec /\ Fair(w)
  BY DEF FairSpec
<1>2. NeverStuck /\ ~At("idle") => ENABLED <<WorkerStep(w)>>_vars
  BY DEF NeverStuck
<1>3. TypeOK => \/ At("idle") \/ At("ensure") \/ At("check") \/ At("posting")
                \/ At("saving") \/ At("ready") \/ At("using")
  BY DEF TypeOK, Job, Place
<1>4. TypeOK /\ At("ensure") /\ [Next]_vars
        => At("ensure")' \/ At("check")' \/ At("idle")'
  BY CallMoves DEF Moves
<1>5. TypeOK /\ At("ensure") /\ <<WorkerStep(w)>>_vars
        => At("check")' \/ At("idle")'
  BY WorkerMoves DEF Moves
<1>6. TypeOK /\ At("check") /\ [Next]_vars
        => At("check")' \/ At("posting")' \/ At("ready")' \/ At("idle")'
  BY CallMoves DEF Moves
<1>7. TypeOK /\ At("check") /\ <<WorkerStep(w)>>_vars
        => At("posting")' \/ At("ready")' \/ At("idle")'
  BY WorkerMoves DEF Moves
<1>8. TypeOK /\ At("posting") /\ [Next]_vars
        => At("posting")' \/ At("saving")' \/ At("idle")'
  BY CallMoves DEF Moves
<1>9. TypeOK /\ At("posting") /\ <<WorkerStep(w)>>_vars
        => At("saving")' \/ At("idle")'
  BY WorkerMoves DEF Moves
<1>10. TypeOK /\ At("saving") /\ [Next]_vars
         => At("saving")' \/ At("ready")' \/ At("idle")'
  BY CallMoves DEF Moves
<1>11. TypeOK /\ At("saving") /\ <<WorkerStep(w)>>_vars
         => At("ready")' \/ At("idle")'
  BY WorkerMoves DEF Moves
<1>12. TypeOK /\ At("ready") /\ [Next]_vars
         => At("ready")' \/ At("using")' \/ At("idle")'
  BY CallMoves DEF Moves
<1>13. TypeOK /\ At("ready") /\ <<WorkerStep(w)>>_vars
         => At("using")' \/ At("idle")'
  BY WorkerMoves DEF Moves
<1>14. TypeOK /\ At("using") /\ [Next]_vars => At("using")' \/ At("idle")'
  BY CallMoves DEF Moves
<1>15. TypeOK /\ At("using") /\ <<WorkerStep(w)>>_vars => At("idle")'
  BY WorkerMoves DEF Moves
<1>16. At("idle") <=> job[w].pc = "idle"
  OBVIOUS
<1> HIDE DEF At
<1> QED
  BY <1>1, <1>2, <1>3, <1>4, <1>5, <1>6, <1>7, <1>8, <1>9, <1>10, <1>11,
     <1>12, <1>13, <1>14, <1>15, <1>16, TypeCorrect, PTL DEF Spec, Fair

-----------------------------------------------------------------------------
(* Tokens for old credentials.                                             *)

(***************************************************************************)
(* The inductive invariant behind OldCredentialsFade: how long after the   *)
(* last write of its tenant's credentials a call may still come to a place *)
(* with the old ones, and what expiry a token for old ones may have.       *)
(***************************************************************************)
Lag == [check   |-> 0,
        posting |-> PauseMax,
        saving  |-> PauseMax + HttpMax,
        ready   |-> PauseMax + HttpMax + Life - Skew - 1,
        using   |-> PauseMax + HttpMax + Life - Skew - 1 + PauseMax]

\* The credentials a call is to use, or has used, for its token.
CredOf(j) == IF j.pc \in {"check", "posting"} THEN j.snap.cred ELSE j.token.cred

\* r is a row, or a snapshot of a row, of tenant t.
FadeRow(r, t) ==
  r.token # NULL /\ r.exp # NoExpiry /\ r.token.cred # row[t].cred
    => r.exp <= rotation[t].at + PauseMax + HttpMax + Life

FadeJob(j) ==
  j.pc \in DOMAIN Lag /\ row[j.tenant].status = "live" =>
    /\ j.pc = "check" => FadeRow(j.snap, j.tenant)
    /\ j.pc = "posting" /\ j.wire # NULL => j.wire.cred = j.snap.cred
    /\ CredOf(j) # row[j.tenant].cred
         => j.since <= rotation[j.tenant].at + Lag[j.pc]

FadeInv ==
  /\ \A t \in Tenant :
       /\ rotation[t].at <= now
       /\ row[t].status = "live" => FadeRow(row[t], t)
  /\ \A w \in Worker : FadeJob(job[w])

LEMMA InitFade == Init => FadeInv
<1> SUFFICES ASSUME Init PROVE FadeInv
  OBVIOUS
<1>1. \A t \in Tenant : rotation[t].at <= now /\ row[t].status # "live"
  BY DEF Init, BlankRow
<1>2. \A w \in Worker : FadeJob(job[w])
  BY DEF Init, IdleJob, FadeJob, Lag
<1> QED
  BY <1>1, <1>2 DEF FadeInv

LEMMA IdleFade == FadeJob(IdleJob) /\ FadeJob(IdleJob)'
BY DEF FadeJob, IdleJob, Lag

(***************************************************************************)
(* A worker's step.  None but SaveTokenBundle writes a row, none writes    *)
(* credentials or counts a rotation.                                       *)
(***************************************************************************)
LEMMA JobStepFade ==
  ASSUME Inv, FadeInv, NEW w \in Worker, NEW j, FadeJob(j),
         j.pc # "idle" => j.tenant \in Tenant,
         job' = [job EXCEPT ![w] = j], now' = now, rotation' = rotation,
         \A t \in Tenant : /\ row'[t].cred = row[t].cred
                           /\ row'[t].status = row[t].status
                           /\ row[t].status = "live" => FadeRow(row'[t], t)
  PROVE  FadeInv'
<1>1. \A t \in Tenant : /\ rotation'[t].at <= now'
                        /\ row'[t].status = "live" => FadeRow(row[t], t)'
  BY DEF FadeInv, FadeRow
<1>2. ASSUME NEW v \in Worker PROVE FadeJob(job[v])'
  <2>1. job'[v] = IF v = w THEN j ELSE job[v]
    BY DEF Inv, TypeOK
  <2>2. FadeJob(job'[v]) /\ (job'[v].pc # "idle" => job'[v].tenant \in Tenant)
    BY <2>1 DEF FadeInv, Inv, TypeOK, JobOK
  <2>3. CASE job'[v].pc = "idle"
    BY <2>3 DEF FadeJob, Lag
  <2>4. CASE job'[v].pc # "idle"
    BY <2>2, <2>4 DEF FadeJob, FadeRow, CredOf
  <2> QED
    BY <2>3, <2>4
<1> QED
  BY <1>1, <1>2 DEF FadeInv

\* The same, when the step writes no row.
LEMMA JobOnlyFade ==
  ASSUME Inv, FadeInv, NEW w \in Worker, NEW j, FadeJob(j),
         j.pc # "idle" => j.tenant \in Tenant,
         job' = [job EXCEPT ![w] = j], now' = now, rotation' = rotation,
         row' = row
  PROVE  FadeInv'
BY JobStepFade DEF FadeInv

LEMMA FinishFade ==
  ASSUME Inv, FadeInv, NEW w \in Worker, Finish(w), now' = now,
         rotation' = rotation, row' = row
  PROVE  FadeInv'
<1>1. FadeJob(IdleJob) /\ IdleJob.pc = "idle"
  BY IdleFade DEF IdleJob
<1> QED
  BY <1>1, JobOnlyFade DEF Finish

\* What a step of worker w starts from.
LEMMA FadeFacts ==
  ASSUME Inv, FadeInv, NEW w \in Worker, job[w].pc # "idle"
  PROVE  /\ job[w] \in Job /\ JobOK(job[w]) /\ FadeJob(job[w])
         /\ ActiveInv(job[w]) /\ AgeInv(job[w])
         /\ job[w].tenant \in Tenant
         /\ job[w].since \in Nat /\ now \in Nat
         /\ rotation[job[w].tenant].at \in Nat
         /\ rotation[job[w].tenant].at <= now
         /\ row[job[w].tenant] \in Row
         /\ row[job[w].tenant].status = "live" =>
              FadeRow(row[job[w].tenant], job[w].tenant)
BY DEF Inv, TypeOK, JobOK, Job, FadeInv

LEMMA WorkerStepFade ==
  ASSUME Inv, FadeInv, NEW w \in Worker,
         WorkerStep(w) \/ PlatformMints(w) \/ \E t \in Tenant : Begin(w, t)
  PROVE  FadeInv'
<1> USE ConstantsAssumption, SkewAssumption
<1> DEFINE t == job[w].tenant
<1>1. CASE \E s \in Tenant : Begin(w, s)
  <2> PICK s \in Tenant : Begin(w, s)
    BY <1>1
  <2> DEFINE j == [job[w] EXCEPT !.pc = "ensure", !.since = now,
                                 !.tenant = s, !.ctx = HasApp(row[s].cred)]
  <2>1. job[w] \in Job
    BY DEF Inv, TypeOK
  <2>2. j.pc = "ensure" /\ j.tenant = s
    BY <2>1 DEF Job
  <2>3. FadeJob(j)
    BY <2>2 DEF FadeJob, Lag
  <2>4. job' = [job EXCEPT ![w] = j] /\ UNCHANGED env
    BY DEF Begin
  <2> HIDE DEF j
  <2> QED
    BY <2>2, <2>3, <2>4, JobOnlyFade DEF env
<1>2. CASE ReadTenant(w)
  <2> DEFINE j == [job[w] EXCEPT !.pc = "check", !.since = now,
                                 !.snap = row[t]]
  <2>1. job[w].pc # "idle"
    BY <1>2 DEF ReadTenant
  <2>2. j.pc = "check" /\ j.tenant = t /\ j.snap = row[t] /\ t \in Tenant
    BY <2>1, FadeFacts DEF Job
  <2>3. FadeJob(j)
    BY <2>1, <2>2, FadeFacts DEF FadeJob, CredOf
  <2>4. (job' = [job EXCEPT ![w] = j] \/ Finish(w)) /\ UNCHANGED env
    BY <1>2 DEF ReadTenant
  <2> HIDE DEF j
  <2> QED
    BY <2>2, <2>3, <2>4, JobOnlyFade, FinishFade DEF env
<1>3. CASE ServeCached(w)
  <2> DEFINE j == [job[w] EXCEPT !.pc = "ready", !.since = now,
                                 !.token = job[w].snap.token,
                                 !.snap = BlankRow]
  <2>1. job[w].pc = "check" /\ IsTokenValid(job[w].snap)
    BY <1>3 DEF ServeCached
  <2>2. /\ j.pc = "ready" /\ j.tenant = t /\ t \in Tenant
        /\ j.since = now /\ j.token = job[w].snap.token
    BY <2>1, FadeFacts DEF Job
  <2>3. job[w].snap.exp \in Nat
    BY <2>1, FadeFacts DEF Job, Row
  <2>4. ASSUME row[t].status = "live", j.token.cred # row[t].cred
        PROVE  now <= rotation[t].at + (PauseMax + HttpMax + Life - Skew - 1)
    <3>1. FadeRow(job[w].snap, t)
      BY <2>1, <2>4, FadeFacts DEF FadeJob, Lag
    <3>2. job[w].snap.exp <= rotation[t].at + PauseMax + HttpMax + Life
      BY <2>1, <2>2, <2>4, <3>1 DEF FadeRow, IsTokenValid
    <3> QED
      BY <2>1, <2>3, <3>2, FadeFacts DEF IsTokenValid
  <2>5. FadeJob(j)
    BY <2>2, <2>4 DEF FadeJob, CredOf, Lag
  <2>6. job' = [job EXCEPT ![w] = j] /\ UNCHANGED env
    BY <1>3 DEF ServeCached
  <2> HIDE DEF j
  <2> QED
    BY <2>2, <2>5, <2>6, JobOnlyFade DEF env
<1>4. CASE RefreshToken(w)
  <2> DEFINE j == [job[w] EXCEPT !.pc = "posting", !.since = now]
  <2>1. job[w].pc = "check"
    BY <1>4 DEF RefreshToken
  <2>2. /\ j.pc = "posting" /\ j.tenant = t /\ t \in Tenant /\ j.since = now
        /\ j.snap = job[w].snap /\ j.wire = NULL
    BY <2>1, FadeFacts DEF Job, AgeInv
  <2>3. ASSUME row[t].status = "live", j.snap.cred # row[t].cred
        PROVE  now <= rotation[t].at + PauseMax
    <3>1. job[w].since <= rotation[t].at
      BY <2>1, <2>2, <2>3, FadeFacts DEF FadeJob, CredOf, Lag
    <3> QED
      BY <2>1, <3>1, FadeFacts DEF ActiveInv, Patience
  <2>4. FadeJob(j)
    BY <2>2, <2>3 DEF FadeJob, CredOf, Lag
  <2>5. (job' = [job EXCEPT ![w] = j] \/ Finish(w)) /\ UNCHANGED env
    BY <1>4 DEF RefreshToken, Goto
  <2> HIDE DEF j
  <2> QED
    BY <2>2, <2>4, <2>5, JobOnlyFade, FinishFade DEF env
<1>5. CASE PlatformMints(w)
  <2> DEFINE x == [of |-> t, cred |-> job[w].snap.cred, born |-> now]
             j == [job[w] EXCEPT !.wire = x]
  <2>1. job[w].pc = "posting"
    BY <1>5 DEF PlatformMints
  <2>2. /\ j.pc = "posting" /\ j.tenant = t /\ t \in Tenant
        /\ j.since = job[w].since /\ j.snap = job[w].snap
        /\ j.wire.cred = job[w].snap.cred
    BY <2>1, FadeFacts DEF Job
  <2>3. FadeJob(j)
    BY <2>1, <2>2, FadeFacts DEF FadeJob, CredOf, Lag
  <2>4. job' = [job EXCEPT ![w] = j] /\ UNCHANGED env
    BY <1>5 DEF PlatformMints
  <2> HIDE DEF j
  <2> QED
    BY <2>2, <2>3, <2>4, JobOnlyFade DEF env
<1>6. CASE ReceiveToken(w)
  <2> PICK e \in {Expiry(w), NoExpiry} :
        job' = [job EXCEPT ![w].pc = "saving", ![w].since = now,
                           ![w].token = job[w].wire, ![w].exp = e,
                           ![w].wire = NULL, ![w].snap = BlankRow]
    BY <1>6 DEF ReceiveToken
  <2> DEFINE j == [job[w] EXCEPT !.pc = "saving", !.since = now,
                                 !.token = job[w].wire, !.exp = e,
                                 !.wire = NULL, !.snap = BlankRow]
  <2>1. job[w].pc = "posting" /\ job[w].wire # NULL
    BY <1>6 DEF ReceiveToken
  <2>2. /\ j.pc = "saving" /\ j.tenant = t /\ t \in Tenant /\ j.since = now
        /\ j.token = job[w].wire
    BY <2>1, FadeFacts DEF Job
  <2>3. ASSUME row[t].status = "live", j.token.cred # row[t].cred
        PROVE  now <= rotation[t].at + (PauseMax + HttpMax)
    <3>1. job[w].since <= rotation[t].at + PauseMax
      BY <2>1, <2>2, <2>3, FadeFacts DEF FadeJob, CredOf, Lag
    <3> QED
      BY <2>1, <3>1, FadeFacts DEF ActiveInv, Patience
  <2>4. FadeJob(j)
    BY <2>2, <2>3 DEF FadeJob, CredOf, Lag
  <2>5. job' = [job EXCEPT ![w] = j] /\ UNCHANGED env
    BY <1>6 DEF ReceiveToken
  <2> HIDE DEF j
  <2> QED
    BY <2>2, <2>4, <2>5, JobOnlyFade DEF env
<1>7. CASE SaveTokenBundle(w)
  <2> DEFINE j == [job[w] EXCEPT !.pc = "ready", !.since = now,
                                 !.exp = NoExpiry]
             r == [row[t] EXCEPT !.token = job[w].token, !.exp = job[w].exp,
                                 !.auth = "authorized"]
  <2>1. job[w].pc = "saving"
    BY <1>7 DEF SaveTokenBundle
  <2>2. /\ j.pc = "ready" /\ j.tenant = t /\ t \in Tenant /\ j.since = now
        /\ j.token = job[w].token
    BY <2>1, FadeFacts DEF Job
  <2>3. ASSUME row[t].status = "live", job[w].token.cred # row[t].cred
        PROVE  job[w].since <= rotation[t].at + (PauseMax + HttpMax)
    BY <2>1, <2>3, FadeFacts DEF FadeJob, CredOf, Lag
  <2>4. ASSUME row[t].status = "live", j.token.cred # row[t].cred
        PROVE  now <= rotation[t].at + (PauseMax + HttpMax + Life - Skew - 1)
    <3>1. job[w].since <= rotation[t].at + (PauseMax + HttpMax)
      BY <2>2, <2>3, <2>4
    <3> QED
      BY <2>1, <3>1, FadeFacts DEF ActiveInv, Patience
  <2>5. FadeJob(j)
    BY <2>2, <2>4 DEF FadeJob, CredOf, Lag
  <2>6. /\ r.cred = row[t].cred /\ r.status = row[t].status
        /\ r.token = job[w].token /\ r.exp = job[w].exp
    BY <2>1, FadeFacts DEF Row
  <2>7. row[t].status = "live" => FadeRow(r, t)
    <3>1. job[w].exp \in {NoExpiry, job[w].since + Life}
      BY <2>1, FadeFacts DEF AgeInv
    <3> QED
      BY <2>1, <2>3, <2>6, <3>1, FadeFacts DEF FadeRow
  <2>8. /\ row' = IF row[t].status = "live" THEN [row EXCEPT ![t] = r] ELSE row
        /\ job' = [job EXCEPT ![w] = j] /\ now' = now /\ rotation' = rotation
    BY <1>7 DEF SaveTokenBundle, Saved
  <2> HIDE DEF j, r
  <2>9. \A s \in Tenant : /\ row'[s].cred = row[s].cred
                          /\ row'[s].status = row[s].status
                          /\ row[s].status = "live" => FadeRow(row'[s], s)
    <3> SUFFICES ASSUME NEW s \in Tenant
                 PROVE  /\ row'[s].cred = row[s].cred
                        /\ row'[s].status = row[s].status
                        /\ row[s].status = "live" => FadeRow(row'[s], s)
      OBVIOUS
    <3>1. row'[s] = row[s] \/ (s = t /\ row'[s] = r)
      BY <2>2, <2>8 DEF Inv, TypeOK
    <3> QED
      BY <2>6, <2>7, <3>1 DEF FadeInv
  <2> QED
    BY <2>2, <2>5, <2>8, <2>9, JobStepFade
<1>8. CASE SendQuery(w)
  <2> DEFINE j == [job[w] EXCEPT !.pc = "using", !.since = now]
  <2>1. job[w].pc = "ready"
    BY <1>8 DEF SendQuery
  <2>2. /\ j.pc = "using" /\ j.tenant = t /\ t \in Tenant /\ j.since = now
        /\ j.token = job[w].token
    BY <2>1, FadeFacts DEF Job
  <2>3. ASSUME row[t].status = "live", j.token.cred # row[t].cred
        PROVE  now <= rotation[t].at
                        + (PauseMax + HttpMax + Life - Skew - 1 + PauseMax)
    <3>1. job[w].since <= rotation[t].at
                            + (PauseMax + HttpMax + Life - Skew - 1)
      BY <2>1, <2>2, <2>3, FadeFacts DEF FadeJob, CredOf, Lag
    <3> QED
      BY <2>1, <3>1, FadeFacts DEF ActiveInv, Patience
  <2>4. FadeJob(j)
    BY <2>2, <2>3 DEF FadeJob, CredOf, Lag
  <2>5. (job' = [job EXCEPT ![w] = j] \/ Finish(w)) /\ UNCHANGED env
    BY <1>8 DEF SendQuery, Goto
  <2> HIDE DEF j
  <2> QED
    BY <2>2, <2>4, <2>5, JobOnlyFade, FinishFade DEF env
<1>9. CASE RefreshFails(w) \/ SaveFails(w) \/ QueryReturns(w) \/ QueryRejected(w)
  <2>1. Finish(w) /\ now' = now /\ rotation' = rotation /\ row' = row
    BY <1>9 DEF RefreshFails, SaveFails, QueryReturns, QueryRejected, env
  <2> QED
    BY <2>1, FinishFade
<1> QED
  BY <1>1, <1>2, <1>3, <1>4, <1>5, <1>6, <1>7, <1>8, <1>9 DEF WorkerStep

-----------------------------------------------------------------------------
(* The administrator, the platform and the clock.                          *)

\* New credentials: whatever is old from now on has been held until now.
LEMMA UpdateFade ==
  ASSUME Inv, FadeInv, NEW t \in Tenant, NEW S \in Forms,
         UpdateCredentials(t, S)
  PROVE  FadeInv'
<1> USE ConstantsAssumption, SkewAssumption
<1>1. /\ job' = job /\ now' = now /\ now \in Nat
      /\ row' = [row EXCEPT ![t].cred = row'[t].cred]
      /\ rotation' = [rotation EXCEPT ![t] = rotation'[t]]
      /\ rotation'[t].at = now
      /\ row \in [Tenant -> Row] /\ rotation \in [Tenant -> [count: Nat, at: Nat]]
  BY DEF UpdateCredentials, Stamp, Inv, TypeOK
<1>2. ASSUME NEW s \in Tenant, s # t
      PROVE  row'[s] = row[s] /\ rotation'[s] = rotation[s]
  BY <1>1, <1>2
<1>3. /\ row'[t].status = row[t].status /\ row'[t].token = row[t].token
      /\ row'[t].exp = row[t].exp /\ row[t].exp \in Nat
  BY <1>1 DEF Row
<1>4. ASSUME NEW s \in Tenant
      PROVE  /\ rotation'[s].at <= now'
             /\ row'[s].status = "live" => FadeRow(row[s], s)'
  <2>1. CASE s = t
    <3>1. row[t].exp # NoExpiry => row[t].exp <= now + Life
      BY DEF Inv, ExpiryInv
    <3> QED
      BY <1>1, <1>3, <2>1, <3>1 DEF FadeRow
  <2>2. CASE s # t
    BY <1>1, <1>2, <2>2 DEF FadeInv, FadeRow
  <2> QED
    BY <2>1, <2>2
<1>5. ASSUME NEW w \in Worker PROVE FadeJob(job[w])'
  <2>1. CASE job[w].pc = "idle"
    BY <1>1, <2>1 DEF FadeJob, Lag
  <2>2. CASE job[w].pc # "idle" /\ job[w].tenant = t
    <3>1. job[w].since <= now /\ job[w].since \in Nat
      BY <2>2, FadeFacts DEF ActiveInv
    <3>2. ASSUME job[w].pc = "check" PROVE FadeRow(job[w].snap, t)'
      <4>1. job[w].snap.exp # NoExpiry => job[w].snap.exp <= now + Life
        BY <2>2, <3>2, FadeFacts DEF AgeInv, ExpiryInv
      <4>2. job[w].snap.exp \in Nat
        BY <2>2, FadeFacts DEF Job, Row
      <4> QED
        BY <1>1, <4>1, <4>2 DEF FadeRow
    <3>3. job[w].pc \in DOMAIN Lag => Lag[job[w].pc] \in Nat
      BY DEF Lag
    <3>4. job[w].pc \in DOMAIN Lag =>
            job[w].since <= rotation'[t].at + Lag[job[w].pc]
      BY <1>1, <3>1, <3>3
    <3>5. job[w].pc = "posting" /\ job[w].wire # NULL /\ row[t].status = "live"
            => job[w].wire.cred = job[w].snap.cred
      BY <2>2, FadeFacts DEF FadeJob, Lag
    <3> QED
      BY <1>1, <1>3, <2>2, <3>2, <3>4, <3>5 DEF FadeJob, CredOf
  <2>3. CASE job[w].pc # "idle" /\ job[w].tenant # t
    <3>1. /\ job[w].tenant \in Tenant
          /\ row'[job[w].tenant] = row[job[w].tenant]
          /\ rotation'[job[w].tenant] = rotation[job[w].tenant]
      BY <1>2, <2>3, FadeFacts
    <3> QED
      BY <1>1, <2>3, <3>1, FadeFacts DEF FadeJob, FadeRow, CredOf
  <2> QED
    BY <2>1, <2>2, <2>3
<1> QED
  BY <1>4, <1>5 DEF FadeInv

\* A new row has no token, and no call is for it yet; a deleted one is not
\* spoken of.
LEMMA LifeFade ==
  ASSUME Inv, FadeInv, NEW t \in Tenant,
         DeleteTenant(t) \/ \E S \in Forms : CreateTenant(t, S)
  PROVE  FadeInv'
<1>1. /\ job' = job /\ now' = now /\ now \in Nat
      /\ \A s \in Tenant : s # t => row'[s] = row[s] /\ rotation'[s] = rotation[s]
      /\ rotation'[t].at <= now
      /\ row'[t].status = "live" => row'[t].token = NULL /\ row[t].status = "none"
  <2>1. /\ now \in Nat /\ row \in [Tenant -> Row]
        /\ rotation \in [Tenant -> [count: Nat, at: Nat]]
        /\ rotation[t].at <= now
    BY DEF FadeInv, Inv, TypeOK
  <2>2. CASE DeleteTenant(t)
    BY <2>1, <2>2 DEF DeleteTenant, BlankRow
  <2>3. CASE \E S \in Forms : CreateTenant(t, S)
    <3>1. PICK S \in Forms : CreateTenant(t, S)
      BY <2>3
    <3>2. Stamp(t) /\ job' = job /\ now' = now /\ row[t].status = "none"
      BY <3>1 DEF CreateTenant
    <3>3. /\ rotation'[t].at = now
          /\ \A s \in Tenant : s # t => rotation'[s] = rotation[s]
      BY <2>1, <3>2 DEF Stamp
    <3>4. /\ row'[t].token = NULL
          /\ \A s \in Tenant : s # t => row'[s] = row[s]
      BY <2>1, <3>1 DEF CreateTenant, BlankRow
    <3> QED
      BY <2>1, <3>2, <3>3, <3>4
  <2> QED
    BY <2>2, <2>3
<1>2. ASSUME NEW s \in Tenant
      PROVE  /\ rotation'[s].at <= now'
             /\ row'[s].status = "live" => FadeRow(row[s], s)'
  BY <1>1 DEF FadeInv, FadeRow
<1>3. ASSUME NEW w \in Worker PROVE FadeJob(job[w])'
  <2>1. CASE job[w].pc = "idle"
    BY <1>1, <2>1 DEF FadeJob, Lag
  <2>2. CASE job[w].pc # "idle" /\ job[w].tenant = t
    <3>1. row[t].status # "none"
      BY <2>2, FadeFacts DEF ActiveInv
    <3> QED
      BY <1>1, <2>2, <3>1 DEF FadeJob
  <2>3. CASE job[w].pc # "idle" /\ job[w].tenant # t
    BY <1>1, <2>3, FadeFacts DEF FadeJob, FadeRow, CredOf
  <2> QED
    BY <2>1, <2>2, <2>3
<1> QED
  BY <1>2, <1>3 DEF FadeInv

\* A step that leaves tokens, expiries and credentials alone.
LEMMA QuietFade ==
  ASSUME Inv, FadeInv, job' = job, rotation' = rotation, now <= now',
         now' \in Nat,
         \A t \in Tenant : /\ row'[t].cred = row[t].cred
                           /\ row'[t].status = row[t].status
                           /\ row'[t].token = row[t].token
                           /\ row'[t].exp = row[t].exp
  PROVE  FadeInv'
<1>1. ASSUME NEW t \in Tenant
      PROVE  /\ rotation'[t].at <= now'
             /\ row'[t].status = "live" => FadeRow(row[t], t)'
  <2>1. rotation[t].at \in Nat /\ rotation[t].at <= now /\ now \in Nat
    BY DEF FadeInv, Inv, TypeOK
  <2> QED
    BY <2>1 DEF FadeInv, FadeRow
<1>2. ASSUME NEW w \in Worker PROVE FadeJob(job[w])'
  <2>1. CASE job[w].pc = "idle"
    BY <2>1 DEF FadeJob, Lag
  <2>2. CASE job[w].pc # "idle"
    BY <2>2, FadeFacts DEF FadeJob, FadeRow, CredOf
  <2> QED
    BY <2>1, <2>2
<1> QED
  BY <1>1, <1>2 DEF FadeInv

LEMMA NextFade == Inv /\ FadeInv /\ [Next]_vars => FadeInv'
<1> SUFFICES ASSUME Inv, FadeInv, [Next]_vars PROVE FadeInv'
  OBVIOUS
<1>0. now \in Nat /\ row \in [Tenant -> Row]
  BY DEF Inv, TypeOK
<1>1. ASSUME NEW t \in Tenant, NEW S \in Forms,
             CreateTenant(t, S) \/ UpdateCredentials(t, S)
      PROVE  FadeInv'
  BY <1>1, LifeFade, UpdateFade
<1>2. ASSUME NEW t \in Tenant, DeleteTenant(t)
      PROVE  FadeInv'
  BY <1>2, LifeFade
<1>3. ASSUME NEW t \in Tenant, NEW b \in BOOLEAN,
             UpdateAppTicket(t) \/ SetEnabled(t, b)
      PROVE  FadeInv'
  BY <1>0, <1>3, QuietFade DEF UpdateAppTicket, SetEnabled, Row
<1>4. ASSUME NEW t \in Tenant, PlatformRevokes(t)
      PROVE  FadeInv'
  BY <1>0, <1>4, QuietFade DEF PlatformRevokes
<1>5. ASSUME NEW w \in Worker,
             WorkerStep(w) \/ PlatformMints(w) \/ \E t \in Tenant : Begin(w, t)
      PROVE  FadeInv'
  BY <1>5, WorkerStepFade
<1>6. CASE Tick \/ UNCHANGED vars
  BY <1>0, <1>6, QuietFade DEF Tick, vars
<1>7. CASE Crash
  <2>1. /\ row' = row /\ rotation' = rotation /\ now' = now
        /\ \A w \in Worker : job'[w] = IdleJob
    BY <1>7 DEF Crash, env
  <2>2. \A t \in Tenant : /\ rotation'[t].at <= now'
                          /\ row'[t].status = "live" => FadeRow(row[t], t)'
    BY <2>1 DEF FadeInv, FadeRow
  <2>3. \A w \in Worker : FadeJob(job[w])'
    BY <2>1 DEF IdleJob, FadeJob, Lag
  <2> QED
    BY <2>2, <2>3 DEF FadeInv
<1> QED
  BY <1>1, <1>2, <1>3, <1>4, <1>5, <1>6, <1>7 DEF Next

-----------------------------------------------------------------------------

(***************************************************************************)
(* The invariant: at each place of a call, how long old credentials last.  *)
(***************************************************************************)
THEOREM FadeInvCorrect == Spec => []FadeInv
<1> QED
  BY InvCorrect, InitFade, NextFade, PTL DEF Spec

(***************************************************************************)
(* Whatever races with a write of a tenant's credentials, no query is      *)
(* under way with a token for older ones once OldCredentialsBound is over. *)
(***************************************************************************)
THEOREM OldCredentialsGone == Spec => []OldCredentialsFade
<1>1. Inv /\ FadeInv => OldCredentialsFade
  <2> USE ConstantsAssumption, SkewAssumption
  <2> SUFFICES ASSUME Inv, FadeInv, NEW w \in Worker, job[w].pc = "using",
                      row[job[w].tenant].status = "live",
                      job[w].token.cred # row[job[w].tenant].cred
               PROVE  now < rotation[job[w].tenant].at + OldCredentialsBound
    BY DEF OldCredentialsFade
  <2>1. job[w].since <= rotation[job[w].tenant].at
                          + (PauseMax + HttpMax + Life - Skew - 1 + PauseMax)
    BY FadeFacts DEF FadeJob, CredOf, Lag
  <2> QED
    BY <2>1, FadeFacts DEF ActiveInv, Patience, OldCredentialsBound
<1> QED
  BY <1>1, InvCorrect, FadeInvCorrect, PTL
=============================================================================
