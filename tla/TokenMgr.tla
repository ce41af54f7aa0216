------------------------------ MODULE TokenMgr ------------------------------
(***************************************************************************)
(* The life of a tenant's accessToken: app/chanjet/token_mgr.py, the       *)
(* columns of the tenants table it works on (app/store.py), and its two    *)
(* callers, which use the token for one business query                     *)
(* (app/mcpsrv/tools.py on the event loop, app/chanjet/conntest.py on a    *)
(* thread of the pool).                                                    *)
(*                                                                         *)
(* Every store function opens, commits and closes its own connection, so   *)
(* each is one atomic step here and everything between two of them may     *)
(* interleave with other workers, with the administrator and with the      *)
(* platform.  Time is an integer clock: a token is good at the platform    *)
(* for Life units from the moment the platform mints it, the service only  *)
(* knows the moment it RECEIVED it, and compares with a clock it reads     *)
(* later still.                                                            *)
(***************************************************************************)
EXTENDS Integers, FiniteSets

CONSTANTS
  Tenant,         \* ids of the tenants table (uuid4: an id is never reused)
  Loop,           \* the worker that runs the async handlers, one at a time
  Pool,           \* threads of the pool that run the sync admin handlers
  NULL,           \* an SQL NULL, a local not yet assigned
  Life,           \* expiresIn of a token, in clock units
  Skew,           \* EXPIRY_SKEW_SECONDS
  HttpMax,        \* longest wait inside one HTTP exchange (client._TIMEOUT)
  PauseMax,       \* longest wait between two steps (sqlite busy timeout)
  Forms,          \* the sets of credential fields a form is sent with
  MaxTime,        \* bound of the clock
  MaxVersion,     \* bound on the writes of a tenant's credentials
  MaxRevocations  \* bound on the tokens the platform withdraws early

Column == {"app_key", "app_secret", "certificate"}
Worker == {Loop} \cup Pool

(***************************************************************************)
(* A credential column holds the number of the write that set it, 0 for    *)
(* NULL: what matters is whether it is set and which write it comes from.  *)
(***************************************************************************)
Creds == [Column -> Nat]
NoCreds == [c \in Column |-> 0]

(***************************************************************************)
(* A token is what the platform remembers of it: the tenant, the           *)
(* credentials it was minted for, the time.                                *)
(***************************************************************************)
Token == [of: Tenant, cred: Creds, born: Nat]

(***************************************************************************)
(* The columns of a row of tenants that a token depends on.  exp is        *)
(* token_expires_at; NoExpiry stands for NULL (expiresIn was absent).      *)
(***************************************************************************)
NoExpiry == 0
Row == [status: {"none", "live", "deleted"}, enabled: BOOLEAN, cred: Creds,
        ticket: BOOLEAN, token: Token \cup {NULL}, exp: Nat,
        auth: {"pending", "authorized"}]
BlankRow == [status |-> "none", enabled |-> TRUE, cred |-> NoCreds,
             ticket |-> FALSE, token |-> NULL, exp |-> NoExpiry,
             auth |-> "pending"]

(***************************************************************************)
(* What one worker holds while it serves a call: where it stands and since *)
(* when, the tenant, whether the row its CALLER read, whose app_key and    *)
(* app_secret the query will carry, has them (ctx), the row                *)
(* ensure_access_token read (snap), the platform's answer on the wire, and *)
(* the token with the expiry computed for it.                              *)
(***************************************************************************)
Place == {"idle", "ensure", "check", "posting", "saving", "ready", "using"}
Job == [pc: Place, since: Nat, tenant: Tenant \cup {NULL}, ctx: BOOLEAN,
        snap: Row, wire: Token \cup {NULL}, token: Token \cup {NULL}, exp: Nat]
IdleJob == [pc |-> "idle", since |-> 0, tenant |-> NULL, ctx |-> FALSE,
            snap |-> BlankRow, wire |-> NULL, token |-> NULL, exp |-> NoExpiry]

ASSUME ConstantsAssumption ==
  /\ Life \in Nat /\ Skew \in Nat /\ HttpMax \in Nat /\ PauseMax \in Nat
  /\ MaxTime \in Nat /\ MaxVersion \in Nat /\ MaxRevocations \in Nat
  /\ Forms \subseteq SUBSET Column
  /\ NULL \notin Token

(***************************************************************************)
(* The skew is there to outlast one exchange that is already under way     *)
(* plus the pause before it, after the expiry was overestimated by the     *)
(* length of the exchange that brought the token.  Code: 600 s against     *)
(* timeouts of 5 to 15 s; a token lives about six days.                    *)
(***************************************************************************)
ASSUME SkewAssumption ==
  /\ Skew >= PauseMax + 2 * HttpMax
  /\ Life > Skew + PauseMax

VARIABLES
  now,        \* the clock
  row,        \* the tenants table
  job,        \* what each worker is doing
  rotation,   \* history: number and time of the last write of credentials
  revoked,    \* platform: tokens withdrawn before their time
  rejected    \* history: tokens a business query was refused for

vars == <<now, row, job, rotation, revoked, rejected>>
env == <<now, row, rotation, revoked, rejected>>

\* A call is for a tenant, and it goes on from ensure_access_token with a
\* token, never with None.
JobOK(j) ==
  /\ j.pc # "idle" => j.tenant \in Tenant
  /\ j.pc \in {"saving", "ready", "using"} <=> j.token # NULL

TypeOK ==
  /\ now \in Nat
  /\ row \in [Tenant -> Row]
  /\ job \in [Worker -> Job]
  /\ rotation \in [Tenant -> [count: Nat, at: Nat]]
  /\ revoked \subseteq Token
  /\ rejected \subseteq Token
  /\ \A w \in Worker : JobOK(job[w])

Init ==
  /\ now = 0
  /\ row = [t \in Tenant |-> BlankRow]
  /\ job = [w \in Worker |-> IdleJob]
  /\ rotation = [t \in Tenant |-> [count |-> 0, at |-> 0]]
  /\ revoked = {}
  /\ rejected = {}

-----------------------------------------------------------------------------
(* The administrator and the platform's pushes: one UPDATE each.           *)

Written(c, S, v) == [k \in Column |-> IF k \in S THEN v ELSE c[k]]

\* Counts the write: rotation[t] is read by properties only.
Stamp(t) ==
  rotation' = [rotation EXCEPT ![t] = [count |-> @.count + 1, at |-> now]]

CreateTenant(t, S) ==
  /\ row[t].status = "none"
  /\ row' = [row EXCEPT ![t] = [BlankRow EXCEPT !.status = "live",
                                     !.cred = Written(NoCreds, S, 1)]]
  /\ Stamp(t)
  /\ UNCHANGED <<now, job, revoked, rejected>>

\* The form leaves out empty fields, so a column is never set back to NULL,
\* and the cached token is left as it is.
UpdateCredentials(t, S) ==
  /\ row[t].status = "live"
  /\ S # {}
  /\ rotation[t].count < MaxVersion
  /\ row' = [row EXCEPT ![t].cred = Written(@, S, rotation[t].count + 1)]
  /\ Stamp(t)
  /\ UNCHANGED <<now, job, revoked, rejected>>

UpdateAppTicket(t) ==
  /\ row[t].status = "live"
  /\ row' = [row EXCEPT ![t].ticket = TRUE]
  /\ UNCHANGED <<now, job, rotation, revoked, rejected>>

\* store.set_tenant_enabled: no route calls it, an operator's script may.
SetEnabled(t, b) ==
  /\ row[t].status = "live"
  /\ row' = [row EXCEPT ![t].enabled = b]
  /\ UNCHANGED <<now, job, rotation, revoked, rejected>>

DeleteTenant(t) ==
  /\ row[t].status = "live"
  /\ row' = [row EXCEPT ![t] = [BlankRow EXCEPT !.status = "deleted"]]
  /\ UNCHANGED <<now, job, rotation, revoked, rejected>>

-----------------------------------------------------------------------------
(* A worker's steps.                                                       *)

Goto(w, place) ==
  job' = [job EXCEPT ![w].pc = place, ![w].since = now]

Finish(w) == job' = [job EXCEPT ![w] = IdleJob]

HasApp(c) == c["app_key"] # 0 /\ c["app_secret"] # 0
CanRefresh(r) == HasApp(r.cred) /\ r.cred["certificate"] # 0 /\ r.ticket

ValidNoSkew(r) == r.token # NULL /\ r.exp # NoExpiry /\ r.exp - now > 0

IsTokenValid(r) ==
  /\ r.token # NULL
  /\ r.exp # NoExpiry
  /\ r.exp - now > Skew

(***************************************************************************)
(* The caller reads the row for the app_key and app_secret of the query's  *)
(* headers.  The connection test, on a pool thread, goes on only if that   *)
(* row is enabled and complete; a tool call goes on with whatever it read. *)
(***************************************************************************)
Begin(w, t) ==
  /\ job[w].pc = "idle"
  /\ row[t].status = "live"
  /\ w \in Pool => row[t].enabled /\ CanRefresh(row[t])
  /\ job' = [job EXCEPT ![w].pc = "ensure", ![w].since = now,
                        ![w].tenant = t, ![w].ctx = HasApp(row[t].cred)]
  /\ UNCHANGED env

\* The same, with the row read again by ensure_access_token.
ReadTenant(w) ==
  /\ job[w].pc = "ensure"
  /\ LET r == row[job[w].tenant] IN
       IF r.status = "live" /\ r.enabled
       THEN job' = [job EXCEPT ![w].pc = "check", ![w].since = now,
                               ![w].snap = r]
       ELSE Finish(w)     \* TENANT_NOT_FOUND, TENANT_DISABLED
  /\ UNCHANGED env

ServeCached(w) ==
  /\ job[w].pc = "check"
  /\ IsTokenValid(job[w].snap)
  /\ job' = [job EXCEPT ![w].pc = "ready", ![w].since = now,
                        ![w].token = job[w].snap.token, ![w].snap = BlankRow]
  /\ UNCHANGED env

\* generateToken is sent if nothing is missing; otherwise one of
\* MISSING_APP_CREDENTIALS, MISSING_CERTIFICATE, MISSING_APP_TICKET.
RefreshToken(w) ==
  /\ job[w].pc = "check"
  /\ ~IsTokenValid(job[w].snap)
  /\ IF CanRefresh(job[w].snap) THEN Goto(w, "posting") ELSE Finish(w)
  /\ UNCHANGED env

\* The platform mints a token for the request it has received.
PlatformMints(w) ==
  /\ job[w].pc = "posting"
  /\ job[w].wire = NULL
  /\ job' = [job EXCEPT ![w].wire = [of |-> job[w].tenant,
                                     cred |-> job[w].snap.cred,
                                     born |-> now]]
  /\ UNCHANGED env

FailsOnlyIfAnswered(w) ==
  /\ job[w].pc = "posting"
  /\ job[w].wire # NULL
  /\ Finish(w)
  /\ UNCHANGED env

\* result=false, no accessToken in the answer, or an httpx error: a token
\* minted meanwhile is lost.
RefreshFails(w) ==
  /\ job[w].pc = "posting"
  /\ Finish(w)
  /\ UNCHANGED env

ExpiryFromRequest(w) == job[w].since + Life

\* _expiry: the lifetime counts from the clock read after the answer came.
Expiry(w) == now + Life

ReceiveUnchecked(w) ==
  /\ job[w].pc = "posting"
  /\ \E e \in {Expiry(w), NoExpiry} :
       job' = [job EXCEPT ![w].pc = "saving", ![w].since = now,
                          ![w].token = job[w].wire, ![w].exp = e,
                          ![w].wire = NULL, ![w].snap = BlankRow]
  /\ UNCHANGED env

ReceiveToken(w) ==
  /\ job[w].pc = "posting"
  /\ job[w].wire # NULL
  /\ \E e \in {Expiry(w), NoExpiry} :
       job' = [job EXCEPT ![w].pc = "saving", ![w].since = now,
                          ![w].token = job[w].wire, ![w].exp = e,
                          ![w].wire = NULL, ![w].snap = BlankRow]
  /\ UNCHANGED env

SavedEverywhere(w) ==
  [t \in Tenant |-> IF row[t].status = "live"
                    THEN [row[t] EXCEPT !.token = job[w].token,
                                        !.exp = job[w].exp,
                                        !.auth = "authorized"]
                    ELSE row[t]]

SavedUpsert(w) ==
  [row EXCEPT ![job[w].tenant] = [@ EXCEPT !.status = "live",
                                           !.token = job[w].token,
                                           !.exp = job[w].exp,
                                           !.auth = "authorized"]]

\* UPDATE tenants SET ... WHERE id = ?: nothing if the row is gone.
Saved(w) ==
  LET t == job[w].tenant IN
    IF row[t].status = "live"
    THEN [row EXCEPT ![t] = [@ EXCEPT !.token = job[w].token,
                                      !.exp = job[w].exp,
                                      !.auth = "authorized"]]
    ELSE row

SaveTokenBundle(w) ==
  /\ job[w].pc = "saving"
  /\ row' = Saved(w)
  /\ job' = [job EXCEPT ![w].pc = "ready", ![w].since = now,
                        ![w].exp = NoExpiry]
  /\ UNCHANGED <<now, rotation, revoked, rejected>>

\* The database stays locked past its timeout: the exception leaves
\* ensure_access_token and the new token is lost.
SaveFails(w) ==
  /\ job[w].pc = "saving"
  /\ Finish(w)
  /\ UNCHANGED env

\* The business query is sent with app_key and app_secret of the caller's
\* row; without them the call ends in an error.
SendQuery(w) ==
  /\ job[w].pc = "ready"
  /\ IF job[w].ctx THEN Goto(w, "using") ELSE Finish(w)
  /\ UNCHANGED env

\* Rows, an error the token is not the cause of, or a network failure.
QueryReturns(w) ==
  /\ job[w].pc = "using"
  /\ Finish(w)
  /\ UNCHANGED env

\* The platform refuses the token; the error is reported, nothing else.
QueryRejected(w) ==
  /\ job[w].pc = "using"
  /\ job[w].token \in revoked
  /\ rejected' = rejected \cup {job[w].token}
  /\ Finish(w)
  /\ UNCHANGED <<now, row, rotation, revoked>>

WorkerStep(w) ==
  \/ ReadTenant(w) \/ ServeCached(w) \/ RefreshToken(w)
  \/ ReceiveToken(w) \/ RefreshFails(w)
  \/ SaveTokenBundle(w) \/ SaveFails(w)
  \/ SendQuery(w) \/ QueryReturns(w) \/ QueryRejected(w)

-----------------------------------------------------------------------------
(* The platform withdraws a token (the grant is cancelled) and time passes. *)

PlatformRevokes(t) ==
  /\ row[t].token # NULL
  /\ Cardinality(revoked) < MaxRevocations
  /\ revoked' = revoked \cup {row[t].token}
  /\ UNCHANGED <<now, row, job, rotation, rejected>>

Patience(place) == IF place \in {"posting", "using"} THEN HttpMax ELSE PauseMax

Tick ==
  /\ now < MaxTime
  /\ \A w \in Worker :
       job[w].pc # "idle" => now - job[w].since < Patience(job[w].pc)
  /\ now' = now + 1
  /\ UNCHANGED <<row, job, rotation, revoked, rejected>>

\* The process is killed and the container restarted: every call is gone with
\* what it held, the table stays as the last commit left it.
Crash ==
  /\ job' = [w \in Worker |-> IdleJob]
  /\ UNCHANGED env

Next ==
  \/ \E t \in Tenant :
       \/ \E S \in Forms : CreateTenant(t, S) \/ UpdateCredentials(t, S)
       \/ UpdateAppTicket(t)
       \/ \E b \in BOOLEAN : SetEnabled(t, b)
       \/ DeleteTenant(t)
       \/ PlatformRevokes(t)
       \/ \E w \in Worker : Begin(w, t)
  \/ \E w \in Worker : WorkerStep(w) \/ PlatformMints(w)
  \/ Crash
  \/ Tick

Spec == Init /\ [][Next]_vars

(***************************************************************************)
(* A thread that can go on does, and httpx gives up on a silent peer: the  *)
(* steps of each worker are fair.  Calls, forms and the platform are not.  *)
(***************************************************************************)
Fair(w) == WF_vars(WorkerStep(w))

FairSpec == Spec /\ \A w \in Worker : Fair(w)

-----------------------------------------------------------------------------
(* What token_mgr promises.                                                *)

(***************************************************************************)
(* A query is never on its way with a token whose life is over: the skew   *)
(* of _is_token_valid absorbs the answer's travel time (which              *)
(* overestimates the expiry), the pause after the check and the query      *)
(* itself.                                                                 *)
(***************************************************************************)
UsedTokenLive ==
  \A w \in Worker :
    job[w].pc = "using" => now < job[w].token.born + Life

(***************************************************************************)
(* The same and more as one promise, TokenUse: a query starts with a token *)
(* of its own tenant, keeps it while it lasts, and time never runs past    *)
(* the token.  A caller sees nothing else of what goes on in here.         *)
(***************************************************************************)
Held(w) ==
  IF job[w].pc = "using"
  THEN {[for |-> job[w].tenant, of |-> job[w].token.of,
         born |-> job[w].token.born]}
  ELSE {}

Promise == INSTANCE TokenUse WITH held <- [w \in Worker |-> Held(w)]

KeepsPromise == Promise!Spec

(***************************************************************************)
(* The token manager takes the table for Tenants: a call that goes on to   *)
(* the cache or to the platform has found its tenant there and enabled,    *)
(* and no UPDATE of a call makes a row or brings one back.  No code is     *)
(* read here: let each tenant have its own.                                *)
(***************************************************************************)
RowOf(t) == [id |-> t, code |-> t, enabled |-> row[t].enabled]

Serves(w) ==
  IF job[w].pc \in {"idle", "ensure"} THEN {} ELSE {job[w].tenant}

Table ==
  INSTANCE Tenants WITH
    Code <- Tenant,
    rows <- {RowOf(t) : t \in {u \in Tenant : row[u].status = "live"}},
    used <- {t \in Tenant : row[t].status # "none"},
    serving <- [w \in Worker |-> Serves(w)]

KeepsTable == Table!Spec

(***************************************************************************)
(* No tenant's row and no tenant's call ever holds a token minted for      *)
(* another tenant, or one minted without app key, secret or certificate.   *)
(***************************************************************************)
Owned(x, t) ==
  x # NULL => x.of = t /\ HasApp(x.cred) /\ x.cred["certificate"] # 0

OwnToken ==
  /\ \A t \in Tenant : Owned(row[t].token, t)
  /\ \A w \in Worker : Owned(job[w].token, job[w].tenant)

(***************************************************************************)
(* A refresh that outlives its tenant writes nothing: a deleted row stays  *)
(* as it was left, without a token.                                        *)
(***************************************************************************)
NoResurrection ==
  [][\A t \in Tenant : row[t].status = "deleted" => row'[t] = row[t]]_vars

(***************************************************************************)
(* Two workers may refresh the same tenant at once and the older answer    *)
(* may be saved last.  The cached expiry then goes back, but never by more *)
(* than the pause between computing it and saving it.                      *)
(***************************************************************************)
ExpiryRegressionBounded ==
  [][\A t \in Tenant :
       row[t].exp # NoExpiry /\ row'[t].exp # NoExpiry
         => row'[t].exp >= row[t].exp - PauseMax]_vars

(***************************************************************************)
(* New credentials do not clear the cached token, and a refresh begun      *)
(* before the write may still bring a token for the old ones.  A query     *)
(* whose token was minted for older credentials than its tenant's row      *)
(* holds is nevertheless over this long after the last write.              *)
(***************************************************************************)
OldCredentialsBound ==
    (PauseMax + HttpMax)  \* a snapshot read before the write is still posted
  + (Life - Skew)         \* the token it brings is served from the row
  + (PauseMax + HttpMax)  \* and the last call it is served to uses it

OldCredentialsFade ==
  \A w \in Worker :
    LET t == job[w].tenant IN
      /\ job[w].pc = "using"
      /\ row[t].status = "live"
      /\ job[w].token.cred # row[t].cred
      => now < rotation[t].at + OldCredentialsBound

(***************************************************************************)
(* Every call of ensure_access_token and the query after it comes to an    *)
(* end, whether or not the platform answers.                               *)
(***************************************************************************)
CallEnds == \A w \in Worker : job[w].pc # "idle" ~> job[w].pc = "idle"

(***************************************************************************)
(* clear_token is documented for a token that has lost its validity        *)
(* (store.py:256), so a token the platform has refused is not used again:  *)
(* stated where one worker makes all calls, each after the last has ended. *)
(***************************************************************************)
RejectedNotReused ==
  \A w \in Worker : job[w].pc = "using" => job[w].token \notin rejected

=============================================================================
