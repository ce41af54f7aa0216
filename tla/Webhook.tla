------------------------------ MODULE Webhook -------------------------------
(***************************************************************************)
(* The platform's pushes: app/chanjet/webhook.py, the columns of tenants   *)
(* it reads and writes (app/store.py), and the one event loop it shares    *)
(* with the MCP calls (app/mcpsrv/server.py), whose queries block the loop *)
(* while they wait for the platform.                                       *)
(*                                                                         *)
(* A push is a message of an application on the platform, sealed with a    *)
(* message secret.  Which tenant it is for is told by the URL it is posted *)
(* to; whether that tenant can read it, by the value of the secret alone.  *)
(* A delivery is one POST of it; the platform posts it again when no       *)
(* success came in time, so a message may be delivered more than once and  *)
(* after a later one.  The service may be killed at any moment, and an     *)
(* answer may be lost on its way.                                          *)
(***************************************************************************)
EXTENDS Integers

CONSTANTS
  Tenant,    \* ids of tenants rows
  Code,      \* client codes, the last part of the URL
  App,       \* applications on the platform; each rolls a ticket of its own
  Secret,    \* message secrets, by value: nothing keeps two tenants, or a
             \* tenant and its successor under a code, from having the same
  Delivery,  \* POSTs, each used once
  Kind,      \* what messages hold
  NULL,
  AckLimit,  \* how long the platform waits for success (webhook.py: 1 s)
  HoldMax,   \* how long a tool call may block the loop (timeouts: 15 s each)
  BusyMax,   \* how long sqlite waits for a lock before it fails (5 s)
  Interval,  \* least time between two tickets of an application (10 minutes)
  Minute,    \* a minute, in clock units
  Valid,     \* minutes a ticket is shown as fresh for (30)
  MaxTime    \* bound of the clock

(***************************************************************************)
(* What the first look at a decrypted message finds: an APP_TEST, a        *)
(* ticket in bizContent (with or without a code beside it: the ticket is   *)
(* looked for first), a code only, none of these, or JSON that is no       *)
(* object.                                                                 *)
(***************************************************************************)
AllKinds == {"test", "ticket", "code", "other", "garbage"}

ASSUME ConstantsAssumption ==
  /\ Kind \subseteq AllKinds
  /\ AckLimit \in Nat /\ HoldMax \in Nat /\ Interval \in Nat
  /\ BusyMax \in Nat /\ BusyMax <= HoldMax /\ MaxTime \in Nat
  /\ Minute \in Nat \ {0} /\ Valid \in Nat
  /\ NULL \notin Tenant \cup Code \cup Secret \cup Nat

\* A second against ten minutes: a message that was not kept waiting has been
\* handled before the next ticket is issued.
ASSUME IntervalAssumption == AckLimit < Interval

(***************************************************************************)
(* A message: what it holds, when the platform issued it (tickets only:    *)
(* nothing asks it of the others), the application it is of, and the       *)
(* secret that sealed it.                                                  *)
(***************************************************************************)
Message == [kind: Kind, at: Nat, of: App, secret: Secret]

\* secret: msg_secret; ticketAt: ticket_updated_at.
Row == [status: {"none", "live", "deleted"}, code: Code \cup {NULL},
        enabled: BOOLEAN, secret: Secret \cup {NULL},
        ticket: Message \cup {NULL}, ticketAt: Nat,
        authCode: Message \cup {NULL}]
BlankRow == [status |-> "none", code |-> NULL, enabled |-> TRUE,
             secret |-> NULL, ticket |-> NULL, ticketAt |-> 0, authCode |-> NULL]

(***************************************************************************)
(* waiting: for the loop; storing: the handler has read the tenant's row   *)
(* and is in its store call, which may wait for a lock of the database.  A *)
(* reply that is lost is one the platform never takes, whether it was not  *)
(* sent, did not arrive, or came when the platform had given up.           *)
(***************************************************************************)
Post == [pc: {"unused", "waiting", "storing", "done"}, to: Code \cup {NULL},
         message: Message \cup {NULL}, at: Nat, tenant: Tenant \cup {NULL},
         reply: {"none", "success", "unknown tenant", "error", "lost"}]
UnusedPost == [pc |-> "unused", to |-> NULL, message |-> NULL, at |-> 0,
               tenant |-> NULL, reply |-> "none"]

VARIABLES
  now,     \* the clock
  row,     \* the tenants table
  post,    \* deliveries
  held,    \* since when the loop is held by a tool call or a store call, or NULL
  issued,  \* per application, when its last ticket was issued, or NULL
  entered  \* history: the secrets ever entered for a tenant that is there

vars == <<now, row, post, held, issued, entered>>

TypeOK ==
  /\ now \in Nat
  /\ row \in [Tenant -> Row]
  /\ post \in [Delivery -> Post]
  /\ held \in Nat \cup {NULL}
  /\ issued \in [App -> Nat \cup {NULL}]
  /\ entered \in [Tenant -> SUBSET Secret]
  /\ \A t \in Tenant : row[t].status # "live" =>
       row[t] = [BlankRow EXCEPT !.status = row[t].status]
  /\ \A d \in Delivery : post[d].pc = "done" <=> post[d].reply # "none"

Init ==
  /\ now = 0
  /\ row = [t \in Tenant |-> BlankRow]
  /\ post = [d \in Delivery |-> UnusedPost]
  /\ held = NULL
  /\ issued = [a \in App |-> NULL]
  /\ entered = [t \in Tenant |-> {}]

Live(t) == t \in Tenant /\ row[t].status = "live"

LoopFree == held = NULL

-----------------------------------------------------------------------------
(* The administrator, on threads of the pool.                              *)

CreateTenant(t, c) ==
  /\ row[t].status = "none"
  /\ \A u \in Tenant : Live(u) => row[u].code # c
  /\ \E secret \in Secret \cup {NULL} :
       /\ row' = [row EXCEPT ![t] = [BlankRow EXCEPT !.status = "live", !.code = c,
                                                     !.secret = secret]]
       /\ entered' = [entered EXCEPT ![t] = {secret} \ {NULL}]
  /\ UNCHANGED <<now, post, held, issued>>

UpdateSecret(t, secret) ==
  /\ Live(t)
  /\ row' = [row EXCEPT ![t].secret = secret]
  /\ entered' = [entered EXCEPT ![t] = @ \cup {secret}]
  /\ UNCHANGED <<now, post, held, issued>>

\* store.set_tenant_enabled: no route calls it, an operator's script may.
SetEnabled(t, b) ==
  /\ Live(t)
  /\ row' = [row EXCEPT ![t].enabled = b]
  /\ UNCHANGED <<now, post, held, issued, entered>>

DeleteTenant(t) ==
  /\ Live(t)
  /\ row' = [row EXCEPT ![t] = [BlankRow EXCEPT !.status = "deleted"]]
  /\ entered' = [entered EXCEPT ![t] = {}]
  /\ UNCHANGED <<now, post, held, issued>>

-----------------------------------------------------------------------------
(* The platform.  It seals with any secret, entered here or not.           *)

Push(d, a, c, kind, secret) ==
  /\ post[d].pc = "unused"
  /\ kind = "ticket" /\ issued[a] # NULL => now >= issued[a] + Interval
  /\ post' = [post EXCEPT ![d] =
       [UnusedPost EXCEPT !.pc = "waiting", !.to = c, !.at = now,
          !.message = [kind |-> kind, of |-> a, secret |-> secret,
                       at |-> IF kind = "ticket" THEN now ELSE 0]]]
  /\ issued' = [issued EXCEPT ![a] = IF kind = "ticket" THEN now ELSE @]
  /\ UNCHANGED <<now, row, held, entered>>

Overdue(d) ==
  post[d].pc \in {"waiting", "storing"} /\ now - post[d].at > AckLimit

\* No success in time, another answer, or none: the message is posted again.
Retry(d, d0) ==
  /\ post[d].pc = "unused"
  /\ \/ Overdue(d0)
     \/ post[d0].pc = "done" /\ post[d0].reply # "success"
  /\ post' = [post EXCEPT ![d] = [post[d0] EXCEPT !.pc = "waiting", !.at = now,
                                                 !.tenant = NULL, !.reply = "none"]]
  /\ UNCHANGED <<now, row, held, issued, entered>>

-----------------------------------------------------------------------------
(* The event loop.                                                         *)

\* An answered POST keeps its URL and message, which may be posted again.  The
\* platform no longer waits for an answer that is overdue.
Reply(d, answer) ==
  post' = [post EXCEPT ![d].pc = "done", ![d].at = 0, ![d].tenant = NULL,
                       ![d].reply = IF Overdue(d) THEN "lost" ELSE answer]

\* The message is dropped, and still acknowledged.
ReplyError == "error"
ReplyDropped == "success"

\* decrypt_chanjet_message and json.loads, with the row's msg_secret.
Readable(m, t) == m.secret = row[t].secret /\ m.kind # "garbage"

Addressed(d, t) == Live(t) /\ row[t].code = post[d].to /\ row[t].enabled

UnknownTenant(d) ==
  /\ \A t \in Tenant : ~Addressed(d, t)
  /\ Reply(d, "unknown tenant")
  /\ held' = held

\* Nothing to store: a test, another message, one that cannot be read, or a
\* look-up of the tenant that raised.
Acknowledged(d) ==
  /\ \/ Reply(d, ReplyDropped)
     \/ \E t \in Tenant : /\ Addressed(d, t) /\ Readable(post[d].message, t)
                          /\ post[d].message.kind \in {"test", "other"}
                          /\ Reply(d, "success")
  /\ held' = held

StoringBegins(d) ==
  /\ \E t \in Tenant :
       /\ Addressed(d, t) /\ Readable(post[d].message, t)
       /\ post[d].message.kind \in {"ticket", "code"}
       /\ post' = [post EXCEPT ![d].pc = "storing", ![d].tenant = t]
  /\ held' = now

HandleMessage(d) ==
  /\ post[d].pc = "waiting"
  /\ LoopFree
  /\ UnknownTenant(d) \/ Acknowledged(d) \/ StoringBegins(d)
  /\ UNCHANGED <<now, row, issued, entered>>

\* What the message's UPDATE does to the row of a tenant.  The stamp is taken
\* before the connection is opened, so before any wait for a lock.
WithMessage(r, m) ==
  IF m.kind = "ticket" THEN [r EXCEPT !.ticket = m, !.ticketAt = held]
                       ELSE [r EXCEPT !.authCode = m]

WithStamp(r, m) ==
  IF m.kind = "ticket" THEN [r EXCEPT !.ticket = m, !.ticketAt = held]
                       ELSE [r EXCEPT !.authCode = m, !.ticketAt = held]

StoredUpsert(d) ==
  [row EXCEPT ![post[d].tenant] = WithMessage(@, post[d].message)]

StoredByCode(d) ==
  [t \in Tenant |-> IF Live(t) /\ row[t].code = post[d].to
                    THEN WithMessage(row[t], post[d].message) ELSE row[t]]

StoredWithStamp(d) ==
  IF Live(post[d].tenant)
  THEN [row EXCEPT ![post[d].tenant] = WithStamp(@, post[d].message)] ELSE row

\* update_app_ticket, record_pending_auth_code: UPDATE ... WHERE id = ?
Stored(d) ==
  IF Live(post[d].tenant)
  THEN [row EXCEPT ![post[d].tenant] = WithMessage(@, post[d].message)] ELSE row

StoreMessage(d) ==
  /\ post[d].pc = "storing"
  /\ row' = Stored(d)
  /\ Reply(d, "success")
  /\ held' = NULL
  /\ UNCHANGED <<now, issued, entered>>

\* The UPDATE fails, at once (the disk is full) or when sqlite has waited for
\* the lock: receive_message drops the message.
StoreFails(d) ==
  /\ post[d].pc = "storing"
  /\ Reply(d, ReplyDropped)
  /\ held' = NULL
  /\ UNCHANGED <<now, row, issued, entered>>

\* The connection breaks before the platform has the answer.
AnswerLost(d) ==
  /\ post[d].pc = "done"
  /\ post[d].reply = "success"
  /\ Reply(d, "lost")
  /\ UNCHANGED <<now, row, held, issued, entered>>

(***************************************************************************)
(* The process is killed and the container restarted: nothing under way is *)
(* answered.  A store call may have committed before, and the table keeps  *)
(* what was committed.                                                     *)
(***************************************************************************)
Crash ==
  /\ row' \in {row} \cup {Stored(d) : d \in {e \in Delivery : post[e].pc = "storing"}}
  /\ post' = [d \in Delivery |->
                IF post[d].pc \in {"waiting", "storing"}
                THEN [post[d] EXCEPT !.pc = "done", !.reply = "lost",
                                     !.at = 0, !.tenant = NULL]
                ELSE post[d]]
  /\ held' = NULL
  /\ UNCHANGED <<now, issued, entered>>

\* A tool call runs to its end on the loop: generateToken and the query.  A
\* look-up of a tenant that waits for a lock holds the loop the same way, for
\* less long, before HandleMessage takes its result.
CallBegins ==
  /\ LoopFree
  /\ held' = now
  /\ UNCHANGED <<now, row, post, issued, entered>>

CallEnds ==
  /\ ~LoopFree
  /\ \A d \in Delivery : post[d].pc # "storing"
  /\ held' = NULL
  /\ UNCHANGED <<now, row, post, issued, entered>>

\* Time passes while the loop has nothing to do or is held by a call, within
\* the timeouts of the call.
Tick ==
  /\ now < MaxTime
  /\ IF LoopFree THEN \A d \in Delivery : post[d].pc # "waiting"
     ELSE now < held + IF \E d \in Delivery : post[d].pc = "storing"
                       THEN BusyMax ELSE HoldMax
  /\ now' = now + 1
  /\ UNCHANGED <<row, post, held, issued, entered>>

Next ==
  \/ \E t \in Tenant :
       \/ \E c \in Code : CreateTenant(t, c)
       \/ \E secret \in Secret : UpdateSecret(t, secret)
       \/ \E b \in BOOLEAN : SetEnabled(t, b)
       \/ DeleteTenant(t)
  \/ \E d \in Delivery :
       \/ \E a \in App, c \in Code, kind \in Kind, secret \in Secret :
            Push(d, a, c, kind, secret)
       \/ \E d0 \in Delivery : Retry(d, d0)
       \/ HandleMessage(d) \/ StoreMessage(d) \/ StoreFails(d)
       \/ AnswerLost(d)
  \/ CallBegins \/ CallEnds \/ Crash
  \/ Tick

Spec == Init /\ [][Next]_vars

\* The handler that has the loop goes on: a store call returns, and the HTTP
\* exchanges of a tool call come to their timeouts.
LoopGoesOn ==
  CallEnds \/ \E d \in Delivery : StoreMessage(d) \/ StoreFails(d)

HolderFair == WF_vars(LoopGoesOn)

\* asyncio runs what is ready in turn: a request that waits is not passed over
\* for ever while the loop comes free again and again.
Turn(d) == SF_vars(HandleMessage(d))

FairSpec == Spec /\ HolderFair /\ \A d \in Delivery : Turn(d)

-----------------------------------------------------------------------------

(***************************************************************************)
(* A tenant's ticket and authorization code come from messages sealed with *)
(* a secret that was entered for that tenant: also when it is deleted and  *)
(* another one is made with its code while a message is being handled, and *)
(* whatever URL a message was posted to.  So another application's message *)
(* is taken only by a tenant that was given that application's secret.     *)
(***************************************************************************)
OwnMessages ==
  \A t \in Tenant : \A m \in {row[t].ticket, row[t].authCode} \ {NULL} :
    m.secret \in entered[t]

(***************************************************************************)
(* The receiver takes the table for Tenants: what it stores is of a        *)
(* message that came for a tenant that was there and enabled.              *)
(***************************************************************************)
RowOf(t) == [id |-> t, code |-> row[t].code, enabled |-> row[t].enabled]

Serves(d) == IF post[d].pc = "storing" THEN {post[d].tenant} ELSE {}

Table ==
  INSTANCE Tenants WITH
    Worker <- Delivery,
    rows <- {RowOf(t) : t \in {u \in Tenant : Live(u)}},
    used <- {t \in Tenant : row[t].status # "none"},
    serving <- [d \in Delivery |-> Serves(d)]

KeepsTable == Table!Spec

(***************************************************************************)
(* The platform issues an application's tickets Interval apart.  One is    *)
(* replaced by an older one only if the platform missed the acknowledgement *)
(* of the older one and so had reason to post it again: a POST of it was   *)
(* not answered in time, because a call held the loop or because the       *)
(* database was locked, whether it was stored in the end or dropped; or it *)
(* was answered with 404, or the answer was lost.  The code itself keeps   *)
(* no order: it stores what arrives last.  What has to hold is that        *)
(* nothing else brings an old ticket back, above all not a message that    *)
(* was dropped and acknowledged in time.                                   *)
(***************************************************************************)
Unacknowledged(m) ==
  \E d \in Delivery : /\ post[d].message = m
                      /\ Overdue(d) \/ post[d].reply \in {"unknown tenant", "lost"}

OldTicketOnlyByRetry ==
  [][\A t \in Tenant :
       LET old == row[t].ticket
           new == row'[t].ticket
       IN old # NULL /\ new # NULL /\ new # old /\ new.of = old.of =>
            new.at > old.at \/ Unacknowledged(new)]_vars

(***************************************************************************)
(* The detail page (_compute_ticket_info): whole minutes since the ticket  *)
(* was RECEIVED, compared with its validity.  A ticket that the page shows *)
(* as fresh was issued at most its validity, the minute lost in truncation *)
(* and the time a prompt delivery takes ago, unless a POST of it was not   *)
(* acknowledged;                                                           *)
(* no other write of the row, a restart included, makes it look younger.   *)
(***************************************************************************)
TicketInfo(t) ==
  IF row[t].ticket = NULL THEN "none"
  ELSE IF (now - row[t].ticketAt) \div Minute <= Valid THEN "fresh" ELSE "stale"

FreshMeansRecent ==
  \A t \in Tenant :
    TicketInfo(t) = "fresh" =>
      \/ now - row[t].ticket.at <= Valid * Minute + (Minute - 1) + AckLimit
      \/ Unacknowledged(row[t].ticket)

(***************************************************************************)
(* Every POST that has come is done with in the end: handled and answered, *)
(* or cut off by a crash; tool calls that block the loop one after another *)
(* and the other pushes cannot keep it waiting for ever.                   *)
(***************************************************************************)
PushesEnd ==
  \A d \in Delivery :
    post[d].pc \in {"waiting", "storing"} ~> post[d].pc = "done"

(***************************************************************************)
(* The answer the platform asks for is given within its limit              *)
(* (webhook.py:30).                                                        *)
(***************************************************************************)
AckInTime == \A d \in Delivery : ~Overdue(d)

=============================================================================
