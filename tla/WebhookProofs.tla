--------------------------- MODULE WebhookProofs ----------------------------
(***************************************************************************)
(* Theorems about Webhook, for any number of tenants, codes and deliveries *)
(* and any limits with AckLimit < Interval.                                *)
(***************************************************************************)
EXTENDS Webhook, TLAPS

IsTicket(m) == m \in Message /\ m.kind = "ticket"

\* The rows: what they hold of messages was sealed with a secret of theirs, and
\* a ticket came with a delivery and was stamped promptly unless a POST of it
\* was not acknowledged.
RowOK(t) ==
  /\ row[t].ticket # NULL =>
       /\ IsTicket(row[t].ticket) /\ row[t].ticket.secret \in entered[t]
       /\ \E d \in Delivery : post[d].message = row[t].ticket
                              /\ post[d].pc # "unused"
       /\ row[t].ticketAt <= now
       /\ \/ row[t].ticketAt - row[t].ticket.at <= AckLimit
          \/ Unacknowledged(row[t].ticket)
  /\ row[t].authCode # NULL => row[t].authCode.secret \in entered[t]
  /\ row[t].secret # NULL => row[t].secret \in entered[t]

\* A message being stored: its handler has the loop, and has read the row of a
\* tenant that had the message's secret.
StoringOK(d) ==
  LET t == post[d].tenant
  IN /\ t \in Tenant
     /\ row[t].status # "none"
     /\ row[t].status = "live" => post[d].message.secret \in entered[t]
     /\ post[d].message.kind \in {"ticket", "code"}
     /\ held \in Nat /\ held <= now

\* A delivery under way: of a message as issued, or posted again.
PostOK(d) ==
  /\ post[d].pc = "storing" => StoringOK(d)
  /\ post[d].pc # "unused" =>
       LET m == post[d].message IN
         /\ m \in Message
         /\ m.kind = "ticket" =>
              /\ issued[m.of] \in Nat /\ m.at <= issued[m.of]
              /\ post[d].pc \in {"waiting", "storing"} =>
                   /\ post[d].at = m.at \/ Unacknowledged(m)
                   /\ post[d].at <= now

\* At most one message is being stored.
OneHandler ==
  \A d, e \in Delivery :
    post[d].pc = "storing" /\ post[e].pc = "storing" => d = e

\* Two tickets of one application are issued Interval apart.
Apart(m1, m2) ==
  IsTicket(m1) /\ IsTicket(m2) /\ m1.of = m2.of /\ m1 # m2 =>
    m1.at + Interval <= m2.at \/ m2.at + Interval <= m1.at

TicketsApart ==
  \A d, e \in Delivery :
    post[d].pc # "unused" /\ post[e].pc # "unused" =>
      Apart(post[d].message, post[e].message)

IssuedOK == \A a \in App : issued[a] \in Nat => issued[a] <= now

RepliesOK ==
  \A d \in Delivery :
    /\ post[d].reply # "error"
    /\ post[d].pc = "unused" => post[d] = UnusedPost

IInv ==
  /\ TypeOK
  /\ \A t \in Tenant : RowOK(t)
  /\ \A d \in Delivery : PostOK(d)
  /\ OneHandler
  /\ TicketsApart
  /\ IssuedOK
  /\ RepliesOK

-----------------------------------------------------------------------------
(* Arithmetic, and what holds in the initial states.                       *)

LEMMA WholeMinutes ==
  ASSUME NEW n \in Nat, n \div Minute <= Valid
  PROVE  n <= Valid * Minute + (Minute - 1)
<1>0. Minute \in Nat \ {0} /\ Valid \in Nat
  BY ConstantsAssumption
<1> DEFINE q == n \div Minute
           r == n % Minute
<1>1. q \in Int /\ r \in 0..(Minute - 1) /\ n = Minute * q + r
  BY <1>0
<1>2. Minute * q <= Minute * Valid
  BY <1>0, <1>1
<1> QED
  BY <1>0, <1>1, <1>2

LEMMA InitInv == Init => IInv
<1> SUFFICES ASSUME Init PROVE IInv
  OBVIOUS
<1>1. TypeOK
  BY DEF Init, TypeOK, BlankRow, Row, UnusedPost, Post
<1>2. \A t \in Tenant : RowOK(t)
  BY DEF Init, RowOK, BlankRow
<1>3. /\ \A d \in Delivery : PostOK(d)
      /\ OneHandler /\ TicketsApart /\ IssuedOK /\ RepliesOK
  BY ConstantsAssumption DEF Init, PostOK, UnusedPost, OneHandler, TicketsApart,
     IssuedOK, RepliesOK
<1> QED
  BY <1>1, <1>2, <1>3 DEF IInv

-----------------------------------------------------------------------------
(* The administrator's steps.                                              *)

\* They leave deliveries alone.  A row keeps its messages, and the history its
\* secrets, or is blank of messages; no row comes back.
LEMMA RowStepInv ==
  ASSUME IInv, UNCHANGED <<now, post, held, issued>>,
         row' \in [Tenant -> Row], entered' \in [Tenant -> SUBSET Secret],
         \A t \in Tenant :
           /\ row'[t].status # "live" =>
                row'[t] = [BlankRow EXCEPT !.status = row'[t].status]
           /\ \/ /\ row'[t].status = row[t].status
                 /\ row'[t].ticket = row[t].ticket
                 /\ row'[t].ticketAt = row[t].ticketAt
                 /\ row'[t].authCode = row[t].authCode
                 /\ entered[t] \subseteq entered'[t]
              \/ /\ row'[t].ticket = NULL /\ row'[t].authCode = NULL
                 /\ \/ row[t].status = "none" /\ row'[t].status = "live"
                    \/ row'[t].status = "deleted"
           /\ row'[t].secret # NULL => row'[t].secret \in entered'[t]
  PROVE  IInv'
<1>1. TypeOK'
  BY DEF IInv, TypeOK
<1>2. \A m : Unacknowledged(m)' <=> Unacknowledged(m)
  BY DEF Unacknowledged, Overdue
<1>3. \A t \in Tenant : RowOK(t)'
  BY <1>2 DEF IInv, RowOK, IsTicket
<1>4. ASSUME NEW d \in Delivery PROVE PostOK(d)'
  <2>1. post[d].pc = "storing" => StoringOK(d)'
    BY DEF IInv, PostOK, StoringOK
  <2> QED
    BY <1>2, <2>1 DEF IInv, PostOK
<1>5. OneHandler' /\ TicketsApart' /\ IssuedOK' /\ RepliesOK'
  BY DEF IInv, OneHandler, TicketsApart, IssuedOK, RepliesOK
<1> QED
  BY <1>1, <1>3, <1>4, <1>5 DEF IInv

AdminStep ==
  \E t \in Tenant :
    \/ \E c \in Code : CreateTenant(t, c)
    \/ \E secret \in Secret : UpdateSecret(t, secret)
    \/ \E b \in BOOLEAN : SetEnabled(t, b)
    \/ DeleteTenant(t)

LEMMA AdminInv == ASSUME IInv, AdminStep PROVE IInv'
<1>0. /\ row \in [Tenant -> Row] /\ BlankRow \in Row
      /\ entered \in [Tenant -> SUBSET Secret]
      /\ \A t \in Tenant : row[t].status # "live" =>
           row[t] = [BlankRow EXCEPT !.status = row[t].status]
      /\ \A t \in Tenant : row[t].secret # NULL => row[t].secret \in entered[t]
  BY ConstantsAssumption DEF IInv, TypeOK, RowOK, BlankRow, Row
<1>1. ASSUME NEW t \in Tenant, NEW c \in Code, CreateTenant(t, c) PROVE IInv'
  <2>1. PICK secret \in Secret \cup {NULL} :
          /\ row' = [row EXCEPT ![t] = [BlankRow EXCEPT !.status = "live",
                                          !.code = c, !.secret = secret]]
          /\ entered' = [entered EXCEPT ![t] = {secret} \ {NULL}]
    BY <1>1 DEF CreateTenant
  <2> DEFINE r == [BlankRow EXCEPT !.status = "live", !.code = c,
                                   !.secret = secret]
  <2>2. /\ r \in Row /\ r.status = "live" /\ r.secret = secret
        /\ r.ticket = NULL /\ r.authCode = NULL
    <3>1. BlankRow.ticket = NULL /\ BlankRow.authCode = NULL
      BY DEF BlankRow
    <3>2. BlankRow \in Row /\ secret \in Secret \cup {NULL}
      BY <1>0
    <3>3. r \in Row
      BY <3>2 DEF Row
    <3>4. r.ticket = BlankRow.ticket /\ r.authCode = BlankRow.authCode
      BY <3>2 DEF Row
    <3>5. r.status = "live" /\ r.secret = secret
      BY <3>2 DEF Row
    <3> QED
      BY <3>1, <3>3, <3>4, <3>5
  <2> HIDE DEF r
  <2>3. /\ row' \in [Tenant -> Row] /\ row'[t] = r
        /\ \A u \in Tenant \ {t} : row'[u] = row[u]
    BY <1>0, <2>1, <2>2 DEF r
  <2>4. /\ entered' \in [Tenant -> SUBSET Secret]
        /\ entered'[t] = {secret} \ {NULL}
        /\ \A u \in Tenant \ {t} : entered'[u] = entered[u]
    BY <1>0, <2>1
  <2> QED
    BY <1>0, <1>1, <2>2, <2>3, <2>4, RowStepInv DEF CreateTenant
<1>2. ASSUME NEW t \in Tenant, NEW secret \in Secret, UpdateSecret(t, secret)
      PROVE  IInv'
  <2>1. /\ row' \in [Tenant -> Row] /\ row'[t].status = row[t].status
        /\ row[t].status = "live" /\ row'[t].secret = secret
        /\ row'[t].ticket = row[t].ticket /\ row'[t].authCode = row[t].authCode
        /\ row'[t].ticketAt = row[t].ticketAt
        /\ \A u \in Tenant \ {t} : row'[u] = row[u]
    BY <1>0, <1>2 DEF UpdateSecret, Live, Row
  <2>2. /\ entered' \in [Tenant -> SUBSET Secret]
        /\ entered'[t] = entered[t] \cup {secret}
        /\ \A u \in Tenant \ {t} : entered'[u] = entered[u]
    BY <1>0, <1>2 DEF UpdateSecret
  <2> QED
    BY <1>0, <1>2, <2>1, <2>2, RowStepInv DEF UpdateSecret
<1>3. ASSUME NEW t \in Tenant, NEW b \in BOOLEAN, SetEnabled(t, b) PROVE IInv'
  <2>1. /\ row' \in [Tenant -> Row] /\ row'[t].status = row[t].status
        /\ row[t].status = "live" /\ row'[t].secret = row[t].secret
        /\ row'[t].ticket = row[t].ticket /\ row'[t].authCode = row[t].authCode
        /\ row'[t].ticketAt = row[t].ticketAt
        /\ \A u \in Tenant \ {t} : row'[u] = row[u]
    BY <1>0, <1>3 DEF SetEnabled, Live, Row
  <2> QED
    BY <1>0, <1>3, <2>1, RowStepInv DEF SetEnabled
<1>4. ASSUME NEW t \in Tenant, DeleteTenant(t) PROVE IInv'
  <2>1. /\ row' \in [Tenant -> Row]
        /\ row'[t] = [BlankRow EXCEPT !.status = "deleted"]
        /\ \A u \in Tenant \ {t} : row'[u] = row[u]
    BY <1>0, <1>4 DEF DeleteTenant, BlankRow, Row
  <2>2. /\ row'[t] = [BlankRow EXCEPT !.status = row'[t].status]
        /\ row'[t].ticket = NULL /\ row'[t].authCode = NULL
        /\ row'[t].status = "deleted" /\ row'[t].secret = NULL
    BY <2>1 DEF BlankRow
  <2>3. /\ entered' \in [Tenant -> SUBSET Secret]
        /\ \A u \in Tenant \ {t} : entered'[u] = entered[u]
    BY <1>0, <1>4 DEF DeleteTenant
  <2> QED
    BY <1>0, <1>4, <2>1, <2>2, <2>3, RowStepInv DEF DeleteTenant
<1> QED
  BY <1>1, <1>2, <1>3, <1>4 DEF AdminStep

-----------------------------------------------------------------------------
(* The platform's steps.                                                   *)

LEMMA PushInv ==
  ASSUME IInv, NEW d \in Delivery, NEW a \in App, NEW c \in Code,
         NEW kind \in Kind, NEW secret \in Secret, Push(d, a, c, kind, secret)
  PROVE  IInv'
<1>0. /\ TypeOK /\ post[d].pc = "unused" /\ post[d] = UnusedPost
      /\ UNCHANGED <<now, row, held, entered>>
      /\ now \in Nat /\ Interval \in Nat /\ AckLimit \in Nat
  BY ConstantsAssumption DEF IInv, TypeOK, Push, RepliesOK
<1> DEFINE m == [kind |-> kind, of |-> a, secret |-> secret,
                 at |-> IF kind = "ticket" THEN now ELSE 0]
<1>1. post' = [post EXCEPT ![d] =
        [UnusedPost EXCEPT !.pc = "waiting", !.to = c, !.at = now, !.message = m]]
  BY DEF Push
<1>2. m \in Message
  BY <1>0 DEF Message
<1>3. /\ post' \in [Delivery -> Post]
      /\ \A e \in Delivery \ {d} : post'[e] = post[e]
      /\ post'[d].pc = "waiting" /\ post'[d].message = m /\ post'[d].at = now
      /\ post'[d].reply = "none" /\ post'[d].tenant = NULL
  BY <1>0, <1>1, <1>2 DEF UnusedPost, Post, TypeOK
<1>4. /\ issued' \in [App -> Nat \cup {NULL}]
      /\ \A b \in App \ {a} : issued'[b] = issued[b]
      /\ issued'[a] = IF kind = "ticket" THEN now ELSE issued[a]
  BY <1>0 DEF Push, TypeOK
<1>5. TypeOK'
  BY <1>0, <1>3, <1>4 DEF TypeOK
<1>6. \A n : Unacknowledged(n) => Unacknowledged(n)'
  <2>1. ASSUME NEW e \in Delivery,
               Overdue(e) \/ post[e].reply \in {"unknown tenant", "lost"}
        PROVE  post'[e] = post[e]
    <3>1. post[d].reply = "none" /\ ~Overdue(d)
      BY <1>0 DEF UnusedPost, Overdue
    <3> QED
      BY <1>3, <2>1, <3>1
  <2> HIDE DEF m
  <2> QED
    BY <1>0, <2>1 DEF Unacknowledged, Overdue
<1>7. \A u \in Tenant : RowOK(u)'
  BY <1>0, <1>3, <1>6 DEF IInv, RowOK, IsTicket
<1>8. \A b \in App :
        issued[b] \in Nat => issued'[b] \in Nat /\ issued[b] <= issued'[b]
  BY <1>0, <1>4 DEF IInv, IssuedOK
<1>9. PostOK(d)'
  BY <1>0, <1>2, <1>3, <1>4 DEF PostOK, Message
<1>10. ASSUME NEW e \in Delivery \ {d} PROVE PostOK(e)'
  <2>1. PostOK(e) /\ post'[e] = post[e]
    BY <1>3 DEF IInv
  <2>2. post[e].pc = "storing" => StoringOK(e)'
    BY <1>0, <2>1 DEF PostOK, StoringOK
  <2> QED
    BY <1>0, <1>4, <1>6, <1>8, <2>1, <2>2 DEF PostOK, Message
<1>11. ASSUME NEW e \in Delivery \ {d}, post[e].pc # "unused"
       PROVE  Apart(m, post[e].message) /\ Apart(post[e].message, m)
  <2> DEFINE n == post[e].message
  <2>1. CASE IsTicket(m) /\ IsTicket(n) /\ n.of = a
    <3>1. issued[a] \in Nat /\ n.at <= issued[a] /\ n.at \in Nat
      BY <1>11, <2>1 DEF IInv, PostOK, IsTicket, Message
    <3>2. kind = "ticket" /\ m.at = now
      BY <2>1 DEF IsTicket
    <3>3. now >= issued[a] + Interval
      BY <3>1, <3>2, ConstantsAssumption DEF Push
    <3> QED
      BY <1>0, <3>1, <3>2, <3>3 DEF Apart
  <2>2. CASE ~(IsTicket(m) /\ IsTicket(n) /\ n.of = a)
    BY <2>2 DEF Apart
  <2> QED
    BY <2>1, <2>2
<1>12. TicketsApart'
  <2> HIDE DEF m
  <2>1. Apart(m, m)
    BY DEF Apart
  <2> QED
    BY <1>3, <1>11, <2>1 DEF IInv, TicketsApart, Apart, IsTicket
<1>13. OneHandler' /\ IssuedOK' /\ RepliesOK'
  BY <1>0, <1>3, <1>4 DEF IInv, OneHandler, IssuedOK, RepliesOK
<1> QED
  BY <1>5, <1>7, <1>9, <1>10, <1>12, <1>13 DEF IInv

\* What a step of deliveries leaves of them: messages are never forgotten,
\* none comes from nowhere, and a missed acknowledgement stays one.
PostsKept ==
  /\ post' \in [Delivery -> Post]
  /\ \A d \in Delivery :
       /\ post[d].pc # "unused" => /\ post'[d].pc # "unused"
                                   /\ post'[d].message = post[d].message
       /\ post[d].reply \in {"unknown tenant", "lost"} =>
            post'[d].reply = post[d].reply
       /\ Overdue(d) => Overdue(d)' \/ post'[d].reply = "lost"
       /\ post'[d].pc # "unused" =>
            \E e \in Delivery : /\ post[e].pc # "unused"
                                /\ post[e].message = post'[d].message
       /\ post'[d].pc = "unused" => post'[d] = post[d]
       /\ post'[d].pc = "done" <=> post'[d].reply # "none"
       /\ post'[d].reply # "error"

RowsTyped ==
  /\ row \in [Tenant -> Row]
  /\ \A t \in Tenant : row[t].status # "live" =>
       row[t] = [BlankRow EXCEPT !.status = row[t].status]

LEMMA UnackedKept ==
  ASSUME IInv, PostsKept
  PROVE  \A m : Unacknowledged(m) => Unacknowledged(m)'
<1>1. ASSUME NEW m, NEW d \in Delivery, post[d].message = m,
             Overdue(d) \/ post[d].reply \in {"unknown tenant", "lost"}
      PROVE  /\ post'[d].message = m
             /\ Overdue(d)' \/ post'[d].reply \in {"unknown tenant", "lost"}
  <2>1. post[d].pc # "unused"
    <3>1. post[d].pc = "unused" => post[d].reply = "none"
      BY DEF IInv, RepliesOK, UnusedPost
    <3> QED
      BY <1>1, <3>1 DEF Overdue
  <2> QED
    BY <1>1, <2>1 DEF PostsKept
<1> QED
  BY <1>1 DEF Unacknowledged

LEMMA PostStepInv ==
  ASSUME IInv, PostsKept, UNCHANGED <<now, issued, entered>>,
         held' \in Nat \cup {NULL}, RowsTyped', OneHandler',
         \A t \in Tenant : row'[t] = row[t] \/ RowOK(t)',
         \A t \in Tenant : row'[t].status = row[t].status,
         \A d \in Delivery :
           \/ post'[d] = post[d] /\ (post[d].pc = "storing" => held' = held)
           \/ PostOK(d)'
  PROVE  IInv'
<1>1. TypeOK'
  BY DEF IInv, TypeOK, PostsKept, RowsTyped
<1>2. ASSUME NEW t \in Tenant, row'[t] = row[t] PROVE RowOK(t)'
  <2>1. RowOK(t)
    BY DEF IInv
  <2>2. CASE row[t].ticket # NULL
    <3>1. PICK d \in Delivery : /\ post[d].message = row[t].ticket
                                /\ post[d].pc # "unused"
      BY <2>1, <2>2 DEF RowOK
    <3>2. post'[d].message = row'[t].ticket /\ post'[d].pc # "unused"
      BY <1>2, <3>1 DEF PostsKept
    <3> QED
      BY <1>2, <2>1, <2>2, <3>2, UnackedKept DEF RowOK, IsTicket
  <2>3. CASE row[t].ticket = NULL
    BY <1>2, <2>1, <2>3 DEF RowOK
  <2> QED
    BY <2>2, <2>3
<1>3. ASSUME NEW d \in Delivery, post'[d] = post[d],
             post[d].pc = "storing" => held' = held
      PROVE  PostOK(d)'
  <2>1. PostOK(d)
    BY DEF IInv
  <2>2. post[d].pc = "storing" => StoringOK(d)'
    BY <1>3, <2>1 DEF PostOK, StoringOK
  <2> QED
    BY <1>3, <2>1, <2>2, UnackedKept DEF PostOK
<1>4. TicketsApart'
  <2>1. ASSUME NEW d \in Delivery, NEW e \in Delivery,
               post'[d].pc # "unused", post'[e].pc # "unused"
        PROVE  Apart(post'[d].message, post'[e].message)
    <3>1. PICK d1 \in Delivery : /\ post[d1].pc # "unused"
                                 /\ post[d1].message = post'[d].message
      BY <2>1 DEF PostsKept
    <3>2. PICK e1 \in Delivery : /\ post[e1].pc # "unused"
                                 /\ post[e1].message = post'[e].message
      BY <2>1 DEF PostsKept
    <3>3. Apart(post[d1].message, post[e1].message)
      BY <3>1, <3>2 DEF IInv, TicketsApart
    <3> QED
      BY <3>1, <3>2, <3>3
  <2> QED
    BY <2>1 DEF TicketsApart, Apart, IsTicket
<1>5. IssuedOK' /\ RepliesOK'
  BY DEF IInv, IssuedOK, RepliesOK, PostsKept
<1> QED
  BY <1>1, <1>2, <1>3, <1>4, <1>5 DEF IInv

LEMMA RowsStay == ASSUME IInv, row' = row PROVE RowsTyped'
BY DEF IInv, TypeOK, RowsTyped

LEMMA RetryInv ==
  ASSUME IInv, NEW d \in Delivery, NEW d0 \in Delivery, Retry(d, d0)
  PROVE  IInv'
<1>0. /\ post \in [Delivery -> Post] /\ post[d].pc = "unused"
      /\ UNCHANGED <<now, row, held, issued, entered>>
      /\ held \in Nat \cup {NULL} /\ now \in Nat /\ AckLimit \in Nat
  BY ConstantsAssumption DEF IInv, TypeOK, Retry
<1>1. post[d0].pc # "unused" /\ d0 # d
  BY <1>0 DEF Retry, Overdue
<1>2. /\ post' \in [Delivery -> Post]
      /\ \A e \in Delivery \ {d} : post'[e] = post[e]
      /\ post'[d].pc = "waiting" /\ post'[d].at = now
      /\ post'[d].message = post[d0].message /\ post'[d].reply = "none"
  BY <1>0 DEF Retry, Post
<1>3. PostsKept
  <2>1. ~Overdue(d) /\ \A e \in Delivery \ {d} : Overdue(e)' = Overdue(e)
    BY <1>0, <1>2 DEF Overdue
  <2> QED
    BY <1>0, <1>1, <1>2, <2>1 DEF PostsKept, IInv, TypeOK, RepliesOK, UnusedPost
<1>4. ASSUME post[d0].message.kind = "ticket"
      PROVE  Unacknowledged(post[d0].message)
  <2>1. post[d0].reply # "error" /\ post[d0].reply \in
          {"none", "success", "unknown tenant", "error", "lost"}
    BY <1>0 DEF IInv, RepliesOK, Post
  <2>2. CASE Overdue(d0)
    BY <2>2 DEF Unacknowledged
  <2>3. CASE post[d0].pc = "done" /\ post[d0].reply # "success"
    BY <2>1, <2>3 DEF IInv, TypeOK, Unacknowledged
  <2> QED
    BY <2>2, <2>3 DEF Retry
<1>5. PostOK(d)'
  <2>1. PostOK(d0)
    BY DEF IInv
  <2> QED
    BY <1>0, <1>1, <1>2, <1>3, <1>4, <2>1, UnackedKept DEF PostOK
<1>6. OneHandler'
  BY <1>2 DEF IInv, OneHandler
<1> QED
  BY <1>0, <1>2, <1>3, <1>5, <1>6, RowsStay, PostStepInv

\* An answer, or none: the delivery is over.
LEMMA AnsweredInv ==
  ASSUME IInv, NEW d \in Delivery,
         NEW answer \in {"success", "unknown tenant", "lost"},
         Reply(d, answer), post[d].pc # "unused",
         post[d].reply \notin {"unknown tenant", "lost"},
         UNCHANGED <<now, issued, entered>>
  PROVE  /\ PostsKept /\ PostOK(d)' /\ OneHandler'
         /\ \A e \in Delivery \ {d} : post'[e] = post[e]
<1>0. post \in [Delivery -> Post] /\ PostOK(d)
  BY DEF IInv, TypeOK
<1> DEFINE said == IF Overdue(d) THEN "lost" ELSE answer
           p == [post[d] EXCEPT !.pc = "done", !.at = 0, !.tenant = NULL,
                                !.reply = said]
<1>s. said \in {"success", "unknown tenant", "lost"}
  OBVIOUS
<1>o. Overdue(d) => said = "lost"
  OBVIOUS
<1>a. post' = [post EXCEPT ![d] = p]
  BY <1>0 DEF Reply
<1> HIDE DEF said
<1>b. /\ p \in Post /\ p.pc = "done" /\ p.message = post[d].message
      /\ p.reply = said
  BY <1>0, <1>s DEF Post
<1> HIDE DEF p
<1>1. /\ post' \in [Delivery -> Post]
      /\ \A e \in Delivery \ {d} : post'[e] = post[e]
      /\ post'[d].pc = "done" /\ post'[d].message = post[d].message
      /\ post'[d].reply = said
  BY <1>0, <1>a, <1>b
<1>2. PostsKept
  <2>1. \A e \in Delivery \ {d} : Overdue(e)' = Overdue(e)
    BY <1>1 DEF Overdue
  <2> QED
    BY <1>0, <1>s, <1>o, <1>1, <2>1 DEF PostsKept, IInv, TypeOK, RepliesOK
<1>3. OneHandler'
  BY <1>1 DEF IInv, OneHandler
<1>4. PostOK(d)'
  BY <1>0, <1>1 DEF PostOK
<1> QED
  BY <1>1, <1>2, <1>3, <1>4

LEMMA HandleInv ==
  ASSUME IInv, NEW d \in Delivery, HandleMessage(d)
  PROVE  IInv'
<1>0. /\ post \in [Delivery -> Post] /\ post[d].pc = "waiting" /\ PostOK(d)
      /\ UNCHANGED <<now, row, issued, entered>> /\ now \in Nat
      /\ held \in Nat \cup {NULL} /\ held = NULL /\ post[d].reply = "none"
  BY DEF IInv, TypeOK, HandleMessage, LoopFree
<1>1. ASSUME NEW answer \in {"success", "unknown tenant"}, Reply(d, answer),
             held' = held
      PROVE  IInv'
  BY <1>0, <1>1, AnsweredInv, RowsStay, PostStepInv
<1>2. ASSUME NEW t \in Tenant, Addressed(d, t), Readable(post[d].message, t),
             post[d].message.kind \in {"ticket", "code"}, held' = now,
             post' = [post EXCEPT ![d].pc = "storing", ![d].tenant = t]
      PROVE  IInv'
  <2>1. /\ post' \in [Delivery -> Post]
        /\ \A e \in Delivery \ {d} : post'[e] = post[e]
        /\ post'[d].pc = "storing" /\ post'[d].tenant = t
        /\ post'[d].message = post[d].message /\ post'[d].at = post[d].at
        /\ post'[d].reply = "none"
    BY <1>0, <1>2 DEF Post
  <2>2. PostsKept
    <3>1. \A e \in Delivery : Overdue(e) => Overdue(e)'
      BY <1>0, <2>1 DEF Overdue
    <3> QED
      BY <1>0, <2>1, <3>1 DEF PostsKept, IInv, TypeOK, RepliesOK
  <2>3. StoringOK(d)'
    <3>1. row[t].status = "live"
      BY <1>2 DEF Addressed, Live
    <3>2. post[d].message \in Message
      BY <1>0 DEF PostOK
    <3>3. post[d].message.secret \in entered[t]
      BY <1>2, <3>2, ConstantsAssumption DEF Readable, Message, IInv, RowOK
    <3> QED
      BY <1>0, <1>2, <2>1, <3>1, <3>3 DEF StoringOK
  <2>4. PostOK(d)'
    BY <1>0, <2>1, <2>2, <2>3, UnackedKept DEF PostOK
  <2>5. \A e \in Delivery : post[e].pc # "storing"
    BY <1>0, ConstantsAssumption DEF IInv, PostOK, StoringOK
  <2>6. OneHandler'
    BY <2>1, <2>5 DEF OneHandler
  <2> QED
    BY <1>0, <1>2, <2>1, <2>2, <2>4, <2>5, <2>6, RowsStay, PostStepInv
<1> QED
  BY <1>1, <1>2 DEF HandleMessage, UnknownTenant, Acknowledged, StoringBegins,
     ReplyDropped

\* What an UPDATE that commits makes of the rows.
LEMMA StoredInv ==
  ASSUME IInv, NEW d \in Delivery, post[d].pc = "storing", row' = Stored(d),
         PostsKept, UNCHANGED <<now, entered>>
  PROVE  /\ RowsTyped' /\ \A t \in Tenant : row'[t] = row[t] \/ RowOK(t)'
         /\ \A t \in Tenant : row'[t].status = row[t].status
<1>m. PICK t \in Tenant, m \in Message :
        t = post[d].tenant /\ m = post[d].message
  BY DEF IInv, PostOK, StoringOK
<1>0. /\ row \in [Tenant -> Row] /\ now \in Nat /\ AckLimit \in Nat
      /\ PostOK(d) /\ m.kind \in {"ticket", "code"} /\ RowOK(t)
      /\ held \in Nat /\ held <= now
  BY <1>m, ConstantsAssumption DEF IInv, TypeOK, PostOK, StoringOK
<1>1. CASE ~Live(t)
  BY <1>m, <1>1, RowsStay DEF Stored
<1>2. CASE Live(t)
  <2>1. /\ row' = [row EXCEPT ![t] = WithMessage(row[t], m)]
        /\ row[t].status = "live" /\ m.secret \in entered[t]
    BY <1>m, <1>0, <1>2 DEF Stored, Live, PostOK, StoringOK
  <2> DEFINE w == WithMessage(row[t], m)
  <2>2. w \in Row /\ w.status = "live"
    <3>1. CASE m.kind = "ticket"
      <4>1. w = [row[t] EXCEPT !.ticket = m, !.ticketAt = held]
        BY <3>1 DEF WithMessage
      <4>2. row[t] \in Row /\ row[t].status = "live"
        BY <1>0, <2>1
      <4> HIDE DEF w
      <4>3. w \in Row
        BY <1>0, <4>1, <4>2 DEF Row
      <4>4. w.status = "live"
        BY <4>1, <4>2 DEF Row
      <4> QED
        BY <4>3, <4>4
    <3>2. CASE m.kind # "ticket"
      BY <1>0, <2>1, <3>2 DEF WithMessage, Row
    <3> QED
      BY <3>1, <3>2
  <2>3. /\ row'[t] = WithMessage(row[t], m)
        /\ \A u \in Tenant \ {t} : row'[u] = row[u]
        /\ row' \in [Tenant -> Row]
    BY <1>0, <2>1, <2>2
  <2>4. RowsTyped' /\ \A u \in Tenant : row'[u].status = row[u].status
    BY <2>1, <2>2, <2>3 DEF RowsTyped, IInv, TypeOK
  <2>5. RowOK(t)'
    <3>1. CASE m.kind = "ticket"
      <4>1. /\ row'[t].ticket = m /\ row'[t].ticketAt = held
            /\ row'[t].authCode = row[t].authCode
            /\ row'[t].secret = row[t].secret
        BY <1>0, <2>3, <3>1 DEF WithMessage, Row
      <4>2. post'[d].message = m /\ post'[d].pc # "unused"
        BY <1>m DEF PostsKept
      <4>3. held - m.at <= AckLimit \/ Unacknowledged(m)
        <5>1. post[d].at = m.at \/ Unacknowledged(m)
          BY <1>m, <1>0, <3>1 DEF PostOK
        <5>2. now - post[d].at > AckLimit => Unacknowledged(m)
          BY <1>m DEF Unacknowledged, Overdue
        <5>3. m.at \in Nat
          BY DEF Message
        <5>4. post[d].at \in Nat
          BY DEF IInv, TypeOK, Post
        <5> QED
          BY <1>0, <5>1, <5>2, <5>3, <5>4
      <4> QED
        BY <1>0, <2>1, <3>1, <4>1, <4>2, <4>3, UnackedKept DEF RowOK, IsTicket
    <3>2. CASE m.kind = "code"
      <4>1. /\ row'[t].ticket = row[t].ticket
            /\ row'[t].ticketAt = row[t].ticketAt /\ row'[t].authCode = m
            /\ row'[t].secret = row[t].secret
        BY <1>0, <2>3, <3>2 DEF WithMessage, Row
      <4>2. CASE row[t].ticket # NULL
        <5>1. PICK e \in Delivery : /\ post[e].message = row[t].ticket
                                    /\ post[e].pc # "unused"
          BY <1>0, <4>2 DEF RowOK
        <5>2. post'[e].message = row'[t].ticket /\ post'[e].pc # "unused"
          BY <4>1, <5>1 DEF PostsKept
        <5> QED
          BY <1>0, <2>1, <4>1, <4>2, <5>2, UnackedKept DEF RowOK, IsTicket
      <4>3. CASE row[t].ticket = NULL
        BY <1>0, <2>1, <4>1, <4>3 DEF RowOK
      <4> QED
        BY <4>2, <4>3
    <3> QED
      BY <1>0, <3>1, <3>2
  <2> QED
    BY <2>3, <2>4, <2>5
<1> QED
  BY <1>1, <1>2

LEMMA StoreInv ==
  ASSUME IInv, NEW d \in Delivery, StoreMessage(d) \/ StoreFails(d)
  PROVE  IInv'
<1>0. /\ post[d].pc = "storing" /\ post[d].reply = "none"
      /\ UNCHANGED <<now, issued, entered>> /\ held' = NULL
      /\ Reply(d, "success")
      /\ row' = row \/ row' = Stored(d)
  BY DEF IInv, TypeOK, StoreMessage, StoreFails, ReplyDropped
<1>1. /\ PostsKept /\ PostOK(d)' /\ OneHandler'
      /\ \A e \in Delivery \ {d} : post'[e] = post[e]
  BY <1>0, AnsweredInv
<1>2. \A e \in Delivery \ {d} : post[e].pc # "storing"
  BY <1>0 DEF IInv, OneHandler
<1>3. CASE row' = row
  BY <1>0, <1>1, <1>2, <1>3, RowsStay, PostStepInv
<1>4. CASE row' = Stored(d)
  BY <1>0, <1>1, <1>2, <1>4, StoredInv, PostStepInv
<1> QED
  BY <1>0, <1>3, <1>4

LEMMA AnswerLostInv ==
  ASSUME IInv, NEW d \in Delivery, AnswerLost(d)
  PROVE  IInv'
<1>0. /\ post[d].pc = "done" /\ post[d].reply = "success"
      /\ UNCHANGED <<now, row, held, issued, entered>> /\ Reply(d, "lost")
      /\ held \in Nat \cup {NULL}
  BY DEF AnswerLost, IInv, TypeOK
<1>1. /\ PostsKept /\ PostOK(d)' /\ OneHandler'
      /\ \A e \in Delivery \ {d} : post'[e] = post[e]
  BY <1>0, AnsweredInv
<1> QED
  BY <1>0, <1>1, RowsStay, PostStepInv

LEMMA CrashInv == ASSUME IInv, Crash PROVE IInv'
<1>0. /\ post \in [Delivery -> Post] /\ held' = NULL
      /\ UNCHANGED <<now, issued, entered>>
  BY DEF IInv, TypeOK, Crash
<1>1. ASSUME NEW d \in Delivery
      PROVE  /\ post'[d] \in Post /\ post'[d].message = post[d].message
             /\ IF post[d].pc \in {"waiting", "storing"}
                THEN post'[d].pc = "done" /\ post'[d].reply = "lost"
                ELSE post'[d] = post[d]
  <2>1. CASE post[d].pc \in {"waiting", "storing"}
    <3> DEFINE p == [post[d] EXCEPT !.pc = "done", !.reply = "lost", !.at = 0,
                                    !.tenant = NULL]
    <3>1. post'[d] = p
      BY <2>1 DEF Crash
    <3>2. /\ p \in Post /\ p.pc = "done" /\ p.message = post[d].message
          /\ p.reply = "lost"
      BY <1>0 DEF Post
    <3> QED
      BY <2>1, <3>1, <3>2
  <2>2. CASE post[d].pc \notin {"waiting", "storing"}
    BY <1>0, <2>2 DEF Crash
  <2> QED
    BY <2>1, <2>2
<1>2. post' \in [Delivery -> Post]
  <2>1. \E f : post' = [d \in Delivery |-> f[d]]
    <3> DEFINE f == [d \in Delivery |->
                IF post[d].pc \in {"waiting", "storing"}
                THEN [post[d] EXCEPT !.pc = "done", !.reply = "lost",
                                     !.at = 0, !.tenant = NULL]
                ELSE post[d]]
    <3>1. post' = f /\ f = [d \in Delivery |-> f[d]]
      BY DEF Crash
    <3> HIDE DEF f
    <3> QED
      BY <3>1
  <2> QED
    BY <1>1, <2>1
<1>3. PostsKept
  <2>1. \A d \in Delivery : Overdue(d) => post'[d].reply = "lost"
    BY <1>1 DEF Overdue
  <2> QED
    BY <1>1, <1>2, <2>1 DEF PostsKept, IInv, TypeOK, RepliesOK
<1>4. \A d \in Delivery : post'[d].pc # "storing"
  BY <1>1
<1>5. \A d \in Delivery :
        (post'[d] = post[d] /\ post[d].pc # "storing") \/ PostOK(d)'
  BY <1>0, <1>1 DEF PostOK, IInv
<1>6. OneHandler'
  BY <1>4 DEF OneHandler
<1>7. CASE row' = row
  BY <1>0, <1>3, <1>5, <1>6, <1>7, RowsStay, PostStepInv
<1>8. ASSUME NEW d \in Delivery, post[d].pc = "storing", row' = Stored(d)
      PROVE  IInv'
  BY <1>0, <1>3, <1>5, <1>6, <1>8, StoredInv, PostStepInv
<1> QED
  BY <1>7, <1>8 DEF Crash

-----------------------------------------------------------------------------
(* The loop and the clock.                                                 *)

LEMMA CallInv == ASSUME IInv, CallBegins \/ CallEnds PROVE IInv'
<1>1. /\ UNCHANGED <<now, row, post, issued, entered>>
      /\ held' \in Nat \cup {NULL}
  BY DEF IInv, TypeOK, CallBegins, CallEnds
<1>2. \A d \in Delivery : post[d].pc # "storing"
  BY ConstantsAssumption DEF IInv, PostOK, StoringOK, CallBegins, LoopFree,
     CallEnds
<1>3. PostsKept
  BY <1>1 DEF PostsKept, Overdue, IInv, TypeOK, RepliesOK
<1>4. OneHandler'
  BY <1>1, <1>2 DEF OneHandler
<1> QED
  BY <1>1, <1>2, <1>3, <1>4, RowsStay, PostStepInv

LEMMA TickInv == ASSUME IInv, Tick PROVE IInv'
<1>0. /\ UNCHANGED <<row, post, held, issued, entered>>
      /\ now' = now + 1 /\ now \in Nat /\ AckLimit \in Nat
      /\ post \in [Delivery -> Post] /\ row \in [Tenant -> Row]
  BY ConstantsAssumption DEF IInv, TypeOK, Tick
<1>1. TypeOK'
  BY <1>0 DEF IInv, TypeOK
<1>2. \A m : Unacknowledged(m) => Unacknowledged(m)'
  <2>1. ASSUME NEW d \in Delivery, Overdue(d) PROVE Overdue(d)'
    <3>1. post[d].at \in Nat
      BY <1>0 DEF Post
    <3> QED
      BY <1>0, <2>1, <3>1 DEF Overdue
  <2> QED
    BY <1>0, <2>1 DEF Unacknowledged
<1>3. \A t \in Tenant : RowOK(t)'
  BY <1>0, <1>2 DEF IInv, RowOK, IsTicket, Row
<1>4. ASSUME NEW d \in Delivery PROVE PostOK(d)'
  <2>1. post[d].at \in Nat /\ PostOK(d)
    BY <1>0 DEF IInv, Post
  <2>2. post[d].pc = "storing" => StoringOK(d)'
    BY <1>0, <2>1 DEF PostOK, StoringOK
  <2> QED
    BY <1>0, <1>2, <2>1, <2>2 DEF PostOK
<1>5. OneHandler' /\ TicketsApart' /\ IssuedOK' /\ RepliesOK'
  BY <1>0 DEF IInv, OneHandler, TicketsApart, IssuedOK, RepliesOK
<1> QED
  BY <1>1, <1>3, <1>4, <1>5 DEF IInv

LEMMA NextInv == ASSUME IInv, [Next]_vars PROVE IInv'
<1>1. CASE UNCHANGED vars
  <2>1. PostsKept
    BY <1>1 DEF PostsKept, Overdue, IInv, TypeOK, RepliesOK, vars
  <2>2. OneHandler' /\ held' \in Nat \cup {NULL}
    BY <1>1 DEF IInv, TypeOK, OneHandler, vars
  <2> QED
    BY <1>1, <2>1, <2>2, RowsStay, PostStepInv DEF vars
<1>2. CASE AdminStep
  BY <1>2, AdminInv
<1>3. ASSUME NEW d \in Delivery, NEW a \in App, NEW c \in Code,
             NEW kind \in Kind, NEW secret \in Secret,
             Push(d, a, c, kind, secret)
      PROVE  IInv'
  BY <1>3, PushInv
<1>4. ASSUME NEW d \in Delivery, NEW d0 \in Delivery, Retry(d, d0)
      PROVE  IInv'
  BY <1>4, RetryInv
<1>5. ASSUME NEW d \in Delivery,
             HandleMessage(d) \/ StoreMessage(d) \/ StoreFails(d) \/ AnswerLost(d)
      PROVE  IInv'
  BY <1>5, HandleInv, StoreInv, AnswerLostInv
<1>6. CASE CallBegins \/ CallEnds \/ Crash \/ Tick
  BY <1>6, CallInv, CrashInv, TickInv
<1> QED
  BY <1>1, <1>2, <1>3, <1>4, <1>5, <1>6 DEF Next, AdminStep

-----------------------------------------------------------------------------

(***************************************************************************)
(* The inductive invariant holds: a delivery under way is of a message as  *)
(* it was issued or was posted again for cause, and tickets that differ    *)
(* were issued Interval apart.                                             *)
(***************************************************************************)
THEOREM InvCorrect == Spec => []IInv
<1>1. IInv /\ [Next]_vars => IInv'
  BY NextInv
<1> QED
  BY InitInv, <1>1, PTL DEF Spec

(***************************************************************************)
(* Types of the rows, deliveries and the clock.                            *)
(***************************************************************************)
THEOREM TypeCorrect == Spec => []TypeOK
<1>1. IInv => TypeOK
  BY DEF IInv
<1> QED
  BY InvCorrect, <1>1, PTL

(***************************************************************************)
(* What a tenant stores was sealed with a secret that was entered for it,  *)
(* however tenants with other secrets succeed each other under its code    *)
(* while the message is handled.                                           *)
(***************************************************************************)
THEOREM MessagesStayHome == Spec => []OwnMessages
<1>1. IInv => OwnMessages
  BY DEF IInv, RowOK, OwnMessages
<1> QED
  BY InvCorrect, <1>1, PTL

(***************************************************************************)
(* What the detail page calls fresh is as recent as the page can know, for *)
(* every validity, minute and limit.                                       *)
(***************************************************************************)
THEOREM FreshIsRecent == Spec => []FreshMeansRecent
<1>1. ASSUME IInv, NEW t \in Tenant, TicketInfo(t) = "fresh",
             ~Unacknowledged(row[t].ticket)
      PROVE  now - row[t].ticket.at <= Valid * Minute + (Minute - 1) + AckLimit
  <2>1. row[t].ticket # NULL /\ (now - row[t].ticketAt) \div Minute <= Valid
    BY <1>1 DEF TicketInfo
  <2>2. /\ row[t].ticketAt \in Nat /\ now \in Nat /\ row[t].ticketAt <= now
        /\ row[t].ticketAt - row[t].ticket.at <= AckLimit
        /\ row[t].ticket.at \in Nat
    BY <1>1, <2>1 DEF IInv, TypeOK, RowOK, Row, IsTicket, Message
  <2>3. now - row[t].ticketAt \in Nat
    BY <2>2
  <2>4. now - row[t].ticketAt <= Valid * Minute + (Minute - 1)
    BY <2>1, <2>3, WholeMinutes
  <2>5. Valid * Minute \in Nat /\ Minute \in Nat /\ AckLimit \in Nat
    BY ConstantsAssumption
  <2> QED
    BY <2>2, <2>4, <2>5
<1>2. IInv => FreshMeansRecent
  BY <1>1 DEF FreshMeansRecent
<1> QED
  BY InvCorrect, <1>2, PTL

\* A promptly delivered ticket that is stored is newer than the stored one.
LEMMA NewerTicket ==
  ASSUME IInv, NEW d \in Delivery, post[d].pc = "storing", row' = Stored(d),
         NEW t \in Tenant, row[t].ticket # NULL, row'[t].ticket # NULL,
         row'[t].ticket # row[t].ticket, row'[t].ticket.of = row[t].ticket.of
  PROVE  row'[t].ticket.at > row[t].ticket.at \/ Unacknowledged(row'[t].ticket)
<1>m. PICK m : m = post[d].message
  OBVIOUS
<1>0. /\ row \in [Tenant -> Row] /\ m \in Message
      /\ now \in Nat /\ PostOK(d) /\ AckLimit \in Nat /\ Interval \in Nat
      /\ post[d].at \in Nat
  BY <1>m, ConstantsAssumption DEF IInv, TypeOK, PostOK, Post
<1>1. row'[t].ticket = m /\ m.kind = "ticket"
  <2>1. Live(post[d].tenant)
    BY DEF Stored
  <2>2. /\ \A u \in Tenant : u # post[d].tenant => row'[u] = row[u]
        /\ row'[post[d].tenant] = WithMessage(row[post[d].tenant], m)
    BY <1>m, <1>0, <2>1 DEF Stored, Live
  <2>3. t = post[d].tenant
    BY <2>2
  <2>4. m.kind = "ticket"
    BY <1>0, <2>2, <2>3 DEF WithMessage, Row
  <2> QED
    BY <1>0, <2>2, <2>3, <2>4 DEF WithMessage, Row
<1>2. PICK e \in Delivery : /\ post[e].message = row[t].ticket
                            /\ post[e].pc # "unused"
  BY DEF IInv, RowOK
<1>3. PICK old \in Message : old = row[t].ticket
  BY DEF IInv, RowOK, IsTicket
<1>4. IsTicket(m) /\ IsTicket(old) /\ old.of = m.of
  BY <1>0, <1>1, <1>3 DEF IInv, RowOK, IsTicket
<1>5. m.at + Interval <= old.at \/ old.at + Interval <= m.at
  BY <1>m, <1>1, <1>2, <1>3, <1>4 DEF IInv, TicketsApart, Apart
<1>6. old.at <= now
  BY <1>2, <1>3, <1>4, <1>0 DEF IInv, PostOK, IssuedOK, IsTicket, Message
<1>7. now - post[d].at > AckLimit => Unacknowledged(m)
  BY <1>m DEF Unacknowledged, Overdue
<1>8. now - m.at <= AckLimit \/ Unacknowledged(m)
  BY <1>m, <1>0, <1>1, <1>7 DEF PostOK, Message
<1>9. m.at \in Nat /\ old.at \in Nat /\ AckLimit < Interval
  BY <1>0, IntervalAssumption DEF Message
<1> QED
  BY <1>0, <1>1, <1>3, <1>5, <1>6, <1>8, <1>9

(***************************************************************************)
(* An older ticket of an application replaces a newer one only if a POST   *)
(* of it was not acknowledged: refused, its answer lost, or not answered   *)
(* in time, whoever kept it waiting.                                       *)
(***************************************************************************)
THEOREM OldTicketsNeedRetry == Spec => OldTicketOnlyByRetry
<1>1. ASSUME IInv, [Next]_vars, NEW t \in Tenant,
             row[t].ticket # NULL, row'[t].ticket # NULL,
             row'[t].ticket # row[t].ticket,
             row'[t].ticket.of = row[t].ticket.of
      PROVE  row'[t].ticket.at > row[t].ticket.at \/ Unacknowledged(row'[t].ticket)
  <2>1. ~AdminStep
    <3>1. row \in [Tenant -> Row]
      BY <1>1 DEF IInv, TypeOK
    <3>2. BlankRow.ticket = NULL /\ BlankRow \in Row
      BY DEF BlankRow, Row
    <3>3. ASSUME NEW u \in Tenant, NEW c \in Code, CreateTenant(u, c)
          PROVE  FALSE
      <4>1. row[u] = [BlankRow EXCEPT !.status = row[u].status]
        BY <1>1, <3>3 DEF IInv, TypeOK, CreateTenant
      <4>2. row[u].ticket = NULL
        BY <4>1, <3>2 DEF Row
      <4>3. \A v \in Tenant \ {u} : row'[v] = row[v]
        BY <3>1, <3>3 DEF CreateTenant
      <4> QED
        BY <1>1, <4>2, <4>3
    <3>4. ASSUME NEW u \in Tenant,
                 \/ \E secret \in Secret : UpdateSecret(u, secret)
                 \/ \E b \in BOOLEAN : SetEnabled(u, b)
          PROVE  FALSE
      BY <1>1, <3>1, <3>4 DEF UpdateSecret, SetEnabled, Row
    <3>5. ASSUME NEW u \in Tenant, DeleteTenant(u) PROVE FALSE
      <4>1. row' = [row EXCEPT ![u] = [BlankRow EXCEPT !.status = "deleted"]]
        BY <3>5 DEF DeleteTenant
      <4>2. row'[u].ticket = NULL
        BY <3>1, <3>2, <4>1 DEF Row
      <4>3. \A v \in Tenant \ {u} : row'[v] = row[v]
        BY <3>1, <4>1
      <4> QED
        BY <1>1, <4>2, <4>3
    <3> QED
      BY <3>3, <3>4, <3>5 DEF AdminStep
  <2>2. row' # row
    BY <1>1
  <2>3. PICK d \in Delivery : post[d].pc = "storing" /\ row' = Stored(d)
    BY <1>1, <2>1, <2>2 DEF Next, AdminStep, Push, Retry, HandleMessage,
       StoreMessage, StoreFails, AnswerLost, CallBegins, CallEnds, Crash, Tick,
       vars
  <2> QED
    BY <1>1, <2>3, NewerTicket
<1>2. IInv /\ [Next]_vars =>
        [\A t \in Tenant :
           LET old == row[t].ticket
               new == row'[t].ticket
           IN old # NULL /\ new # NULL /\ new # old /\ new.of = old.of =>
                new.at > old.at \/ Unacknowledged(new)]_vars
  BY <1>1
<1> QED
  BY InvCorrect, <1>2, PTL DEF Spec, OldTicketOnlyByRetry

-----------------------------------------------------------------------------
(* Every POST is done with in the end.                                     *)

(***************************************************************************)
(* What that rests on besides fairness: whoever has the loop can go on,    *)
(* and a POST can be handled when nobody has it, whatever became of its    *)
(* tenant.  Each place has a step whose guard is the place itself, so this *)
(* holds by the guards; it is a hypothesis below because ENABLED is out of *)
(* the prover's reach.                                                     *)
(***************************************************************************)
NeverStuck ==
  /\ ~LoopFree => ENABLED <<LoopGoesOn>>_vars
  /\ \A d \in Delivery :
       post[d].pc = "waiting" /\ LoopFree => ENABLED <<HandleMessage(d)>>_vars

\* Where a POST goes next; one that is done with may lose its answer.
Onward == {<<"unused", "waiting">>, <<"waiting", "storing">>,
           <<"waiting", "done">>, <<"storing", "done">>, <<"done", "done">>}

LEMMA ReplyMoves ==
  ASSUME IInv, NEW d \in Delivery, NEW answer, Reply(d, answer)
  PROVE  /\ post'[d].pc = "done"
         /\ \A e \in Delivery \ {d} : post'[e] = post[e]
<1>0. post \in [Delivery -> Post]
  BY DEF IInv, TypeOK
<1> DEFINE p == [post[d] EXCEPT !.pc = "done", !.at = 0, !.tenant = NULL,
                   !.reply = IF Overdue(d) THEN "lost" ELSE answer]
<1>1. post' = [post EXCEPT ![d] = p]
  BY <1>0 DEF Reply
<1>2. p.pc = "done"
  BY <1>0 DEF Post
<1> HIDE DEF p
<1> QED
  BY <1>0, <1>1, <1>2

\* A step changes the place of one POST, or cuts all off that are under way.
LEMMA PostMoves ==
  ASSUME IInv, [Next]_vars
  PROVE  \/ post' = post
         \/ \E d \in Delivery :
              /\ <<post[d].pc, post'[d].pc>> \in Onward
              /\ \A e \in Delivery \ {d} : post'[e] = post[e]
              /\ post'[d].pc = "storing" => HandleMessage(d)
         \/ Crash
<1>0. post \in [Delivery -> Post]
  BY DEF IInv, TypeOK
<1>1. ASSUME NEW d \in Delivery, NEW a \in App, NEW c \in Code,
             NEW kind \in Kind, NEW secret \in Secret,
             Push(d, a, c, kind, secret)
      PROVE  /\ post[d].pc = "unused" /\ post'[d].pc = "waiting"
             /\ \A e \in Delivery \ {d} : post'[e] = post[e]
  <2> DEFINE p == [UnusedPost EXCEPT !.pc = "waiting", !.to = c, !.at = now,
                     !.message = [kind |-> kind, of |-> a, secret |-> secret,
                       at |-> IF kind = "ticket" THEN now ELSE 0]]
  <2>1. post' = [post EXCEPT ![d] = p] /\ post[d].pc = "unused"
    BY <1>1 DEF Push
  <2>2. p.pc = "waiting"
    BY DEF UnusedPost
  <2> HIDE DEF p
  <2> QED
    BY <1>0, <2>1, <2>2
<1>2. ASSUME NEW d \in Delivery, NEW d0 \in Delivery, Retry(d, d0)
      PROVE  /\ post[d].pc = "unused" /\ post'[d].pc = "waiting"
             /\ \A e \in Delivery \ {d} : post'[e] = post[e]
  BY <1>0, <1>2 DEF Retry, Post
<1>4. ASSUME NEW d \in Delivery, HandleMessage(d)
      PROVE  /\ post[d].pc = "waiting"
             /\ post'[d].pc \in {"done", "storing"}
             /\ \A e \in Delivery \ {d} : post'[e] = post[e]
  <2>1. ASSUME NEW t \in Tenant,
               post' = [post EXCEPT ![d].pc = "storing", ![d].tenant = t]
        PROVE  /\ post'[d].pc = "storing"
               /\ \A e \in Delivery \ {d} : post'[e] = post[e]
    BY <1>0, <2>1 DEF Post
  <2> QED
    BY ReplyMoves, <1>4, <2>1
       DEF HandleMessage, UnknownTenant, Acknowledged, StoringBegins
<1>5. ASSUME NEW d \in Delivery, StoreMessage(d) \/ StoreFails(d)
      PROVE  /\ post[d].pc = "storing" /\ post'[d].pc = "done"
             /\ \A e \in Delivery \ {d} : post'[e] = post[e]
  BY ReplyMoves, <1>5 DEF StoreMessage, StoreFails
<1>6. ASSUME NEW d \in Delivery, AnswerLost(d)
      PROVE  /\ post[d].pc = "done" /\ post'[d].pc = "done"
             /\ \A e \in Delivery \ {d} : post'[e] = post[e]
  BY ReplyMoves, <1>6 DEF AnswerLost
<1> QED
  BY <1>1, <1>2, <1>4, <1>5, <1>6
  DEF Onward, Next, vars, CreateTenant, UpdateSecret, SetEnabled, DeleteTenant,
      CallBegins, CallEnds, Tick

LEMMA CrashEnds ==
  ASSUME IInv, Crash
  PROVE  /\ held' = NULL
         /\ \A d \in Delivery :
              IF post[d].pc \in {"waiting", "storing"}
              THEN post'[d].pc = "done" ELSE post'[d] = post[d]
BY DEF Crash, IInv, TypeOK, Post

\* A POST stays where it is until it is handled, or goes on from there.
LEMMA WaitingMoves ==
  ASSUME IInv, [Next]_vars, NEW d \in Delivery, post[d].pc = "waiting"
  PROVE  /\ post'[d].pc \in {"waiting", "storing", "done"}
         /\ HandleMessage(d) => post'[d].pc \in {"storing", "done"}
<1>1. post'[d].pc \in {"waiting", "storing", "done"}
  BY PostMoves, CrashEnds DEF Onward
<1>2. ASSUME HandleMessage(d) PROVE post'[d].pc \in {"storing", "done"}
  <2>1. ASSUME NEW t \in Tenant,
               post' = [post EXCEPT ![d].pc = "storing", ![d].tenant = t]
        PROVE  post'[d].pc = "storing"
    BY <2>1 DEF IInv, TypeOK, Post
  <2> QED
    BY ReplyMoves, <1>2, <2>1
       DEF HandleMessage, UnknownTenant, Acknowledged, StoringBegins
<1> QED
  BY <1>1, <1>2

LEMMA StoringMoves ==
  ASSUME IInv, [Next]_vars, NEW d \in Delivery, post[d].pc = "storing"
  PROVE  /\ post'[d].pc \in {"storing", "done"}
         /\ LoopGoesOn => post'[d].pc = "done"
<1>1. post'[d].pc \in {"storing", "done"}
  BY PostMoves, CrashEnds DEF Onward
<1>2. ASSUME LoopGoesOn PROVE post'[d].pc = "done"
  <2>1. ~CallEnds
    BY DEF CallEnds
  <2>2. PICK e \in Delivery : StoreMessage(e) \/ StoreFails(e)
    BY <1>2, <2>1 DEF LoopGoesOn
  <2>3. e = d
    BY <2>2 DEF IInv, OneHandler, StoreMessage, StoreFails
  <2> QED
    BY ReplyMoves, <2>2, <2>3 DEF StoreMessage, StoreFails
<1> QED
  BY <1>1, <1>2

\* Whoever has the loop leaves it free.
LEMMA HolderMoves == ASSUME LoopGoesOn PROVE LoopFree'
BY DEF LoopGoesOn, CallEnds, StoreMessage, StoreFails, LoopFree

(***************************************************************************)
(* Every POST that has come is handled and answered in the end or cut off  *)
(* by a crash, however many tool calls and other pushes want the loop, if  *)
(* nobody who has the loop is stuck and the loop passes nobody over.       *)
(***************************************************************************)
THEOREM PushesComeToAnEnd == FairSpec /\ []NeverStuck => PushesEnd
<1> SUFFICES ASSUME NEW d \in Delivery
             PROVE  FairSpec /\ []NeverStuck
                      => (post[d].pc \in {"waiting", "storing"}
                            ~> post[d].pc = "done")
  BY DEF PushesEnd
<1> DEFINE At(place) == post[d].pc = place
<1>1. FairSpec => Spec /\ Turn(d) /\ HolderFair
  BY DEF FairSpec
<1>2. NeverStuck /\ ~LoopFree => ENABLED <<LoopGoesOn>>_vars
  BY DEF NeverStuck
<1>3. NeverStuck /\ At("waiting") /\ LoopFree
        => ENABLED <<HandleMessage(d)>>_vars
  BY DEF NeverStuck
<1>4. IInv /\ At("storing") => ~LoopFree
  BY ConstantsAssumption DEF IInv, PostOK, StoringOK, LoopFree
<1>5. IInv /\ At("waiting") /\ [Next]_vars
        => At("waiting")' \/ At("storing")' \/ At("done")'
  BY WaitingMoves
<1>6. IInv /\ At("waiting") /\ [Next]_vars /\ <<HandleMessage(d)>>_vars
        => At("storing")' \/ At("done")'
  BY WaitingMoves
<1>7. IInv /\ At("storing") /\ [Next]_vars
        => At("storing")' \/ At("done")'
  BY StoringMoves
<1>8. IInv /\ At("storing") /\ [Next]_vars
        /\ <<LoopGoesOn>>_vars => At("done")'
  BY StoringMoves
<1>9. <<LoopGoesOn>>_vars => LoopFree'
  BY HolderMoves
<1>10. post[d].pc \in {"waiting", "storing"} <=> At("waiting") \/ At("storing")
  OBVIOUS
<1>11. post[d].pc = "done" <=> At("done")
  OBVIOUS
<1> HIDE DEF At
<1> QED
  BY <1>1, <1>2, <1>3, <1>4, <1>5, <1>6, <1>7, <1>8, <1>9, <1>10, <1>11,
     InvCorrect, PTL DEF Spec, Turn,
     HolderFair

-----------------------------------------------------------------------------
(* Webhook implements Tenants.                                             *)

\* The table as Tenants sees it.
Rows == {RowOf(t) : t \in {u \in Tenant : Live(u)}}
Used == {t \in Tenant : row[t].status # "none"}
Serving == [d \in Delivery |-> Serves(d)]
TableVars == <<Rows, Used, Serving>>

LEMMA RowParts ==
  \A t : /\ RowOf(t).id = t
         /\ RowOf(t).code = row[t].code
         /\ RowOf(t).enabled = row[t].enabled
BY DEF RowOf

\* A step that leaves of a tenant what Tenants sees of it.
StaysRow(t) == /\ Live(t)' = Live(t)
               /\ RowOf(t)' = RowOf(t)
               /\ (row'[t].status = "none") = (row[t].status = "none")

LEMMA StepInsert ==
  ASSUME IInv, NEW t \in Tenant, NEW c \in Code, CreateTenant(t, c)
  PROVE  Table!Insert(t, c)
<1> DEFINE new == [id |-> t, code |-> c, enabled |-> TRUE]
<1>0. row \in [Tenant -> Row] /\ row[t].status = "none" /\ post' = post
  BY DEF IInv, TypeOK, CreateTenant
<1>1. PICK secret \in Secret \cup {NULL} :
        row' = [row EXCEPT ![t] = [BlankRow EXCEPT !.status = "live", !.code = c,
                                                   !.secret = secret]]
  BY DEF CreateTenant
<1>2. /\ row'[t].status = "live" /\ row'[t].code = c /\ row'[t].enabled = TRUE
      /\ \A u \in Tenant \ {t} : row'[u] = row[u]
  BY <1>0, <1>1 DEF BlankRow
<1>3. /\ ~Live(t) /\ Live(t)' /\ RowOf(t)' = new
      /\ \A u \in Tenant \ {t} : StaysRow(u)
  BY <1>0, <1>2 DEF Live, RowOf, StaysRow
<1>4. \A e \in Rows : e.code # c
  BY RowParts DEF Rows, CreateTenant
<1> HIDE DEF new
<1>5. Rows' = Rows \cup {new}
  BY <1>3 DEF Rows, StaysRow
<1>6. Used' = Used \cup {t} /\ t \notin Used
  BY <1>0, <1>2 DEF Used
<1>7. Serving' = Serving
  BY <1>0 DEF Serving, Serves
<1> QED
  BY <1>4, <1>5, <1>6, <1>7 DEF Table!Insert, Rows, Used, Serving, new

LEMMA StepSwitch ==
  ASSUME IInv, NEW t \in Tenant, NEW b \in BOOLEAN, SetEnabled(t, b)
  PROVE  \E e \in Rows : Table!Switch(e, b)
<1> DEFINE new == [RowOf(t) EXCEPT !.enabled = b]
<1>1. /\ Live(t) /\ Live(t)' /\ RowOf(t)' = new /\ RowOf(t) \in Rows
      /\ row[t].status # "none" /\ row'[t].status # "none"
      /\ \A u \in Tenant \ {t} : StaysRow(u)
  BY DEF IInv, TypeOK, Row, SetEnabled, Live, RowOf, StaysRow, Rows
<1> HIDE DEF new
<1>2. Rows' = (Rows \ {RowOf(t)}) \cup {new}
  BY <1>1, RowParts DEF Rows, StaysRow
<1>3. Used' = Used
  BY <1>1 DEF Used, StaysRow
<1>4. Serving' = Serving
  BY DEF Serving, Serves, SetEnabled
<1> QED
  BY <1>1, <1>2, <1>3, <1>4 DEF Table!Switch, Rows, Used, Serving, new

LEMMA StepDelete ==
  ASSUME IInv, NEW t \in Tenant, DeleteTenant(t)
  PROVE  \E e \in Rows : Table!Delete(e)
<1>1. row'[t].status = "deleted" /\ \A u \in Tenant \ {t} : row'[u] = row[u]
  BY DEF IInv, TypeOK, DeleteTenant, BlankRow
<1>2. /\ Live(t) /\ ~Live(t)' /\ RowOf(t) \in Rows
      /\ row[t].status # "none" /\ row'[t].status # "none"
      /\ \A u \in Tenant \ {t} : StaysRow(u)
  BY <1>1 DEF DeleteTenant, Live, RowOf, StaysRow, Rows
<1>3. Rows' = Rows \ {RowOf(t)}
  BY <1>2, RowParts DEF Rows, StaysRow
<1>4. Used' = Used
  BY <1>2 DEF Used, StaysRow
<1>5. Serving' = Serving
  BY DEF Serving, Serves, DeleteTenant
<1> QED
  BY <1>2, <1>3, <1>4, <1>5 DEF Table!Delete, Rows, Used, Serving

\* Steps that leave the table alone, as Tenants sees it.
LEMMA TableStays ==
  ASSUME \A t \in Tenant : StaysRow(t)
  PROVE  Rows' = Rows /\ Used' = Used
BY DEF Rows, Used, StaysRow

LEMMA SameRows ==
  ASSUME row' = row
  PROVE  \A t \in Tenant : StaysRow(t)
BY DEF StaysRow, RowOf, Live

\* What an UPDATE of a push writes is none of what Tenants sees.
LEMMA MessageStays ==
  ASSUME IInv, NEW d \in Delivery, row' = Stored(d)
  PROVE  \A t \in Tenant : StaysRow(t)
<1>0. row \in [Tenant -> Row]
  BY DEF IInv, TypeOK
<1>1. CASE ~Live(post[d].tenant)
  BY <1>1, SameRows DEF Stored
<1>2. CASE Live(post[d].tenant)
  <2> DEFINE t == post[d].tenant
             m == post[d].message
  <2>1. t \in Tenant /\ row' = [row EXCEPT ![t] = WithMessage(row[t], m)]
    BY <1>2 DEF Stored, Live
  <2>2. /\ WithMessage(row[t], m).status = row[t].status
        /\ WithMessage(row[t], m).code = row[t].code
        /\ WithMessage(row[t], m).enabled = row[t].enabled
    BY <1>0, <2>1 DEF WithMessage, Row
  <2>3. \A u \in Tenant : /\ row'[u].status = row[u].status
                          /\ row'[u].code = row[u].code
                          /\ row'[u].enabled = row[u].enabled
    BY <1>0, <2>1, <2>2
  <2> QED
    BY <2>3 DEF StaysRow, RowOf, Live
<1> QED
  BY <1>1, <1>2

LEMMA StepFinish ==
  ASSUME \A t \in Tenant : StaysRow(t),
         \A d \in Delivery : Serves(d)' = Serves(d) \/ Serves(d)' = {}
  PROVE  Table!Finish
<1> DEFINE D == {d \in Delivery : Serves(d)' = {}}
<1>1. D \in SUBSET Delivery
  OBVIOUS
<1>2. Serving' = [d \in Delivery |-> IF d \in D THEN {} ELSE Serving[d]]
  BY DEF Serving
<1> QED
  BY <1>1, <1>2, TableStays DEF Table!Finish, Rows, Used, Serving

LEMMA StepAdmit ==
  ASSUME IInv, NEW d \in Delivery, HandleMessage(d), post'[d].pc = "storing"
  PROVE  \E e \in Rows : Table!Admit(d, e)
<1>0. post \in [Delivery -> Post] /\ post[d].pc = "waiting" /\ row' = row
  BY DEF HandleMessage, IInv, TypeOK
<1>1. PICK t \in Tenant :
        /\ Live(t) /\ row[t].enabled
        /\ post' = [post EXCEPT ![d].pc = "storing", ![d].tenant = t]
  <2>1. \A answer : ~Reply(d, answer)
    BY ReplyMoves
  <2> QED
    BY <2>1 DEF HandleMessage, UnknownTenant, Acknowledged, StoringBegins,
       Addressed
<1>2. /\ RowOf(t) \in Rows /\ RowOf(t).id = t /\ RowOf(t).enabled
  BY <1>1, RowParts DEF Rows
<1>3. /\ post'[d].pc = "storing" /\ post'[d].tenant = t
      /\ \A e \in Delivery \ {d} : post'[e] = post[e]
  BY <1>0, <1>1 DEF Post
<1>4. /\ Serves(d) = {} /\ Serves(d)' = {t}
      /\ \A e \in Delivery \ {d} : Serves(e)' = Serves(e)
  BY <1>0, <1>3 DEF Serves
<1>5. Serving' = [Serving EXCEPT ![d] = {t}] /\ Serving[d] = {}
  BY <1>4 DEF Serving
<1>6. Rows' = Rows /\ Used' = Used
  BY <1>0, SameRows, TableStays
<1> QED
  BY <1>2, <1>5, <1>6 DEF Table!Admit, Rows, Used, Serving

LEMMA AdminTable ==
  ASSUME IInv, AdminStep
  PROVE  Table!Next
<1>1. ASSUME NEW t \in Tenant, NEW c \in Code, CreateTenant(t, c)
      PROVE  Table!Next
  BY <1>1, StepInsert DEF Table!Next
<1>2. ASSUME NEW t \in Tenant, NEW secret \in Secret, UpdateSecret(t, secret)
      PROVE  Table!Next
  <2>1. \A u \in Tenant : StaysRow(u)
    BY <1>2 DEF UpdateSecret, IInv, TypeOK, Row, StaysRow, RowOf, Live
  <2>2. \A d \in Delivery : Serves(d)' = Serves(d)
    BY <1>2 DEF UpdateSecret, Serves
  <2> QED
    BY <2>1, <2>2, StepFinish DEF Table!Next
<1>3. ASSUME NEW t \in Tenant, NEW b \in BOOLEAN, SetEnabled(t, b)
      PROVE  Table!Next
  BY <1>3, StepSwitch DEF Table!Next, Rows
<1>4. ASSUME NEW t \in Tenant, DeleteTenant(t) PROVE Table!Next
  BY <1>4, StepDelete DEF Table!Next, Rows
<1> QED
  BY <1>1, <1>2, <1>3, <1>4 DEF AdminStep

\* Only the administrator and an UPDATE write the table.
LEMMA WritesRows ==
  ASSUME IInv, [Next]_vars, ~AdminStep
  PROVE  \A t \in Tenant : StaysRow(t)
<1>1. ASSUME NEW d \in Delivery, StoreMessage(d)
      PROVE  \A t \in Tenant : StaysRow(t)
  BY <1>1, MessageStays DEF StoreMessage
<1>2. CASE Crash
  BY <1>2, SameRows, MessageStays DEF Crash
<1> QED
  BY <1>1, <1>2, SameRows DEF Next, vars, AdminStep, Push, Retry,
     HandleMessage, StoreFails, AnswerLost, CallBegins, CallEnds, Tick

LEMMA StepTable ==
  ASSUME IInv, [Next]_vars
  PROVE  Table!Next
<1>1. CASE AdminStep
  BY <1>1, AdminTable
<1>2. CASE ~AdminStep
  <2>0. \A t \in Tenant : StaysRow(t)
    BY <1>2, WritesRows
  <2>1. ASSUME NEW d \in Delivery, HandleMessage(d), post'[d].pc = "storing"
        PROVE  Table!Next
    BY <2>1, StepAdmit DEF Table!Next, Rows
  <2>2. ASSUME NEW d \in Delivery, post'[d].pc # "storing",
               \A e \in Delivery \ {d} : post'[e] = post[e]
        PROVE  Table!Next
    <3>1. Serves(d)' = {} /\ \A e \in Delivery \ {d} : Serves(e)' = Serves(e)
      BY <2>2 DEF Serves
    <3> QED
      BY <2>0, <3>1, StepFinish DEF Table!Next
  <2>3. CASE post' = post
    <3>1. \A d \in Delivery : Serves(d)' = Serves(d)
      BY <2>3 DEF Serves
    <3> QED
      BY <2>0, <3>1, StepFinish DEF Table!Next
  <2>4. CASE Crash
    <3>1. \A d \in Delivery : Serves(d)' = Serves(d) \/ Serves(d)' = {}
      BY <2>4, CrashEnds DEF Serves
    <3> QED
      BY <2>0, <3>1, StepFinish DEF Table!Next
  <2> QED
    BY <2>1, <2>2, <2>3, <2>4, PostMoves
<1> QED
  BY <1>1, <1>2

(***************************************************************************)
(* The receiver implements Tenants, crashes and messages posted again      *)
(* included: no UPDATE of a push makes a row, brings one back or changes   *)
(* what it is known by.                                                    *)
(***************************************************************************)
THEOREM TableKept == Spec => KeepsTable
<1>1. Init => Table!Init
  <2> SUFFICES ASSUME Init PROVE Table!Init
    OBVIOUS
  <2>1. Rows = {} /\ Used = {}
    BY DEF Init, BlankRow, Rows, Used, Live
  <2>2. Serving = [d \in Delivery |-> {}]
    BY DEF Init, UnusedPost, Serving, Serves
  <2> QED
    BY <2>1, <2>2 DEF Table!Init, Rows, Used, Serving
<1>2. IInv /\ [Next]_vars => [Table!Next]_(Table!vars)
  BY StepTable
<1> QED
  BY <1>1, <1>2, InvCorrect, PTL DEF Spec, KeepsTable, Table!Spec

(***************************************************************************)
(* So a message is stored only for a tenant that was found there, enabled, *)
(* when the message was handled, and no code ever names two.               *)
(***************************************************************************)
COROLLARY TableIsSound == Spec => []Table!Sound /\ Table!NeverUndone
BY TableKept, Table!TableMeans DEF KeepsTable
=============================================================================
