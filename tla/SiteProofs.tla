----------------------------- MODULE SiteProofs -----------------------------
(***************************************************************************)
(* Theorems about Site, for any number of tenants, browsers, forms and     *)
(* passwords and any domains and files.                                    *)
(***************************************************************************)
EXTENDS Site, TLAPS

\* What each place of the start-up has behind it.
BootOK ==
  /\ proc \in {"columns", "admin", "serving"} => tables = Items(Tables)
  /\ proc \in {"admin", "serving"} => columns = Items(Columns)

\* A session, also one a form under way will bring back, is of the
\* administrator's password.
SessionsOK ==
  /\ SessionOfAdmin
  /\ \A v \in Visit : visit[v].pc = "form" =>
       /\ visit[v].by \in Browser
       /\ visit[v].session # NULL
       /\ admin # NULL /\ visit[v].session = admin

\* A row that was not deleted holds what was last asked for.
RowsOK ==
  \A t \in Tenant :
    /\ row[t].status # "deleted" => row[t].domain = Kept(asked[t].domain)
                                    /\ row[t].content = asked[t].content
    /\ row[t].status = "none" => row[t] = BlankRow

AskedOK ==
  asked \in [Tenant -> [domain: Domain \cup {NULL},
                        content: Content \cup {BLANK, NULL}]]

IInv == TypeOK /\ BootOK /\ SessionsOK /\ RowsOK /\ AskedOK

-----------------------------------------------------------------------------

LEMMA KeptForm ==
  ASSUME NEW d \in Domain \cup {NULL}
  PROVE  /\ Kept(d) \in DomainForm \cup {NULL}
         /\ Kept(d) = NULL <=> d = NULL
BY ConstantsAssumption DEF Kept, DomainForm

LEMMA InitInv == Init => IInv
<1> SUFFICES ASSUME Init PROVE IInv
  OBVIOUS
<1> USE ConstantsAssumption DEF Init
<1>1. TypeOK
  <2>1. BlankRow \in Row
    BY DEF BlankRow, Row
  <2>2. IdleForm \in Form /\ IdleForm.pc = "idle"
    BY DEF IdleForm, Form
  <2>3. columns \subseteq Items(Columns) /\ tables \subseteq Items(Tables)
    BY DEF Items, Columns
  <2>4. \A t \in Tenant : row[t].domain = NULL
    BY DEF BlankRow
  <2>5. \A v \in Visit : visit[v].pc # "form"
    BY <2>2
  <2> QED
    BY <2>1, <2>2, <2>3, <2>4, <2>5 DEF TypeOK
<1>2. BootOK
  BY DEF BootOK
<1>3. SessionsOK
  BY DEF SessionsOK, SessionOfAdmin, IdleForm
<1>4. RowsOK /\ AskedOK
  BY DEF RowsOK, AskedOK, BlankRow, Kept
<1> QED
  BY <1>1, <1>2, <1>3, <1>4 DEF IInv

\* The start-up touches no session and no tenant, and it serves no form.
LEMMA BootStepInv == ASSUME IInv, BootStep PROVE IInv'
<1> USE ConstantsAssumption DEF IInv
<1>1. /\ UNCHANGED <<session, site, crashes>>
      /\ proc # "serving"
      /\ admin' = AdminEnsured \/ admin' = admin
  BY DEF BootStep, Start, CreateTables, MigrateColumns, EnsureInitialAdmin
<1>2. /\ proc' \in {"down", "tables", "columns", "admin", "serving"}
      /\ env' \in Password \cup {NULL}
      /\ tables' \subseteq Items(Tables) /\ columns' \subseteq Items(Columns)
      /\ BootOK'
  <2>1. ASSUME NEW p \in Password \cup {NULL}, Start(p) PROVE <1>2!:
    BY <2>1 DEF Start, TypeOK, BootOK
  <2>2. ASSUME CreateTables PROVE <1>2!:
    <3>1. tables' \subseteq Items(Tables) /\ columns' \subseteq Items(Columns)
      BY <2>2 DEF CreateTables, TypeOK, Items
    <3> HIDE DEF Items
    <3> QED
      BY <2>2, <3>1 DEF CreateTables, TypeOK, BootOK
  <2>3. ASSUME MigrateColumns PROVE <1>2!:
    <3>1. Missing \subseteq Items(Columns)
      BY DEF Missing
    <3>2. Missing = {} => columns = Items(Columns)
      BY DEF Missing, TypeOK
    <3>3. columns' \subseteq Items(Columns)
      BY <2>3, <3>1 DEF MigrateColumns, TypeOK
    <3> QED
      BY <2>3, <3>2, <3>3 DEF MigrateColumns, TypeOK, BootOK
  <2>4. ASSUME EnsureInitialAdmin PROVE <1>2!:
    BY <2>4 DEF EnsureInitialAdmin, TypeOK, BootOK
  <2> QED
    BY <2>1, <2>2, <2>3, <2>4 DEF BootStep
<1>3. admin' \in Password \cup {NULL} /\ (admin # NULL => admin' = admin)
  BY <1>1 DEF AdminEnsured, TypeOK
<1>4. \A v \in Visit : visit[v].pc # "form"
  BY <1>1 DEF TypeOK
<1>5. TypeOK'
  BY <1>1, <1>2, <1>3, <1>4 DEF TypeOK, site
<1>6. SessionsOK'
  BY <1>1, <1>3, <1>4 DEF SessionsOK, SessionOfAdmin, site
<1>7. RowsOK' /\ AskedOK'
  BY <1>1 DEF RowsOK, AskedOK, site
<1> QED
  BY <1>2, <1>5, <1>6, <1>7

LEMMA CrashInv == ASSUME IInv, Crash PROVE IInv'
<1> USE DEF IInv, Crash
<1>1. /\ visit' \in [Visit -> Form] /\ \A v \in Visit : visit'[v].pc = "idle"
  BY ConstantsAssumption DEF IdleForm, Form
<1>2. TypeOK'
  BY <1>1, ConstantsAssumption DEF TypeOK
<1>3. BootOK' /\ SessionsOK' /\ RowsOK' /\ AskedOK'
  BY <1>1 DEF BootOK, SessionsOK, SessionOfAdmin, RowsOK, AskedOK
<1> QED
  BY <1>2, <1>3

LEMMA SessionStepInv ==
  ASSUME IInv, NEW b \in Browser,
         (\E p \in Password : Login(b, p)) \/ LoseSession(b)
  PROVE  IInv'
<1> USE ConstantsAssumption DEF IInv
<1>1. /\ UNCHANGED <<boot, site>>
      /\ session' \in [Browser -> Password \cup {NULL}]
      /\ \A c \in Browser : session'[c] # NULL =>
           session'[c] = session[c] \/ (admin # NULL /\ session'[c] = admin)
  BY DEF Login, LoseSession, VerifyPassword, TypeOK
<1>2. TypeOK' /\ BootOK' /\ RowsOK' /\ AskedOK'
  BY <1>1 DEF TypeOK, BootOK, RowsOK, AskedOK, boot, site
<1>3. SessionsOK'
  BY <1>1 DEF SessionsOK, SessionOfAdmin, boot, site
<1> QED
  BY <1>2, <1>3

\* A step that changes one tenant's row and no form.
LEMMA RowStepInv ==
  ASSUME IInv, NEW b \in Browser, NEW t \in Tenant,
         CreateTenant(b, t) \/ DeleteTenant(b, t)
  PROVE  IInv'
<1> USE ConstantsAssumption DEF IInv
<1>1. UNCHANGED <<boot, session, visit, asked>>
  BY DEF CreateTenant, DeleteTenant
<1>2. PICK r : /\ row' = [row EXCEPT ![t] = r]
               /\ r.status \in {"live", "deleted"} /\ r \in Row
               /\ r.status = "live" => /\ r.domain = row[t].domain
                                       /\ r.content = row[t].content
                                       /\ row[t].status = "none"
               /\ r.status = "deleted" => r.domain = NULL
  <2>1. CASE CreateTenant(b, t)
    <3> DEFINE r == [row[t] EXCEPT !.status = "live"]
    <3>1. r \in Row /\ r.status = "live" /\ r.domain = row[t].domain
          /\ r.content = row[t].content
      BY DEF TypeOK, Row
    <3>2. row' = [row EXCEPT ![t] = r] /\ row[t].status = "none"
      BY <2>1 DEF CreateTenant
    <3> QED
      BY <3>1, <3>2
  <2>2. CASE DeleteTenant(b, t)
    <3> DEFINE r == [BlankRow EXCEPT !.status = "deleted"]
    <3>1. r \in Row /\ r.status = "deleted" /\ r.domain = NULL
      BY DEF BlankRow, Row
    <3>2. row' = [row EXCEPT ![t] = r]
      BY <2>2 DEF DeleteTenant
    <3> QED
      BY <3>1, <3>2
  <2> QED
    BY <2>1, <2>2
<1>3. /\ row' \in [Tenant -> Row] /\ row'[t] = r
      /\ \A u \in Tenant : u # t => row'[u] = row[u]
  BY <1>2 DEF TypeOK
<1>4. \A u \in Tenant : row'[u].status # "live" => row'[u].domain = NULL
  BY <1>2, <1>3 DEF TypeOK
<1>5. \A u \in Tenant : row[u].status # "none" => row'[u].status # "none"
  BY <1>2, <1>3
<1>6. \A v \in Visit : visit[v].pc = "form" =>
        /\ proc = "serving"
        /\ visit[v].tenant \in Tenant /\ row'[visit[v].tenant].status # "none"
  BY <1>5 DEF TypeOK
<1>7. TypeOK'
  BY <1>1, <1>3, <1>4, <1>6 DEF TypeOK, boot
<1>8. RowsOK'
  BY <1>1, <1>2, <1>3 DEF RowsOK
<1>9. BootOK' /\ SessionsOK' /\ AskedOK'
  BY <1>1 DEF BootOK, SessionsOK, SessionOfAdmin, AskedOK, boot
<1> QED
  BY <1>7, <1>8, <1>9

\* A form that passed its checks: the session it brings back is a session.
LEMMA FormStepInv ==
  ASSUME IInv, NEW v \in Visit, NEW b \in Browser, NEW t \in Tenant,
         TrustedDomainForm(v, b, t)
  PROVE  IInv'
<1> USE ConstantsAssumption DEF IInv
<1>1. /\ UNCHANGED <<boot, session, row, asked>>
      /\ proc = "serving" /\ session[b] # NULL /\ row[t].status = "live"
  BY DEF TrustedDomainForm, LoggedIn, Live
<1>2. PICK f : /\ visit' = [visit EXCEPT ![v] = f]
               /\ f \in Form /\ f.by = b /\ f.session = session[b]
               /\ f.tenant = t
  <2>1. PICK domain \in Domain \cup {NULL},
             upload \in Content \cup {BLANK, NULL},
             text \in Content \cup {NULL} :
          visit' = [visit EXCEPT ![v] =
            [pc |-> "form", by |-> b, session |-> session[b], tenant |-> t,
             domain |-> domain, content |-> CheckContent(upload, text)]]
    BY DEF TrustedDomainForm
  <2>2. CheckContent(upload, text) \in Content \cup {BLANK, NULL}
    BY <2>1 DEF CheckContent
  <2>3. session[b] \in Password \cup {NULL}
    BY DEF TypeOK
  <2> DEFINE f == [pc |-> "form", by |-> b, session |-> session[b],
                   tenant |-> t, domain |-> domain,
                   content |-> CheckContent(upload, text)]
  <2>4. f \in Form /\ f.by = b /\ f.session = session[b] /\ f.tenant = t
    BY <2>1, <2>2, <2>3 DEF Form
  <2>5. visit' = [visit EXCEPT ![v] = f]
    BY <2>1
  <2> HIDE DEF f
  <2> QED
    BY <2>4, <2>5
<1>3. /\ visit' \in [Visit -> Form] /\ visit'[v] = f
      /\ \A u \in Visit : u # v => visit'[u] = visit[u]
  BY <1>2 DEF TypeOK
<1>4. TypeOK'
  BY <1>1, <1>2, <1>3 DEF TypeOK, boot
<1>5. SessionsOK'
  BY <1>1, <1>2, <1>3 DEF SessionsOK, SessionOfAdmin, boot
<1>6. BootOK' /\ RowsOK' /\ AskedOK'
  BY <1>1 DEF BootOK, RowsOK, AskedOK, boot
<1> QED
  BY <1>4, <1>5, <1>6

\* The end of a form: what is written is what is asked for.
LEMMA UpdateRows ==
  ASSUME IInv, NEW v \in Visit, UpdateTrustedDomain(v)
  PROVE  /\ row' \in [Tenant -> Row]
         /\ \A t \in Tenant : row'[t].status = row[t].status
         /\ \A t \in Tenant :
              row'[t].status # "live" => row'[t].domain = NULL
         /\ RowsOK' /\ AskedOK'
<1> USE ConstantsAssumption DEF IInv
<1>1. PICK f \in Form, t \in Tenant :
        /\ f = visit[v] /\ t = f.tenant
        /\ visit[v].pc = "form"
  BY DEF UpdateTrustedDomain, TypeOK
<1>2. CASE ~Live(t)
  <2>1. row' = row /\ asked' = asked
    BY <1>1, <1>2 DEF UpdateTrustedDomain, Updated
  <2> QED
    BY <2>1 DEF TypeOK, RowsOK, AskedOK
<1>3. CASE Live(t)
  <2>1. /\ row' = [row EXCEPT ![t].domain = Kept(f.domain),
                              ![t].content = ContentWritten(@, f.content)]
        /\ asked' = [asked EXCEPT ![t].domain = f.domain,
                                  ![t].content = IF f.content = NULL
                                                 THEN @ ELSE f.content]
    BY <1>1, <1>3 DEF UpdateTrustedDomain, Updated
  <2>2. /\ f.domain \in Domain \cup {NULL}
        /\ f.content \in Content \cup {BLANK, NULL}
        /\ Kept(f.domain) \in DomainForm \cup {NULL}
    BY <1>1, KeptForm DEF Form
  <2>3. /\ row[t] \in Row
        /\ asked[t] \in [domain: Domain \cup {NULL},
                         content: Content \cup {BLANK, NULL}]
        /\ row[t].status = "live" /\ row[t].content = asked[t].content
    BY <1>3 DEF TypeOK, AskedOK, Live, RowsOK
  <2>4. PICK c : c = ContentWritten(row[t].content, f.content)
    OBVIOUS
  <2>5. c \in Content \cup {BLANK, NULL}
    BY <2>2, <2>3, <2>4 DEF ContentWritten, Row
  <2> DEFINE r == [row[t] EXCEPT !.domain = Kept(f.domain),
                              !.content = ContentWritten(@, f.content)]
             a == [asked[t] EXCEPT !.domain = f.domain,
                                   !.content = IF f.content = NULL
                                               THEN @ ELSE f.content]
  <2>7. row' = [row EXCEPT ![t] = r]
    BY <2>1, <2>3 DEF TypeOK
  <2>8. asked' = [asked EXCEPT ![t] = a]
    BY <2>1, <2>3 DEF AskedOK
  <2>9. /\ r \in Row /\ r.status = "live" /\ r.domain = Kept(f.domain)
        /\ r.content = c
    BY <2>2, <2>3, <2>4, <2>5 DEF Row
  <2>10. /\ a \in [domain: Domain \cup {NULL},
                   content: Content \cup {BLANK, NULL}]
         /\ a.domain = f.domain /\ a.content = c
    BY <2>2, <2>3, <2>4 DEF ContentWritten
  <2> HIDE DEF r, a
  <2>11. /\ row' \in [Tenant -> Row] /\ row'[t] = r
         /\ \A u \in Tenant : u # t => row'[u] = row[u]
    BY <2>7, <2>9 DEF TypeOK
  <2>12. /\ AskedOK' /\ asked'[t] = a
         /\ \A u \in Tenant : u # t => asked'[u] = asked[u]
    BY <2>8, <2>10 DEF AskedOK
  <2>13. RowsOK'
    <3> SUFFICES ASSUME NEW u \in Tenant
                 PROVE  /\ row'[u].status # "deleted" =>
                             /\ row'[u].domain = Kept(asked'[u].domain)
                             /\ row'[u].content = asked'[u].content
                        /\ row'[u].status = "none" => row'[u] = BlankRow
      BY DEF RowsOK, Kept
    <3> QED
      BY <2>9, <2>10, <2>11, <2>12 DEF RowsOK
  <2> QED
    BY <2>3, <2>9, <2>11, <2>12, <2>13 DEF TypeOK
<1> QED
  BY <1>2, <1>3

LEMMA UpdateInv ==
  ASSUME IInv, NEW v \in Visit, UpdateTrustedDomain(v)
  PROVE  IInv'
<1> USE ConstantsAssumption DEF IInv
<1>1. /\ UNCHANGED boot
      /\ visit[v].pc = "form" /\ visit' = [visit EXCEPT ![v] = IdleForm]
      /\ session' = [session EXCEPT ![visit[v].by] = visit[v].session]
  BY DEF UpdateTrustedDomain
<1>2. /\ visit' \in [Visit -> Form] /\ visit'[v].pc = "idle"
      /\ \A u \in Visit : u # v => visit'[u] = visit[u]
  BY <1>1 DEF IdleForm, Form, TypeOK
<1>3. /\ session' \in [Browser -> Password \cup {NULL}]
      /\ \A b \in Browser : session'[b] # NULL =>
           session'[b] = session[b] \/ (admin # NULL /\ session'[b] = admin)
  BY <1>1 DEF TypeOK, SessionsOK, Form
<1>4. TypeOK'
  BY <1>1, <1>2, <1>3, UpdateRows DEF TypeOK, boot
<1>5. SessionsOK'
  BY <1>1, <1>2, <1>3 DEF SessionsOK, SessionOfAdmin, boot
<1>6. BootOK'
  BY <1>1 DEF BootOK, boot
<1> QED
  BY <1>4, <1>5, <1>6, UpdateRows

LEMMA NextInv == ASSUME IInv, [Next]_vars PROVE IInv'
<1>1. CASE UNCHANGED vars
  BY <1>1 DEF vars, boot, site, IInv, TypeOK, BootOK, SessionsOK,
              SessionOfAdmin, RowsOK, AskedOK
<1>2. CASE BootStep
  BY <1>2, BootStepInv
<1>3. CASE Crash
  BY <1>3, CrashInv
<1>4. ASSUME NEW b \in Browser,
             (\E p \in Password : Login(b, p)) \/ LoseSession(b)
      PROVE  IInv'
  BY <1>4, SessionStepInv
<1>5. ASSUME NEW b \in Browser, NEW t \in Tenant,
             CreateTenant(b, t) \/ DeleteTenant(b, t)
      PROVE  IInv'
  BY <1>5, RowStepInv
<1>6. ASSUME NEW v \in Visit, NEW b \in Browser, NEW t \in Tenant,
             TrustedDomainForm(v, b, t)
      PROVE  IInv'
  BY <1>6, FormStepInv
<1>7. ASSUME NEW v \in Visit, UpdateTrustedDomain(v) PROVE IInv'
  BY <1>7, UpdateInv
<1> QED
  BY <1>1, <1>2, <1>3, <1>4, <1>5, <1>6, <1>7 DEF Next

(***************************************************************************)
(* The inductive invariant: what the start-up has done, whose the sessions *)
(* are, and that the rows hold what was asked for.                         *)
(***************************************************************************)
THEOREM InvCorrect == Spec => []IInv
<1>1. IInv /\ [Next]_vars => IInv'
  BY NextInv
<1> QED
  BY InitInv, <1>1, PTL DEF Spec

(***************************************************************************)
(* Types; no form without a process that serves it.                        *)
(***************************************************************************)
THEOREM TypeCorrect == Spec => []TypeOK
<1>1. IInv => TypeOK
  BY DEF IInv
<1> QED
  BY InvCorrect, <1>1, PTL

(***************************************************************************)
(* No request is served before every table and every column is there,      *)
(* after any number of starts that were cut off.                           *)
(***************************************************************************)
THEOREM NothingServedEarly == Spec => []ServesMigrated
<1>1. IInv => ServesMigrated
  BY DEF IInv, BootOK, ServesMigrated
<1> QED
  BY InvCorrect, <1>1, PTL

(***************************************************************************)
(* A session is of the administrator's password, whatever ADMIN_PASSWORD   *)
(* the process is started with and whichever answer carries it back.       *)
(***************************************************************************)
THEOREM SessionsAreAdmins == Spec => []SessionOfAdmin
<1>1. IInv => SessionOfAdmin
  BY DEF IInv, SessionsOK
<1> QED
  BY InvCorrect, <1>1, PTL

\* Two domains that are looked up alike are kept alike, unless one has a port.
LEMMA KeptAlike ==
  ASSUME NEW d \in Domain, NEW e \in Domain, ~d.port,
         Kept(e) = HostOf(d)
  PROVE  HostOf(e) = HostOf(d)
<1>1. /\ d \in DomainForm /\ e \in DomainForm /\ e # NULL
  BY ConstantsAssumption
<1>2. /\ HostOf(d).name = d.name /\ HostOf(d).port = FALSE
      /\ Kept(e).name = e.name /\ Kept(e).port = e.port
  BY <1>1 DEF HostOf, Kept, DomainForm
<1>3. e.name = d.name /\ e.port = FALSE
  BY <1>2
<1>4. Kept(e) = HostOf(e)
  BY <1>1, <1>3 DEF Kept, HostOf, DomainForm
<1> QED
  BY <1>4

(***************************************************************************)
(* A tenant that alone names a domain is answered with the file it was     *)
(* last given, for any tenants, domains, files and forms under way.        *)
(***************************************************************************)
THEOREM DeclaredIsAnswered == Spec => []AnswersDeclared
<1>1. ASSUME IInv, NEW t \in Tenant, Served(t), ~asked[t].domain.port
      PROVE  Answers(HostOf(asked[t].domain)) = {asked[t].content}
  <2>1. PICK d \in Domain : d = asked[t].domain
    BY <1>1, ConstantsAssumption DEF Served, IInv, AskedOK
  <2>2. d \in DomainForm /\ d # NULL /\ ~d.port
    BY <1>1, <2>1, ConstantsAssumption
  <2>3. Kept(d) = HostOf(d) /\ HostOf(d) \in DomainForm
    BY <2>2 DEF Kept, HostOf, DomainForm
  <2>4. /\ Live(t) /\ row[t].domain = HostOf(d)
        /\ row[t].content = asked[t].content /\ asked[t].content \in Content
    BY <1>1, <2>1, <2>3 DEF Served, IInv, RowsOK, Live
  <2>5. ASSUME NEW u \in Tenant, Live(u), row[u].domain = HostOf(d)
        PROVE  u = t
    <3>1. PICK e \in Domain \cup {NULL} : e = asked[u].domain
      BY <1>1 DEF IInv, AskedOK
    <3>2. Kept(e) = HostOf(d)
      BY <1>1, <2>5, <3>1 DEF IInv, RowsOK, Live
    <3>3. e \in Domain /\ e # NULL
      BY <2>3, <3>2, ConstantsAssumption DEF Kept
    <3>4. HostOf(e) = HostOf(d)
      BY <2>2, <3>2, <3>3, KeptAlike
    <3> QED
      BY <1>1, <2>1, <2>5, <3>1, <3>3, <3>4 DEF Served
  <2> QED
    BY <2>1, <2>4, <2>5 DEF Answers, Live
<1>2. IInv => AnswersDeclared
  BY <1>1 DEF AnswersDeclared
<1> QED
  BY InvCorrect, <1>2, PTL

(***************************************************************************)
(* A verification file goes only by the upload of a blank file.            *)
(***************************************************************************)
THEOREM FilesAreKept == Spec => ContentKept
<1>1. ASSUME IInv, [Next]_vars, NEW t \in Tenant,
             row[t].content \in Content, row'[t].status = "live",
             row'[t].content \notin Content
      PROVE  \E v \in Visit : visit[v].tenant = t /\ visit[v].content = BLANK
  <2>1. row' # row
    BY <1>1
  <2>2. CASE \E b \in Browser, u \in Tenant :
               CreateTenant(b, u) \/ DeleteTenant(b, u)
    <3>1. PICK b \in Browser, u \in Tenant :
            CreateTenant(b, u) \/ DeleteTenant(b, u)
      BY <2>2
    <3>2. row[u].status = "none" => row[u].content \notin Content
      BY <1>1, ConstantsAssumption DEF IInv, RowsOK, BlankRow
    <3>3. t # u => row'[t] = row[t]
      BY <1>1, <3>1 DEF CreateTenant, DeleteTenant, IInv, TypeOK
    <3>4. DeleteTenant(b, u) => row'[u].status = "deleted"
      BY <1>1 DEF DeleteTenant, IInv, TypeOK, BlankRow
    <3>5. CreateTenant(b, u) => row[u].status = "none"
      BY DEF CreateTenant
    <3> QED
      BY <1>1, <3>1, <3>2, <3>3, <3>4, <3>5
  <2>3. CASE \E v \in Visit : UpdateTrustedDomain(v)
    <3>1. PICK v \in Visit : UpdateTrustedDomain(v)
      BY <2>3
    <3>2. PICK f \in Form : f = visit[v]
      BY <1>1 DEF IInv, TypeOK
    <3>3. row' = Updated(f.tenant, f) /\ Live(f.tenant)
      BY <2>1, <3>1, <3>2 DEF UpdateTrustedDomain, Updated
    <3>4. row' = [row EXCEPT
                   ![f.tenant].domain = Kept(f.domain),
                   ![f.tenant].content = ContentWritten(@, f.content)]
      BY <3>3 DEF Updated
    <3>5. t = f.tenant
      BY <1>1, <3>3, <3>4 DEF Live, IInv, TypeOK
    <3>6. row[t] \in Row
      BY <1>1 DEF IInv, TypeOK
    <3>7. row'[t].content = ContentWritten(row[t].content, f.content)
      BY <1>1, <3>4, <3>5, <3>6 DEF IInv, TypeOK, Row
    <3>8. f.content = BLANK
      BY <1>1, <3>2, <3>7 DEF ContentWritten, Form
    <3> QED
      BY <3>2, <3>5, <3>8
  <2> QED
    BY <1>1, <2>1, <2>2, <2>3
       DEF Next, vars, site, boot, BootStep, Start, CreateTables, MigrateColumns,
           EnsureInitialAdmin, Crash, Login, LoseSession, TrustedDomainForm
<1>2. IInv /\ [Next]_vars =>
        [\A t \in Tenant :
           /\ row[t].content \in Content
           /\ row'[t].status = "live"
           /\ row'[t].content \notin Content
           => \E v \in Visit : visit[v].tenant = t
                               /\ visit[v].content = BLANK]_vars
  BY <1>1
<1> QED
  BY InvCorrect, <1>2, PTL DEF Spec, ContentKept

(***************************************************************************)
(* No host is answered with a file that no tenant naming it was last       *)
(* given, whichever tenants share the domain, gave it up or are gone.      *)
(***************************************************************************)
THEOREM NothingElseIsAnswered == Spec => []AnswersOnlyAsked
<1>1. ASSUME IInv, NEW d \in Domain, NEW x \in Answers(HostOf(d))
      PROVE  \E t \in Tenant : /\ Live(t)
                               /\ asked[t].content = x
                               /\ asked[t].domain # NULL
                               /\ HostOf(asked[t].domain) = HostOf(d)
  <2>1. PICK t \in Tenant : /\ Live(t) /\ row[t].domain = HostOf(d)
                            /\ row[t].content = x
    BY <1>1 DEF Answers
  <2>2. PICK e \in Domain \cup {NULL} : e = asked[t].domain
    BY <1>1 DEF IInv, AskedOK
  <2>3. Kept(e) = HostOf(d) /\ asked[t].content = x
    BY <1>1, <2>1, <2>2 DEF IInv, RowsOK, Live
  <2>4. /\ d \in DomainForm /\ HostOf(d) \in DomainForm
        /\ HostOf(d).name = d.name /\ HostOf(d).port = FALSE
    BY ConstantsAssumption DEF HostOf, DomainForm
  <2>5. e # NULL /\ e \in Domain
    BY <2>2, <2>3, <2>4, ConstantsAssumption DEF Kept
  <2>6. HostOf(e) = HostOf(d)
    <3>1. e \in DomainForm /\ Kept(e).name = e.name /\ Kept(e).port = e.port
      BY <2>5, ConstantsAssumption DEF Kept, DomainForm
    <3>2. e.name = d.name /\ e.port = FALSE
      BY <2>3, <2>4, <3>1
    <3>3. Kept(e) = HostOf(e)
      BY <2>5, <3>1, <3>2 DEF Kept, HostOf, DomainForm
    <3> QED
      BY <2>3, <3>3
  <2> QED
    BY <2>1, <2>2, <2>3, <2>5, <2>6
<1>2. IInv => AnswersOnlyAsked
  BY <1>1 DEF AnswersOnlyAsked
<1> QED
  BY InvCorrect, <1>2, PTL

(***************************************************************************)
(* A start that is not killed does not fail: whatever an earlier start or  *)
(* version left, no ALTER TABLE is made for a column that is there.        *)
(***************************************************************************)
THEOREM StartsEndByCrashOnly ==
  Spec => [][proc' = "down" /\ proc # "down" => Crash]_vars
<1>1. ASSUME [Next]_vars, proc' = "down", proc # "down" PROVE Crash
  <2>1. proc' # proc
    BY <1>1
  <2>2. ~BootStep
    BY <1>1 DEF BootStep, Start, CreateTables, MigrateColumns, Missing,
       EnsureInitialAdmin
  <2> QED
    BY <1>1, <2>1, <2>2
    DEF Next, vars, boot, Login, LoseSession, CreateTenant, DeleteTenant,
        TrustedDomainForm, UpdateTrustedDomain
<1>2. [Next]_vars => [proc' = "down" /\ proc # "down" => Crash]_vars
  BY <1>1
<1> QED
  BY <1>2, PTL DEF Spec

-----------------------------------------------------------------------------
(* Coming up.                                                              *)

\* The start-up is at the tables and the first i of them are there.
TablesUpTo(i) ==
  proc = "tables" /\ \A j \in 1..i : Tables[j] \in tables

\* It is at the columns, likewise.
ColumnsUpTo(i) ==
  proc = "columns" /\ \A j \in 1..i : Columns[j] \in columns

(***************************************************************************)
(* Unless the process is killed, nobody but the start-up moves it.         *)
(***************************************************************************)
LEMMA QuietStep ==
  ASSUME [Next]_vars, [~Crash]_vars
  PROVE  BootStep \/ UNCHANGED <<proc, tables, columns>>
BY DEF Next, vars, boot, Login, LoseSession, CreateTenant, DeleteTenant,
       TrustedDomainForm, UpdateTrustedDomain

(***************************************************************************)
(* One statement of the schema makes the next table, if it is missing.     *)
(***************************************************************************)
LEMMA TablesStep ==
  ASSUME NEW i \in 0..4, TablesUpTo(i), BootStep
  PROVE  TablesUpTo(i + 1)' \/ ColumnsUpTo(0)'
<1>1. CreateTables
  BY DEF BootStep, TablesUpTo, Start, MigrateColumns, EnsureInitialAdmin
<1>2. CASE proc' = "columns"
  BY <1>2 DEF ColumnsUpTo
<1>3. CASE proc' # "columns"
  <2>1. PICK k \in DOMAIN Tables :
          /\ Tables[k] \notin tables
          /\ \A j \in 1..(k - 1) : Tables[j] \in tables
          /\ tables' = tables \cup {Tables[k]}
          /\ proc' = proc
    BY <1>1, <1>3 DEF CreateTables
  <2>2. k \in 1..5
    BY DEF Tables
  <2>3. k >= i + 1
    BY <2>1, <2>2 DEF TablesUpTo
  <2>4. \A j \in 1..(i + 1) : Tables[j] \in tables'
    BY <2>1, <2>2, <2>3 DEF TablesUpTo
  <2> QED
    BY <2>1, <2>4 DEF TablesUpTo
<1> QED
  BY <1>2, <1>3

LEMMA TablesDone ==
  ASSUME TablesUpTo(5), BootStep
  PROVE  ColumnsUpTo(0)'
<1>1. CreateTables
  BY DEF BootStep, TablesUpTo, Start, MigrateColumns, EnsureInitialAdmin
<1>2. \A k \in DOMAIN Tables : Tables[k] \in tables
  BY DEF TablesUpTo, Tables
<1> QED
  BY <1>1, <1>2 DEF CreateTables, ColumnsUpTo

(***************************************************************************)
(* One ALTER TABLE adds the next column, if it is missing, and never fails *)
(* on one that is there.                                                   *)
(***************************************************************************)
LEMMA ColumnsStep ==
  ASSUME NEW i \in 0..3, ColumnsUpTo(i), BootStep
  PROVE  ColumnsUpTo(i + 1)' \/ proc' = "admin"
<1>1. MigrateColumns
  BY DEF BootStep, ColumnsUpTo, Start, CreateTables, EnsureInitialAdmin
<1>2. CASE proc' # "admin"
  <2>1. PICK k \in DOMAIN Columns :
          /\ Columns[k] \in Missing
          /\ \A j \in 1..(k - 1) : Columns[j] \notin Missing
          /\ IF Columns[k] \in columns
             THEN proc' = "down" /\ UNCHANGED columns
             ELSE columns' = columns \cup {Columns[k]} /\ UNCHANGED proc
    BY <1>1, <1>2 DEF MigrateColumns
  <2>2. k \in 1..4
    BY DEF Columns
  <2>3. columns' = columns \cup {Columns[k]} /\ proc' = proc
    BY <2>1 DEF Missing
  <2>4. k >= i + 1
    BY <2>1, <2>2 DEF ColumnsUpTo, Missing
  <2>5. \A j \in 1..(k - 1) : Columns[j] \in columns
    BY <2>1, <2>2 DEF Missing, Items, Columns
  <2>6. \A j \in 1..(i + 1) : Columns[j] \in columns'
    BY <2>2, <2>3, <2>4, <2>5 DEF ColumnsUpTo
  <2> QED
    BY <2>3, <2>6 DEF ColumnsUpTo
<1> QED
  BY <1>2

LEMMA ColumnsDone ==
  ASSUME ColumnsUpTo(4), BootStep
  PROVE  proc' = "admin"
<1>1. MigrateColumns
  BY DEF BootStep, ColumnsUpTo, Start, CreateTables, EnsureInitialAdmin
<1>2. \A k \in DOMAIN Columns : Columns[k] \notin Missing
  BY DEF ColumnsUpTo, Columns, Missing
<1> QED
  BY <1>1, <1>2 DEF MigrateColumns

(***************************************************************************)
(* What that rests on besides fairness: the start-up can go on.  Each of   *)
(* its statements has the place itself for a guard, so this holds by the   *)
(* guards; it is a hypothesis below because ENABLED is out of the prover's *)
(* reach.                                                                  *)
(***************************************************************************)
StartNeverStuck == proc # "serving" => ENABLED <<BootStep>>_vars

(***************************************************************************)
(* The start-up from some moment on, if the process is not killed after.   *)
(***************************************************************************)
Undisturbed ==
  /\ []IInv /\ [][Next]_vars /\ WF_vars(BootStep)
  /\ []StartNeverStuck /\ [][~Crash]_vars

MakesTable(i) == TablesUpTo(i) ~> TablesUpTo(i + 1) \/ ColumnsUpTo(0)
MakesColumn(i) == ColumnsUpTo(i) ~> ColumnsUpTo(i + 1) \/ proc = "admin"

LEMMA TablesGetMade ==
  ASSUME NEW i \in 0..4
  PROVE  Undisturbed => MakesTable(i)
<1> DEFINE Here == TablesUpTo(i)
           There == TablesUpTo(i + 1) \/ ColumnsUpTo(0)
<1>1. Here /\ [Next]_vars /\ [~Crash]_vars => Here' \/ There'
  BY QuietStep, TablesStep DEF TablesUpTo
<1>2. Here /\ <<BootStep>>_vars => There'
  BY TablesStep
<1>3. StartNeverStuck /\ Here => ENABLED <<BootStep>>_vars
  BY DEF StartNeverStuck, TablesUpTo
<1>4. Undisturbed => (Here ~> There)
  <2> HIDE DEF Here, There
  <2> QED
    BY <1>1, <1>2, <1>3, PTL DEF Undisturbed
<1> QED
  BY <1>4 DEF MakesTable

LEMMA ColumnsGetMade ==
  ASSUME NEW i \in 0..3
  PROVE  Undisturbed => MakesColumn(i)
<1> DEFINE Here == ColumnsUpTo(i)
           There == ColumnsUpTo(i + 1) \/ proc = "admin"
<1>1. Here /\ [Next]_vars /\ [~Crash]_vars => Here' \/ There'
  BY QuietStep, ColumnsStep DEF ColumnsUpTo
<1>2. Here /\ <<BootStep>>_vars => There'
  BY ColumnsStep
<1>3. StartNeverStuck /\ Here => ENABLED <<BootStep>>_vars
  BY DEF StartNeverStuck, ColumnsUpTo
<1>4. Undisturbed => (Here ~> There)
  <2> HIDE DEF Here, There
  <2> QED
    BY <1>1, <1>2, <1>3, PTL DEF Undisturbed
<1> QED
  BY <1>4 DEF MakesColumn

(***************************************************************************)
(* The other three steps of the start-up.                                  *)
(***************************************************************************)
LEMMA RestGetsDone ==
  Undisturbed =>
    /\ proc = "down" ~> TablesUpTo(0)
    /\ TablesUpTo(5) ~> ColumnsUpTo(0)
    /\ ColumnsUpTo(4) ~> proc = "admin"
    /\ proc = "admin" ~> proc = "serving"
<1> DEFINE Down == proc = "down"
           Tables5 == TablesUpTo(5)
           Columns4 == ColumnsUpTo(4)
           Admin == proc = "admin"
           Serving == proc = "serving"
<1>1. Down /\ <<BootStep>>_vars => TablesUpTo(0)'
  BY DEF BootStep, Start, CreateTables, MigrateColumns, EnsureInitialAdmin,
         TablesUpTo
<1>2. Tables5 /\ <<BootStep>>_vars => ColumnsUpTo(0)'
  BY TablesDone
<1>3. Columns4 /\ <<BootStep>>_vars => Admin'
  BY ColumnsDone
<1>4. Admin /\ <<BootStep>>_vars => Serving'
  BY DEF BootStep, Start, CreateTables, MigrateColumns, EnsureInitialAdmin
<1>5. Down /\ [Next]_vars /\ [~Crash]_vars => Down' \/ TablesUpTo(0)'
  BY <1>1, QuietStep DEF vars, boot
<1>6. Tables5 /\ [Next]_vars /\ [~Crash]_vars => Tables5' \/ ColumnsUpTo(0)'
  BY TablesDone, QuietStep DEF TablesUpTo
<1>7. Columns4 /\ [Next]_vars /\ [~Crash]_vars => Columns4' \/ Admin'
  BY ColumnsDone, QuietStep DEF ColumnsUpTo
<1>8. Admin /\ [Next]_vars /\ [~Crash]_vars => Admin' \/ Serving'
  BY QuietStep DEF BootStep, Start, CreateTables, MigrateColumns,
                   EnsureInitialAdmin
<1>9. StartNeverStuck /\ (Down \/ Tables5 \/ Columns4 \/ Admin)
        => ENABLED <<BootStep>>_vars
  BY DEF StartNeverStuck, TablesUpTo, ColumnsUpTo
<1> HIDE DEF Tables5, Columns4, Down, Admin, Serving
<1>10. Undisturbed => /\ Down ~> TablesUpTo(0)
                      /\ Tables5 ~> ColumnsUpTo(0)
                      /\ Columns4 ~> Admin
                      /\ Admin ~> Serving
  BY <1>1, <1>2, <1>3, <1>4, <1>5, <1>6, <1>7, <1>8, <1>9, PTL
  DEF Undisturbed
<1> QED
  BY <1>10 DEF Down, Tables5, Columns4, Admin, Serving

(***************************************************************************)
(* Once it is left alone, the start-up comes to its end from wherever the  *)
(* last crash left the database.                                           *)
(***************************************************************************)
LEMMA ComesUpUndisturbed ==
  Undisturbed => (~(proc = "serving") ~> proc = "serving")
<1>1. IInv => \/ proc = "down" \/ TablesUpTo(0) \/ ColumnsUpTo(0)
              \/ proc = "admin" \/ proc = "serving"
  BY DEF IInv, TypeOK, TablesUpTo, ColumnsUpTo
<1>2. Undisturbed => /\ MakesTable(0) /\ MakesTable(1) /\ MakesTable(2)
                     /\ MakesTable(3) /\ MakesTable(4)
  BY TablesGetMade
<1>3. Undisturbed => /\ MakesColumn(0) /\ MakesColumn(1) /\ MakesColumn(2)
                     /\ MakesColumn(3)
  BY ColumnsGetMade
<1>4. 0 + 1 = 1 /\ 1 + 1 = 2 /\ 2 + 1 = 3 /\ 3 + 1 = 4 /\ 4 + 1 = 5
  OBVIOUS
<1>5. /\ TablesUpTo(0 + 1) <=> TablesUpTo(1)
      /\ TablesUpTo(1 + 1) <=> TablesUpTo(2)
      /\ TablesUpTo(2 + 1) <=> TablesUpTo(3)
      /\ TablesUpTo(3 + 1) <=> TablesUpTo(4)
      /\ TablesUpTo(4 + 1) <=> TablesUpTo(5)
      /\ ColumnsUpTo(0 + 1) <=> ColumnsUpTo(1)
      /\ ColumnsUpTo(1 + 1) <=> ColumnsUpTo(2)
      /\ ColumnsUpTo(2 + 1) <=> ColumnsUpTo(3)
      /\ ColumnsUpTo(3 + 1) <=> ColumnsUpTo(4)
  BY <1>4
<1> QED
  BY <1>1, <1>2, <1>3, <1>5, RestGetsDone, PTL
  DEF Undisturbed, MakesTable, MakesColumn

(***************************************************************************)
(* The service comes up again after every crash but for finitely many that *)
(* may cut the start-up off anywhere, from an empty database, from that of *)
(* any older version and from what any start left that was cut off.        *)
(***************************************************************************)
THEOREM ComesUp ==
  FairSpec /\ []StartNeverStuck /\ <>[][~Crash]_vars => Starts
<1>1. FairSpec /\ []StartNeverStuck /\ <>[][~Crash]_vars => <>Undisturbed
  BY InvCorrect, PTL DEF FairSpec, Spec, Undisturbed
<1>2. proc = "down" => ~(proc = "serving")
  OBVIOUS
<1> QED
  BY <1>1, <1>2, ComesUpUndisturbed, PTL DEF Undisturbed, Starts

-----------------------------------------------------------------------------
(* Site implements Tenants.                                                *)

\* The table as Tenants sees it.
Rows == {RowOf(t) : t \in {u \in Tenant : Live(u)}}
Used == {t \in Tenant : row[t].status # "none"}
Serving == [v \in Visit |-> Serves(v)]

LEMMA RowParts ==
  \A t : /\ RowOf(t)' = RowOf(t)
         /\ RowOf(t).id = t
         /\ RowOf(t).code = t
         /\ RowOf(t).enabled
BY DEF RowOf

StatusStays(t) == row'[t].status = row[t].status

LEMMA StepInsert ==
  ASSUME IInv, NEW b \in Browser, NEW t \in Tenant, CreateTenant(b, t)
  PROVE  Table!Insert(t, t)
<1>1. /\ row[t].status = "none" /\ row'[t].status = "live" /\ visit' = visit
      /\ \A u \in Tenant \ {t} : StatusStays(u)
  BY DEF IInv, TypeOK, Row, CreateTenant, StatusStays
<1>2. \A e \in Rows : e.code # t
  BY <1>1, RowParts DEF Rows, Live
<1>3. Rows' = Rows \cup {RowOf(t)}
  BY <1>1, RowParts DEF Rows, Live, StatusStays
<1>4. Used' = Used \cup {t} /\ t \notin Used
  BY <1>1 DEF Used, StatusStays
<1>5. Serving' = Serving
  BY <1>1 DEF Serving, Serves
<1> QED
  BY <1>2, <1>3, <1>4, <1>5 DEF Table!Insert, Rows, Used, Serving, RowOf

LEMMA StepDelete ==
  ASSUME IInv, NEW b \in Browser, NEW t \in Tenant, DeleteTenant(b, t)
  PROVE  \E e \in Rows : Table!Delete(e)
<1>1. /\ Live(t) /\ row'[t].status = "deleted" /\ visit' = visit
      /\ \A u \in Tenant \ {t} : StatusStays(u)
  BY DEF IInv, TypeOK, DeleteTenant, BlankRow, StatusStays
<1>2. RowOf(t) \in Rows
  BY <1>1 DEF Rows
<1>3. Rows' = Rows \ {RowOf(t)}
  BY <1>1, RowParts DEF Rows, Live, StatusStays
<1>4. Used' = Used
  BY <1>1 DEF Used, Live, StatusStays
<1>5. Serving' = Serving
  BY <1>1 DEF Serving, Serves
<1> QED
  BY <1>2, <1>3, <1>4, <1>5 DEF Table!Delete, Rows, Used, Serving

\* Steps that leave the table alone, as Tenants sees it.
LEMMA TableStays ==
  ASSUME \A t \in Tenant : StatusStays(t)
  PROVE  Rows' = Rows /\ Used' = Used
BY RowParts DEF Rows, Used, Live, StatusStays

LEMMA StepFinish ==
  ASSUME \A t \in Tenant : StatusStays(t),
         \A v \in Visit : Serves(v)' = Serves(v) \/ Serves(v)' = {}
  PROVE  Table!Finish
<1> DEFINE V == {v \in Visit : Serves(v)' = {}}
<1>1. V \in SUBSET Visit
  OBVIOUS
<1>2. Serving' = [v \in Visit |-> IF v \in V THEN {} ELSE Serving[v]]
  BY DEF Serving
<1> QED
  BY <1>1, <1>2, TableStays DEF Table!Finish, Rows, Used, Serving

LEMMA StepAdmit ==
  ASSUME IInv, NEW v \in Visit, NEW b \in Browser, NEW t \in Tenant,
         TrustedDomainForm(v, b, t)
  PROVE  \E e \in Rows : Table!Admit(v, e)
<1>0. /\ visit \in [Visit -> Form] /\ visit[v].pc = "idle" /\ Live(t)
      /\ row' = row
  BY DEF TrustedDomainForm, IInv, TypeOK
<1>1. PICK f : visit' = [visit EXCEPT ![v] = f] /\ f.pc = "form" /\ f.tenant = t
  <2>1. PICK domain \in Domain \cup {NULL}, upload \in Content \cup {BLANK, NULL},
             text \in Content \cup {NULL} :
          visit' = [visit EXCEPT ![v] =
            [pc |-> "form", by |-> b, session |-> session[b], tenant |-> t,
             domain |-> domain, content |-> CheckContent(upload, text)]]
    BY DEF TrustedDomainForm
  <2> DEFINE f == [pc |-> "form", by |-> b, session |-> session[b],
                   tenant |-> t, domain |-> domain,
                   content |-> CheckContent(upload, text)]
  <2>2. visit' = [visit EXCEPT ![v] = f] /\ f.pc = "form" /\ f.tenant = t
    BY <2>1
  <2> QED
    BY <2>2
<1>2. /\ Serves(v) = {} /\ Serves(v)' = {t}
      /\ \A u \in Visit \ {v} : Serves(u)' = Serves(u)
  BY <1>0, <1>1 DEF Serves
<1>3. Serving' = [Serving EXCEPT ![v] = {t}] /\ Serving[v] = {}
  BY <1>2 DEF Serving
<1>4. RowOf(t) \in Rows
  BY <1>0 DEF Rows, Live
<1>5. Rows' = Rows /\ Used' = Used
  BY <1>0, TableStays DEF StatusStays
<1> QED
  BY <1>3, <1>4, <1>5, RowParts DEF Table!Admit, Rows, Used, Serving

LEMMA StepUpdate ==
  ASSUME IInv, NEW v \in Visit, UpdateTrustedDomain(v)
  PROVE  Table!Finish
<1>1. \A t \in Tenant : StatusStays(t)
  <2> DEFINE f == visit[v]
             t == f.tenant
             d == Kept(f.domain)
             c == ContentWritten(row[t].content, f.content)
  <2>1. row \in [Tenant -> Row] /\ t \in Tenant
    BY DEF IInv, TypeOK, UpdateTrustedDomain
  <2>2. row' = row \/ row' = [row EXCEPT ![t].domain = d, ![t].content = c]
    BY <2>1 DEF UpdateTrustedDomain, Updated
  <2> HIDE DEF d, c, t
  <2> QED
    BY <2>1, <2>2 DEF StatusStays, Row
<1>2. \A u \in Visit : Serves(u)' = Serves(u) \/ Serves(u)' = {}
  BY DEF UpdateTrustedDomain, Serves, IdleForm, IInv, TypeOK
<1> QED
  BY <1>1, <1>2, StepFinish

LEMMA NextTable == ASSUME IInv, [Next]_vars PROVE Table!Next
<1>1. CASE row' = row /\ visit' = visit
  <2>1. /\ \A t \in Tenant : StatusStays(t)
        /\ \A v \in Visit : Serves(v)' = Serves(v)
    BY <1>1 DEF StatusStays, Serves
  <2> QED
    BY <2>1, StepFinish DEF Table!Next
<1>2. CASE Crash
  <2>1. /\ \A t \in Tenant : StatusStays(t)
        /\ \A v \in Visit : Serves(v)' = {}
    BY <1>2 DEF Crash, StatusStays, Serves, IdleForm
  <2> QED
    BY <2>1, StepFinish DEF Table!Next
<1>3. BootStep \/ UNCHANGED vars => row' = row /\ visit' = visit
  BY DEF BootStep, Start, CreateTables, MigrateColumns, EnsureInitialAdmin,
     site, vars
<1>4. ASSUME NEW b \in Browser,
             (\E p \in Password : Login(b, p)) \/ LoseSession(b)
      PROVE  row' = row /\ visit' = visit
  BY <1>4 DEF Login, LoseSession, site
<1>5. ASSUME NEW b \in Browser, NEW t \in Tenant,
             \/ CreateTenant(b, t) \/ DeleteTenant(b, t)
             \/ \E v \in Visit : TrustedDomainForm(v, b, t)
      PROVE  Table!Next
  BY <1>5, StepInsert, StepDelete, StepAdmit DEF Table!Next, Rows
<1>6. ASSUME NEW v \in Visit, UpdateTrustedDomain(v) PROVE Table!Next
  BY <1>6, StepUpdate DEF Table!Next
<1> QED
  BY <1>1, <1>2, <1>3, <1>4, <1>5, <1>6 DEF Next

(***************************************************************************)
(* The trusted-domain form implements Tenants: whatever is deleted or      *)
(* restarted while its body is awaited, its UPDATE makes no row.           *)
(***************************************************************************)
THEOREM TableKept == Spec => KeepsTable
<1>1. Init => Table!Init
  <2> SUFFICES ASSUME Init PROVE Table!Init
    OBVIOUS
  <2>1. Rows = {} /\ Used = {}
    BY DEF Init, BlankRow, Rows, Used, Live
  <2>2. Serving = [v \in Visit |-> {}]
    BY DEF Init, IdleForm, Serving, Serves
  <2> QED
    BY <2>1, <2>2 DEF Table!Init, Rows, Used, Serving
<1>2. IInv /\ [Next]_vars => [Table!Next]_(Table!vars)
  BY NextTable
<1> QED
  BY <1>1, <1>2, InvCorrect, PTL DEF Spec, KeepsTable, Table!Spec

(***************************************************************************)
(* So a form is let in only for a tenant found there, and nothing done     *)
(* about a trusted domain brings one back.                                 *)
(***************************************************************************)
COROLLARY TableIsSound == Spec => []Table!Sound /\ Table!NeverUndone
BY TableKept, Table!TableMeans DEF KeepsTable
=============================================================================
