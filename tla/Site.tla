-------------------------------- MODULE Site --------------------------------
(***************************************************************************)
(* The service as a site: how it comes up (app/main.py lifespan, the       *)
(* schema and the column migration of app/db.py, the first administrator), *)
(* how an administrator is let in (app/security.py, the login routes), and *)
(* the trusted domain: a form that waits for its body after its look-ups,  *)
(* and the public page the platform probes, found by its Host header.      *)
(*                                                                         *)
(* The process may be killed at any statement; the container is started    *)
(* again (restart: unless-stopped), possibly with another environment, on  *)
(* whatever was committed.  Python's sqlite3 opens no transaction for DDL, *)
(* so each CREATE TABLE and each ALTER TABLE is committed by itself.       *)
(***************************************************************************)
EXTENDS Naturals, Sequences

CONSTANTS
  Tenant,     \* ids of tenants rows (uuid4: never reused)
  Browser,    \* administrators' browsers
  Visit,      \* trusted-domain forms in progress
  Password,   \* values of ADMIN_PASSWORD
  Domain,     \* trusted domains as they are typed
  Content,    \* contents of a CHANJET_CHECK.txt
  BLANK,      \* the content of a file with nothing but white space
  NULL,       \* an SQL NULL, nothing sent, nobody
  MaxCrashes  \* bound on the crashes

\* A domain as typed: its name, whether with a port, whether in upper case.
DomainForm == [name: STRING, port: BOOLEAN, upper: BOOLEAN]

ASSUME ConstantsAssumption ==
  /\ Domain \subseteq DomainForm
  /\ NULL \notin Password \cup DomainForm \cup Content /\ BLANK \notin Content
  /\ BLANK # NULL /\ MaxCrashes \in Nat

\* SCHEMA and _COLUMN_MIGRATIONS, in their order.
Tables == <<"tenants", "account_sets", "mcp_clients", "admin_users", "call_logs">>
Columns == <<"pending_auth_code", "pending_auth_code_at", "trusted_domain",
             "trusted_check_content">>
Items(s) == {s[i] : i \in DOMAIN s}

Row == [status: {"none", "live", "deleted"}, domain: DomainForm \cup {NULL},
        content: Content \cup {BLANK, NULL}]
BlankRow == [status |-> "none", domain |-> NULL, content |-> NULL]

\* A form under way: the session its request came with, the tenant it is for
\* and what its body will bring.
Form == [pc: {"idle", "form"}, by: Browser \cup {NULL},
         session: Password \cup {NULL}, tenant: Tenant \cup {NULL},
         domain: Domain \cup {NULL}, content: Content \cup {BLANK, NULL}]
IdleForm == [pc |-> "idle", by |-> NULL, session |-> NULL, tenant |-> NULL,
             domain |-> NULL, content |-> NULL]

VARIABLES
  proc,     \* where the process stands
  env,      \* ADMIN_PASSWORD it was started with, until it is read; NULL if empty
  crashes,  \* number of crashes
  tables,   \* tables of the database file
  columns,  \* columns of tenants among those a migration adds
  admin,    \* the password the administrator's row was made with
  session,  \* per browser, the password its cookie was given for
  row,      \* the rows of tenants
  visit,    \* trusted-domain forms in progress
  asked     \* history: per tenant, the domain and content last asked for

boot == <<proc, env, crashes, tables, columns, admin>>
site == <<row, visit, asked>>
vars == <<boot, session, site>>

TypeOK ==
  /\ proc \in {"down", "tables", "columns", "admin", "serving"}
  /\ env \in Password \cup {NULL} /\ admin \in Password \cup {NULL}
  /\ crashes \in 0..MaxCrashes
  /\ tables \subseteq Items(Tables) /\ columns \subseteq Items(Columns)
  /\ session \in [Browser -> Password \cup {NULL}]
  /\ row \in [Tenant -> Row]
  /\ visit \in [Visit -> Form]
  /\ \A t \in Tenant : row[t].status # "live" => row[t].domain = NULL
  /\ \A v \in Visit : visit[v].pc = "form" =>
       /\ proc = "serving"
       /\ visit[v].tenant \in Tenant /\ row[visit[v].tenant].status # "none"

\* No database yet, or one an older version of the service left.
Init ==
  /\ proc = "down" /\ env = NULL /\ crashes = 0
  /\ \/ tables = {} /\ columns = {}
     \/ /\ tables = Items(Tables)
        /\ \E n \in 0..Len(Columns) : columns = {Columns[i] : i \in 1..n}
  /\ admin = NULL
  /\ session = [b \in Browser |-> NULL]
  /\ row = [t \in Tenant |-> BlankRow]
  /\ visit = [v \in Visit |-> IdleForm]
  /\ asked = [t \in Tenant |-> [domain |-> NULL, content |-> NULL]]

-----------------------------------------------------------------------------
(* Coming up.                                                              *)

Start(p) ==
  /\ proc = "down"
  /\ proc' = "tables"
  /\ env' = p
  /\ UNCHANGED <<crashes, tables, columns, admin, session, site>>

\* executescript(SCHEMA): the first table that is missing.
CreateTables ==
  /\ proc = "tables"
  /\ \/ /\ Items(Tables) \subseteq tables
        /\ proc' = "columns"
        /\ UNCHANGED <<tables, columns>>
     \/ \E i \in DOMAIN Tables :
          /\ Tables[i] \notin tables
          /\ \A j \in 1..(i - 1) : Tables[j] \in tables
          /\ tables' = tables \cup {Tables[i]}
          /\ columns' = IF Tables[i] = "tenants" THEN Items(Columns) ELSE columns
          /\ UNCHANGED proc
  /\ UNCHANGED <<env, crashes, admin, session, site>>

MissingByFirst == IF Columns[1] \in columns THEN {} ELSE Items(Columns)
MissingUnchecked == IF Items(Columns) \subseteq columns THEN {} ELSE Items(Columns)

\* PRAGMA table_info: what _migrate_columns finds missing.
Missing == Items(Columns) \ columns

\* ALTER TABLE fails if the column is there already: the process ends.
MigrateColumns ==
  /\ proc = "columns"
  /\ \/ /\ Missing = {}
        /\ proc' = "admin"
        /\ UNCHANGED columns
     \/ \E i \in DOMAIN Columns :
          /\ Columns[i] \in Missing
          /\ \A j \in 1..(i - 1) : Columns[j] \notin Missing
          /\ IF Columns[i] \in columns
             THEN proc' = "down" /\ UNCHANGED columns
             ELSE columns' = columns \cup {Columns[i]} /\ UNCHANGED proc
  /\ UNCHANGED <<env, crashes, tables, admin, session, site>>

AdminReplaced == IF env = NULL THEN admin ELSE env

\* ensure_initial_admin: only if it has a password and there is no such row.
AdminEnsured == IF admin = NULL THEN env ELSE admin

EnsureInitialAdmin ==
  /\ proc = "admin"
  /\ admin' = AdminEnsured
  /\ proc' = "serving"
  /\ env' = NULL
  /\ UNCHANGED <<crashes, tables, columns, session, site>>

Crash ==
  /\ proc # "down"
  /\ crashes < MaxCrashes
  /\ proc' = "down"
  /\ crashes' = crashes + 1
  /\ env' = NULL
  /\ visit' = [v \in Visit |-> IdleForm]
  /\ UNCHANGED <<tables, columns, admin, session, row, asked>>

-----------------------------------------------------------------------------
(* An administrator's session: a signed cookie, no row.                    *)

VerifyPassword(p) == admin = p

Login(b, p) ==
  /\ proc = "serving"
  /\ VerifyPassword(p)
  /\ session' = [session EXCEPT ![b] = p]
  /\ UNCHANGED <<boot, site>>

\* Logout, or the cookie has come of age or is signed with another secret.
LoseSession(b) ==
  /\ proc = "serving"
  /\ session' = [session EXCEPT ![b] = NULL]
  /\ UNCHANGED <<boot, site>>

\* current_admin
LoggedIn(b) == proc = "serving" /\ session[b] # NULL

-----------------------------------------------------------------------------
(* Tenants and their trusted domain.                                       *)

Live(t) == t \in Tenant /\ row[t].status = "live"

CreateTenant(b, t) ==
  /\ LoggedIn(b)
  /\ row[t].status = "none"
  /\ row' = [row EXCEPT ![t].status = "live"]
  /\ UNCHANGED <<boot, session, visit, asked>>

DeleteTenant(b, t) ==
  /\ LoggedIn(b)
  /\ Live(t)
  /\ row' = [row EXCEPT ![t] = [BlankRow EXCEPT !.status = "deleted"]]
  /\ UNCHANGED <<boot, session, visit, asked>>

\* What a body says of the content: the file if it has any byte, else the
\* text, NULL if neither says anything.  An empty file counts as none, and so
\* does a text of white space; a file of white space does not.
CheckContent(upload, text) == IF upload # NULL THEN upload ELSE text

\* tenant_update_trusted_domain checks the session and the tenant, then
\* awaits the form and the uploaded file.
TrustedDomainForm(v, b, t) ==
  /\ visit[v].pc = "idle"
  /\ LoggedIn(b)
  /\ Live(t)
  /\ \E domain \in Domain \cup {NULL}, upload \in Content \cup {BLANK, NULL},
        text \in Content \cup {NULL} :
       visit' = [visit EXCEPT ![v] =
         [pc |-> "form", by |-> b, session |-> session[b], tenant |-> t,
          domain |-> domain, content |-> CheckContent(upload, text)]]
  /\ UNCHANGED <<boot, session, row, asked>>

KeptAsTyped(domain) == domain

\* strip().lower() of what was typed: the port is kept.
Kept(domain) ==
  IF domain = NULL THEN NULL ELSE [domain EXCEPT !.upper = FALSE]

ContentOverwritten(old, new) == IF new = NULL THEN BLANK ELSE new

\* check_content is None: the column is left as it is.
ContentWritten(old, new) == IF new = NULL THEN old ELSE new

UpdatedUnchecked(t, f) ==
  [row EXCEPT ![t].domain = Kept(f.domain),
              ![t].content = ContentWritten(@, f.content)]

UpdatedIfGiven(t, f) ==
  IF Live(t)
  THEN [row EXCEPT ![t].domain = IF f.domain = NULL THEN @ ELSE Kept(f.domain),
                   ![t].content = ContentWritten(@, f.content)]
  ELSE row

\* UPDATE ... WHERE id = ?
Updated(t, f) ==
  IF Live(t)
  THEN [row EXCEPT ![t].domain = Kept(f.domain),
                   ![t].content = ContentWritten(@, f.content)]
  ELSE row

\* The answer carries the cookie again, with the session the request came with.
UpdateTrustedDomain(v) ==
  /\ visit[v].pc = "form"
  /\ LET f == visit[v]
         t == f.tenant
     IN /\ row' = Updated(t, f)
        /\ asked' = IF Live(t)
                    THEN [asked EXCEPT ![t].domain = f.domain,
                                       ![t].content = IF f.content = NULL
                                                      THEN @ ELSE f.content]
                    ELSE asked
        /\ session' = [session EXCEPT ![f.by] = f.session]
  /\ visit' = [visit EXCEPT ![v] = IdleForm]
  /\ UNCHANGED boot

-----------------------------------------------------------------------------

BootStep == (\E p \in Password \cup {NULL} : Start(p)) \/ CreateTables
              \/ MigrateColumns \/ EnsureInitialAdmin

Next ==
  \/ BootStep
  \/ Crash
  \/ \E b \in Browser :
       \/ \E p \in Password : Login(b, p)
       \/ LoseSession(b)
       \/ \E t \in Tenant : CreateTenant(b, t) \/ DeleteTenant(b, t)
       \/ \E v \in Visit, t \in Tenant : TrustedDomainForm(v, b, t)
  \/ \E v \in Visit : UpdateTrustedDomain(v)

Spec == Init /\ [][Next]_vars

\* The container is started again and the start-up goes on by itself.
FairSpec == Spec /\ WF_vars(BootStep)

-----------------------------------------------------------------------------

(***************************************************************************)
(* No request is served before every table and every column is there,      *)
(* wherever an earlier start was cut off and whatever version left the     *)
(* database.                                                               *)
(***************************************************************************)
ServesMigrated ==
  proc = "serving" => /\ tables = Items(Tables)
                      /\ columns = Items(Columns)

(***************************************************************************)
(* The start-up can be cut off anywhere and begun again (db.py calls it    *)
(* idempotent): the service comes up in the end.                           *)
(***************************************************************************)
Starts == proc = "down" ~> proc = "serving"

(***************************************************************************)
(* A cookie was given for the password of the administrator's row, and is  *)
(* still: a restart with another ADMIN_PASSWORD changes neither, and a     *)
(* form that was under way during a logout brings back its own only.       *)
(***************************************************************************)
SessionOfAdmin ==
  \A b \in Browser : session[b] # NULL => admin # NULL /\ session[b] = admin

(***************************************************************************)
(* The trusted-domain form takes the table for Tenants: it is let in for a *)
(* tenant that is there, and writes to none that is gone.  Neither code    *)
(* nor enabled is read here.                                               *)
(***************************************************************************)
RowOf(t) == [id |-> t, code |-> t, enabled |-> TRUE]

Serves(v) == IF visit[v].pc = "form" THEN {visit[v].tenant} ELSE {}

Table ==
  INSTANCE Tenants WITH
    Code <- Tenant, Worker <- Visit,
    rows <- {RowOf(t) : t \in {u \in Tenant : Live(u)}},
    used <- {t \in Tenant : row[t].status # "none"},
    serving <- [v \in Visit |-> Serves(v)]

KeepsTable == Table!Spec

(***************************************************************************)
(* A verification file is not lost by changing the domain (README,         *)
(* test_admin_domain.py), nor by a restart: only the upload of a blank     *)
(* file clears it.                                                         *)
(***************************************************************************)
ContentKept ==
  [][\A t \in Tenant :
       /\ row[t].content \in Content
       /\ row'[t].status = "live"
       /\ row'[t].content \notin Content
       => \E v \in Visit : visit[v].tenant = t /\ visit[v].content = BLANK]_vars

(***************************************************************************)
(* chanjet_check: the Host header without its port, in lower case; of two  *)
(* rows with the domain either may come first.                             *)
(***************************************************************************)
HostOf(domain) == [domain EXCEPT !.upper = FALSE, !.port = FALSE]

Answers(host) ==
  {row[t].content : t \in {u \in Tenant : Live(u) /\ row[u].domain = host}}
    \cap Content

Served(t) ==
  /\ proc = "serving" /\ Live(t)
  /\ asked[t].domain # NULL /\ asked[t].content \in Content
  /\ \A u \in Tenant \ {t} : Live(u) =>
       asked[u].domain = NULL \/ HostOf(asked[u].domain) # HostOf(asked[t].domain)

(***************************************************************************)
(* A tenant that alone names a domain is answered with the file it was     *)
(* last given, however the domain was typed, whatever forms were under way *)
(* at once and whatever was deleted or restarted since.                    *)
(***************************************************************************)
AnswersDeclared ==
  \A t \in Tenant :
    Served(t) /\ ~asked[t].domain.port =>
      Answers(HostOf(asked[t].domain)) = {asked[t].content}

(***************************************************************************)
(* Also where several tenants name one domain, and after a tenant is gone  *)
(* or has given its domain up: what a host is answered with is the file    *)
(* that a tenant naming the host was last given.                           *)
(***************************************************************************)
AnswersOnlyAsked ==
  \A d \in Domain : \A x \in Answers(HostOf(d)) :
    \E t \in Tenant : /\ Live(t)
                     /\ asked[t].content = x
                     /\ asked[t].domain # NULL
                     /\ HostOf(asked[t].domain) = HostOf(d)

(***************************************************************************)
(* README.md and the form say the domain may carry a port: the same for    *)
(* such a domain.                                                          *)
(***************************************************************************)
DomainMayCarryPort ==
  \A t \in Tenant :
    Served(t) => Answers(HostOf(asked[t].domain)) = {asked[t].content}

=============================================================================
