------------------------------ MODULE Exchange ------------------------------
(***************************************************************************)
(* One tenant, one exchange at a time with the platform, from end to end:  *)
(* a tool call, a connection test or a push.  What is stored is sealed     *)
(* with MASTER_KEY (app/crypto.py, app/security.py), what the platform     *)
(* pushes is sealed with the message secret, and what it answers is read   *)
(* by app/chanjet/client.py.                                               *)
(*                                                                         *)
(* TokenMgr and Webhook have the races; here the process may come up again *)
(* with another MASTER_KEY, or without one, at any moment.                 *)
(***************************************************************************)
EXTENDS Client, Crypto

CONSTANTS
  MasterKey,  \* values MASTER_KEY may have
  Secret,     \* message secrets: number of their bytes
  Text        \* plain texts of pushes: JSON with an appTicket

MISSING == "missing"  \* MISSING_CREDENTIAL and the like
EMPTY == "empty"      \* CHANJET_TOKEN_EMPTY

ASSUME ConstantsAssumption ==
  /\ Secret \subseteq Nat
  /\ Text \subseteq Seq(Byte)
  /\ NULL \notin Code \cup MasterKey
  /\ {DEFAULT, NETWORK, MISSING, EMPTY} \cap Code = {}

VARIABLES
  master,  \* MASTER_KEY, NULL if not set or not 32 bytes
  row,     \* the row of tenants
  job      \* the exchange in progress

vars == <<master, row, job>>

(***************************************************************************)
(* A sealed column is known by the key that sealed it, NULL if empty.      *)
(* app_secret stands for app_key too.  valid: the token's expiry is more   *)
(* than the skew away.                                                     *)
(***************************************************************************)
Column == {"app_secret", "certificate", "msg_secret", "access_token"}
Credential == Column \ {"access_token"}
Row == [sealed: [Column -> MasterKey \cup {NULL}], valid: BOOLEAN,
        secret: Secret \cup {0}, ticket: BOOLEAN]

Job == [pc: {"idle", "ensure", "posting", "ready", "querying", "sent", "done"},
        kind: {"none", "tool", "test", "push"},
        interface: {"none", "stock", "archive"},
        truth: [tag: {"none", "rows", "otherRows", "refused"}, rows: SUBSET Item,
                code: Code \cup {NULL}],
        told: [tag: {"none", "rows", "error", "raised", "unreadable",
                     "stored", "dropped"},
               rows: SUBSET (Item \cup {OBJECT}),
               code: Code \cup {NULL, DEFAULT, NETWORK, MISSING, EMPTY}],
        text: Text \cup {<<>>}, data: Seq(Byte), secret: Secret \cup {0}]

ToldOnly(tag) == [tag |-> tag, rows |-> {}, code |-> NULL]
NoTruth == [tag |-> "none", rows |-> {}, code |-> NULL]
IdleJob == [pc |-> "idle", kind |-> "none", interface |-> "none",
            truth |-> NoTruth, told |-> ToldOnly("none"),
            text |-> <<>>, data |-> <<>>, secret |-> 0]

TypeOK ==
  /\ master \in MasterKey \cup {NULL}
  /\ row \in Row
  /\ job \in Job
  /\ job.pc \in {"posting", "ready", "querying"} => master # NULL

Init ==
  /\ master \in MasterKey
  /\ row = [sealed |-> [c \in Column |-> NULL], valid |-> FALSE,
            secret |-> 0, ticket |-> FALSE]
  /\ job = IdleJob

Has(c) == row.sealed[c] # NULL

ReadableIfSet(c) == Has(c)

\* decrypt_secret raises RuntimeError without a master key and InvalidTag
\* with another one.
Readable(c) == master # NULL /\ row.sealed[c] = master

-----------------------------------------------------------------------------
(* The administrator, the operator and the clock.                          *)

\* encrypt_secret raises without a master key, and nothing is written.  The
\* cached token is left as it is, and so are the columns the form left empty.
EnterCredentials(S, s) ==
  /\ master # NULL
  /\ row' = [row EXCEPT
       !.sealed = [c \in Column |-> IF c \in S THEN master ELSE @[c]],
       !.secret = IF "msg_secret" \in S THEN s ELSE @]
  /\ UNCHANGED <<master, job>>

\* The process ends, whatever it was doing, and comes up with a MASTER_KEY
\* that is read once (get_settings) and not compared with the database.
Restart(k) ==
  /\ master' = k
  /\ job' = IdleJob
  /\ UNCHANGED row

TokenAges ==
  /\ row.valid
  /\ row' = [row EXCEPT !.valid = FALSE]
  /\ UNCHANGED <<master, job>>

-----------------------------------------------------------------------------
(* A tool call or a connection test.                                       *)

Goto(place) == job' = [job EXCEPT !.pc = place]
End(told) == job' = [job EXCEPT !.pc = "done", !.told = told]

\* A TokenError is a step of the test, but no ToolError: it leaves the tool.
EndWithTokenError(code) ==
  End(IF job.kind = "test" THEN ToldError(code) ELSE ToldOnly("raised"))

Complete == Has("app_secret") /\ Has("certificate") /\ row.ticket

Begin(kind, interface) ==
  /\ job.pc = "idle"
  /\ kind = "test" => interface = "stock"
  /\ job' = [IdleJob EXCEPT !.pc = "ensure", !.kind = kind,
                            !.interface = interface]
  /\ UNCHANGED <<master, row>>

ValidIfCached == Has("access_token")
IsTokenValid == Has("access_token") /\ row.valid

\* The test asks for everything first, a tool call only if it has no token.
EnsureAccessToken ==
  /\ job.pc = "ensure"
  /\ \/ /\ ~Complete
        /\ job.kind = "test" \/ ~IsTokenValid
        /\ EndWithTokenError(MISSING)
     \/ /\ IsTokenValid
        /\ job.kind = "test" => Complete
        /\ IF Readable("access_token") THEN Goto("ready")
           ELSE End(ToldOnly("unreadable"))
     \/ /\ ~IsTokenValid /\ Complete
        /\ IF Readable("app_secret") /\ Readable("certificate")
           THEN Goto("posting")
           ELSE End(ToldOnly("unreadable"))
  /\ UNCHANGED <<master, row>>

TokenBodies ==
  {Envelope(Val("true"), Val(s), "absent", NULL) :
     s \in {"bundle", "object", "text", "null"}} \cup Refusals

\* value is used as an object outside the try: an AttributeError if it is none.
TokenAnswered ==
  /\ job.pc = "posting"
  /\ \E body \in TokenBodies :
       LET answer == ParseEnvelope(body) IN
         \/ /\ answer.tag # "returned"
            /\ EndWithTokenError(ErrorCode(answer))
            /\ UNCHANGED row
         \/ /\ answer.tag = "returned" /\ answer.val.shape = "bundle"
            /\ \E expires \in BOOLEAN :
                 row' = [row EXCEPT !.sealed["access_token"] = master,
                                    !.valid = expires]
            /\ Goto("ready")
         \/ /\ answer.tag = "returned" /\ answer.val.shape # "bundle"
            /\ IF answer.val.shape \in Dict THEN EndWithTokenError(EMPTY)
               ELSE End(ToldOnly("raised"))
            /\ UNCHANGED row
  /\ UNCHANGED master

\* The secret of the headers: the test decrypts it inside its try, the tools
\* before theirs (store_decrypt).
SendQuery ==
  /\ job.pc = "ready"
  /\ IF Readable("app_secret") THEN Goto("querying")
     ELSE End(IF job.kind = "test" THEN ToldError(NETWORK)
              ELSE IF Has("app_secret") THEN ToldOnly("unreadable")
              ELSE ToldError(MISSING))
  /\ UNCHANGED <<master, row>>

\* The platform answers, with rows, a refusal or what no description knows.
Answered(truth, body) ==
  /\ job.pc = "querying"
  /\ job' = [job EXCEPT !.pc = "done", !.truth = truth,
                        !.told = Told(job.interface, body)]
  /\ UNCHANGED <<master, row>>

QueryAnswered ==
  \/ \E R \in SUBSET Item : \E body \in RowBodies(job.interface, R) :
       Answered([tag |-> "rows", rows |-> R, code |-> NULL], body)
  \/ \E R \in SUBSET Item : \E body \in OtherRowBodies(job.interface, R) :
       Answered([tag |-> "otherRows", rows |-> R, code |-> NULL], body)
  \/ \E body \in Refusals :
       Answered([tag |-> "refused", rows |-> {}, code |-> body.code], body)
  \/ \E body \in OddBodies : Answered(NoTruth, body)

\* A timeout, a broken connection, an HTTP status of failure, no JSON.
NoAnswer ==
  /\ \/ job.pc = "posting" /\ EndWithTokenError(NETWORK)
     \/ job.pc = "querying" /\ End(ToldError(NETWORK))
  /\ UNCHANGED <<master, row>>

-----------------------------------------------------------------------------
(* A push.                                                                 *)

Push(text, s) ==
  /\ job.pc = "idle"
  /\ job' = [IdleJob EXCEPT !.pc = "sent", !.kind = "push", !.text = text,
                            !.data = Pad(text), !.secret = s]
  /\ UNCHANGED <<master, row>>

\* decrypt_chanjet_message: the message secret as entered must be the one
\* that sealed the message, and an AES key.
DecryptMessage ==
  IF job.secret = row.secret /\ row.secret \in KeyLengths /\ Padded(job.data)
  THEN Unpad(job.data) ELSE <<>>

\* handle_message stores the ticket; receive_message answers success anyway.
HandleMessage ==
  /\ job.pc = "sent"
  /\ IF Readable("msg_secret") /\ DecryptMessage \in Text
     THEN /\ job' = [job EXCEPT !.pc = "done", !.told = ToldOnly("stored"),
                                !.data = DecryptMessage]
          /\ row' = [row EXCEPT !.ticket = TRUE]
     ELSE End(ToldOnly("dropped")) /\ UNCHANGED row
  /\ UNCHANGED master

Forget ==
  /\ job.pc = "done"
  /\ job' = IdleJob
  /\ UNCHANGED <<master, row>>

-----------------------------------------------------------------------------

JobStep ==
  \/ EnsureAccessToken \/ TokenAnswered \/ SendQuery \/ QueryAnswered
  \/ NoAnswer \/ HandleMessage \/ Forget

Next ==
  \/ \E S \in (SUBSET Credential) \ {{}}, s \in Secret : EnterCredentials(S, s)
  \/ \E k \in MasterKey \cup {NULL} : Restart(k)
  \/ TokenAges
  \/ \E i \in {"stock", "archive"}, k \in {"tool", "test"} : Begin(k, i)
  \/ \E text \in Text, s \in Secret : Push(text, s)
  \/ JobStep

Spec == Init /\ [][Next]_vars

\* Time passes, an exchange ends by its timeout at the latest.
FairSpec == Spec /\ WF_vars(TokenAges) /\ WF_vars(JobStep)

-----------------------------------------------------------------------------

\* What the properties say of a column: sealed with the key in use.
Current(c) == master # NULL /\ row.sealed[c] = master

(***************************************************************************)
(* Rows the platform gives, in any of the shapes described for the         *)
(* interface (RowBodies), reach the caller: all of them and no others.  In *)
(* the shapes described for T+ queries in general (OtherRowBodies) none    *)
(* does, although the plan asks for both to be understood: on stock the    *)
(* caller is told an error, on the other five that there are no rows.  So  *)
(* no answer is ever passed on in part or with rows that are none.         *)
(***************************************************************************)
RowsArrive ==
  /\ job.truth.tag = "rows" => job.told = ToldRows(job.truth.rows)
  /\ job.truth.tag = "otherRows" =>
       IF job.interface = "stock" THEN job.told.tag = "error"
                                  ELSE job.told = ToldRows({})

(***************************************************************************)
(* A refusal is never taken for rows, not for no rows either, and if it    *)
(* has a code the caller is told that code.                                *)
(***************************************************************************)
RefusalsReported ==
  job.truth.tag = "refused" =>
    /\ job.told.tag = "error"
    /\ job.truth.code # NULL => job.told.code = job.truth.code

(***************************************************************************)
(* A push of any length, sealed with the message secret as entered, is     *)
(* stored and says what the platform sealed, unless the secret is no AES   *)
(* key or cannot be read.                                                  *)
(***************************************************************************)
PushArrives ==
  [][job.pc = "sent" /\ job'.pc = "done" /\ Current("msg_secret")
       /\ job.secret = row.secret /\ row.secret \in KeyLengths
     => job'.told.tag = "stored" /\ job'.data = job.text /\ row'.ticket]_vars

(***************************************************************************)
(* A connection test that passed has read what a tool call reads: as long  *)
(* as the process runs, no tool call that finds the token of the test      *)
(* still valid ends in an exception of the cipher.                         *)
(***************************************************************************)
TestMeansReadable ==
  job.kind = "test" /\ job.told.tag = "rows" =>
    Current("app_secret") /\ Current("access_token")

(***************************************************************************)
(* After a change of MASTER_KEY, entering the credentials again is enough  *)
(* in the end: the token sealed with the old key, which no form can enter  *)
(* or clear, stands in the way only until it has expired.                  *)
(***************************************************************************)
EnteredAgain == \A c \in Credential : Current(c)
Recovers == <>[]EnteredAgain => <>[](job.told.tag # "unreadable")

=============================================================================
