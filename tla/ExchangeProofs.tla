--------------------------- MODULE ExchangeProofs ---------------------------
(***************************************************************************)
(* Theorems about Exchange, for any keys, secrets, rows, codes and texts.  *)
(***************************************************************************)
EXTENDS Exchange, CryptoProofs, TLAPS

ToldType == [tag: {"none", "rows", "error", "raised", "unreadable",
                   "stored", "dropped"},
             rows: SUBSET (Item \cup {OBJECT}),
             code: Code \cup {NULL, DEFAULT, NETWORK, MISSING, EMPTY}]
TruthType == [tag: {"none", "rows", "otherRows", "refused"}, rows: SUBSET Item,
              code: Code \cup {NULL}]

\* What each place of an exchange has behind it.
JobOK ==
  /\ job.pc # "done" => job.truth = NoTruth /\ job.told = ToldOnly("none")
  /\ RowsArrive
  /\ RefusalsReported
  /\ job.pc \in {"ready", "querying"} => Current("access_token")
  /\ job.pc = "querying" => Current("app_secret")
  /\ job.told.tag = "rows" => Current("access_token") /\ Current("app_secret")
  /\ job.pc = "sent" => job.text \in Text /\ job.data = Pad(job.text)

IInv == TypeOK /\ JobOK

-----------------------------------------------------------------------------
(* What the client makes of an answer.                                     *)

LEMMA RowsTold ==
  ASSUME NEW interface, NEW R \in SUBSET Item,
         NEW body \in RowBodies(interface, R)
  PROVE  Told(interface, body) = ToldRows(R)
<1>1. CASE interface = "stock"
  <2>1. CASE body = Bare(With("list", R))
    BY <1>1, <2>1 DEF Bare, With, Val, Told, Query, Rows, CallBusinessApi,
                      HasResult, Returned, StockRows
  <2>2. CASE body = Envelope(Val("true"), With("list", R), "absent", NULL)
    <3>1. Query(interface, body)
            = Returned(IF R = {} THEN Val("object") ELSE With("list", R))
      BY <1>1, <2>2 DEF Envelope, With, Val, Query, CallBusinessApi, HasResult,
                        ParseEnvelope, Falsy
    <3> QED
      BY <1>1, <3>1 DEF Told, Rows, Returned, StockRows, With, Val
  <2> QED
    BY <1>1, <2>1, <2>2 DEF RowBodies, Unified
<1>2. CASE interface # "stock"
  <2>1. PICK s \in {"list", "paged", "listText"} :
          body \in {Payload(s, R), Bare(With(s, R))}
    BY <1>2 DEF RowBodies
  <2>2. Query(interface, body) = Returned(With(s, R))
    BY <1>2, <2>1 DEF Payload, Bare, Envelope, With, Val, Query, BusinessQuery,
                      HasResult
  <2> QED
    BY <1>2, <2>1, <2>2 DEF Told, Rows, Returned, AsRows, With
<1> QED
  BY <1>1, <1>2

\* Rows in a shape of another interface: an error on stock, where the payload
\* is taken for the mark of success, and no rows elsewhere, where the mark of
\* success is taken for the payload.
LEMMA OtherRowsTold ==
  ASSUME NEW interface, NEW R \in SUBSET Item,
         NEW body \in OtherRowBodies(interface, R)
  PROVE  /\ Told(interface, body) \in ToldType
         /\ IF interface = "stock" THEN Told(interface, body).tag = "error"
                                   ELSE Told(interface, body) = ToldRows({})
<1>1. CASE interface = "stock"
  <2>1. PICK s \in {"list", "paged"} : body = Payload(s, R)
    BY <1>1 DEF OtherRowBodies
  <2>2. Query(interface, body) = Refused(NULL)
    BY <1>1, <2>1 DEF Payload, Envelope, With, Val, Query, CallBusinessApi,
                      HasResult, ParseEnvelope, ApiError
  <2>3. Told(interface, body) = ToldError(DEFAULT)
    BY <2>2 DEF Told, Refused, ErrorCode
  <2> QED
    BY <1>1, <2>3 DEF ToldError, ToldType
<1>2. CASE interface # "stock"
  <2>1. Query(interface, body) = Returned(Val("true"))
    BY <1>2 DEF OtherRowBodies, Unified, Envelope, With, Val, Query,
                BusinessQuery, HasResult
  <2>2. Told(interface, body) = ToldRows({})
    BY <1>2, <2>1 DEF Told, Rows, Returned, AsRows, Val, Dict
  <2> QED
    BY <1>2, <2>2 DEF ToldRows, ToldType
<1> QED
  BY <1>1, <1>2

LEMMA RefusalAnswer ==
  ASSUME NEW body \in Refusals
  PROVE  /\ body.code \in Code \cup {NULL}
         /\ ApiError(body) \in {Raised, Refused(body.code)}
         /\ body.code # NULL => ApiError(body) = Refused(body.code)
         /\ body.result = Val("false")
<1>1. CASE \E c \in Code \cup {NULL} :
             body = Envelope(Val("false"), Val("absent"), "object", c)
  BY <1>1 DEF Envelope, ApiError
<1>2. CASE \E e \in {"absent", "text", "list"} :
             body = Envelope(Val("false"), Val("absent"), e, NULL)
  BY <1>2 DEF Envelope, ApiError
<1> QED
  BY <1>1, <1>2 DEF Refusals

LEMMA RefusalTold ==
  ASSUME NEW interface, NEW body \in Refusals
  PROVE  /\ Told(interface, body) \in ToldType
         /\ Told(interface, body).tag = "error"
         /\ body.code # NULL => Told(interface, body).code = body.code
<1>1. Query(interface, body) = ApiError(body)
  BY RefusalAnswer DEF Query, CallBusinessApi, BusinessQuery, ParseEnvelope,
                       HasResult, Val
<1>2. Told(interface, body) = ToldError(ErrorCode(ApiError(body)))
  BY <1>1, RefusalAnswer DEF Told, Raised, Refused
<1>3. /\ ErrorCode(ApiError(body)) \in Code \cup {DEFAULT, NETWORK}
      /\ body.code # NULL => ErrorCode(ApiError(body)) = body.code
  BY RefusalAnswer DEF ErrorCode, Raised, Refused
<1> QED
  BY <1>2, <1>3 DEF ToldError, ToldType

LEMMA OddTold ==
  ASSUME NEW interface, NEW body \in OddBodies
  PROVE  Told(interface, body) \in ToldType
<1>1. PICK s \in {"object", "null", "text", "badText", "true"} :
        \/ body = Bare(Val(s))
        \/ /\ s \in {"null", "true"}
           /\ body = Envelope(Val(s), Val("absent"), "absent", NULL)
  BY DEF OddBodies
<1> USE DEF Val, Told, ToldType, ToldRows, ToldError, Rows, StockRows, AsRows,
            Returned, Query, HasResult
<1>2. CASE body = Bare(Val(s))
  BY <1>1, <1>2 DEF Bare, CallBusinessApi, BusinessQuery
<1>3. CASE s = "true" /\ body = Envelope(Val(s), Val("absent"), "absent", NULL)
  BY <1>3 DEF Envelope, CallBusinessApi, BusinessQuery, ParseEnvelope, Falsy
<1>4. CASE s = "null" /\ body = Envelope(Val(s), Val("absent"), "absent", NULL)
  BY <1>4 DEF Envelope, CallBusinessApi, BusinessQuery, ParseEnvelope,
              ApiError, Refused, ErrorCode
<1> QED
  BY <1>1, <1>2, <1>3, <1>4

\* What getting a token may end with, and with what the exchange goes on.
LEMMA TokenErrorCodes ==
  ASSUME NEW body \in TokenBodies
  PROVE  LET answer == ParseEnvelope(body)
         IN  answer.tag # "returned" =>
               ErrorCode(answer) \in Code \cup {DEFAULT, NETWORK}
<1>1. CASE body \in Refusals
  <2>1. ParseEnvelope(body) = ApiError(body)
    BY <1>1, RefusalAnswer DEF ParseEnvelope, Val
  <2> QED
    BY <1>1, <2>1, RefusalAnswer DEF ErrorCode, Raised, Refused
<1>2. CASE body \notin Refusals
  <2>1. body.result.shape = "true"
    BY <1>2 DEF TokenBodies, Envelope, Val
  <2> QED
    BY <2>1 DEF ParseEnvelope, Returned
<1> QED
  BY <1>1, <1>2

-----------------------------------------------------------------------------
(* Steps of an exchange.                                                   *)

LEMMA JobFields ==
  ASSUME TypeOK
  PROVE  /\ job.truth \in TruthType /\ job.told \in ToldType
         /\ job.text \in Text \cup {<<>>} /\ job.data \in Seq(Byte)
         /\ job.secret \in Secret \cup {0}
         /\ job.interface \in {"none", "stock", "archive"}
         /\ job.kind \in {"none", "tool", "test", "push"}
BY DEF TypeOK, Job, TruthType, ToldType

LEMMA JobTyped ==
  ASSUME TypeOK, NEW pc, NEW truth \in TruthType, NEW told \in ToldType,
         pc \in {"idle", "ensure", "posting", "ready", "querying", "sent",
                 "done"}
  PROVE  /\ [job EXCEPT !.pc = pc, !.truth = truth, !.told = told] \in Job
         /\ [job EXCEPT !.pc = pc, !.told = told] \in Job
<1>1. [job EXCEPT !.pc = pc, !.truth = truth, !.told = told] \in Job
  BY DEF TypeOK, Job, TruthType, ToldType
<1>2. [job EXCEPT !.pc = pc, !.told = told] \in Job
  BY DEF TypeOK, Job, ToldType
<1> QED
  BY <1>1, <1>2

LEMMA IdleTyped == IdleJob \in Job
<1>1. NoTruth \in TruthType /\ ToldOnly("none") \in ToldType
  BY DEF NoTruth, ToldOnly, TruthType, ToldType
<1> QED
  BY <1>1 DEF IdleJob, Job, TruthType, ToldType

LEMMA InitInv == Init => IInv
<1> SUFFICES ASSUME Init PROVE IInv
  OBVIOUS
<1>1. row \in Row
  BY DEF Init, Row, Column
<1>2. TypeOK
  BY <1>1, IdleTyped DEF Init, TypeOK, IdleJob
<1>3. JobOK
  BY DEF Init, JobOK, IdleJob, NoTruth, ToldOnly, RowsArrive, RefusalsReported
<1> QED
  BY <1>2, <1>3 DEF IInv

\* An idle job has nothing behind it.
LEMMA BackToIdle ==
  ASSUME IInv, job' = IdleJob, row' = row, master' \in MasterKey \cup {NULL}
  PROVE  IInv'
<1>1. TypeOK'
  BY IdleTyped DEF IInv, TypeOK, IdleJob
<1>2. JobOK'
  BY DEF JobOK, IdleJob, NoTruth, ToldOnly, RowsArrive, RefusalsReported
<1> QED
  BY <1>1, <1>2 DEF IInv

\* A column that is current stays so, whatever is entered.
LEMMA EnterInv ==
  ASSUME IInv, NEW S \in SUBSET Credential, NEW s \in Secret,
         EnterCredentials(S, s)
  PROVE  IInv'
<1>1. /\ master # NULL /\ master' = master /\ job' = job
      /\ row' = [row EXCEPT
           !.sealed = [c \in Column |-> IF c \in S THEN master ELSE @[c]],
           !.secret = IF "msg_secret" \in S THEN s ELSE @]
  BY DEF EnterCredentials
<1>2. /\ row \in Row /\ master \in MasterKey
      /\ row.sealed \in [Column -> MasterKey \cup {NULL}]
      /\ row.secret \in Secret \cup {0}
  BY <1>1 DEF IInv, TypeOK, Row
<1>3. /\ row' \in Row
      /\ row'.sealed = [c \in Column |->
                          IF c \in S THEN master ELSE row.sealed[c]]
  <2> DEFINE q == [c \in Column |-> IF c \in S THEN master ELSE row.sealed[c]]
             n == IF "msg_secret" \in S THEN s ELSE row.secret
  <2>1. q \in [Column -> MasterKey \cup {NULL}] /\ n \in Secret \cup {0}
    BY <1>2
  <2>2. row' = [row EXCEPT !.sealed = q, !.secret = n]
    BY <1>1, <1>2 DEF Row
  <2> HIDE DEF q, n
  <2>3. row' \in Row /\ row'.sealed = q
    BY <1>2, <2>1, <2>2 DEF Row
  <2> QED
    BY <2>3 DEF q
<1>4. TypeOK'
  BY <1>1, <1>3 DEF IInv, TypeOK
<1>5. ASSUME NEW c \in Column, Current(c) PROVE row'.sealed[c] = master
  BY <1>3, <1>5 DEF Current
<1>6. /\ Current("access_token") => Current("access_token")'
      /\ Current("app_secret") => Current("app_secret")'
  BY <1>1, <1>5 DEF Current, Column
<1>7. JobOK'
  BY <1>1, <1>6 DEF IInv, JobOK, RowsArrive, RefusalsReported
<1> QED
  BY <1>4, <1>7 DEF IInv

LEMMA TokenAgesInv == ASSUME IInv, TokenAges PROVE IInv'
<1>1. row' \in Row /\ row'.sealed = row.sealed
  BY DEF TokenAges, IInv, TypeOK, Row
<1>2. TypeOK' /\ JobOK'
  BY <1>1 DEF TokenAges, IInv, TypeOK, JobOK, RowsArrive, RefusalsReported,
              Current
<1> QED
  BY <1>2 DEF IInv

LEMMA BeginInv ==
  ASSUME IInv, NEW k \in {"tool", "test"}, NEW i \in {"stock", "archive"},
         Begin(k, i)
  PROVE  IInv'
<1>1. /\ job' = [IdleJob EXCEPT !.pc = "ensure", !.kind = k, !.interface = i]
      /\ UNCHANGED <<master, row>>
  BY DEF Begin
<1>2. /\ job' \in Job /\ job'.pc = "ensure"
      /\ job'.truth = NoTruth /\ job'.told = ToldOnly("none")
  BY <1>1, IdleTyped DEF IdleJob, Job
<1>3. TypeOK'
  BY <1>1, <1>2 DEF IInv, TypeOK
<1>4. JobOK'
  BY <1>2 DEF JobOK, NoTruth, ToldOnly, RowsArrive, RefusalsReported
<1> QED
  BY <1>3, <1>4 DEF IInv

LEMMA PushInv ==
  ASSUME IInv, NEW text \in Text, NEW s \in Secret, Push(text, s) PROVE IInv'
<1>1. /\ job' = [IdleJob EXCEPT !.pc = "sent", !.kind = "push", !.text = text,
                                !.data = Pad(text), !.secret = s]
      /\ UNCHANGED <<master, row>>
  BY DEF Push
<1>2. Pad(text) \in Seq(Byte)
  BY ConstantsAssumption, PadShape
<1>3. /\ job' \in Job /\ job'.pc = "sent"
      /\ job'.truth = NoTruth /\ job'.told = ToldOnly("none")
      /\ job'.text = text /\ job'.data = Pad(text)
  BY <1>1, <1>2, IdleTyped DEF IdleJob, Job
<1>4. TypeOK'
  BY <1>1, <1>3 DEF IInv, TypeOK
<1>5. JobOK'
  BY <1>3 DEF JobOK, NoTruth, ToldOnly, RowsArrive, RefusalsReported
<1> QED
  BY <1>4, <1>5 DEF IInv

\* An end without rows asks for nothing.
LEMMA EndInv ==
  ASSUME IInv, job.pc # "done", NEW told \in ToldType, told.tag # "rows",
         job' = [job EXCEPT !.pc = "done", !.told = told],
         row' \in Row, master' = master
  PROVE  IInv'
<1>1. TypeOK /\ job.truth \in TruthType
  BY JobFields DEF IInv
<1>2. job' \in Job
  BY <1>1, JobTyped
<1>3. job'.pc = "done" /\ job'.told = told /\ job'.truth = NoTruth
  BY DEF IInv, TypeOK, Job, JobOK
<1>4. TypeOK'
  BY <1>2, <1>3 DEF IInv, TypeOK
<1>5. JobOK'
  BY <1>3 DEF JobOK, NoTruth, RowsArrive, RefusalsReported
<1> QED
  BY <1>4, <1>5 DEF IInv

LEMMA GotoInv ==
  ASSUME IInv, job.pc # "done", NEW place \in {"posting", "ready", "querying"},
         Goto(place), row' \in Row, master' = master, master # NULL,
         place \in {"ready", "querying"} => Current("access_token")',
         place = "querying" => Current("app_secret")'
  PROVE  IInv'
<1>1. job' = [job EXCEPT !.pc = place, !.truth = job.truth, !.told = job.told]
  BY DEF IInv, TypeOK, Job, Goto
<1>2. /\ job' \in Job /\ job'.pc = place
      /\ job'.truth = NoTruth /\ job'.told = ToldOnly("none")
  BY <1>1, JobTyped, JobFields DEF IInv, TypeOK, Job, JobOK
<1>3. TypeOK'
  BY <1>2 DEF IInv, TypeOK
<1>4. JobOK'
  BY <1>2 DEF JobOK, NoTruth, ToldOnly, RowsArrive, RefusalsReported
<1> QED
  BY <1>3, <1>4 DEF IInv

LEMMA EndsTyped ==
  /\ \A c \in Code \cup {DEFAULT, NETWORK, MISSING, EMPTY} :
       ToldError(c) \in ToldType /\ ToldError(c).tag = "error"
  /\ \A tag \in {"raised", "unreadable", "stored", "dropped"} :
       ToldOnly(tag) \in ToldType /\ ToldOnly(tag).tag = tag
BY DEF ToldError, ToldOnly, ToldType

LEMMA TokenErrorInv ==
  ASSUME IInv, job.pc # "done",
         NEW c \in Code \cup {DEFAULT, NETWORK, MISSING, EMPTY},
         EndWithTokenError(c), row' = row, master' = master
  PROVE  IInv'
<1>1. PICK told \in ToldType :
        /\ told.tag # "rows"
        /\ job' = [job EXCEPT !.pc = "done", !.told = told]
  BY EndsTyped DEF EndWithTokenError, End
<1>2. row' \in Row
  BY DEF IInv, TypeOK
<1> QED
  BY <1>1, <1>2, EndInv

LEMMA EnsureInv == ASSUME IInv, EnsureAccessToken PROVE IInv'
<1>1. /\ job.pc = "ensure" /\ row' = row /\ master' = master /\ row' \in Row
  BY DEF EnsureAccessToken, IInv, TypeOK
<1>2. ASSUME End(ToldOnly("unreadable")) PROVE IInv'
  BY <1>1, <1>2, EndInv, EndsTyped DEF End
<1>3. ASSUME EndWithTokenError(MISSING) PROVE IInv'
  BY <1>1, <1>3, TokenErrorInv
<1>4. ASSUME Readable("access_token"), Goto("ready") PROVE IInv'
  BY <1>1, <1>4, GotoInv DEF Readable, Current
<1>5. ASSUME Readable("app_secret"), Goto("posting") PROVE IInv'
  BY <1>1, <1>5, GotoInv DEF Readable
<1> QED
  BY <1>2, <1>3, <1>4, <1>5 DEF EnsureAccessToken

LEMMA TokenAnsweredInv == ASSUME IInv, TokenAnswered PROVE IInv'
<1>1. job.pc = "posting" /\ master' = master /\ master \in MasterKey
      /\ master # NULL /\ row \in Row
  BY DEF TokenAnswered, IInv, TypeOK
<1>2. PICK body \in TokenBodies :
        LET answer == ParseEnvelope(body) IN
          \/ /\ answer.tag # "returned"
             /\ EndWithTokenError(ErrorCode(answer))
             /\ UNCHANGED row
          \/ /\ answer.tag = "returned" /\ answer.val.shape = "bundle"
             /\ \E expires \in BOOLEAN :
                  row' = [row EXCEPT !.sealed["access_token"] = master,
                                     !.valid = expires]
             /\ Goto("ready")
          \/ /\ answer.tag = "returned" /\ answer.val.shape # "bundle"
             /\ IF answer.val.shape \in Dict THEN EndWithTokenError(EMPTY)
                ELSE End(ToldOnly("raised"))
             /\ UNCHANGED row
  BY DEF TokenAnswered
<1>3. ASSUME NEW c \in Code \cup {DEFAULT, NETWORK, EMPTY},
             EndWithTokenError(c), row' = row
      PROVE  IInv'
  BY <1>1, <1>3, TokenErrorInv
<1>4. ASSUME End(ToldOnly("raised")), row' = row PROVE IInv'
  BY <1>1, <1>4, EndInv, EndsTyped DEF End
<1>5. ASSUME NEW expires \in BOOLEAN, Goto("ready"),
             row' = [row EXCEPT !.sealed["access_token"] = master,
                                !.valid = expires]
      PROVE  IInv'
  <2> DEFINE q == [row.sealed EXCEPT !["access_token"] = master]
  <2>1. row' = [row EXCEPT !.sealed = q, !.valid = expires]
    BY <1>1, <1>5 DEF Row
  <2>2. /\ q \in [Column -> MasterKey \cup {NULL}]
        /\ q["access_token"] = master
    BY <1>1 DEF Row, Column
  <2> HIDE DEF q
  <2>3. row' \in Row /\ row'.sealed = q
    BY <1>1, <2>1, <2>2 DEF Row
  <2> QED
    BY <1>1, <1>5, <2>2, <2>3, GotoInv DEF Current
<1> QED
  BY <1>2, <1>3, <1>4, <1>5, TokenErrorCodes

LEMMA SendQueryInv == ASSUME IInv, SendQuery PROVE IInv'
<1>1. /\ job.pc = "ready" /\ row' = row /\ master' = master /\ row' \in Row
      /\ master # NULL /\ Current("access_token")
  BY DEF SendQuery, IInv, TypeOK, JobOK
<1>2. ASSUME Readable("app_secret"), Goto("querying") PROVE IInv'
  BY <1>1, <1>2, GotoInv DEF Readable, Current
<1>3. ASSUME NEW told \in ToldType, told.tag # "rows", End(told) PROVE IInv'
  BY <1>1, <1>3, EndInv DEF End
<1> QED
  BY <1>2, <1>3, EndsTyped DEF SendQuery

LEMMA AnsweredInv ==
  ASSUME IInv, NEW truth \in TruthType, NEW body, Answered(truth, body),
         Told(job.interface, body) \in ToldType,
         truth.tag = "rows" =>
           Told(job.interface, body) = ToldRows(truth.rows),
         truth.tag = "otherRows" =>
           IF job.interface = "stock" THEN Told(job.interface, body).tag = "error"
           ELSE Told(job.interface, body) = ToldRows({}),
         truth.tag = "refused" =>
           /\ Told(job.interface, body).tag = "error"
           /\ truth.code # NULL => Told(job.interface, body).code = truth.code
  PROVE  IInv'
<1>1. PICK told \in ToldType : told = Told(job.interface, body)
  OBVIOUS
<1>2. /\ job.pc = "querying" /\ UNCHANGED <<master, row>>
      /\ job' = [job EXCEPT !.pc = "done", !.truth = truth, !.told = told]
  BY <1>1 DEF Answered
<1>3. /\ job' \in Job /\ job'.pc = "done"
      /\ job'.truth = truth /\ job'.told = told
      /\ job'.interface = job.interface
  BY <1>2, JobTyped DEF IInv, TypeOK, Job
<1>4. TypeOK'
  BY <1>2, <1>3 DEF IInv, TypeOK
<1>5. Current("access_token")' /\ Current("app_secret")'
  BY <1>2 DEF IInv, JobOK, Current
<1>6. JobOK'
  BY <1>1, <1>3, <1>5 DEF JobOK, RowsArrive, RefusalsReported
<1> QED
  BY <1>4, <1>6 DEF IInv

LEMMA QueryAnsweredInv == ASSUME IInv, QueryAnswered PROVE IInv'
<1>1. ASSUME NEW R \in SUBSET Item, NEW body \in RowBodies(job.interface, R),
             Answered([tag |-> "rows", rows |-> R, code |-> NULL], body)
      PROVE  IInv'
  <2>1. [tag |-> "rows", rows |-> R, code |-> NULL] \in TruthType
    BY DEF TruthType
  <2>2. Told(job.interface, body) = ToldRows(R) /\ ToldRows(R) \in ToldType
    BY <1>1, RowsTold DEF ToldRows, ToldType
  <2> QED
    BY <1>1, <2>1, <2>2, AnsweredInv
<1>2. ASSUME NEW body \in Refusals,
             Answered([tag |-> "refused", rows |-> {}, code |-> body.code], body)
      PROVE  IInv'
  <2>1. [tag |-> "refused", rows |-> {}, code |-> body.code] \in TruthType
    BY RefusalAnswer DEF TruthType
  <2> QED
    BY <1>2, <2>1, RefusalTold, AnsweredInv
<1>3. ASSUME NEW R \in SUBSET Item,
             NEW body \in OtherRowBodies(job.interface, R),
             Answered([tag |-> "otherRows", rows |-> R, code |-> NULL], body)
      PROVE  IInv'
  <2>1. [tag |-> "otherRows", rows |-> R, code |-> NULL] \in TruthType
    BY DEF TruthType
  <2> QED
    BY <1>3, <2>1, OtherRowsTold, AnsweredInv
<1>4. ASSUME NEW body \in OddBodies, Answered(NoTruth, body) PROVE IInv'
  <2>1. NoTruth \in TruthType /\ NoTruth.tag = "none"
    BY DEF NoTruth, TruthType
  <2> QED
    BY <1>4, <2>1, OddTold, AnsweredInv
<1> QED
  BY <1>1, <1>2, <1>3, <1>4 DEF QueryAnswered

LEMMA NoAnswerInv == ASSUME IInv, NoAnswer PROVE IInv'
<1>1. row' = row /\ master' = master /\ row' \in Row
      /\ job.pc \in {"posting", "querying"}
  BY DEF NoAnswer, IInv, TypeOK
<1>2. ASSUME EndWithTokenError(NETWORK) PROVE IInv'
  BY <1>1, <1>2, TokenErrorInv
<1>3. ASSUME End(ToldError(NETWORK)) PROVE IInv'
  BY <1>1, <1>3, EndInv, EndsTyped DEF End
<1> QED
  BY <1>2, <1>3 DEF NoAnswer

\* A push that can be read is read as it was written.
LEMMA ReadsPush ==
  ASSUME IInv, job.pc = "sent"
  PROVE  /\ DecryptMessage \in {job.text, <<>>}
         /\ job.secret = row.secret /\ row.secret \in KeyLengths =>
              DecryptMessage = job.text
         /\ job.text \in Text
<1>1. job.text \in Text /\ job.text \in Seq(Byte) /\ job.data = Pad(job.text)
  BY ConstantsAssumption DEF IInv, JobOK
<1>2. Padded(job.data) /\ Unpad(job.data) = job.text
  BY <1>1, UnpadUndoesPad
<1> QED
  BY <1>1, <1>2 DEF DecryptMessage

LEMMA HandleInv == ASSUME IInv, HandleMessage PROVE IInv'
<1>1. job.pc = "sent" /\ master' = master /\ row \in Row
  BY DEF HandleMessage, IInv, TypeOK
<1>2. CASE Readable("msg_secret") /\ DecryptMessage \in Text
  <2>1. PICK d \in Seq(Byte) : d = DecryptMessage
    BY <1>2, ConstantsAssumption
  <2>2. job' = [job EXCEPT !.pc = "done", !.told = ToldOnly("stored"),
                           !.data = d]
        /\ row' = [row EXCEPT !.ticket = TRUE]
    BY <1>2, <2>1 DEF HandleMessage
  <2>3. ToldOnly("stored") \in ToldType /\ ToldOnly("stored").tag = "stored"
    BY EndsTyped
  <2>4. /\ job' \in Job /\ job'.pc = "done" /\ job'.truth = NoTruth
        /\ job'.told = ToldOnly("stored")
    BY <1>1, <2>2, <2>3 DEF IInv, TypeOK, Job, ToldType, JobOK
  <2>5. row' \in Row
    BY <1>1, <2>2 DEF Row
  <2>6. TypeOK'
    BY <1>1, <2>4, <2>5 DEF IInv, TypeOK
  <2>7. JobOK'
    BY <2>3, <2>4 DEF JobOK, NoTruth, RowsArrive, RefusalsReported
  <2> QED
    BY <2>6, <2>7 DEF IInv
<1>3. CASE ~(Readable("msg_secret") /\ DecryptMessage \in Text)
  <2>1. End(ToldOnly("dropped")) /\ row' = row
    BY <1>3 DEF HandleMessage
  <2> QED
    BY <1>1, <2>1, EndInv, EndsTyped DEF End
<1> QED
  BY <1>2, <1>3

LEMMA NextInv == ASSUME IInv, [Next]_vars PROVE IInv'
<1>1. CASE UNCHANGED vars
  BY <1>1 DEF vars, IInv, TypeOK, JobOK, RowsArrive, RefusalsReported, Current
<1>2. ASSUME NEW S \in SUBSET Credential, NEW s \in Secret,
             EnterCredentials(S, s)
      PROVE  IInv'
  BY <1>2, EnterInv
<1>3. ASSUME NEW k \in MasterKey \cup {NULL}, Restart(k) PROVE IInv'
  BY <1>3, BackToIdle DEF Restart
<1>4. ASSUME Forget PROVE IInv'
  BY <1>4, BackToIdle DEF Forget, IInv, TypeOK
<1>5. ASSUME NEW k \in {"tool", "test"}, NEW i \in {"stock", "archive"},
             Begin(k, i)
      PROVE  IInv'
  BY <1>5, BeginInv
<1>6. ASSUME NEW text \in Text, NEW s \in Secret, Push(text, s) PROVE IInv'
  BY <1>6, PushInv
<1>7. CASE TokenAges
  BY <1>7, TokenAgesInv
<1>8. CASE JobStep
  BY <1>4, <1>8, EnsureInv, TokenAnsweredInv, SendQueryInv, QueryAnsweredInv,
     NoAnswerInv, HandleInv DEF JobStep
<1> QED
  BY <1>1, <1>2, <1>3, <1>5, <1>6, <1>7, <1>8 DEF Next

(***************************************************************************)
(* The inductive invariant: what an exchange has behind it at each place.  *)
(***************************************************************************)
THEOREM InvCorrect == Spec => []IInv
<1>1. IInv /\ [Next]_vars => IInv'
  BY NextInv
<1> QED
  BY InitInv, <1>1, PTL DEF Spec

(***************************************************************************)
(* Types; an exchange in progress has a master key.                        *)
(***************************************************************************)
THEOREM TypeCorrect == Spec => []TypeOK
<1>1. IInv => TypeOK
  BY DEF IInv
<1> QED
  BY InvCorrect, <1>1, PTL

(***************************************************************************)
(* The platform's rows reach the caller, whatever rows there are, in every *)
(* shape client.py describes for the interface; in the plan's other shapes *)
(* they become an error (stock) or no rows (the other five).               *)
(***************************************************************************)
THEOREM AllRowsArrive == Spec => []RowsArrive
<1>1. IInv => RowsArrive
  BY DEF IInv, JobOK
<1> QED
  BY InvCorrect, <1>1, PTL

(***************************************************************************)
(* A refusal is reported as one, with the platform's code if it has one.   *)
(***************************************************************************)
THEOREM AllRefusalsReported == Spec => []RefusalsReported
<1>1. IInv => RefusalsReported
  BY DEF IInv, JobOK
<1> QED
  BY InvCorrect, <1>1, PTL

(***************************************************************************)
(* A connection test that passed has read the secret and the token with    *)
(* the key in use, whatever keys the process was started with before.      *)
(***************************************************************************)
THEOREM TestReadAll == Spec => []TestMeansReadable
<1>1. IInv => TestMeansReadable
  BY DEF IInv, JobOK, TestMeansReadable
<1> QED
  BY InvCorrect, <1>1, PTL

(***************************************************************************)
(* A push of any length whose secret can be read and fits is stored and    *)
(* says what the platform sealed.                                          *)
(***************************************************************************)
THEOREM AllPushesArrive == Spec => PushArrives
<1>1. ASSUME IInv, [Next]_vars, job.pc = "sent", job'.pc = "done",
             Current("msg_secret"), job.secret = row.secret,
             row.secret \in KeyLengths
      PROVE  job'.told.tag = "stored" /\ job'.data = job.text /\ row'.ticket
  <2>1. HandleMessage
    <3>1. job' # job /\ job' # IdleJob
      BY <1>1 DEF IdleJob
    <3>2. /\ ~EnsureAccessToken /\ ~TokenAnswered /\ ~SendQuery /\ ~NoAnswer
          /\ ~QueryAnswered /\ ~Forget /\ ~TokenAges
      BY <1>1 DEF EnsureAccessToken, TokenAnswered, SendQuery, NoAnswer,
                  QueryAnswered, Answered, Forget, TokenAges
    <3>3. \A S, s : ~EnterCredentials(S, s)
      BY <3>1 DEF EnterCredentials
    <3>4. \A k : ~Restart(k)
      BY <3>1 DEF Restart
    <3>5. /\ \A k, i : ~Begin(k, i)
          /\ \A text, s : ~Push(text, s)
      BY <1>1 DEF Begin, Push
    <3> QED
      BY <1>1, <3>1, <3>2, <3>3, <3>4, <3>5 DEF Next, JobStep, vars
  <2>2. DecryptMessage = job.text /\ job.text \in Text
    BY <1>1, ReadsPush
  <2>3. Readable("msg_secret")
    BY <1>1 DEF Current, Readable
  <2>4. /\ job' = [job EXCEPT !.pc = "done", !.told = ToldOnly("stored"),
                              !.data = job.text]
        /\ row' = [row EXCEPT !.ticket = TRUE]
    BY <2>1, <2>2, <2>3 DEF HandleMessage
  <2> QED
    BY <1>1, <2>4 DEF IInv, TypeOK, Job, Row, ToldOnly
<1>2. IInv /\ [Next]_vars =>
        [job.pc = "sent" /\ job'.pc = "done" /\ Current("msg_secret")
           /\ job.secret = row.secret /\ row.secret \in KeyLengths
         => job'.told.tag = "stored" /\ job'.data = job.text
            /\ row'.ticket]_vars
  BY <1>1
<1> QED
  BY InvCorrect, <1>2, PTL DEF Spec, PushArrives

-----------------------------------------------------------------------------
(* Reading what was sealed.                                                *)

(***************************************************************************)
(* What one step makes of the columns: none is sealed with another key     *)
(* than the one in use, and the form leaves the token alone.               *)
(***************************************************************************)
LEMMA ColumnsMove ==
  ASSUME IInv, [Next]_vars, master' = master
  PROVE  /\ \A c \in Column : row'.sealed[c] \in {row.sealed[c], master}
         /\ row'.sealed["access_token"] # row.sealed["access_token"]
              => Current("access_token")'
         /\ row'.valid /\ ~row.valid => Current("access_token")'
<1> USE DEF IInv, TypeOK
<1>1. row \in Row /\ row.sealed \in [Column -> MasterKey \cup {NULL}]
  BY DEF Row
<1>2. CASE row' = row
  BY <1>2
<1>3. ASSUME NEW S \in SUBSET Credential, NEW s \in Secret,
             EnterCredentials(S, s)
      PROVE  /\ \A c \in Column : row'.sealed[c] \in {row.sealed[c], master}
             /\ row'.sealed["access_token"] = row.sealed["access_token"]
             /\ row'.valid = row.valid
  <2> DEFINE q == [c \in Column |-> IF c \in S THEN master ELSE row.sealed[c]]
             x == IF "msg_secret" \in S THEN s ELSE row.secret
  <2>1. row' = [row EXCEPT !.sealed = q, !.secret = x]
    BY <1>1, <1>3 DEF EnterCredentials, Row
  <2>2. /\ \A c \in Column : q[c] \in {row.sealed[c], master}
        /\ q["access_token"] = row.sealed["access_token"]
    BY <1>3 DEF Column, Credential
  <2> HIDE DEF q, x
  <2>3. row'.sealed = q /\ row'.valid = row.valid
    BY <1>1, <2>1 DEF Row
  <2> QED
    BY <2>2, <2>3
<1>4. CASE TokenAges
  BY <1>1, <1>4 DEF TokenAges, Row
<1>5. ASSUME TokenAnswered, row' # row
      PROVE  /\ \A c \in Column : row'.sealed[c] \in {row.sealed[c], master}
             /\ Current("access_token")'
  <2>1. PICK expires \in BOOLEAN :
          row' = [row EXCEPT !.sealed["access_token"] = master,
                             !.valid = expires]
    BY <1>5 DEF TokenAnswered
  <2> DEFINE q == [row.sealed EXCEPT !["access_token"] = master]
  <2>2. row' = [row EXCEPT !.sealed = q, !.valid = expires]
    BY <1>1, <2>1 DEF Row
  <2>3. /\ \A c \in Column : q[c] \in {row.sealed[c], master}
        /\ q["access_token"] = master
    BY <1>1 DEF Column
  <2> HIDE DEF q
  <2>4. row'.sealed = q
    BY <1>1, <2>2 DEF Row
  <2>5. master # NULL
    BY <1>5 DEF TokenAnswered
  <2> QED
    BY <2>3, <2>4, <2>5 DEF Current
<1>6. CASE HandleMessage
  BY <1>1, <1>6 DEF HandleMessage, Row
<1> QED
  BY <1>2, <1>3, <1>4, <1>5, <1>6
  DEF Next, vars, Restart, Begin, Push, JobStep, EnsureAccessToken, SendQuery,
      QueryAnswered, Answered, NoAnswer, Forget

(***************************************************************************)
(* An exchange ends in an exception of the cipher only where the code      *)
(* reads a column the key in use did not seal.                             *)
(***************************************************************************)
LEMMA CipherError ==
  ASSUME IInv, [Next]_vars,
         job.told.tag # "unreadable", job'.told.tag = "unreadable"
  PROVE  \/ ~Current("app_secret")
         \/ job.pc = "ensure" /\ IsTokenValid /\ ~Current("access_token")
         \/ job.pc = "ensure" /\ ~IsTokenValid /\ ~Current("certificate")
<1> USE DEF IInv, TypeOK
<1>1. job \in Job
  OBVIOUS
<1>2. \A told : End(told) => job'.told = told
  BY <1>1 DEF End, Job
<1>3. \A place : Goto(place) => job'.told = job.told
  BY <1>1 DEF Goto, Job
<1>4. \A c : /\ ToldError(c).tag # "unreadable"
             /\ ToldOnly("raised").tag # "unreadable"
             /\ EndWithTokenError(c) => job'.told.tag # "unreadable"
  BY <1>2 DEF EndWithTokenError, ToldError, ToldOnly
<1>5. IdleJob.told.tag # "unreadable"
  BY DEF IdleJob, ToldOnly
<1>6. ASSUME NEW truth, NEW body, Answered(truth, body) PROVE FALSE
  <2>1. job'.told = Told(job.interface, body)
    BY <1>1, <1>6 DEF Answered, Job
  <2> QED
    BY <2>1 DEF Told, ToldRows, ToldError
<1>7. ~QueryAnswered
  BY <1>6 DEF QueryAnswered
<1>8. ~NoAnswer
  BY <1>2, <1>4 DEF NoAnswer
<1>9. ~TokenAnswered
  BY <1>2, <1>3, <1>4 DEF TokenAnswered
<1>10. ~HandleMessage
  <2>1. /\ ToldOnly("stored").tag = "stored"
        /\ ToldOnly("dropped").tag = "dropped"
    BY DEF ToldOnly
  <2>2. ASSUME NEW data,
               job' = [job EXCEPT !.pc = "done", !.told = ToldOnly("stored"),
                                  !.data = data]
        PROVE  job'.told = ToldOnly("stored")
    BY <1>1, <2>2 DEF Job
  <2> QED
    BY <1>2, <2>1, <2>2 DEF HandleMessage
<1>11. ~Forget
  BY <1>5 DEF Forget
<1>12. ASSUME NEW kind, NEW i PROVE ~Begin(kind, i)
  BY <1>5 DEF Begin, IdleJob, ToldOnly
<1>13. ASSUME NEW text, NEW s PROVE ~Push(text, s)
  BY <1>5 DEF Push, IdleJob, ToldOnly
<1>14. job' # job /\ job' # IdleJob
  BY <1>5
<1>15. CASE EnsureAccessToken
  BY <1>3, <1>4, <1>15 DEF EnsureAccessToken, Readable, Current
<1>16. CASE SendQuery
  BY <1>2, <1>3, <1>4, <1>16 DEF SendQuery, Readable, Current
<1> QED
  BY <1>7, <1>8, <1>9, <1>10, <1>11, <1>12, <1>13, <1>14, <1>15, <1>16
  DEF Next, vars, EnterCredentials, Restart, TokenAges, JobStep

(***************************************************************************)
(* What a passed connection test found readable stays so as long as the    *)
(* process runs, whatever is entered, refreshed or pushed, and no exchange *)
(* that finds the token valid then ends in an exception of the cipher      *)
(* (TestMeansReadable says that both columns are readable at the test).    *)
(***************************************************************************)
THEOREM TestHolds ==
  Spec => [][/\ master' = master =>
                  \A c \in Column : Current(c) => Current(c)'
             /\ /\ Current("app_secret") /\ Current("access_token")
                /\ job.pc = "ensure" => row.valid
                /\ job.told.tag # "unreadable"
                => job'.told.tag # "unreadable"]_vars
<1> DEFINE A == /\ master' = master =>
                     \A c \in Column : Current(c) => Current(c)'
                /\ /\ Current("app_secret") /\ Current("access_token")
                   /\ job.pc = "ensure" => row.valid
                   /\ job.told.tag # "unreadable"
                   => job'.told.tag # "unreadable"
<1>1. IInv /\ [Next]_vars => A
  <2> SUFFICES ASSUME IInv, [Next]_vars PROVE A
    OBVIOUS
  <2>1. ASSUME master' = master, NEW c \in Column, Current(c)
        PROVE  Current(c)'
    BY <2>1, ColumnsMove DEF Current
  <2>2. ASSUME Current("app_secret"), Current("access_token"),
               job.pc = "ensure" => row.valid,
               job.told.tag # "unreadable", job'.told.tag = "unreadable"
        PROVE  FALSE
    BY <2>2, CipherError DEF Current, IsTokenValid, Has
  <2> QED
    BY <2>1, <2>2
<1> HIDE DEF A
<1>2. Spec => [][A]_vars
  BY InvCorrect, <1>1, PTL DEF Spec
<1> QED
  BY <1>2 DEF A

-----------------------------------------------------------------------------
(* Recovery.                                                               *)

\* No token that another key sealed would be served.
TokenReads == row.valid /\ Has("access_token") => Current("access_token")

(***************************************************************************)
(* What that rests on besides fairness: a token that is valid can expire,  *)
(* and an exchange under way can go on.  Both steps have the place itself  *)
(* for a guard, so this holds by the guards; it is a hypothesis of the     *)
(* theorem because ENABLED is out of the prover's reach.                   *)
(***************************************************************************)
NeverStuck ==
  /\ row.valid => ENABLED <<TokenAges>>_vars
  /\ job.pc # "idle" => ENABLED <<JobStep>>_vars

(***************************************************************************)
(* Entering the credentials again recovers from a change of MASTER_KEY: if *)
(* all of them stay readable from some moment on, no exchange after some   *)
(* moment ends in an exception of the cipher, although the token of the    *)
(* old key can be neither entered nor cleared.                             *)
(***************************************************************************)
THEOREM RecoversInTheEnd == FairSpec /\ []NeverStuck => Recovers
<1> DEFINE Fine == job.told.tag # "unreadable"
<1>1. IInv /\ TokenReads /\ [Next]_vars /\ EnteredAgain /\ EnteredAgain'
        => TokenReads'
  <2> SUFFICES ASSUME IInv, TokenReads, [Next]_vars,
                      EnteredAgain, EnteredAgain'
               PROVE  TokenReads'
    OBVIOUS
  <2>1. master' = master
    <3>1. CASE row' = row
      BY <3>1 DEF EnteredAgain, Current, Credential, Column
    <3>2. CASE row' # row
      BY <3>2 DEF Next, vars, Restart, EnterCredentials, TokenAges, Begin,
                  Push, JobStep, EnsureAccessToken, TokenAnswered, SendQuery,
                  QueryAnswered, Answered, NoAnswer, HandleMessage, Forget
    <3> QED
      BY <3>1, <3>2
  <2> QED
    BY <2>1, ColumnsMove DEF TokenReads, Has, Current
<1>2. ~TokenReads => row.valid
  BY DEF TokenReads
<1>3. IInv /\ <<TokenAges>>_vars => TokenReads'
  BY DEF TokenAges, TokenReads, IInv, TypeOK, Row
<1>4. IInv /\ TokenReads /\ EnteredAgain /\ Fine /\ [Next]_vars => Fine'
  BY CipherError DEF EnteredAgain, Credential, Column, TokenReads, IsTokenValid
<1>5. IInv /\ ~Fine => job.pc = "done"
  BY DEF IInv, JobOK, ToldOnly
<1>6. IInv /\ ~Fine /\ <<JobStep>>_vars => Fine'
  <2> SUFFICES ASSUME IInv, ~Fine, JobStep PROVE Fine'
    OBVIOUS
  <2>1. Forget
    BY <1>5 DEF JobStep, EnsureAccessToken, TokenAnswered, SendQuery,
                QueryAnswered, Answered, NoAnswer, HandleMessage
  <2> QED
    BY <2>1 DEF Forget, IdleJob, ToldOnly
<1>7. NeverStuck /\ row.valid => ENABLED <<TokenAges>>_vars
  BY DEF NeverStuck
<1>8. NeverStuck /\ job.pc = "done" => ENABLED <<JobStep>>_vars
  BY DEF NeverStuck
<1> HIDE DEF Fine
<1>9. FairSpec /\ []NeverStuck => (<>[]EnteredAgain => <>[]Fine)
  BY <1>1, <1>2, <1>3, <1>4, <1>5, <1>6, <1>7, <1>8, InvCorrect, PTL
  DEF FairSpec, Spec
<1> QED
  BY <1>9 DEF Fine, Recovers
=============================================================================
