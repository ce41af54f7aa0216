------------------------------- MODULE Client -------------------------------
(***************************************************************************)
(* app/chanjet/client.py: what the client makes of the platform's answers. *)
(* Success and refusal are told apart by the shape of the body only, and   *)
(* the interfaces do not agree about the shapes.                           *)
(*                                                                         *)
(* A JSON value is known by its shape and by the rows found in it:         *)
(*   list     an array                  paged   an object with a Data array*)
(*   listText the JSON text of one      valued  an object with a value one *)
(*   text     another JSON text         bundle  an object with accessToken *)
(*   badText  no JSON text, "" included object  any other object           *)
(***************************************************************************)
EXTENDS FiniteSets

CONSTANTS
  Item,    \* rows of the platform
  Code,    \* its error codes
  OBJECT,  \* a row that is a whole answer, not a row of the platform
  NULL     \* no code

DEFAULT == "failed"   \* CHANJET_QUERY_FAILED, CHANJET_TOKEN_FAILED
NETWORK == "network"  \* CHANJET_NETWORK_ERROR

Dict == {"paged", "valued", "bundle", "object"}
Val(s) == [shape |-> s, rows |-> {}]
With(s, R) == [shape |-> s, rows |-> R]

(***************************************************************************)
(* A body: itself as a value, and its fields result, value and error if it *)
(* is an object that has them.                                             *)
(***************************************************************************)
Bare(v) == [self |-> v, result |-> Val("absent"), value |-> Val("absent"),
            error |-> "absent", code |-> NULL]
Envelope(r, v, e, c) == [self |-> Val("object"), result |-> r, value |-> v,
                         error |-> e, code |-> c]
HasResult(body) == body.result.shape # "absent"

\* How a call of the client ends.
Returned(v) == [tag |-> "returned", val |-> v, code |-> NULL]
Refused(c) == [tag |-> "refused", val |-> Val("null"), code |-> c]
Raised == [tag |-> "raised", val |-> Val("null"), code |-> NULL]

\* ChanjetApiError.  error.get on a text or an array is an AttributeError.
ApiError(body) ==
  IF body.error \in {"text", "list"} THEN Raised ELSE Refused(body.code)

\* What `or {}` replaces.
Falsy(v) == \/ v.shape \in {"absent", "null", "false"}
            \/ v.shape = "list" /\ v.rows = {}

ParseEnvelope(body) ==
  IF body.result.shape # "true" THEN ApiError(body)
  ELSE Returned(IF Falsy(body.value) THEN Val("object") ELSE body.value)

ReturnedAsIs(body) == Returned(body.self)

CallBusinessApi(body) ==
  IF HasResult(body) THEN ParseEnvelope(body) ELSE Returned(body.self)

\* query_current_stock
StockRows(v) == IF v.shape \in {"list", "valued"} THEN v.rows ELSE {}

EnvelopeQuery(body) == CallBusinessApi(body)

\* Here result is the payload, and only False is a refusal.
BusinessQuery(body) ==
  IF ~HasResult(body) THEN Returned(body.self)
  ELSE IF body.result.shape = "false" THEN ApiError(body)
  ELSE Returned(body.result)

\* _as_rows: an object, and a JSON text that is no array, become one row.
AsRows(v) ==
  IF v.shape \in {"list", "paged", "listText"} THEN v.rows
  ELSE IF v.shape \in Dict \cup {"text"} THEN {OBJECT}
  ELSE {}

\* The stock interface answers with an array or the boolean envelope, the
\* other five with a payload.
Query(interface, body) ==
  IF interface = "stock" THEN CallBusinessApi(body) ELSE BusinessQuery(body)
Rows(interface, v) ==
  IF interface = "stock" THEN StockRows(v) ELSE AsRows(v)

(***************************************************************************)
(* What the caller is told (_run_query, run_connection_test): rows, or an  *)
(* error with the platform's code, the default one, or NETWORK for every   *)
(* other exception, whatever raised it.                                    *)
(***************************************************************************)
ToldRows(R) == [tag |-> "rows", rows |-> R, code |-> NULL]
ToldError(c) == [tag |-> "error", rows |-> {}, code |-> c]
ErrorCode(answer) ==
  IF answer.tag = "raised" THEN NETWORK
  ELSE IF answer.code = NULL THEN DEFAULT ELSE answer.code

Told(interface, body) ==
  LET answer == Query(interface, body) IN
    IF answer.tag = "returned" THEN ToldRows(Rows(interface, answer.val))
    ELSE ToldError(ErrorCode(answer))

-----------------------------------------------------------------------------
(* The platform's side, from the interfaces' descriptions in docs.         *)

Payload(s, R) == Envelope(With(s, R), Val("absent"), "absent", NULL)
Unified(R) == Envelope(Val("true"), With("list", R), "absent", NULL)

\* Bodies that say "these rows", in the shapes the comment at the function that
\* reads them describes (client.py:120 for stock, 140-145 for the others).
RowBodies(interface, R) ==
  IF interface = "stock"
  THEN {Bare(With("list", R)), Unified(R)}
  ELSE {Payload(s, R) : s \in {"list", "paged", "listText"}}
       \cup {Bare(With(s, R)) : s \in {"list", "paged"}}

\* Bodies that say "these rows" too, in the shapes the documents have for all T+
\* queries: result is the payload (plan-cjt2mcp.md:274), or {result, value,
\* error} (client.py:7, plan-cjt2mcp.md:82).
OtherRowBodies(interface, R) ==
  IF interface = "stock" THEN {Payload(s, R) : s \in {"list", "paged"}}
  ELSE {Unified(R)}

\* Bodies that say "no", with a code or without, the error well formed or not.
Refusals ==
  {Envelope(Val("false"), Val("absent"), "object", c) : c \in Code \cup {NULL}}
  \cup {Envelope(Val("false"), Val("absent"), e, NULL) :
          e \in {"absent", "text", "list"}}

\* Bodies no description knows.
OddBodies ==
  {Bare(Val(s)) : s \in {"object", "null", "text", "badText"}}
  \cup {Envelope(Val(s), Val("absent"), "absent", NULL) : s \in {"null", "true"}}
=============================================================================
