------------------------------ MODULE Tenants -------------------------------
(***************************************************************************)
(* What every component takes the table of tenants for: rows come and go   *)
(* whole, a code names one row at a time, an id that was used is never     *)
(* used again, and whoever serves a tenant has found it there and enabled  *)
(* when it began.  McpServer, Webhook, TokenMgr and Site each have the     *)
(* table with the columns they read, and each implements this.             *)
(***************************************************************************)
EXTENDS TLAPS

CONSTANTS Tenant, Code,
          Worker  \* calls, pushes and forms

VARIABLES
  rows,    \* the rows there are: [id, code, enabled]
  used,    \* ids that are or were in the table
  serving  \* per worker, the tenant it serves, {} if none

Init ==
  /\ rows = {}
  /\ used = {}
  /\ serving = [w \in Worker |-> {}]

Insert(t, c) ==
  /\ t \notin used
  /\ \A e \in rows : e.code # c
  /\ rows' = rows \cup {[id |-> t, code |-> c, enabled |-> TRUE]}
  /\ used' = used \cup {t}
  /\ UNCHANGED serving

Switch(e, b) ==
  /\ rows' = (rows \ {e}) \cup {[e EXCEPT !.enabled = b]}
  /\ UNCHANGED <<used, serving>>

Delete(e) ==
  /\ rows' = rows \ {e}
  /\ UNCHANGED <<used, serving>>

Admit(w, e) ==
  /\ serving[w] = {}
  /\ e.enabled
  /\ serving' = [serving EXCEPT ![w] = {e.id}]
  /\ UNCHANGED <<rows, used>>

\* Done, given up, or all of them cut off.
Finish ==
  /\ \E W \in SUBSET Worker :
       serving' = [w \in Worker |-> IF w \in W THEN {} ELSE serving[w]]
  /\ UNCHANGED <<rows, used>>

Next ==
  \/ \E t \in Tenant, c \in Code : Insert(t, c)
  \/ \E e \in rows : \/ \E b \in BOOLEAN : Switch(e, b)
                     \/ Delete(e)
                     \/ \E w \in Worker : Admit(w, e)
  \/ Finish

vars == <<rows, used, serving>>

Spec == Init /\ [][Next]_vars

(***************************************************************************)
(* The table is sound at every moment: an id and a code each name at most  *)
(* one row, and nobody serves a tenant that never was.                     *)
(***************************************************************************)
Sound ==
  /\ \A e, f \in rows : e.id = f.id \/ e.code = f.code => e = f
  /\ {e.id : e \in rows} \subseteq used
  /\ \A w \in Worker : serving[w] \subseteq used

(***************************************************************************)
(* And nothing is undone: a tenant that is gone does not come back, one    *)
(* that is there keeps its code, and a worker that begins to serve one has *)
(* found it there and enabled.                                             *)
(***************************************************************************)
NoneReturns ==
  /\ used \subseteq used'
  /\ \A e \in rows' : e.id \in used =>
       \E f \in rows : f.id = e.id /\ f.code = e.code
  /\ \A w \in Worker : \A t \in serving'[w] \ serving[w] :
       \E e \in rows : e.id = t /\ e.enabled

NeverUndone == [][NoneReturns]_vars

-----------------------------------------------------------------------------
(* Both hold whatever implements this.                                     *)

LEMMA NextSound == Sound /\ [Next]_vars => Sound' /\ NoneReturns
<1> SUFFICES ASSUME Sound, [Next]_vars PROVE Sound' /\ NoneReturns
  OBVIOUS
<1>1. ASSUME NEW t \in Tenant, NEW c \in Code, Insert(t, c)
      PROVE  Sound' /\ NoneReturns
  <2> DEFINE new == [id |-> t, code |-> c, enabled |-> TRUE]
  <2>1. /\ rows' = rows \cup {new} /\ used' = used \cup {t} /\ t \notin used
        /\ \A e \in rows : e.code # c /\ e.id # t
    BY <1>1 DEF Insert, Sound
  <2>2. new.id = t /\ new.code = c
    OBVIOUS
  <2> HIDE DEF new
  <2> QED
    BY <1>1, <2>1, <2>2 DEF Insert, Sound, NoneReturns
<1>2. ASSUME NEW e \in rows, NEW b \in BOOLEAN, Switch(e, b)
      PROVE  Sound' /\ NoneReturns
  <2> DEFINE new == [e EXCEPT !.enabled = b]
  <2>1. rows' = (rows \ {e}) \cup {new}
    BY <1>2 DEF Switch
  <2>2. new.id = e.id /\ new.code = e.code
    OBVIOUS
  <2> HIDE DEF new
  <2> QED
    BY <1>2, <2>1, <2>2 DEF Switch, Sound, NoneReturns
<1>3. ASSUME NEW e \in rows, Delete(e)
      PROVE  Sound' /\ NoneReturns
  BY <1>3 DEF Delete, Sound, NoneReturns
<1>4. ASSUME NEW e \in rows, NEW w \in Worker, Admit(w, e)
      PROVE  Sound' /\ NoneReturns
  <2>1. \A v \in Worker :
          \/ serving'[v] = serving[v]
          \/ serving'[v] = {e.id}
          \/ serving'[v] = {}
    BY <1>4 DEF Admit
  <2> QED
    BY <1>4, <2>1 DEF Admit, Sound, NoneReturns
<1>5. CASE Finish
  BY <1>5 DEF Finish, Sound, NoneReturns
<1>6. CASE UNCHANGED vars
  BY <1>6 DEF vars, Sound, NoneReturns
<1> QED
  BY <1>1, <1>2, <1>3, <1>4, <1>5, <1>6 DEF Next

THEOREM TableMeans == Spec => []Sound /\ NeverUndone
<1>1. Init => Sound
  BY DEF Init, Sound
<1> QED
  BY <1>1, NextSound, PTL DEF Spec, NeverUndone
=============================================================================
