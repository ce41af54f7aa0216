------------------------------ MODULE KeyGate -------------------------------
(***************************************************************************)
(* What the MCP endpoint promises about keys: a key is a gate that an      *)
(* administrator opens and closes and, once, shuts for good; a call comes  *)
(* in only through an open gate, and what it runs then is within what the  *)
(* key was made for.  McpServer implements this with three tables, two     *)
(* awaits and forms that race.                                             *)
(***************************************************************************)
CONSTANTS Key, Request

VARIABLES
  gate,   \* per key: "none" (not made), "open", "closed" or "shut"
  grant,  \* per key, once it is made: {[tenant, code, scopes]}
  pass,   \* per request, while it is inside: {[key, code]}
  runs    \* per request, while it runs a tool: {[tenant, scope]}

\* What may become of a gate: made open or closed, turned, shut; no more.
Turns ==
  {"none"} \X {"none", "open", "closed"}
    \cup {"open", "closed"} \X {"open", "closed", "shut"}
    \cup {<<"shut", "shut">>}

Init ==
  /\ gate = [k \in Key |-> "none"]
  /\ grant = [k \in Key |-> {}]
  /\ pass = [r \in Request |-> {}]
  /\ runs = [r \in Request |-> {}]

\* The administrator: several keys at once when a tenant is disabled or
\* deleted.  What a key is for is decided when it is made.
Administer ==
  /\ gate' = [k \in Key |-> gate'[k]]
  /\ grant' = [k \in Key |-> grant'[k]]
  /\ \A k \in Key : /\ <<gate[k], gate'[k]>> \in Turns
                    /\ gate[k] # "none" => grant'[k] = grant[k]
  /\ UNCHANGED <<pass, runs>>

Enter(r) ==
  /\ pass[r] = {}
  /\ \E p \in pass'[r] :
       /\ p.key \in Key
       /\ gate[p.key] = "open"
       /\ \E g \in grant[p.key] : p.code = g.code
       /\ pass' = [pass EXCEPT ![r] = {p}]
  /\ UNCHANGED <<gate, grant, runs>>

Run(r) ==
  /\ runs[r] = {}
  /\ \E p \in pass[r], u \in runs'[r] :
       /\ \E g \in grant[p.key] : u.tenant = g.tenant /\ u.scope \in g.scopes
       /\ runs' = [runs EXCEPT ![r] = {u}]
  /\ UNCHANGED <<gate, grant, pass>>

\* Answered, refused, or cut off, all at once if the process is killed.
Leave ==
  /\ \E R \in SUBSET Request :
       /\ pass' = [r \in Request |-> IF r \in R THEN {} ELSE pass[r]]
       /\ runs' = [r \in Request |-> IF r \in R THEN {} ELSE runs[r]]
  /\ UNCHANGED <<gate, grant>>

Next == Administer \/ (\E r \in Request : Enter(r) \/ Run(r)) \/ Leave

Spec == Init /\ [][Next]_<<gate, grant, pass, runs>>

(***************************************************************************)
(* What that means to the holder of a key: a call is inside under a code   *)
(* the key was made for, and what it runs is within the key's grant, until *)
(* it ends and whatever becomes of the gate.                               *)
(***************************************************************************)
WithinGrant ==
  \A r \in Request :
    /\ \A p \in pass[r] : \E g \in grant[p.key] : p.code = g.code
    /\ \A u \in runs[r] : \E p \in pass[r] : \E g \in grant[p.key] :
         u.tenant = g.tenant /\ u.scope \in g.scopes

(***************************************************************************)
(* And to whoever shuts one: it stays shut, its grant stays what it was,   *)
(* and no call that was outside comes in with it.                          *)
(***************************************************************************)
ShutIsFinal ==
  \A k \in Key : gate[k] = "shut" =>
    /\ gate'[k] = "shut" /\ grant'[k] = grant[k]
    /\ \A r \in Request : \A p \in pass'[r] : p.key = k => p \in pass[r]

StaysShut == [][ShutIsFinal]_<<gate, grant, pass, runs>>
=============================================================================
