------------------------------ MODULE TokenUse ------------------------------
(***************************************************************************)
(* What the token manager promises to whoever sends a business query: for  *)
(* as long as the query is under way it carries a token of its own tenant  *)
(* that has not run out.  How the token is cached, refreshed, saved and    *)
(* lost is left to TokenMgr, which implements this.                        *)
(***************************************************************************)
EXTENDS Integers

CONSTANTS Worker,  \* those who send queries
          Life     \* how long a token is good after the platform minted it

VARIABLES
  now,   \* the clock
  held   \* per worker, the token of the query it has under way, if any:
         \* at most one [for, of, born], the tenant it is used for, the
         \* tenant it was minted for and the time

Good(u, time) == u.of = u.for /\ time < u.born + Life

Init ==
  /\ now = 0
  /\ held = [w \in Worker |-> {}]

\* The query goes out: with which token is the manager's choice.
Take(w) ==
  /\ held[w] = {}
  /\ \E u \in held'[w] : /\ Good(u, now)
                         /\ held' = [held EXCEPT ![w] = {u}]
  /\ UNCHANGED now

\* The query is over; several at once if the process is killed.
Drop ==
  /\ \E W \in SUBSET Worker :
       held' = [w \in Worker |-> IF w \in W THEN {} ELSE held[w]]
  /\ UNCHANGED now

\* Time passes only while every query under way stays entitled to it.
Tick ==
  /\ now' = now + 1
  /\ \A w \in Worker : \A u \in held[w] : Good(u, now')
  /\ UNCHANGED held

Next == (\E w \in Worker : Take(w)) \/ Drop \/ Tick

Spec == Init /\ [][Next]_<<now, held>>

(***************************************************************************)
(* What that means to the sender of a query: at every moment it is under   *)
(* way its token is its own tenant's and alive.                            *)
(***************************************************************************)
AlwaysGood == \A w \in Worker : \A u \in held[w] : Good(u, now)
=============================================================================
