----------------------------- MODULE MCExchange -----------------------------
(***************************************************************************)
(* Instances of Exchange for TLC.                                          *)
(***************************************************************************)
EXTENDS Exchange

\* One byte short of a block, one block, and less than none.
BlockTexts == {[i \in 1..15 |-> 34], [i \in 1..16 |-> 34], <<34, 1>>}

\* An AES-128 key and one that is too short.
TwoSecrets == {16, 5}
=============================================================================
