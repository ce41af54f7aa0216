----------------------------- MODULE MCTokenMgr -----------------------------
(***************************************************************************)
(* Instances of TokenMgr for TLC.                                          *)
(***************************************************************************)
EXTENDS TokenMgr, TLC

\* A complete form, and one that renews the certificate only.
FullAndPartial == {Column, {"certificate"}}

\* Complete forms only.
FullOnly == {Column}

Symmetry == Permutations(Tenant)
=============================================================================
