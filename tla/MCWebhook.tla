------------------------------ MODULE MCWebhook -----------------------------
(***************************************************************************)
(* Instances of Webhook for TLC.                                           *)
(***************************************************************************)
EXTENDS Webhook, TLC

Symmetry == Permutations(Tenant) \cup Permutations(Delivery) \cup Permutations(Secret)
=============================================================================
