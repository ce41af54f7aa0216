---------------------------- MODULE MCMcpServer -----------------------------
(***************************************************************************)
(* Instances of McpServer for TLC.                                         *)
(***************************************************************************)
EXTENDS McpServer, TLC

TwoGrants == {{"stock:read"}, {"archive:read"}}
OneGrant == {{"stock:read", "archive:read"}}

Symmetry == Permutations(Tenant) \cup Permutations(Key)
            \cup Permutations(Request) \cup Permutations(Visit)
=============================================================================
