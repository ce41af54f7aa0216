------------------------------- MODULE MCSite -------------------------------
(***************************************************************************)
(* Instances of Site for TLC.                                              *)
(***************************************************************************)
EXTENDS Site

Plain == [name |-> "a", port |-> FALSE, upper |-> FALSE]

\* One name in both cases.
TypedDomains == {Plain, [Plain EXCEPT !.upper = TRUE]}

\* One name with and without a port.
PortDomains == {Plain, [Plain EXCEPT !.port = TRUE]}
=============================================================================
