----------------------------- MODULE MCRequests -----------------------------
(***************************************************************************)
(* Instances of Requests for TLC: two calls of the Python client and one   *)
(* request of another program.                                             *)
(***************************************************************************)
EXTENDS Requests, TLC

CONSTANTS a, b, raw

Calls == {a, b, raw}
Raws == {raw}
Names == Permutations({a, b})
=============================================================================
