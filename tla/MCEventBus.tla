----------------------------- MODULE MCEventBus -----------------------------
(***************************************************************************)
(* Instances of EventBus for TLC: two events, one of them coalesced, under *)
(* an exact pattern for the other and a wildcard for both.                 *)
(***************************************************************************)
EXTENDS EventBus

CONSTANTS moved, created, exact, wildcard

CoversBoth == [p \in Pattern |-> IF p = exact THEN {created} ELSE {moved, created}]

Item(p, include) == [event |-> p, include |-> include]

\* Both patterns, and an item before and one behind an invalid one: they overlap
\* with one policy or with two.
SomeBatches ==
    {<<Item(exact, FALSE), Item(wildcard, FALSE)>>,
     <<Item(wildcard, TRUE), Invalid, Item(exact, TRUE)>>}
=============================================================================
