------------------------------ MODULE MCServer ------------------------------
(***************************************************************************)
(* Instances of Server for TLC: clients whose records are at the bound,    *)
(* well over it, and good; an event that is coalesced, and one that is     *)
(* not, under one pattern.                                                 *)
(***************************************************************************)
EXTENDS Server

CONSTANTS moved, created, all

\* With MaxLineBytes = 2
RequestRecords == [c \in Client |-> <<2, 4, 1>>]

CoversAll == [p \in Pattern |-> Event]

OneBatch == {<<[event |-> all, include |-> TRUE]>>}
=============================================================================
