---------------------------- MODULE MCLineReader ----------------------------
(***************************************************************************)
(* An instance of LineReader for TLC: with MaxLine = 3, records below, at, *)
(* just above and well above the bound, next to each other in every way    *)
(* that matters, and the beginning of one that is too long at the end.     *)
(***************************************************************************)
EXTENDS LineReader, Functions

Records == <<3, 4, 3, 9, 1, 4, 4, 2, 9, 3, 1, 1, 5>>

RecordEnds == [i \in DOMAIN Records |-> SumFunctionOnSet(Records, 1 .. i)]
=============================================================================
