---------------------------- MODULE MCConnection ----------------------------
(***************************************************************************)
(* Instances of Connection for TLC.                                        *)
(***************************************************************************)
EXTENDS Connection, TLC

Names == Permutations(Call) \cup Permutations(Transport)
=============================================================================
