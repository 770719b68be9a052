------------------------ MODULE MCSubscriptionMemory ------------------------
(***************************************************************************)
(* Instances of SubscriptionMemory for TLC.                                *)
(***************************************************************************)
EXTENDS SubscriptionMemory, TLC

Names == Permutations(Pattern) \cup Permutations(Op)
=============================================================================
