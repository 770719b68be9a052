----------------------------- MODULE MCServices -----------------------------
(***************************************************************************)
(* Instance of Services for TLC: two screens, one of them to the left of   *)
(* and below the main one, of 10 by 6 and 4 by 7 points; the bounds of     *)
(* "center" cut the wide screen and not the other.                         *)
(***************************************************************************)
EXTENDS Services, TLC

Frames(wide, side) ==
       wide :> [x |-> 0, y |-> 2, w |-> 100, h |-> 60]
    @@ side :> [x |-> -40, y |-> 30, w |-> 40, h |-> 70]

CONSTANTS s1, s2

TwoFrames == Frames(s1, s2)
=============================================================================
