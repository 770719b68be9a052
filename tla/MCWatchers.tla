----------------------------- MODULE MCWatchers -----------------------------
(***************************************************************************)
(* Instances of Watchers for TLC.  The values of each kind are alike, so   *)
(* every behaviour has a twin that starts from the ones chosen here.       *)
(***************************************************************************)
EXTENDS Watchers

CONSTANTS FirstDevice, FirstSize, FirstScreen, FirstSource

InitFrom ==
    /\ InitWatchers
    /\ output = FirstDevice
    /\ size = [w \in Window |-> FirstSize]
    /\ screens = {FirstScreen}
    /\ source = FirstSource

SpecFrom == InitFrom /\ [][NextWatchers]_allVars
FairFrom == SpecFrom /\ WatchersFairness
=============================================================================
