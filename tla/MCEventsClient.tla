--------------------------- MODULE MCEventsClient ---------------------------
(***************************************************************************)
(* Instances of EventsClient for TLC.                                      *)
(***************************************************************************)
EXTENDS EventsClient
=============================================================================
