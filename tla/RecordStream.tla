---------------------------- MODULE RecordStream ----------------------------
(***************************************************************************)
(* What a bounded NDJSON reader promises about one stream: of the records  *)
(* the peer writes, exactly those no longer than Limit come out, each of   *)
(* them whole, once and in order; a longer record is skipped and costs the *)
(* records around it nothing.  Both framers of the system are checked      *)
(* against this module: the byte-at-a-time loop of server.lua and          *)
(* SocketConnection._iter_lines of connection.py.                          *)
(***************************************************************************)
EXTENDS Naturals, Sequences

CONSTANTS
    Lengths,    \* length in bytes, newline included, of each record written
    Limit       \* the longest record that is accepted

VARIABLE accepted   \* the positions in Lengths of the records handed on

-----------------------------------------------------------------------------

LastAccepted == IF accepted = <<>> THEN 0 ELSE accepted[Len(accepted)]

\* i is the first acceptable record after the last one handed on.
IsNextWithinLimit(i) ==
    /\ i > LastAccepted
    /\ Lengths[i] <= Limit
    /\ \A j \in (LastAccepted + 1) .. (i - 1) : Lengths[j] > Limit

Init == accepted = <<>>

Accept ==
    \E i \in DOMAIN Lengths :
        /\ IsNextWithinLimit(i)
        /\ accepted' = Append(accepted, i)

Spec == Init /\ [][Accept]_accepted

=============================================================================
