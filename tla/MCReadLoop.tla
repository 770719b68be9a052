----------------------------- MODULE MCReadLoop -----------------------------
(***************************************************************************)
(* Instances of ReadLoop for TLC: what each client writes.                 *)
(***************************************************************************)
EXTENDS ReadLoop

\* One record of two bytes from every client.
ShortRecords == [c \in Client |-> <<2>>]

\* With MaxLineBytes = 2: one client writes a record well over the bound, one a record at
\* it, and the others records of which each byte is one.
Long == CHOOSE d \in Client : TRUE
Short == CHOOSE d \in Client \ {Long} : TRUE
MixedRecords ==
    [c \in Client |-> IF c = Long THEN <<4>> ELSE IF c = Short THEN <<2>> ELSE <<1, 1, 1>>]

\* With MaxLineBytes = 3: the newline is the byte that exceeds the bound.
BoundaryRecords == [c \in Client |-> <<4, 2, 1>>]
=============================================================================
