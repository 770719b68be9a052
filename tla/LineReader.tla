----------------------------- MODULE LineReader -----------------------------
(***************************************************************************)
(* SocketConnection._iter_lines of connection.py: NDJSON records cut from  *)
(* chunks of any size.  A byte is its position in the stream, and the      *)
(* buffer, always a part of the stream, the positions start + 1 .. end.    *)
(***************************************************************************)
EXTENDS Integers, Sequences, FiniteSetsExt

CONSTANTS
    Ends,       \* position of the newline of each record
    Streamed,    \* bytes in the stream, those of a record without newline included
    MaxLine,    \* MAX_LINE_BYTES
    Chunk       \* the most that reader.read returns

ASSUME LineAssumption ==
    /\ Streamed \in Nat
    /\ Ends \in Seq(1 .. Streamed)
    /\ \A i, j \in DOMAIN Ends : i < j => Ends[i] < Ends[j]
    /\ {MaxLine, Chunk} \subseteq Nat \ {0}

VARIABLES
    start, end,
    dropping,   \* a record that is too long is being skipped
    reading,    \* awaiting reader.read, not cutting the buffer
    lines       \* what was yielded: first and last position of each

lineVars == <<start, end, dropping, reading, lines>>

EndOf(i) == IF i = 0 THEN 0 ELSE Ends[i]
Lengths == [i \in DOMAIN Ends |-> EndOf(i) - EndOf(i - 1)]
Newlines == {Ends[i] : i \in DOMAIN Ends}
Buffered == {p \in Newlines : start < p /\ p <= end}
Size == end - start

-----------------------------------------------------------------------------

Receive(n) ==
    /\ reading
    /\ end + n <= Streamed
    /\ end' = end + n
    /\ reading' = FALSE
    /\ UNCHANGED <<start, dropping, lines>>

\* Mutant of CutLine: a record that is too long, but came in one piece, is
\* yielded.
CutLineUnchecked ==
    /\ ~reading
    /\ Buffered # {}
    /\ start' = Min(Buffered)
    /\ dropping' = FALSE
    /\ lines' = IF dropping THEN lines ELSE Append(lines, <<start + 1, start'>>)
    /\ UNCHANGED <<end, reading>>

\* Mutant of CutLine: one line for each chunk.
CutLineOnce ==
    /\ ~reading
    /\ Buffered # {}
    /\ start' = Min(Buffered)
    /\ dropping' = FALSE
    /\ lines' = IF dropping \/ start' - start > MaxLine THEN lines
                ELSE Append(lines, <<start + 1, start'>>)
    /\ reading' = TRUE
    /\ UNCHANGED end

\* The line up to the first newline leaves the buffer.
CutLine ==
    /\ ~reading
    /\ Buffered # {}
    /\ start' = Min(Buffered)
    /\ dropping' = FALSE
    /\ lines' = IF dropping \/ start' - start > MaxLine THEN lines
                ELSE Append(lines, <<start + 1, start'>>)
    /\ UNCHANGED <<end, reading>>

\* No newline: the beginning of a record that is too long is dropped at once.
NeedMore ==
    /\ ~reading
    /\ Buffered = {}
    /\ reading' = TRUE
    /\ IF ~dropping /\ Size > MaxLine
       THEN start' = end /\ dropping' = TRUE
       ELSE UNCHANGED <<start, dropping>>
    /\ UNCHANGED <<end, lines>>

InitLines ==
    /\ start = 0
    /\ end = 0
    /\ dropping = FALSE
    /\ reading = TRUE
    /\ lines = <<>>

NextLines == CutLine \/ NeedMore \/ \E n \in 1 .. Chunk : Receive(n)

SpecLines == InitLines /\ [][NextLines]_lineVars

-----------------------------------------------------------------------------

LinesTypeOK ==
    /\ start \in 0 .. end /\ end \in 0 .. Streamed
    /\ dropping \in BOOLEAN
    /\ reading \in BOOLEAN
    /\ lines \in Seq(Nat \X Nat)
    /\ \A i \in DOMAIN lines : lines[i][2] <= start

\* The record that a line is, or 0 if it is none
RecordAt(line) ==
    LET same == {i \in DOMAIN Lengths :
                    line = <<EndOf(i - 1) + 1, EndOf(i)>>}
    IN IF same = {} THEN 0 ELSE CHOOSE i \in same : TRUE

Abstract == INSTANCE RecordStream WITH
                Limit <- MaxLine,
                accepted <- [k \in DOMAIN lines |-> RecordAt(lines[k])]

\* Nothing that was received whole is held back while more is awaited.
NothingHeldBack ==
    reading => \A i \in DOMAIN Lengths :
        EndOf(i) <= end /\ Lengths[i] <= MaxLine
            => \E k \in DOMAIN lines : RecordAt(lines[k]) = i

\* However the stream is cut into chunks, _iter_lines yields what RecordStream
\* promises, and each record as soon as it is there.
StreamRefined == Abstract!Spec /\ [][NothingHeldBack']_lineVars

\* Violated (LineReaderBuffer.cfg).  While more is awaited the buffer holds no more
\* than a record may have.
BufferBounded == reading => Size <= MaxLine
=============================================================================
