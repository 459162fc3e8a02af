----------------------------- MODULE ByteStream -----------------------------
(***************************************************************************)
(* What the relay promises of one direction of one connection: the reader  *)
(* gets the bytes the writer handed over, in order, none twice and none    *)
(* left out, and sees the end of the stream only behind the last of them   *)
(* or when the connection was cut.                                         *)
(***************************************************************************)
EXTENDS Naturals, Sequences

CONSTANT Byte

VARIABLES
    accepted,   \* the bytes taken from the writer, in order
    closed,     \* the writer has closed
    delivered,  \* the bytes handed to the reader, in order
    eof,        \* the reader has seen the end of the stream
    cut         \* the connection was cut

vars == <<accepted, closed, delivered, eof, cut>>

Init ==
    /\ accepted = <<>>
    /\ closed = FALSE
    /\ delivered = <<>>
    /\ eof = FALSE
    /\ cut = FALSE

Write ==
    /\ ~closed
    /\ \E b \in Byte : accepted' = Append(accepted, b)
    /\ UNCHANGED <<closed, delivered, eof, cut>>

Close ==
    /\ ~closed
    /\ closed' = TRUE
    /\ UNCHANGED <<accepted, delivered, eof, cut>>

\* The next byte that is due.
Read ==
    /\ ~eof
    /\ Len(delivered) < Len(accepted)
    /\ delivered' = Append(delivered, accepted[Len(delivered) + 1])
    /\ UNCHANGED <<accepted, closed, eof, cut>>

Eof ==
    /\ ~eof
    /\ closed /\ delivered = accepted
    /\ eof' = TRUE
    /\ UNCHANGED <<accepted, closed, delivered, cut>>

\* The connection is cut, which the reader may or may not see.
Cut ==
    /\ cut' = TRUE
    /\ eof' \in {eof, TRUE}
    /\ UNCHANGED <<accepted, closed, delivered>>

Next == Write \/ Close \/ Read \/ Eof \/ Cut

Spec == Init /\ [][Next]_vars

=============================================================================
