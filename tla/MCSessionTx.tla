----------------------------- MODULE MCSessionTx -----------------------------
(***************************************************************************)
(* Model-checking instance of SessionTx.  The write and drain bounds are   *)
(* the constants of the .cfg files; the closed form of the emitted frames  *)
(* is compared here with the stream they carry.                            *)
(***************************************************************************)
EXTENDS SessionTx, SequencesExt

\* What the peer gets when it strings the payloads of the emitted frames
\* together is what left txBuf, no chunk is larger than a frame may be, and
\* what has left and what waits are as many bytes as were accepted: chunking and
\* caps neither skip a byte of the buffer nor frame one twice.  Which bytes the
\* buffer holds is StreamInOrder's subject.
FramesCarryStream ==
    /\ FlattenSeq([i \in 1..Len(out) |-> out[i].payload]) = sent
    /\ \A i \in 1..Len(out) : Len(out[i].payload) <= MaxFramePayload
    /\ NoByteMissing

=============================================================================
