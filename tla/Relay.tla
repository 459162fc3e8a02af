------------------------------- MODULE Relay --------------------------------
(***************************************************************************)
(* One session from end to end: the client's session, the frames on their  *)
(* way in requests and responses, and the exit's session.                  *)
(*                                                                         *)
(* The client sends a batch again when a POST fails, whatever has become   *)
(* of the first one, and drops it after the second failure; polls run in   *)
(* parallel; a request the client gave up is still handled, and the frames *)
(* its handler drains go to nobody.  So a frame arrives once, several      *)
(* times, late, or never, and nothing but its sequence number keeps it in  *)
(* its stream.  The set of a direction holds the frames that may still     *)
(* arrive; a frame that stays in it for ever is a lost one.                *)
(*                                                                         *)
(* Frames carry one byte and leave one by one: Carrier and Exit have the   *)
(* batches, SessionTx and SessionRx the halves of a session in full, and   *)
(* Upstream the dials and the connections of the exit.                     *)
(*                                                                         *)
(* The k-th byte an end writes is k.  A write before the SYN has left      *)
(* stays in the buffer of the application's copy loop (SessionTx): what    *)
(* the frame will carry is what that holds by then, and from there on the  *)
(* bytes to the target are 0, of which nothing is known.                   *)
(***************************************************************************)
EXTENDS Naturals, Sequences

CONSTANTS
    MaxUp,     \* bound: bytes the application writes
    MaxDown,   \* bound: bytes the target writes
    MaxCopies  \* bound: arrivals of a frame that will arrive again

ASSUME RelayBoundsAssumption == {MaxUp, MaxDown, MaxCopies} \subseteq Nat

VARIABLES
    cTx, cRx,  \* the client's session: transmit and receive half
    sTx, sRx,  \* the exit's session
    client,    \* the client's table: "open" or "gone"
    exit,      \* the exit's table: "none", "open" or "gone"
    up, down,  \* frames that may still arrive
    copies,    \* arrivals of frames that will arrive again
    dials,     \* the copies of the SYN being dialled
    rst,       \* an RST is on its way to the client
    upIn,      \* history: bytes accepted from the application
    downIn,    \* history: bytes accepted from the target
    early,     \* history: the application wrote before the SYN had left
    twice      \* history: a second connection was opened for the session

halves  == <<cTx, cRx, sTx, sRx>>
net     == <<up, down, copies, dials, rst>>
history == <<upIn, early, downIn>>
vars    == <<halves, client, exit, net, history, twice>>

-----------------------------------------------------------------------------
(* The halves of a session. *)

NewTx(syn) == [buf |-> <<>>, seq |-> 0, syn |-> syn, closeReq |-> FALSE, finSent |-> FALSE]
NewRx      == [seq |-> 0, queue |-> {}, hand |-> <<>>, sending |-> FALSE, out |-> <<>>,
               closed |-> FALSE, eof |-> FALSE, cut |-> FALSE]

HasPendingTx(t) == t.syn \/ t.buf # <<>> \/ (t.closeReq /\ ~t.finSent)

\* The first frame drainTx takes: the SYN with the first byte, a byte, or the
\* FIN behind the last.
NextFrame(t) ==
    [seq  |-> t.seq,
     syn  |-> t.syn,
     fin  |-> ~t.syn /\ t.buf = <<>>,
     data |-> IF t.buf = <<>> THEN <<>> ELSE <<Head(t.buf)>>]

Drained(t) ==
    [t EXCEPT !.buf = SubSeq(@, 2, Len(@)), !.seq = @ + 1, !.syn = FALSE,
              !.finSent = NextFrame(t).fin]

\* ProcessRx and deliverRx: a frame below rxSeq is dropped, any other waits
\* for its turn.
Received(r, f) ==
    IF r.closed \/ f.seq < r.seq THEN r ELSE [r EXCEPT !.queue = @ \cup {f}]

\* Mutant: delivery goes on behind a gap.
DueAnyway(r) == {f \in r.queue : ~r.closed /\ ~r.sending /\ \A g \in r.queue : f.seq <= g.seq}

\* The frame deliverRx takes next, unless it is sending what it took before.
Due(r) == {f \in r.queue : ~r.closed /\ ~r.sending /\ f.seq = r.seq}

\* deliverRx takes frame f, under the lock; a FIN closes the receive half.  It
\* takes the frames of a run one by one, and sends nothing before the last.
Reassembled(r, f) ==
    [r EXCEPT !.seq = @ + 1, !.queue = @ \ {f}, !.hand = @ \o f.data, !.closed = f.fin]

\* It sends a payload it took to RxChan, without the lock ...
HandedOver(r) ==
    [r EXCEPT !.out = Append(@, Head(r.hand)), !.hand = Tail(@),
              !.sending = Len(r.hand) > 1]

\* ... and behind the last one of a closed half closes RxChan.
AtEnd(r) == r.closed /\ r.hand = <<>> /\ ~r.eof

\* Stop, and CloseRx before it: RxChan is closed and what was not sent is lost.
\* The stream is cut unless its reader has seen the end.
Stopped(r) ==
    IF r.eof THEN r
    ELSE [r EXCEPT !.queue = {}, !.hand = <<>>, !.sending = FALSE, !.closed = TRUE,
                   !.eof = TRUE, !.cut = TRUE]

-----------------------------------------------------------------------------
Init ==
    /\ cTx = NewTx(TRUE) /\ cRx = NewRx
    /\ sTx = NewTx(FALSE) /\ sRx = NewRx
    /\ client = "open" /\ exit = "none"
    /\ up = {} /\ down = {} /\ copies = 0 /\ dials = <<>> /\ rst = FALSE
    /\ upIn = <<>> /\ downIn = <<>>
    /\ early = FALSE /\ twice = FALSE

-----------------------------------------------------------------------------
(* The two ends. *)

\* Mutant: a write goes in front of what waits although the SYN has left.
QueuedInFront(t, b) == <<b>> \o t.buf

\* The buffer after a write: in front of what waits until the SYN has left
\* (EnqueueInitialData), behind it afterwards (EnqueueTx).
Queued(t, b) == IF t.syn THEN <<b>> \o t.buf ELSE Append(t.buf, b)

\* EnqueueTx drops the bytes of a closed session, EnqueueInitialData does not.
ClientWrite ==
    LET b == IF cTx.syn \/ early THEN 0 ELSE Len(upIn) + 1
    IN  /\ client = "open"
        /\ cTx.syn \/ ~cTx.closeReq
        /\ Len(upIn) < MaxUp
        /\ cTx' = [cTx EXCEPT !.buf = Queued(cTx, b)]
        /\ upIn' = Append(upIn, b)
        /\ early' = (early \/ cTx.syn)
        /\ UNCHANGED <<cRx, sTx, sRx, client, exit, net, downIn, twice>>

ClientClose ==
    /\ client = "open" /\ ~cTx.closeReq
    /\ cTx' = [cTx EXCEPT !.closeReq = TRUE]
    /\ UNCHANGED <<cRx, sTx, sRx, client, exit, net, history, twice>>

\* The read pump of the exit.
TargetWrite ==
    LET b == Len(downIn) + 1
    IN  /\ exit = "open" /\ ~sTx.closeReq
        /\ Len(downIn) < MaxDown
        /\ sTx' = [sTx EXCEPT !.buf = Append(@, b)]
        /\ downIn' = Append(downIn, b)
        /\ UNCHANGED <<cTx, cRx, sRx, client, exit, net, upIn, early, twice>>

\* The target ends its stream, or the connection ends with the FIN written to
\* it: RequestClose, and Stop, which throws away what the client still has to
\* say.
TargetClose ==
    /\ exit = "open" /\ ~sTx.closeReq
    /\ sTx' = [sTx EXCEPT !.closeReq = TRUE]
    /\ sRx' = Stopped(sRx)
    /\ UNCHANGED <<cTx, cRx, client, exit, net, history, twice>>

\* rxLoop on either side.
ClientDeliver ==
    /\ \/ \E f \in Due(cRx) : cRx' = Reassembled(cRx, f)
       \/ cRx.hand # <<>> /\ cRx' = HandedOver(cRx)
       \/ AtEnd(cRx) /\ cRx' = [cRx EXCEPT !.eof = TRUE]
    /\ UNCHANGED <<cTx, sTx, sRx, client, exit, net, history, twice>>

ExitDeliver ==
    /\ \/ \E f \in Due(sRx) : sRx' = Reassembled(sRx, f)
       \/ sRx.hand # <<>> /\ sRx' = HandedOver(sRx)
       \/ AtEnd(sRx) /\ sRx' = [sRx EXCEPT !.eof = TRUE]
    /\ UNCHANGED <<cTx, cRx, sTx, client, exit, net, history, twice>>

-----------------------------------------------------------------------------
(* Requests and responses. *)

\* drainAll of the client takes a frame into a request.
Send ==
    /\ client = "open" /\ HasPendingTx(cTx)
    /\ up' = up \cup {NextFrame(cTx)}
    /\ cTx' = Drained(cTx)
    /\ UNCHANGED <<cRx, sTx, sRx, client, exit, down, copies, dials, rst, history, twice>>

\* drainAll of the exit takes a frame into a response.
Reply ==
    /\ exit = "open" /\ HasPendingTx(sTx)
    /\ down' = down \cup {NextFrame(sTx)}
    /\ sTx' = Drained(sTx)
    /\ UNCHANGED <<cTx, cRx, sRx, client, exit, up, copies, dials, rst, history, twice>>

\* A frame of a request is routed: its only or last copy, or one of several.
\* The client sends a batch again whenever it does not get the answer.
Routed(f) ==
    /\ f \in up
    /\ \/ up' = up \ {f} /\ copies' = copies
       \/ up' = up /\ copies < MaxCopies /\ copies' = copies + 1

\* A frame of a registered session reaches routeIncoming.
Arrive(f) ==
    /\ Routed(f)
    /\ exit = "open"
    /\ sRx' = Received(sRx, f)
    /\ UNCHANGED <<cTx, cRx, sTx, client, exit, down, dials, rst, history, twice>>

\* The loop is held up in a send and the inbox full for rxInboxBlockTimeout:
\* ProcessRx drops the frame and stops the session, which stays in the table.
ExitOverflow(f) ==
    /\ Routed(f)
    /\ exit = "open" /\ sRx.hand # <<>>
    /\ sRx' = Stopped(sRx)
    /\ UNCHANGED <<cTx, cRx, sTx, client, exit, down, dials, rst, history, twice>>

\* Mutant: the frame of an unknown session is dropped without an answer.
ArriveUnknownDropped(f) ==
    /\ Routed(f)
    /\ exit # "open" /\ ~f.syn
    /\ UNCHANGED <<halves, client, exit, down, dials, rst, history, twice>>

\* A frame other than the SYN of a session the exit does not know: an RST.
ArriveUnknown(f) ==
    /\ Routed(f)
    /\ exit # "open" /\ ~f.syn
    /\ rst' = TRUE
    /\ UNCHANGED <<halves, client, exit, down, dials, history, twice>>

\* The SYN of a session the exit does not know is dialled, out of any lock.
Dial(f) ==
    /\ Routed(f)
    /\ exit # "open" /\ f.syn
    /\ dials' = Append(dials, f)
    /\ UNCHANGED <<halves, client, exit, down, rst, history, twice>>

\* The dial fails, and nobody is told.
DialFails ==
    /\ dials # <<>>
    /\ dials' = Tail(dials)
    /\ UNCHANGED <<halves, client, exit, up, down, copies, rst, history, twice>>

\* The dial succeeds, the session is registered and gets its SYN.
DialOK ==
    /\ dials # <<>> /\ exit = "none"
    /\ exit' = "open"
    /\ sRx' = Received(sRx, Head(dials))
    /\ dials' = Tail(dials)
    /\ UNCHANGED <<cTx, cRx, sTx, client, up, down, copies, rst, history, twice>>

\* The dial succeeds for a session that another copy of the SYN has opened:
\* the new connection takes its place.  Nothing is promised from here on, and
\* the model stops; Upstream has what becomes of the connections.
DialTwice ==
    /\ dials # <<>> /\ exit # "none"
    /\ twice' = TRUE
    /\ UNCHANGED <<halves, client, exit, net, history>>

\* A frame of a response reaches routeRx, once; an unknown session's is dropped.
ArriveDown(f) ==
    /\ f \in down
    /\ down' = down \ {f}
    /\ cRx' = IF client = "open" THEN Received(cRx, f) ELSE cRx
    /\ UNCHANGED <<cTx, sTx, sRx, client, exit, up, copies, dials, rst, history, twice>>

\* The same overflow on the client.
ClientOverflow(f) ==
    /\ f \in down
    /\ client = "open" /\ cRx.hand # <<>>
    /\ down' = down \ {f}
    /\ cRx' = Stopped(cRx)
    /\ UNCHANGED <<cTx, sTx, sRx, client, exit, up, copies, dials, rst, history, twice>>

\* An RST reaches routeRx: the session is closed, removed and stopped.  One that
\* was removed before is closed and stopped already.
ArriveRST ==
    /\ rst
    /\ rst' = FALSE
    /\ client' = "gone"
    /\ cTx' = [cTx EXCEPT !.closeReq = TRUE]
    /\ cRx' = Stopped(cRx)
    /\ UNCHANGED <<sTx, sRx, exit, up, down, copies, dials, history, twice>>

-----------------------------------------------------------------------------
(* The collectors. *)

\* gcDoneSessions on the exit: both FINs have passed.  That sessionFinalTimeout
\* has run out is a case of ExitCut.
ExitDone ==
    /\ exit = "open" /\ sTx.finSent /\ sRx.closed
    /\ exit' = "gone"
    /\ sRx' = Stopped(sRx)
    /\ UNCHANGED <<cTx, cRx, sTx, client, net, history, twice>>

\* The exit gives the session up: gcIdleSessions, or sessionFinalTimeout.
ExitCut ==
    /\ exit = "open"
    /\ exit' = "gone"
    /\ sRx' = Stopped(sRx)
    /\ UNCHANGED <<cTx, cRx, sTx, client, net, history, twice>>

\* gcDoneSessions on the client: both FINs have passed, or the exit's has not
\* come within sessionFinalTimeout.  Payloads the loop has not sent are lost.
ClientDone ==
    /\ client = "open" /\ cTx.finSent
    /\ client' = "gone"
    /\ cRx' = Stopped(cRx)
    /\ UNCHANGED <<cTx, sTx, sRx, exit, net, history, twice>>

-----------------------------------------------------------------------------
Ends == ClientWrite \/ ClientClose \/ TargetWrite \/ TargetClose
Loops == ClientDeliver \/ ExitDeliver
Dials == DialFails \/ DialOK \/ DialTwice
Collect == ExitDone \/ ExitCut \/ ClientDone

ArriveUp(f) == Arrive(f) \/ ExitOverflow(f) \/ ArriveUnknown(f) \/ Dial(f)

RouteDown(f) == ArriveDown(f) \/ ClientOverflow(f)

\* Nothing happens after a second connection.
Next ==
    /\ ~twice
    /\ \/ Ends \/ Loops \/ Send \/ Reply \/ Dials \/ ArriveRST \/ Collect
       \/ \E f \in up : ArriveUp(f)
       \/ \E f \in down : RouteDown(f)

Spec == Init /\ [][Next]_vars

\* The assumption under which a stream arrives whole: the network gives up no
\* frame and no RST.  The rest is goroutines and timeouts; nothing is assumed
\* of the application, of the target or of the collectors, but that the exit's
\* pumps end when the client's stream has.
LosslessSpec ==
    /\ Spec
    /\ WF_vars(~twice /\ Loops) /\ WF_vars(~twice /\ Send) /\ WF_vars(~twice /\ Reply)
    /\ WF_vars(~twice /\ Dials) /\ WF_vars(~twice /\ ArriveRST)
    /\ WF_vars(~twice /\ \E f \in up : ArriveUp(f))
    /\ WF_vars(~twice /\ \E f \in down : RouteDown(f))
    /\ WF_vars(~twice /\ sRx.eof /\ TargetClose)

-----------------------------------------------------------------------------
(* Properties. *)

\* What the relay promises of the two directions.  A stream is cut by whatever
\* stops its reader's session before the end: for the one to the target also by
\* the target's own end, for the code has no half-closed session.  The session
\* takes writes until both its SYN has left and it is closed.
Up == INSTANCE ByteStream WITH
          Byte <- 0..MaxUp, accepted <- upIn, closed <- cTx.closeReq /\ ~cTx.syn,
          delivered <- sRx.out, eof <- sRx.eof, cut <- sRx.cut

Down == INSTANCE ByteStream WITH
          Byte <- 1..MaxDown, accepted <- downIn, closed <- sTx.closeReq,
          delivered <- cRx.out, eof <- cRx.eof, cut <- cRx.cut

\* The target reads what the application wrote, in order and without gaps or
\* repetitions, over retried, lost, late and repeated requests, and sees the end
\* of the stream behind the last byte unless the exit's session was stopped.  If
\* the application began to write before the SYN had left, all bytes are 0: the
\* target gets as many as were written, and of their values nothing is said.
UpIsByteStream == Up!Spec

\* The application reads what the target wrote, over responses that are lost
\* or overtake each other, and an end of file before the last byte means that
\* the client's session was stopped: by an RST, an overflow or the collector.
DownIsByteStream == Down!Spec

\* When no frame is lost, a stream that was closed ends at its reader or its
\* session is removed, also when frames overtake the SYN or the dial fails.
StreamsEnd ==
    /\ cTx.closeReq ~> sRx.eof \/ client = "gone" \/ twice
    /\ sTx.closeReq ~> cRx.eof \/ exit = "gone" \/ twice

=============================================================================
