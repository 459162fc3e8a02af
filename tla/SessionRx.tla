------------------------------ MODULE SessionRx ------------------------------
(***************************************************************************)
(* The receive half of one relay session (internal/session/session.go):    *)
(* the inbox the poll workers fill, the rxLoop goroutine that reassembles  *)
(* frames in sequence order and hands their payloads to RxChan, the reader *)
(* of RxChan, and the ways the half is torn down: the peer's FIN, CloseRx, *)
(* Stop, an overflowing inbox and the collector of finished sessions.      *)
(*                                                                         *)
(* The peer's stream is the frames 0..FinSeq, the last one being the FIN   *)
(* without payload; a frame is its sequence number.  The relay may lose,   *)
(* repeat and reorder frames, and several workers hand them over at once.  *)
(* Each action is one critical section or one channel operation; where the *)
(* code unlocks and goes on, the step is split (deliverRx sends the        *)
(* payloads it has dequeued after it has released s.mu).  A receive from   *)
(* the inbox is joined with the locked section that follows it: nothing    *)
(* that can happen between the two tells the difference.                   *)
(***************************************************************************)
EXTENDS Naturals, Sequences, FiniteSets

CONSTANTS
    Workers,     \* goroutines that call ProcessRx
    FinSeq,      \* sequence number of the peer's FIN
    FirstData,   \* 0, or 1 when the peer's first frame is a SYN without payload
    RxInboxCap,  \* rxInboxCap
    RxChanCap,   \* capacity of RxChan
    ForcedClose, \* who may call CloseRx: "rst" is the client's routeRx on an
                 \*   RST frame, "idle" the exit's gcIdleSessions, or "nobody"
    StopsEarly,  \* TRUE when the owner may Stop a session that is still in its
                 \*   table: the exit's upstream pump at the end of the upstream
    Collects     \* TRUE when the transmit half may send its FIN and the
                 \*   session be collected as done

ASSUME FinAssumption   == FinSeq \in Nat
ASSUME FirstAssumption == FirstData \in {0, 1} /\ FirstData <= FinSeq
ASSUME InboxAssumption == RxInboxCap \in Nat \ {0}
ASSUME ChanAssumption  == RxChanCap \in Nat \ {0}
ASSUME OwnerAssumption == /\ ForcedClose \in {"rst", "idle", "nobody"}
                          /\ StopsEarly \in BOOLEAN
                          /\ Collects \in BOOLEAN

FrameSeq == 0..FinSeq

VARIABLES
    \* fields of Session
    rxSeq,     \* next sequence number expected
    rxQueue,   \* numbers of the frames held back until their turn
    rxClosed,  \* RxChan was closed, or will be by the rxLoop that saw the FIN
    rxInbox,   \* frames handed over by the workers
    rxChan,    \* payloads waiting for the reader
    chanShut,  \* RxChan is closed
    rxDone,    \* the rxDone channel is closed: Stop was called
    finSent,   \* our own FIN was emitted (transmit half)
    finOld,    \* sessionFinalTimeout has passed since
    \* goroutines
    worker,    \* per worker: "idle"; "check", "fast" or "slow" in ProcessRx;
               \*   "close" or "stop" in a forced close
    holds,     \* per worker: the frame it carries
    loop,      \* rxLoop: "select", "send", "defer" or "gone"
    toSend,    \* deliverRx: payloads dequeued and not sent yet
    sawFin,    \* deliverRx: closeAfter
    inTable,   \* the owner's routing table holds the session
    \* observation
    read,      \* payloads the reader has taken from RxChan
    eof,       \* the reader has seen RxChan closed and empty
    killed,    \* somebody other than the rxLoop that saw the FIN ended the half
    panicked   \* a goroutine has sent on a closed channel, or closed it twice

owner  == <<finSent, finOld, inTable>>
reader == <<read, eof>>
vars   == <<rxSeq, rxQueue, rxClosed, rxInbox, rxChan, chanShut, rxDone, finSent,
            finOld, worker, holds, loop, toSend, sawFin, inTable, read, eof,
            killed, panicked>>

Init ==
    /\ rxSeq = 0
    /\ rxQueue = {}
    /\ rxClosed = FALSE
    /\ rxInbox = <<>>
    /\ rxChan = <<>>
    /\ chanShut = FALSE
    /\ rxDone = FALSE
    /\ finSent = FALSE
    /\ finOld = FALSE
    /\ worker = [w \in Workers |-> "idle"]
    /\ holds = [w \in Workers |-> 0]
    /\ loop = "select"
    /\ toSend = <<>>
    /\ sawFin = FALSE
    /\ inTable = TRUE
    /\ read = <<>>
    /\ eof = FALSE
    /\ killed = FALSE
    /\ panicked = FALSE

\* A panic ends the process: no goroutine moves after it.
Alive == ~panicked

\* Stop, by anybody but the rxLoop that has seen the FIN.
Stop == rxDone' = TRUE /\ killed' = TRUE

-----------------------------------------------------------------------------
(* ProcessRx, called by a worker that found the session in the table. *)

Route(w, f) ==
    /\ Alive
    /\ worker[w] = "idle"
    /\ inTable
    /\ worker' = [worker EXCEPT ![w] = "check"]
    /\ holds' = [holds EXCEPT ![w] = f]
    /\ UNCHANGED <<rxSeq, rxQueue, rxClosed, rxInbox, rxChan, chanShut, rxDone,
                   loop, toSend, sawFin, owner, reader, killed, panicked>>

ProcessRxCheck(w) ==
    /\ Alive
    /\ worker[w] = "check"
    /\ worker' = [worker EXCEPT ![w] = IF rxClosed THEN "idle" ELSE "fast"]
    /\ holds' = [holds EXCEPT ![w] = IF rxClosed THEN 0 ELSE @]
    /\ UNCHANGED <<rxSeq, rxQueue, rxClosed, rxInbox, rxChan, chanShut, rxDone,
                   loop, toSend, sawFin, owner, reader, killed, panicked>>

InboxHasRoom == Len(rxInbox) < RxInboxCap

\* Both selects may pick the inbox whenever it has room, even when rxDone is
\* closed too.
ProcessRxEnqueue(w) ==
    /\ Alive
    /\ worker[w] \in {"fast", "slow"}
    /\ InboxHasRoom
    /\ rxInbox' = Append(rxInbox, holds[w])
    /\ worker' = [worker EXCEPT ![w] = "idle"]
    /\ holds' = [holds EXCEPT ![w] = 0]
    /\ UNCHANGED <<rxSeq, rxQueue, rxClosed, rxChan, chanShut, rxDone,
                   loop, toSend, sawFin, owner, reader, killed, panicked>>

ProcessRxStopped(w) ==
    /\ Alive
    /\ worker[w] \in {"fast", "slow"}
    /\ rxDone
    /\ worker' = [worker EXCEPT ![w] = "idle"]
    /\ holds' = [holds EXCEPT ![w] = 0]
    /\ UNCHANGED <<rxSeq, rxQueue, rxClosed, rxInbox, rxChan, chanShut, rxDone,
                   loop, toSend, sawFin, owner, reader, killed, panicked>>

\* The default branch: the inbox is full and the session alive.
ProcessRxFull(w) ==
    /\ Alive
    /\ worker[w] = "fast"
    /\ ~InboxHasRoom
    /\ ~rxDone
    /\ worker' = [worker EXCEPT ![w] = "slow"]
    /\ UNCHANGED <<rxSeq, rxQueue, rxClosed, rxInbox, rxChan, chanShut, rxDone,
                   holds, loop, toSend, sawFin, owner, reader, killed, panicked>>

\* Mutant: the slow path has no timer.
ProcessRxNoTimeout(w) == FALSE

\* rxInboxBlockTimeout expires: the session is killed and the frame dropped.
ProcessRxTimeout(w) ==
    /\ Alive
    /\ worker[w] = "slow"
    /\ Stop
    /\ worker' = [worker EXCEPT ![w] = "idle"]
    /\ holds' = [holds EXCEPT ![w] = 0]
    /\ UNCHANGED <<rxSeq, rxQueue, rxClosed, rxInbox, rxChan, chanShut,
                   loop, toSend, sawFin, owner, reader, panicked>>

ProcessRx(w) ==
    \/ ProcessRxCheck(w)
    \/ ProcessRxEnqueue(w)
    \/ ProcessRxStopped(w)
    \/ ProcessRxFull(w)
    \/ ProcessRxTimeout(w)

-----------------------------------------------------------------------------
(* rxLoop and deliverRx. *)

\* The run of frames that becomes deliverable when frame rxSeq arrives: it
\* ends at the FIN or before the first number not held back.
RunEnds(n) == n = FinSeq + 1 \/ n \notin rxQueue

\* Mutant: deliverRx does not look into rxQueue after the expected frame.
AfterRunSingle == rxSeq + 1

AfterRun == CHOOSE n \in rxSeq + 1 .. FinSeq + 1 :
                /\ RunEnds(n)
                /\ \A k \in rxSeq + 1 .. n - 1 : ~RunEnds(k)

\* The payloads of the frames rxSeq..n-1, in order; neither the FIN nor an
\* empty SYN has one.
Payloads(n) ==
    LET from == IF rxSeq < FirstData THEN FirstData ELSE rxSeq
        to   == IF n > FinSeq THEN FinSeq ELSE n
    IN  [i \in 1 .. (IF to < from THEN 0 ELSE to - from) |-> from + i - 1]

\* A frame that is late (a duplicate) is dropped, a frame that is early is
\* held back, a frame for a closed session ends the loop.
DeliverIgnored ==
    LET f == Head(rxInbox)
    IN  /\ Alive
        /\ loop = "select"
        /\ rxInbox # <<>>
        /\ rxClosed \/ f # rxSeq
        /\ rxInbox' = Tail(rxInbox)
        /\ rxQueue' = IF ~rxClosed /\ f > rxSeq THEN rxQueue \cup {f} ELSE rxQueue
        /\ loop' = IF rxClosed THEN "defer" ELSE "select"
        /\ UNCHANGED <<rxSeq, rxClosed, rxChan, chanShut, rxDone, worker, holds,
                       toSend, sawFin, owner, reader, killed, panicked>>

\* The expected frame, with the run it completes.
DeliverRun ==
    /\ Alive
    /\ loop = "select"
    /\ rxInbox # <<>>
    /\ ~rxClosed /\ Head(rxInbox) = rxSeq
    /\ rxInbox' = Tail(rxInbox)
    /\ rxSeq' = AfterRun
    /\ rxQueue' = rxQueue \ (rxSeq + 1 .. AfterRun - 1)
    /\ toSend' = Payloads(AfterRun)
    /\ sawFin' = (AfterRun = FinSeq + 1)
    /\ rxClosed' = (AfterRun = FinSeq + 1)
    /\ loop' = "send"
    /\ UNCHANGED <<rxChan, chanShut, rxDone, worker, holds, owner, reader, killed, panicked>>

\* close(s.RxChan): closing a closed channel panics.
ShutChan == chanShut' = TRUE /\ panicked' = (panicked \/ chanShut)

\* One send of the loop over toSend, outside the lock.
SendPayload ==
    /\ Alive
    /\ loop = "send"
    /\ toSend # <<>>
    /\ ~chanShut
    /\ Len(rxChan) < RxChanCap
    /\ rxChan' = Append(rxChan, Head(toSend))
    /\ toSend' = Tail(toSend)
    /\ UNCHANGED <<rxSeq, rxQueue, rxClosed, rxInbox, chanShut, rxDone, worker,
                   holds, loop, sawFin, owner, reader, killed, panicked>>

\* The channel was closed by someone else: the send panics and with it the
\* whole process.
SendOnClosed ==
    /\ Alive
    /\ loop = "send"
    /\ toSend # <<>>
    /\ chanShut
    /\ panicked' = TRUE
    /\ UNCHANGED <<rxSeq, rxQueue, rxClosed, rxInbox, rxChan, chanShut, rxDone,
                   worker, holds, loop, toSend, sawFin, owner, reader, killed>>

\* Mutant: the send does not watch rxDone.
SendNeverAborted == FALSE

\* rxDone wins the select: the payloads not sent yet are dropped.
SendAborted ==
    /\ Alive
    /\ loop = "send"
    /\ toSend # <<>>
    /\ rxDone
    /\ IF sawFin THEN ShutChan ELSE UNCHANGED <<chanShut, panicked>>
    /\ toSend' = <<>>
    /\ loop' = "defer"
    /\ UNCHANGED <<rxSeq, rxQueue, rxClosed, rxInbox, rxChan, rxDone, worker,
                   holds, sawFin, owner, reader, killed>>

\* Mutant: the channel is closed before the payloads are sent.
DeliverEndEarly ==
    /\ Alive
    /\ loop = "send"
    /\ IF sawFin THEN ShutChan /\ rxDone' = TRUE
                 ELSE toSend = <<>> /\ UNCHANGED <<chanShut, panicked, rxDone>>
    /\ loop' = IF sawFin THEN "defer" ELSE "select"
    /\ UNCHANGED <<rxSeq, rxQueue, rxClosed, rxInbox, rxChan, worker, holds,
                   toSend, sawFin, owner, reader, killed>>

\* Everything was sent; after a FIN the channel is closed and the loop stops.
DeliverEnd ==
    /\ Alive
    /\ loop = "send"
    /\ toSend = <<>>
    /\ IF sawFin THEN ShutChan /\ rxDone' = TRUE
                 ELSE UNCHANGED <<chanShut, panicked, rxDone>>
    /\ loop' = IF sawFin THEN "defer" ELSE "select"
    /\ UNCHANGED <<rxSeq, rxQueue, rxClosed, rxInbox, rxChan, worker, holds,
                   toSend, sawFin, owner, reader, killed>>

LoopStopped ==
    /\ Alive
    /\ loop = "select"
    /\ rxDone
    /\ loop' = "defer"
    /\ UNCHANGED <<rxSeq, rxQueue, rxClosed, rxInbox, rxChan, chanShut, rxDone,
                   worker, holds, toSend, sawFin, owner, reader, killed, panicked>>

\* Mutant: the flag is set and the channel left open.
CloseRxFlagOnly == rxClosed' = TRUE /\ UNCHANGED <<chanShut, panicked>>

\* The deferred function of rxLoop, and CloseRx: close RxChan unless closed.
CloseRxUnlessClosed ==
    /\ rxClosed' = TRUE
    /\ IF rxClosed THEN UNCHANGED <<chanShut, panicked>> ELSE ShutChan

LoopDefer ==
    /\ Alive
    /\ loop = "defer"
    /\ CloseRxUnlessClosed
    /\ loop' = "gone"
    /\ UNCHANGED <<rxSeq, rxQueue, rxInbox, rxChan, rxDone, worker, holds, toSend,
                   sawFin, owner, reader, killed>>

RxLoop ==
    \/ DeliverIgnored
    \/ DeliverRun
    \/ SendPayload
    \/ SendOnClosed
    \/ SendAborted
    \/ DeliverEnd
    \/ LoopStopped
    \/ LoopDefer

-----------------------------------------------------------------------------
(* The owner of the session. *)

\* An RST frame was routed here, or the idle collector has removed the session.
ForcedCloseBegin(w) ==
    /\ Alive
    /\ ForcedClose # "nobody"
    /\ worker[w] = "idle"
    /\ inTable
    /\ inTable' = (ForcedClose = "rst")
    /\ worker' = [worker EXCEPT ![w] = "close"]
    /\ UNCHANGED <<rxSeq, rxQueue, rxClosed, rxInbox, rxChan, chanShut, rxDone,
                   finSent, finOld, holds, loop, toSend, sawFin, reader, killed,
                   panicked>>

\* CloseRx, while rxLoop may be anywhere.
CloseRx(w) ==
    /\ Alive
    /\ worker[w] = "close"
    /\ CloseRxUnlessClosed
    /\ killed' = TRUE
    /\ worker' = [worker EXCEPT ![w] = "stop"]
    /\ UNCHANGED <<rxSeq, rxQueue, rxInbox, rxChan, rxDone, holds, loop, toSend,
                   sawFin, owner, reader>>

\* The session is out of the table, rxLoop is told to exit.
ForcedCloseStop(w) ==
    /\ Alive
    /\ worker[w] = "stop"
    /\ inTable' = FALSE
    /\ Stop
    /\ worker' = [worker EXCEPT ![w] = "idle"]
    /\ UNCHANGED <<rxSeq, rxQueue, rxClosed, rxInbox, rxChan, chanShut, finSent,
                   finOld, holds, loop, toSend, sawFin, reader, panicked>>

StopEarly ==
    /\ Alive
    /\ StopsEarly
    /\ ~rxDone
    /\ Stop
    /\ UNCHANGED <<rxSeq, rxQueue, rxClosed, rxInbox, rxChan, chanShut, worker,
                   holds, loop, toSend, sawFin, owner, reader, panicked>>

\* The transmit half emits our FIN (module SessionTx).
OwnFin ==
    /\ Alive
    /\ Collects
    /\ ~finSent
    /\ finSent' = TRUE
    /\ UNCHANGED <<rxSeq, rxQueue, rxClosed, rxInbox, rxChan, chanShut, rxDone,
                   worker, holds, loop, toSend, sawFin, finOld, inTable, reader,
                   killed, panicked>>

\* Time passes: 30 seconds since our FIN.
FinTimeout ==
    /\ Alive
    /\ finSent
    /\ ~finOld
    /\ finOld' = TRUE
    /\ UNCHANGED <<rxSeq, rxQueue, rxClosed, rxInbox, rxChan, chanShut, rxDone,
                   worker, holds, loop, toSend, sawFin, finSent, inTable, reader,
                   killed, panicked>>

\* Mutant: a session waits for ever for the peer's FIN.
IsDoneNoTimeout == finSent /\ rxClosed

IsDone == finSent /\ (rxClosed \/ finOld)

\* gcDoneSessions, in one critical section of the owner's lock.
GcDoneSession ==
    /\ Alive
    /\ inTable
    /\ IsDone
    /\ inTable' = FALSE
    /\ Stop
    /\ UNCHANGED <<rxSeq, rxQueue, rxClosed, rxInbox, rxChan, chanShut, worker,
                   holds, loop, toSend, sawFin, finSent, finOld, reader, panicked>>

-----------------------------------------------------------------------------
(* The reader of RxChan: VirtualConn.Read, or the exit's write pump. *)

ReadPayload ==
    /\ Alive
    /\ rxChan # <<>>
    /\ read' = Append(read, Head(rxChan))
    /\ rxChan' = Tail(rxChan)
    /\ UNCHANGED <<rxSeq, rxQueue, rxClosed, rxInbox, chanShut, rxDone, worker,
                   holds, loop, toSend, sawFin, owner, eof, killed, panicked>>

ReadEof ==
    /\ Alive
    /\ chanShut
    /\ rxChan = <<>>
    /\ ~eof
    /\ eof' = TRUE
    /\ UNCHANGED <<rxSeq, rxQueue, rxClosed, rxInbox, rxChan, chanShut, rxDone,
                   worker, holds, loop, toSend, sawFin, owner, read, killed, panicked>>

-----------------------------------------------------------------------------
Next ==
    \/ \E w \in Workers, f \in FrameSeq : Route(w, f)
    \/ \E w \in Workers : ProcessRx(w)
    \/ RxLoop
    \/ \E w \in Workers : ForcedCloseBegin(w) \/ CloseRx(w) \/ ForcedCloseStop(w)
    \/ StopEarly
    \/ OwnFin
    \/ FinTimeout
    \/ GcDoneSession
    \/ ReadPayload
    \/ ReadEof

Spec == Init /\ [][Next]_vars

\* A worker inside ProcessRx goes on, at the latest when its timer fires, and a
\* forced close once begun runs to its end.  Go's select chooses at random
\* between the cases that are ready, so none that stays ready is ignored for
\* ever.  Time passes and the collector runs.  The reader is under no
\* obligation to read.
Fairness ==
    /\ \A w \in Workers : /\ WF_vars(ProcessRx(w))
                         /\ WF_vars(CloseRx(w) \/ ForcedCloseStop(w))
    /\ WF_vars(RxLoop)
    /\ WF_vars(LoopStopped)
    /\ WF_vars(SendAborted)
    /\ WF_vars(FinTimeout)
    /\ WF_vars(GcDoneSession)

FairSpec == Spec /\ Fairness

-----------------------------------------------------------------------------
(* Properties. *)

TypeOK ==
    /\ rxSeq \in 0 .. FinSeq + 1
    /\ rxQueue \subseteq FrameSeq
    /\ rxInbox \in Seq(FrameSeq)
    /\ rxChan \in Seq(FrameSeq)
    /\ toSend \in Seq(FrameSeq)
    /\ read \in Seq(FrameSeq)
    /\ worker \in [Workers -> {"idle", "check", "fast", "slow", "close", "stop"}]
    /\ holds \in [Workers -> FrameSeq]
    /\ loop \in {"select", "send", "defer", "gone"}
    /\ rxClosed \in BOOLEAN /\ chanShut \in BOOLEAN /\ rxDone \in BOOLEAN
    /\ finSent \in BOOLEAN /\ finOld \in BOOLEAN /\ inTable \in BOOLEAN
    /\ sawFin \in BOOLEAN /\ eof \in BOOLEAN
    /\ killed \in BOOLEAN /\ panicked \in BOOLEAN

\* Number of payloads among the frames below rxSeq.
Reassembled ==
    LET n == IF rxSeq > FinSeq THEN FinSeq ELSE rxSeq
    IN  IF n < FirstData THEN 0 ELSE n - FirstData

\* What was read, what waits in RxChan and what deliverRx still has to send
\* is, in this order, the peer's stream from its beginning: no payload is
\* repeated, skipped or out of order, whatever the relay does to the frames.
InOrderDelivery ==
    /\ \A i \in 1..Len(read) : read[i] = FirstData + i - 1
    /\ \A i \in 1..Len(rxChan) : rxChan[i] = FirstData + Len(read) + i - 1
    /\ \A i \in 1..Len(toSend) :
          toSend[i] = FirstData + Len(read) + Len(rxChan) + i - 1

\* While rxLoop runs, that stream has everything reassembled so far.
NothingDropped ==
    loop \in {"select", "send"} =>
        Len(read) + Len(rxChan) + Len(toSend) = Reassembled

\* A frame that is held back is still ahead of rxSeq: reassembly never leaves
\* behind a frame whose turn has come.
NoFrameStuck == \A f \in rxQueue : f > rxSeq

\* What a reassembled stream owes its reader: the peer's payloads in order, all
\* of them so far, and none held back whose turn has come.
PrefixDelivered == InOrderDelivery /\ NothingDropped /\ NoFrameStuck

\* When rxLoop is gone RxChan is closed, so that the goroutine that reads it
\* ends: the promise of rxLoop's deferred function.
GoneMeansClosed == loop = "gone" => chanShut

\* Nobody sends on a closed RxChan, or closes it twice.
NeverPanics == ~panicked

\* A reader that sees the end of a stream nobody has killed has read all of
\* it.
CleanEofIsComplete == eof /\ ~killed => Len(read) = FinSeq - FirstData

\* A poll worker always gets away from ProcessRx, although the reader may never
\* read again (or the process has panicked, here and below).
WorkersReturn == \A w \in Workers : worker[w] # "idle" ~> worker[w] = "idle" \/ panicked

\* A stopped session's goroutine ends, although the reader may never read again.
StopEndsLoop == rxDone ~> loop = "gone" \/ panicked

\* Once our FIN is out, the session is collected and its goroutine ends: a lost
\* peer FIN or a reader that has gone does not leak it.
FinLeadsToGone == finSent ~> (~inTable /\ loop = "gone") \/ panicked

=============================================================================
