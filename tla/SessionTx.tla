------------------------------ MODULE SessionTx ------------------------------
(***************************************************************************)
(* The transmit half of one relay session (internal/session/session.go):   *)
(* the tx buffer with back-pressure, the SYN and FIN bookkeeping and the   *)
(* sequence numbers of the emitted frames.                                 *)
(*                                                                         *)
(* Actors: one writer (VirtualConn.Write on the client, the upstream read  *)
(* pump on the exit server), any goroutine that calls RequestClose, and    *)
(* the carrier or exit goroutines that call DrainTxLimited.  Every method  *)
(* holds s.mu for its whole body, so a locked section is one action; the   *)
(* writer is split where the code releases the mutex: between the SYN test *)
(* of EnqueueInitialData and EnqueueTx, and in txCond.Wait().              *)
(*                                                                         *)
(* The writer reads into one buffer over and over (the SOCKS library's     *)
(* copy loop, the buf of the exit's pump).  EnqueueTx copies out of it;    *)
(* EnqueueInitialData appends to the caller's slice, so that txBuf lies in *)
(* the writer's buffer and the next read goes over it.  EncodeBatch seals  *)
(* the frames of a drain after the unlock; a read in between has the       *)
(* outcome of one just before the drain, and is no step of its own.        *)
(*                                                                         *)
(* The k-th byte handed to the session is the number k, so a reordered,    *)
(* lost or duplicated byte is visible in the emitted stream.  The OnTx     *)
(* callback runs after the unlock and touches only the owner of the        *)
(* session; it belongs to the modules Carrier and Exit.                    *)
(***************************************************************************)
EXTENDS Naturals, Sequences

CONSTANTS
    TxBufHighWater,   \* soft ceiling of txBuf, in bytes
    MaxFramePayload,  \* bytes a frame can carry
    MaxDrainFrames,   \* largest maxFrames a caller passes to DrainTxLimited
    MaxWrite,         \* largest chunk a writer hands over in one call
    CopyBuf,          \* capacity of the buffer the writer reads into
    MaxBytes          \* bound: bytes the writer hands over in a behaviour

ASSUME WaterAssumption   == TxBufHighWater \in Nat
ASSUME PayloadAssumption == MaxFramePayload \in Nat \ {0}
ASSUME DrainAssumption   == MaxDrainFrames \in Nat
ASSUME WriteAssumption   == MaxWrite \in Nat \ {0}
ASSUME CopyAssumption    == CopyBuf \in Nat /\ MaxWrite <= CopyBuf
ASSUME BytesAssumption   == MaxBytes \in Nat

VARIABLES
    needsSYN,   \* New's third argument: TRUE on the client, FALSE on the exit
    txBuf,      \* bytes waiting to be framed
    lent,       \* where txBuf begins in the writer's buffer, 0 when it has an
                \*   array of its own
    txSeq,      \* sequence number of the next frame
    synNeeded,  \* the first frame must carry SYN and the target
    closeReq,   \* RequestClose was called
    finSent,    \* the FIN frame was emitted
    queued,     \* firstQueuedAt is not the zero time
    writer,     \* where the writer is: "idle", "write" (has read a chunk),
                \*   "enqueue" (about to lock in EnqueueTx) or "waiting"
                \*   (parked in txCond.Wait)
    chunk,      \* the bytes the writer is handing over
    early,      \* history: a write came before the SYN had left
    given,      \* history: number of bytes the writer has read
    written,    \* history: bytes accepted into txBuf, in order of acceptance
    sent,       \* history: bytes that left txBuf, in order
    out         \* history: the frames emitted, in order

vars == <<needsSYN, txBuf, lent, txSeq, synNeeded, closeReq, finSent, queued,
          writer, chunk, early, given, written, sent, out>>

Byte == Nat \ {0}

Frame == [seq : Nat, syn : BOOLEAN, fin : BOOLEAN, payload : Seq(Byte)]

\* Mutant: a close without data is not considered pending.
HasPendingTxDataOnly == synNeeded \/ Len(txBuf) > 0

\* HasPendingTx, and drainTx's test for an early return.
HasPendingTx == \/ synNeeded
                \/ Len(txBuf) > 0
                \/ closeReq /\ ~finSent

Init ==
    /\ needsSYN \in BOOLEAN
    /\ txBuf = <<>>
    /\ lent = 0
    /\ txSeq = 0
    /\ synNeeded = needsSYN
    /\ closeReq = FALSE
    /\ finSent = FALSE
    /\ queued = needsSYN
    /\ writer = "idle"
    /\ chunk = <<>>
    /\ early = FALSE
    /\ given = 0
    /\ written = <<>>
    /\ sent = <<>>
    /\ out = <<>>

-----------------------------------------------------------------------------
(* The writer. *)

\* The n bytes that follow the ones already read.
NextBytes(n) == [i \in 1..n |-> given + i]

\* What a read of n bytes leaves of txBuf: it goes over the bytes that lie at
\* the beginning of the writer's buffer.
Overwritten(n) ==
    [i \in 1..Len(txBuf) |->
        IF lent > 0 /\ lent + i - 1 <= n THEN given + lent + i - 1 ELSE txBuf[i]]

\* The writer reads its next chunk into its buffer, to hand it over.
ReadSource(n) ==
    /\ writer = "idle"
    /\ given + n <= MaxBytes
    /\ writer' = "write"
    /\ chunk' = NextBytes(n)
    /\ given' = given + n
    /\ txBuf' = Overwritten(n)
    /\ UNCHANGED <<needsSYN, lent, txSeq, synNeeded, closeReq, finSent, queued,
                   early, written, sent, out>>

\* A write before the SYN has left: append(data, txBuf...) puts the bytes in
\* FRONT of the buffer, with neither the closeReq test nor the back-pressure of
\* EnqueueTx, and stays in the caller's array as long as that has room.
EnqueueInitialData ==
    /\ writer = "write"
    /\ synNeeded
    /\ txBuf' = chunk \o txBuf
    /\ lent' = IF Len(chunk) + Len(txBuf) <= CopyBuf THEN 1 ELSE 0
    /\ queued' = TRUE
    /\ written' = written \o chunk
    /\ writer' = "idle"
    /\ chunk' = <<>>
    /\ early' = TRUE
    /\ UNCHANGED <<needsSYN, txSeq, synNeeded, closeReq, finSent, given, sent, out>>

\* A write after the SYN has left (VirtualConn.Write saw synNeeded false and
\* unlocked), and every write of the exit's upstream pump: EnqueueTx is next.
StartEnqueueTx ==
    /\ writer = "write"
    /\ ~synNeeded
    /\ writer' = "enqueue"
    /\ UNCHANGED <<needsSYN, txBuf, lent, txSeq, synNeeded, closeReq, finSent,
                   queued, chunk, early, given, written, sent, out>>

\* Above the high-water mark the writer parks itself on txCond.
EnqueueTxWait ==
    /\ writer = "enqueue"
    /\ Len(txBuf) > TxBufHighWater /\ ~closeReq
    /\ writer' = "waiting"
    /\ UNCHANGED <<needsSYN, txBuf, lent, txSeq, synNeeded, closeReq, finSent,
                   queued, chunk, early, given, written, sent, out>>

\* Mutant: a writer woken by a close waits for room all the same.
EnqueueTxNeverClosed == FALSE

\* The session was closed: the bytes are dropped.
EnqueueTxClosed ==
    /\ writer = "enqueue"
    /\ closeReq
    /\ writer' = "idle"
    /\ chunk' = <<>>
    /\ UNCHANGED <<needsSYN, txBuf, lent, txSeq, synNeeded, closeReq, finSent,
                   queued, early, given, written, sent, out>>

\* append(txBuf, data...) stays in txBuf's array as long as that has room.
LentBehind ==
    IF lent > 0 /\ lent - 1 + Len(txBuf) + Len(chunk) <= CopyBuf THEN lent ELSE 0

\* Mutant: the bytes go in front of the ones already waiting.
EnqueueTxPrepend ==
    /\ writer = "enqueue"
    /\ ~closeReq
    /\ Len(txBuf) <= TxBufHighWater
    /\ txBuf' = chunk \o txBuf
    /\ lent' = 0
    /\ queued' = TRUE
    /\ written' = written \o chunk
    /\ writer' = "idle"
    /\ chunk' = <<>>
    /\ UNCHANGED <<needsSYN, txSeq, synNeeded, closeReq, finSent, early, given,
                   sent, out>>

\* Mutant: no back-pressure.
EnqueueTxUnbounded ==
    /\ writer = "enqueue"
    /\ ~closeReq
    /\ txBuf' = txBuf \o chunk
    /\ lent' = LentBehind
    /\ queued' = TRUE
    /\ written' = written \o chunk
    /\ writer' = "idle"
    /\ chunk' = <<>>
    /\ UNCHANGED <<needsSYN, txSeq, synNeeded, closeReq, finSent, early, given,
                   sent, out>>

EnqueueTxAppend ==
    /\ writer = "enqueue"
    /\ ~closeReq
    /\ Len(txBuf) <= TxBufHighWater
    /\ txBuf' = txBuf \o chunk
    /\ lent' = LentBehind
    /\ queued' = TRUE
    /\ written' = written \o chunk
    /\ writer' = "idle"
    /\ chunk' = <<>>
    /\ UNCHANGED <<needsSYN, txSeq, synNeeded, closeReq, finSent, early, given,
                   sent, out>>

\* txCond.Broadcast(): a parked writer re-tests the loop condition.
Broadcast == writer' = IF writer = "waiting" THEN "enqueue" ELSE writer

-----------------------------------------------------------------------------
(* RequestClose, by either side of the connection. *)

RequestClose ==
    /\ closeReq' = TRUE
    /\ queued' = TRUE
    /\ Broadcast
    /\ UNCHANGED <<needsSYN, txBuf, lent, txSeq, synNeeded, finSent, chunk, early,
                   given, written, sent, out>>

-----------------------------------------------------------------------------
(* DrainTxLimited with a cap of m frames; m = 0 is DrainTx, without a cap. *)

MinOf(a, b) == IF a <= b THEN a ELSE b

\* Frames needed for the SYN and for txBuf (the first chunk rides on the SYN).
DataFrames ==
    LET chunks == (Len(txBuf) + MaxFramePayload - 1) \div MaxFramePayload
    IN  IF synNeeded /\ chunks = 0 THEN 1 ELSE chunks

\* Mutant: the FIN is appended without asking canAppend().
RoomForFinAlways(m) == TRUE

\* canAppend() still holds after the last payload chunk.
RoomForFin(m) == m = 0 \/ DataFrames < m

\* The cap does not stop the drain before the end of txBuf.
TakesAll(m) == m = 0 \/ DataFrames <= m

FramesTaken(m) == IF TakesAll(m) THEN DataFrames ELSE m

BytesTaken(m) == IF TakesAll(m) THEN Len(txBuf)
                 ELSE MinOf(Len(txBuf), m * MaxFramePayload)

\* Mutant: the chunk after the first starts one byte late.
DataFrameLate(i) ==
    [seq |-> txSeq + i - 1,
     syn |-> synNeeded /\ i = 1,
     fin |-> FALSE,
     payload |-> SubSeq(txBuf, (i - 1) * MaxFramePayload + i,
                        MinOf(i * MaxFramePayload, Len(txBuf)))]

\* The i-th data frame of a drain.
DataFrame(i) ==
    [seq |-> txSeq + i - 1,
     syn |-> synNeeded /\ i = 1,
     fin |-> FALSE,
     payload |-> SubSeq(txBuf, (i - 1) * MaxFramePayload + 1,
                        MinOf(i * MaxFramePayload, Len(txBuf)))]

FinFrame(m) == [seq |-> txSeq + FramesTaken(m), syn |-> FALSE, fin |-> TRUE,
                payload |-> <<>>]

EmitsFin(m) == closeReq /\ ~finSent /\ RoomForFin(m)

Drained(m) == [i \in 1..FramesTaken(m) |-> DataFrame(i)]
              \o (IF EmitsFin(m) THEN <<FinFrame(m)>> ELSE <<>>)

\* Mutant: every drain clears the queue timestamp.
ClearsQueueAgeAlways(m) == TRUE

\* firstQueuedAt is cleared only by a drain that leaves nothing behind.
ClearsQueueAge(m) ==
    /\ BytesTaken(m) = Len(txBuf)
    /\ closeReq => (finSent \/ EmitsFin(m))

\* drainTx; its early return with nothing pending changes nothing.  A buffer
\* drained to its end is set to nil.
DrainTx(m) ==
    /\ HasPendingTx
    /\ out' = out \o Drained(m)
    /\ txSeq' = txSeq + Len(Drained(m))
    /\ synNeeded' = FALSE
    /\ sent' = sent \o SubSeq(txBuf, 1, BytesTaken(m))
    /\ txBuf' = SubSeq(txBuf, BytesTaken(m) + 1, Len(txBuf))
    /\ lent' = IF lent > 0 /\ BytesTaken(m) < Len(txBuf) THEN lent + BytesTaken(m) ELSE 0
    /\ finSent' = (finSent \/ EmitsFin(m))
    /\ queued' = (queued /\ ~ClearsQueueAge(m))
    /\ Broadcast
    /\ UNCHANGED <<needsSYN, closeReq, chunk, early, given, written>>

-----------------------------------------------------------------------------
Read == \E n \in 1..MaxWrite : ReadSource(n)

Write == EnqueueInitialData \/ StartEnqueueTx

EnqueueTx == EnqueueTxWait \/ EnqueueTxClosed \/ EnqueueTxAppend

Drain == \E m \in 0..MaxDrainFrames : DrainTx(m)

Next == Read \/ Write \/ EnqueueTx \/ RequestClose \/ Drain

\* The poll workers and long-poll handlers keep draining, and a writer that
\* can run does run.  Nobody is obliged to write or to close.
Fairness == WF_vars(Drain) /\ WF_vars(Write \/ EnqueueTx)

Spec == Init /\ [][Next]_vars

FairSpec == Spec /\ Fairness

-----------------------------------------------------------------------------
(* Properties. *)

TypeOK ==
    /\ needsSYN \in BOOLEAN
    /\ txBuf \in Seq(Byte)
    /\ lent \in Nat
    /\ txSeq \in Nat
    /\ synNeeded \in BOOLEAN
    /\ closeReq \in BOOLEAN
    /\ finSent \in BOOLEAN
    /\ queued \in BOOLEAN
    /\ writer \in {"idle", "write", "enqueue", "waiting"}
    /\ chunk \in Seq(Byte)
    /\ early \in BOOLEAN
    /\ given \in Nat
    /\ written \in Seq(Byte)
    /\ sent \in Seq(Byte)
    /\ out \in Seq(Frame)

\* The frames a session emits are numbered 0, 1, 2, ... without a gap or a
\* repetition, whatever the caps of the drains that emitted them: the peer
\* reassembles by these numbers and stalls for ever at a gap.
ConsecutiveSeqs ==
    /\ txSeq = Len(out)
    /\ \A i \in 1..Len(out) : out[i].seq = i - 1

\* The SYN travels on the first frame of a client session and on no other, and
\* the exit never emits one.
SynFirst ==
    /\ synNeeded <=> (needsSYN /\ out = <<>>)
    /\ \A i \in 1..Len(out) : out[i].syn <=> (needsSYN /\ i = 1)

\* Once the FIN is emitted nothing is left behind it: it is the last frame, no
\* earlier frame is a FIN, and txBuf is empty although the drain that emitted
\* it may have been capped.
FinIsLast ==
    /\ finSent => closeReq /\ ~synNeeded /\ txBuf = <<>> /\ Len(out) > 0
    /\ \A i \in 1..Len(out) : out[i].fin <=> (finSent /\ i = Len(out))

\* The sequence of frames a session emits: what the peer's reassembly relies on.
WellFormedFrames == ConsecutiveSeqs /\ SynFirst /\ FinIsLast

\* A session with something to send has a queue timestamp.  drainAll sorts by
\* it: a zero time would put a session that has just queued a byte before the
\* ones that have waited for long.
PendingHasQueueAge == HasPendingTx => queued

\* A writer parked in txCond.Wait is parked for a reason that still holds: no
\* drain and no close can slip past it.
NoLostWakeup ==
    writer = "waiting" => Len(txBuf) > TxBufHighWater /\ ~closeReq

\* Neither a session nor its writer waits for something that will not come.
NothingForgotten == PendingHasQueueAge /\ NoLostWakeup

\* As long as no write has come before the SYN, which on the exit none does,
\* the bytes emitted and the bytes still buffered are the bytes accepted, in
\* the order in which they were handed over: neither the writer's next read nor
\* a partial drain touches what waits.
StreamInOrder == ~early => sent \o txBuf = written

\* What VirtualConn's comment promises of a client session ("a regular TCP
\* connection"): the same, whenever the application writes.
ClientStreamInOrder == needsSYN => sent \o txBuf = written

\* What has left and what waits are as many bytes as were accepted: bytes that
\* were written early may be overwritten, but none disappears or is added.
NoByteMissing == Len(sent) + Len(txBuf) = Len(written)

\* On the exit, the buffer never holds more than the high-water mark plus one
\* read of the upstream.
BufferBounded == ~needsSYN => Len(txBuf) <= TxBufHighWater + MaxWrite

\* A session that was asked to close emits its FIN.
CloseLeadsToFin == closeReq ~> finSent

\* A writer, parked or not, returns.
WriterReturns == writer # "idle" ~> writer = "idle"

=============================================================================
