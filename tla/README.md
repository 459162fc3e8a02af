# A TLA+ model of GooseRelayVPN

GooseRelayVPN carries TCP connections of a local SOCKS5 client to an exit server inside HTTPS
POSTs, relayed by Google Apps Script deployments. The client and the exit multiplex *sessions*
(one per TCP connection) into batches of frames; a batch travels in the body of a POST, the
answer carries the frames of the other direction. Nothing below this project's protocol gives
order, reliability or a push channel: several polls run at once, each may fail, be repeated or be
answered late, and the exit can only speak when it is asked.

This directory holds TLA+ modules of the parts that make this work, TLC configurations that check
them on small instances, and TLAPS proofs of the properties that were worth proving for every
value of the constants. `PROJECT.json` maps every definition to the source lines it models.

## Inventory

| Part | Source | State | Operations |
|---|---|---|---|
| session, transmit half | `internal/session/session.go` | `txBuf`, `txSeq`, `synNeeded`, `closeReq`, `finSent`, `firstQueuedAt`, condition variable | `EnqueueInitialData`, `EnqueueTx`, `RequestClose`, `DrainTxLimited`, `HasPendingTx` |
| session, receive half | `internal/session/session.go` | `rxSeq`, `rxQueue`, `rxClosed`, `rxInbox`, `RxChan`, `rxDone` | `ProcessRx`, `rxLoop`, `deliverRx`, `CloseRx`, `Stop`, `IsDone` |
| carrier scheduler | `internal/carrier/client.go` | session table, `txReady`, `inFlight`, `idlePolls`, wake channel, coalesce timer | `NewSession`, `OnTx`, `runWorker`, `pollOnce`, `drainAll`, `routeRx`, `releaseInFlight`, `gcDoneSessions`, `kick`, `Shutdown` |
| endpoints | `internal/carrier/client.go` | blacklist and failure counts per endpoint | `pickRelayEndpoint`, `markEndpoint*` |
| quota, statistics | `internal/carrier/quota.go`, `stats.go` | `dailyCount`, `dailyResetAt`, the script's own count | `touchDailyWindow`, `bumpDailyCount`, `fetchScriptStats`, log lines |
| fronting, diagnosis | `internal/carrier/fronting.go`, `diagnose.go` | ranked hosts | probing, dialling |
| exit request handlers | `internal/exit/exit.go` | session table, owners, `txReady`, `activity` channels, control frames | `handleTunnel`, `drainAll`, `kick`, `queueRST`, `gcDoneSessions`, `gcIdleSessions` |
| exit upstream side | `internal/exit/exit.go` | `upstreams`, `lastActivity`, write and read pumps | `routeIncoming`, `openSession`, the pumps, both collectors |
| dial back-off, DNS cache | `internal/exit/exit.go`, `dnscache.go` | `dialFail`, cached addresses with a time to live | `isDialSuppressed`, `recordDialFailure`, `get`, `set`, `forget` |
| frames | `internal/frame/frame.go`, `crypto.go` | none | `Marshal`, `Unmarshal`, `EncodeBatch`, `DecodeBatch` |
| SOCKS adapter | `internal/socks/` | `VirtualConn`: leftover of a read, deadlines | `Read`, `Write`, `Close` |
| configuration, commands, benches, Apps Script | `internal/config`, `cmd`, `bench`, `apps_script` | none after start-up | |

How they interact. A `VirtualConn` calls the transmit half, whose `OnTx` callback puts the session
into the carrier's `txReady` and wakes the poll workers. A worker drains ready sessions into one
POST and routes the frames of the answer to the receive halves (`ProcessRx`), whose `rxLoop` hands
payloads to `RxChan`, where the `VirtualConn` reads. The exit mirrors this: a request handler
routes the frames of the request to sessions, then waits on its client's wake channel until the
read pump of an upstream connection has queued something through `EnqueueTx` and `OnTx`.

What is hard here:

* the same session is touched by SOCKS goroutines, several poll workers or request handlers,
  `rxLoop`, timers and collectors, with mutexes that are released between a check and its use;
* frames are lost with a failed POST, repeated by its retry and reordered by parallel polls;
* wake-ups go through channels that are captured, replaced and forgotten;
* buffers, batches, idle polls and responses all have caps, and what does not fit must be found
  again by a later poll;
* a session is torn down by a FIN, an RST, a collector or the upstream, all at once.

`PROJECT.json` lists these as hazards, each at its line, with the properties that cover them.

What makes each part correct:

* *transmit half*: the frames are numbered without gaps, SYN first, FIN last and after all data;
  their payloads are the accepted bytes in order; the buffer is bounded; no writer sleeps for ever
  (order and bound hold on the exit; the client's early writes break both, see *Runs*);
* *receive half*: the reader sees a prefix of the peer's stream once and in order, whatever the
  relay does; EOF means the whole stream; nobody sends on a closed channel; no worker is held;
* *carrier*: a session with something to send is never forgotten and never in two POSTs at once;
  idle polls are counted exactly; closed sessions leave; wake-ups are not missed;
* *endpoints*: backoffs grow with failures and end, and no deployment is abandoned;
* *exit*: a client only gets its own frames; nothing queued is forgotten; a response stays within
  what the client accepts; RSTs leave at once; wake-ups reach the poll that waits for them;
* *exit upstream side*: one connection per session; what leaves the table is closed and its pumps
  end; sessions nobody uses are collected; a bad address is not tried again from the cache;
* *end to end*: each direction of a connection is a byte stream that ends where its writer ended
  it, or a connection that was visibly cut;
* *functions*: what is encoded is decoded as it was, the probe removes bad hosts only, the counter
  counts one day, and no kick waits for longer than the cap.

## Modules

| Module | Models | Granularity |
|---|---|---|
| `SessionTx` | transmit half of one session | one critical section of `s.mu` per action; the wait in `EnqueueTx` is a step of its own |
| `SessionRx` | receive half of one session with its workers, `rxLoop`, reader and owner | one critical section or channel operation per action |
| `Carrier` | the client's scheduler around several sessions | one critical section of `c.mu`, or one event of a worker |
| `Exit` | the exit's request handlers around the sessions of several clients | one critical section of the server's mutex, or one event of a handler |
| `Endpoints` | the choice of a deployment per attempt and its blacklist | one critical section of `endpointMu` per action, and time |
| `Upstream` | the exit's side of one session id: routing, dials, registration, pumps, collectors | one critical section, channel operation or blocking call per action |
| `ByteStream` | the abstract promise: one direction of one connection | |
| `Relay` | one connection end to end, client session and exit session over the hop | one frame per action |
| `FrameCodec` | encoding of frames and batches | operators on sequences of bytes |
| `Fronting` | the start-up probe of the fronting hosts | operators |
| `Quota` | the daily counter of an endpoint | one critical section of `endpointMu` per action, and hours |
| `KickCoalesce` | the coalesce timer of the client's wake-ups | one critical section of `coalesceMu`, one event of a timer, and time |
| `MCFunctions` | the inputs `FrameCodec` and `Fronting` are checked on, with `Quota` and `KickCoalesce` | |
| `MC*` | model values and symmetry sets for TLC | |
| `SessionTxProofs`, `SessionRxProofs`, `CarrierProofs`, `EndpointsProofs`, `ExitProofs`, `UpstreamProofs`, `RelayProofs` | theorems about the module each is named after | |
| `FunctionsProofs` | theorems about `FrameCodec`, `Fronting`, `Quota` and `KickCoalesce` | |

`Carrier`, `Exit`, `Upstream` and `Relay` each contain a session reduced to what they look at;
`SessionTx` and `SessionRx` have it in full. `Relay` is the composition: it keeps of the schedulers
that a pending frame is sent at some time (`PendingIsSent`, `PendingIsServed`), of the halves that
frames are numbered (`WellFormedFrames`) and delivered in turn (`PrefixDelivered`), and adds what
none of them sees, the hop and the other end.

**SessionTx.** Payload bytes are numbered in the order the application hands them over, so that
loss, repetition and reordering show; `written`, `sent` and `out` record what was accepted and
emitted. `needsSYN`, chosen in `Init`, tells the client's session, whose first writes go through
`EnqueueInitialData`, from the exit's; a run covers both. The writer reads a chunk into its own
buffer of `CopyBuf` bytes (`ReadSource`) and hands it over: before the SYN has left with
`EnqueueInitialData`, afterwards with `StartEnqueueTx` followed by `EnqueueTxWait`,
`EnqueueTxClosed` or `EnqueueTxAppend`. `EnqueueInitialData` is `append(data, txBuf...)`, which does
not copy `data`: as long as its array has room `txBuf` lies in the writer's buffer from there on
(`lent` says where), also behind a partial drain and a later append, and the writer's next read goes
over what waits (`Overwritten`). `early` is the history of such a write. `DrainTx(m)` is
`DrainTxLimited` with cap `m` (0: none). `firstQueuedAt` is reduced to whether it is set.

**SessionRx.** The peer's stream is the frames `0..FinSeq`, the last being the FIN. `Route` lets a
worker pick up any frame at any time, which covers loss, repetition and reordering. `ProcessRx` is
its check, the fast path and the timed wait; `deliverRx` is the locked reassembly (`DeliverRun`)
followed by one step per payload sent outside the lock. `CloseRx` is called by an RST on the
client or by the idle collector on the exit (`ForcedClose`); `Stop` by the upstream pump, by an
inbox overflow and by the collector of finished sessions. `panicked` becomes true where Go would
panic, and no step follows.

**Carrier.** A session is whether a SYN is due, how many payload frames wait, and whether a FIN is
due. `IsDrain(d)` characterises what `drainAll`'s two passes (SYNs first, each by queue age) take
from every session under the caps per session and per batch. The OnTx callback is two steps,
`OnTxReady` and `OnTxKick`; the removal after an RST is four; the idle cap is read and used in two.
A POST succeeds, or fails; the client cannot tell a request that never arrived from a lost answer.

**Exit.** A handler goes through routing, the capture of its client's wake channel, the first
drain, the long poll and the coalesce window. Wake channels are numbered so that a stale one can be
told from its successor; each holds at most one token. `Emptied` decides which sessions leave
`txReady`. Payload and the byte budget are counted in full frames. `Cancel` is a client that goes
away. The receive half of a session is left to `SessionRx`: a session whose FIN is out may be done
at any time (`MayBeDone`).

**Endpoints.** Time is what is left of each blacklist, and `Tick` takes one unit off all of them.
`pickRelayEndpoint(w)` starts an attempt of worker `w` (`FirstFree` is the loop of the function,
`Soonest` its second half), `PollSucceeds` and `AttemptFails` are its results, the latter with the
floor of the failure's kind: which HTTP status or error page it was is a choice of `Floors`. The
failure count stops at the end of the ramp, from where on all counts are alike. `Carrier` knows of
all this only that an attempt may fail.

**Upstream.** `table` is the session registered under the id, `conn[k]` the k-th connection with
its two pumps and its session object, which outlives its entry. A router is a goroutine inside
`routeIncoming`: a SYN goroutine of some request or a handler that routes another frame. It looks
the session up (`SeesNoEntry`), and what it has found is used after the unlock: `RouteKnown` and
`Deliver` are two steps, and so are `RouteSyn` and `OpenSession`, with the cache, the resolver and
the dial between them. `dialFail` and the cache are for the one target of the session; entries run
out at any time. `overlap`, `displaced` and `condemned` are history. `GcIdle` closes the connection
and the channel; the panic this `CloseRx` may cause belongs to `SessionRx`.

**ByteStream and Relay.** `ByteStream` has a writer, a reader and a `cut`: bytes are read in the
order they were written, and the end is seen behind the last byte or after a cut. `Relay` carries
numbered bytes. A set per direction holds the frames that may still arrive; a frame of a request
may arrive and stay in the set, because the client repeats a batch whenever it does not see the
answer, and one that stays for ever is a lost one, so that loss, delay and reordering need no
actions of their own. In a receive half the reassembly under the lock (`Reassembled`) and the sends
after it (`HandedOver`, `AtEnd`) are steps of their own, as in `deliverRx`; a full inbox stops the
session on either side (`ExitOverflow`, `ClientOverflow`). `UpIsByteStream` and `DownIsByteStream`
are the refinements (`INSTANCE ByteStream WITH ...`). A stream is `cut` by whatever stops its
reader's session before the reader has seen the end: an RST, an overflow, a collector, and for the
upward stream the target's own end, on which the read pump calls `Stop`; the code has no half-closed
connections. A collector that stops a client's session between the FIN and the last send is such a
cut too. An application that writes before the SYN has left lends the session its copy buffer
(`EnqueueInitialData`), and what a frame carries is what that buffer holds when the frame is
encoded. `Relay` keeps the length of such a stream and gives its bytes the one value 0: the
refinement then says that the target gets as many bytes as were written, and the end behind them,
and nothing of their values, which `session_tx_client_order` shows to be wrong. Like the code,
`ClientWrite` accepts an early write after a close. A second connection for the same session
(`DialTwice`) ends a behaviour; `Upstream` has what follows.

**FrameCodec.** The layout and all tests of the code, with the range of a byte and the widths of
the fields as constants. A body is a text with what may stand around it; a sealed text opens under
its key only. Powers, numbers in bytes and the loop over the frames are recursive functions.
**Fronting.** A host's attempts become samples, a host's latency, the threshold and
the hosts kept. The code takes the element in the middle of a sorted copy; `Middle` says which value
that is without sorting (`MiddleOfSorted` proves that they are the same). **Quota.** Hours pass; a day may have one more or one less, and the code adds a
fixed number of hours to the midnight before.

**KickCoalesce.** A timer's function is the steps `Fire`, `Clear` and `Wake`; a kick between them
finds a timer that has fired and re-arms it (`FurtherKick`), after which it fires for nobody and
may clear the timer of a younger burst. Time passes when the timers that are due have fired and
their functions have returned: the delay of a goroutine is not counted. `waiting` and `age` are
history. That no kick is lost is what `Carrier` assumes with its one armed flag.

## Runs

Passing runs:

| Run | Instance | Shows |
|---|---|---|
| `session_tx` | client and exit session, high water 2, payload 2, drains of 0..3 frames, 7 bytes, a copy buffer of 3 | frames are numbered, SYN first, FIN last; whatever is pending has a queue age and no parked writer misses its wake-up; the payloads are what left the buffer and no byte is missing or added; unless a write came before the SYN (on the exit none does) the bytes are the accepted ones in order; the buffer bound of the exit; a close is followed by the FIN, a writer returns |
| `session_rx` | 2 payloads and FIN, 2 workers, inbox and `RxChan` of 1; ended by `Stop`, by either collector, or by an overflow | what is read is an in-order prefix, nothing reassembled is dropped or held back, a clean EOF is complete, a finished loop has closed the channel; workers return, a stopped loop ends, a finished session is collected, even if the reader never reads |
| `carrier_schedule` | 2 sessions, 2 workers, batch of 1 (2 when busy), 2 attempts | no session is stranded, none is in two batches |
| `carrier_live` | 1 session, 2 workers, an answer of a frame (data, FIN or RST), coalesced kicks | idle slots are counted on every path; a collected session has nothing left; queued data is sent, closed sessions leave, stale ids go |
| `endpoints` | 3 endpoints, 2 workers, ramp 1, 2, 4 | a blacklist never exceeds its backoff, a failure never shortens it, and every endpoint is asked again and again |
| `exit_clients` | 2 clients, 2 handlers, 1 session with 2 frames per drain, 1 RST, budget 2 | a client gets its own frames only, an RST leaves without waiting, a response passes the byte budget by less than one session's share, a collected session has nothing left |
| `exit_live` | 2 sessions of one client that compete for a batch of 1 frame, 1 handler, budget 2 | nothing is stranded; what is queued is served, unless a session queued before it is refilled for ever before it is empty |
| `upstream` | 2 routers, 3 frames, 2 connections, 2 look-ups, high water 0, 1 payload on its way to the target | a registered session is overwritten only when two of its SYNs were dialled at once; a cached address that failed is gone; a connection that has left the table is closed and its pumps end, with two exceptions; a session without traffic does not stay |
| `relay` | 2 bytes each way, each written before or after the SYN has left, 1 frame that arrives twice | both directions implement `ByteStream` under loss, delay, repetition, reordering and overflowing inboxes (upward without the values of the bytes, if the first one was written before the SYN had left); when nothing is lost for good a closed stream ends at its reader, or the session is removed |
| `functions` | bytes of 3 values, targets and payloads of 0..3 with limits of 2, up to 3 frames; 1..4 hosts with 2 attempts each; 5 days of 2 to 4 hours; 3 timers, a step of 2 and a cap of 4 | a batch within the limits arrives as it was sent, in every form the decoder accepts, and any other is refused; frames tell where they end; the probe removes bad hosts only; the counter is today's but around clock changes; no kick waits for longer than the cap |

Runs that end in a violation; each is a finding, quoted in `PROJECT.json`:

| Run | What the code does |
|---|---|
| `session_tx_client_order` | bytes written before the SYN is drained stay in the writer's buffer, and its next read overwrites them; a second early write goes in front of the first |
| `session_rx_rst_panic` | an RST closes `RxChan` under a `deliverRx` that is still sending; the exit's idle collector does the same |

Met while modelling, and without a run of their own: `runWorker` captures the wake channel after
the drain it should cover, so that a broadcast in between is missed and new data waits for the
backoff timer of a worker (the comment at `client.go:434` says it cannot be); the failover of a
poll goes back to the endpoint that has just failed when the others are blacklisted for longer
(`README.md:483` speaks of a fresh deployment), and backoffs go up to an hour (`README.md:417`: up
to ~48 s); `EnqueueInitialData` does not look at the
high-water mark, so that the buffer of a client session is bounded only once its SYN is drained; a
batch whose attempts have all failed is dropped with its sequence numbers, and the peer waits for
them for ever; the exit's collector may forget the wake channel of a client on which a long poll
still waits, which is then answered by its timer; every drain of the coalesce window has a fresh
frame cap; and the byte budget is looked at between sessions, so that less than 22 MiB and then 8
frames of 256 KiB are up to 24 MiB, which base64 turns into the client's limit of 32 MiB.

Also, each a behaviour of a passing run:

* `deliverRx` marks the session closed before it has sent what precedes the FIN (`session.go:420`,
  `:435`); a collector that takes it for done in between stops it, and the reader sees EOF with the
  tail missing. `CleanEofIsComplete` is about the loop that runs to its end, and in
  `DownIsByteStream` this end is a cut.
* A partial drain leaves `firstQueuedAt` as it is, and `drainAll` of the exit serves by it
  (`exit.go:686`): sessions that are refilled all the time and fill a batch (six of them do, at 8
  of 48 frames) keep all others out of it, although `exit.go:664` sorts "to ensure fairness".
  `PendingIsServed` names this one exception (`RefilledAhead`) and is checked where it bites, with
  two sessions and a batch of one frame; without the exception TLC refutes it there.
* A SYN that is repeated while it is being dialled opens a second connection, which takes the
  place of the first (`exit.go:566`); the first is closed by nobody until its target ends it.
* `gcIdleSessions` does not wake a read pump parked in `EnqueueTx`, which stays for ever with its
  buffer, although the comment at `exit.go:804` says that closing the connection ends it.
* A frame that overtakes the dial of its SYN is answered with an RST. The client forgets the
  session, the exit registers it, and drained frames count as its activity (`exit.go:718`): as
  long as the target talks and the client polls, the idle collector does not come.
* The target's end of stream stops the whole session: what the client still has to say is dropped.
* One frame with a target of more than 255 bytes fails its batch, and `pollOnce` has drained the
  other sessions' frames already (`client.go:519`).
* `nextQuotaReset` promises a midnight "strictly after now" (`quota.go:25`); in the last hour of
  the day of 25 hours the result lies in the past, and each response starts a window of its own.
* The start-up probe accepts only the plain text of an older script (`fronting.go:179`). The
  current `Code.gs` answers a GET without `legacy=1` in JSON, so that no host passes and all are
  kept. The test for fewer than two survivors (`fronting.go:220`) can never hold (`TwoSurvive`).

**Bounds.** Two of each actor is what the races of these modules need: one that has checked or
captured something, and one that changes it. Capacities of 1 and 2 make every queue and cap reach
its limit within a few steps, and bytes, data and reply bounds are chosen so that a partial drain,
a refill and a second drain all happen. In `upstream` three frames are two SYNs and data or a FIN
behind them, and a high water of 0 parks the read pump at its second read. The copy buffer of
`session_tx` has room for one more byte than a write, so that a second early write stays in it and a
third does not. In `exit_live` each drain has room for one of the two sessions; in `exit_clients` a
session's share is 2 frames, so that the byte budget is passed and its bound is reached. In `relay`
two bytes are what reordering and a gap need. The fields of
`functions` are as narrow as the limits allow, so that a length one too large wraps around. The coverage of TLC shows every action of every module
taken in a passing run. `carrier_schedule` leaves out answers and `carrier_live` the second
session: together they are beyond a few minutes of TLC; the theorems of `CarrierProofs` hold for
the whole specification. Worker and handler symmetry is used for safety only.

**Fairness.** Goroutines that can run do run (weak fairness of the loop, the worker and handler
steps, the callbacks, which hold no lock while they wait), timers fire, and a POST ends because the
HTTP client has a timeout. Not assumed: that the SOCKS application or the upstream reads, writes or
closes, that the server answers well, that a session is opened, that a request is cancelled. In
`SessionTx` sessions are drained again and again, which `carrier_live` and `exit_live` justify; in
`Exit` a client keeps polling, which is what `runWorker`'s loop does; in `Endpoints` some worker
does, not each one, because a worker may be refused an idle slot for ever. In `Upstream` dials end
within their timeout, `Read` and `Write` return once the connection is closed, and the idle
collector is a ticker; nothing is assumed of the target or of the polls. `Relay` is checked under
`LosslessSpec`: besides the goroutines, every frame and every RST arrives at some time. That is an
assumption about the network which the code cannot justify (a batch may be dropped after its second
attempt, a response may be lost), and only `StreamsEnd` rests on it; the refinements are safety and
hold without.

## Proofs

From the named assumptions on the constants (naturals, non-zero caps, Booleans; no bound on the
number of workers, sessions, bytes or frames). Sets of workers, clients, sessions and handlers are
finite where something is counted over them: idle polls in `Carrier`, frames and wake channels in
`Exit`.

* `SessionTxProofs`: type correctness; `FramesWellFormed` (numbering, SYN first, FIN last) from
  the inductive invariant `FrameInv`, which ties the emitted frames to `txSeq`, `synNeeded` and
  `finSent` so that a capped drain extends them correctly; `NoStarvation` (queue age and parked
  writers); and `ExitStreamInOrder` and `ExitBufferBounded`, which fail for a client's early writes.
  The lemmas on a drain (how many frames and bytes it takes, what its frames look like, that their
  payloads are the drained bytes) carry the argument. `FramesCarryAll`, on client and exit alike, says
  that the frames carry what left the buffer, and as many bytes as were accepted:
  its invariant `Carried` says that some function gives, for every emitted frame, what has been
  carried up to it, and that it ends in `sent`. A drain extends that function by
  one value per chunk (`ChunksAdjacent`: each chunk starts where the one before it stopped, and the
  last one ends where the drain does); that the library's `FlattenSeq` computes this very function
  is an induction over the frames. `CountKept` has the number of bytes, which a read that overwrites
  lent bytes does not change. *Which* bytes they are is `ExitStreamInOrder`: it rests on `OwnArray`,
  that `txBuf` lies in an array of its own as long as no write came before the SYN.
* `SessionRxProofs`: type correctness; `StreamDelivered` (in-order prefix, nothing dropped while
  the loop runs), `GoneImpliesClosed`, and `StopNeverPanics`, which shows that the panic needs a
  `CloseRx`. They rest on `RxShape`, the relation between `rxClosed`, the channel and the loop's
  position: `rxClosed` runs ahead of the channel exactly while the loop that saw the FIN is
  sending. `CleanEndIsComplete` needs more: by `CleanInv`, as long as nobody killed the half,
  only the FIN shuts `RxChan`, and once it is shut every payload before the FIN has been read or
  waits in it.
* `EndpointsProofs`, for every ramp that does not fall (`MCEndpoints` has the code's ramp and an
  assumption that it is one): type correctness, `BackoffBounded`, `FailuresOnlyAdd` and
  `PicksWaitLeast`. That a failure never shortens a blacklist needs `BlacklistWithinBackoff`: what
  is left is within the time to live of the old count, and that does not exceed the new one's.
* `CarrierProofs`, for every set of sessions and every finite set of workers (finite because idle
  polls are counted): `ExclusiveFlights`, `NobodyStranded`, `IdlePollsExact` and
  `CollectedIsFinished`. `SchedType` has the types without the queue order, which plays no part:
  whatever order `drainAll` serves the sessions in, the results hold. `OthersHoldNothing` says
  that a worker outside a poll has neither a batch nor a slot; without it a fresh drain could
  overwrite a batch, and a fresh slot could be counted twice. With it, `InFlightExclusive` is
  inductive, and `NoStrandedSession` follows step by step: a drain takes a session out of
  `txReady` only when it puts it into `inFlight` or leaves nothing, and the release puts it back.
  `CapRead` bounds the idle cap a worker has read by the larger of the two caps, which bounds the
  counter although cap and counter are read at different times. `FinWasLast` says that a FIN that
  is out was preceded by everything else, which is what the collector relies on. `TypeCorrect` is
  its first part.
* `ExitProofs`, for every finite set of clients, sessions and handlers and for all caps and budgets:
  `ExitTypeOK`, `NothingStranded`, `ResponsesIsolated`, `RstsFlushed`, `ResponsesBounded` and
  `CollectedIsDrained`. The invariant has two halves. `SessInv` adds to `NoStrandedSession` that a
  FIN that is out left nothing behind, that whatever is pending has a queue timestamp, and that
  nothing waits in a session that is not open yet: opening one must not put it into the table
  with something to send and outside `txReady`. `HandlerInv` adds to the properties of the
  handlers that one outside its coalesce window and its reply holds no frames, so that the first
  drain of a poll starts from an empty response. The byte budget is the hard part (`DrainBytes`):
  of the sessions a drain visits the one that is last in the order by queue age had less than the
  budget before it, and adds at most its share; without timestamps for what is pending that
  order would not be total. The types need a wake channel to be free whenever `activityFor` needs one
  (`FreshChanExists`), which is counting.
* `RelayProofs`, for every bound on bytes and copies: `DownImplementsByteStream` and
  `UpImplementsByteStream`. The invariants `DownInv` and `UpInv` say of one direction that what its
  transmit half still holds is the tail of what was written (`TxInv`), that every frame on its
  way carries the bytes its number calls for (`FrameInv`), and that what the receive half has handed
  over and what it is about to hand over are the prefix its `seq` stands for (`RxInv`). A frame
  carries at most one byte; a SYN that leaves before the first write carries none, and `Shift` is the
  difference it makes between numbers and bytes. All three take whether the stream began early:
  `Value` is the number of a byte or, in an early stream, the unknown value, and only an early stream
  has bytes that wait for the SYN, so that a write in front of them (`EarlyWriteStep`) and a write
  behind them look alike. With this an arrival changes nothing the two ends see, a step of `rxLoop` is
  nothing, a read of the next byte or the end behind the last, and a stop is a cut.
* `UpstreamProofs`, for every set of routers and every bound: `OnlyRacesDisplace` and
  `CondemnedStaysOut`. The first rests on `OneDial`: while no two dials have overlapped at most one
  router dials, and the table is empty while it does, so that its registration displaces nothing.
  The second rests on `AddressesKnown`: an address in use comes from a look-up that has happened,
  so that what a new look-up puts into the cache is none of the condemned ones. The pumps play no
  part in either. `UpstreamTypes` and `CollectedIsClosed` are about them and rest on `ConnInv`. For
  the types it is needed that a frame is delivered to a session that was registered
  (`SessionsMade`), which the router found before the unlock and which may have been collected
  since. `CollectedIsClosed` is the safety half of `NothingLeftBehind`: a session outside the table
  that no racing SYN displaced has its connection and its `RxChan` closed and never opened again,
  so that the pumps can only end. It needs that connections are used in order (`MadeInOrder`), so
  that a registration never reopens an old one, and that a FIN that was sent comes from a read pump
  that has ended (`FinIsLast`), which is why `gcDoneSessions` need not close the connection itself.
* `FunctionsProofs`, the codec, for every number of values of a byte, every width and every limit
  that `ByteAssumption`, `WidthAssumption` and `LimitAssumption` allow. The last one is what the
  code's constants satisfy: a target's length fits its byte (`maxTargetLen` is 255), and a frame of
  the largest target and payload fits its 32-bit length prefix. `EveryFrameDelimited`: `Layout` says
  where each field stands in a marshalled frame and `ValueOfBigEndian` that a number below the
  power of its width is read back; so data that begins with a part of a marshalled frame
  (`Begins`) is refused as long as the part is not the whole, and read as that frame otherwise.
  `EveryBatchRoundTrips`: `FlattenPieces` gives the place of each length and frame in the plain text, and
  `DecodePlainIs` follows the loop of `DecodeBatch` from one to the next (`DecodeStep`);
  `TrimmedIsText` has the padding and the white space. `BatchesArrive` is the invariant of the run.
  `Seal` and `Open` and the packers are the model's assumptions about the libraries.
* `FunctionsProofs`, the probe, for any number of hosts, attempts and times: `MiddleExists` (the
  least value that more than half of the values do not exceed) and `MiddleUnique` make
  `Middle` well defined; `EveryProbeKeepsGoodHosts` then only needs that the median is the latency of
  a host that passes, which is within three times itself and not below the fastest.
  `ProbesKeepGoodHosts` is the invariant of the run.
* `FunctionsProofs`, the clocks: `KickBounded`, for every step, cap and set of timers. `TimerComes` says that
  the timer the client knows of fires before the deadline or has fired and not cleared it yet,
  `KickIsTimed` that a kick that waits has such a timer unless a wake-up is imminent; so time cannot
  pass beyond the deadline while a kick waits. `CountIsTodays`, for days of any length in any
  succession: `WindowOfToday` says that the window is today's with today's count, or ended by
  midnight with nothing received since, and it is regained at the first midnight after a day that
  was not a short one, because no window ends later than today's (`WindowBounded`).

What a recursive function or a fold computes (`FlattenSeq`, the sums and `Without` in `Exit`, `Pow`,
`Value` and the loop of `DecodePlain`) is
proved by induction over the set of numbers for which the claim holds (`SetInduction`, from the
least element of its complement); the induction theorems of the library take an operator, which the
provers cannot instantiate.

Only model-checked: all liveness properties, which need fairness and `ENABLED`
(`CloseLeadsToFin`, `WriterReturns`, `WorkersReturn`, `StopEndsLoop`, `FinLeadsToGone`, `PendingIsSent`,
`StaleReadyCleaned`, `ClosedLeaves`, `EveryEndpointTried`, `PendingIsServed`, `NothingLeftBehind`,
`OrphanCollected`, `StreamsEnd`). Every invariant and every action property of a passing run is
stated by a theorem. `TypeOK` of `SessionTx`, `SessionRx`, `Carrier`, `Endpoints`, `Exit` and
`Upstream`, `PickWaitsLeast` of `Endpoints` and `LeftIsClosed` of `UpstreamProofs` are proved and not
part of a run.

Some operators are opaque to the provers, and the models avoid them where something is proved:
`^` (`Pow` instead), `SelectSeq` and `SortSeq` (sets and `Middle` instead), and `@` inside an `EXCEPT`
that itself stands for an `@`, which tlapm expands wrongly.

## Not modelled

Encryption, compression, base64, TLS, HTTP and the SOCKS protocol are libraries. Statistics,
diagnosis, configuration, commands and benches keep no state that matters to the protocol. Of
fronting the TLS connections and their warming are left out. In the modelled parts: time is reduced
to timers that may fire; a session has one SOCKS goroutine inside `OnTx` at a time; the coalesce
timer of `Carrier` is one armed flag;
`Shutdown`, which sends one batch of RSTs when the process ends, is left out; a request of `Exit`
routes one frame, and `Relay` has no batches.

## Plan

`Shutdown` as the end of `Carrier`'s behaviours, with workers still in a poll.
