----------------------------- MODULE MCFunctions ----------------------------
(***************************************************************************)
(* The functions and the clocks of the program over bounded inputs.  A     *)
(* behaviour is about one of four subjects that share nothing: a batch on  *)
(* its way through the codec, a start-up probe, the daily counter of an    *)
(* endpoint, or the coalescing of kicks; the last two have steps.          *)
(***************************************************************************)
EXTENDS FrameCodec, Fronting, Quota, KickCoalesce

CONSTANTS
    ProbedHosts,  \* bound: hosts that are probed
    Times         \* the times a probe may take

ASSUME ProbeAssumption == ProbedHosts \in Nat /\ Times \subseteq Nat

VARIABLES
    subject,   \* "batch", "probe", "count" or "kick"
    batch,     \* the frames of a batch
    attempts   \* per host, its two attempts at the probe

vars == <<subject, batch, attempts, quotaVars, kickVars>>

\* Targets and payloads up to one byte beyond what a frame may hold.
Frames ==
    [id : {[i \in 1..IDLen |-> Base - 1]},
     seq : {1, Pow[SeqBytes] - 1},
     flags : {Base - 1},
     target : {[i \in 1..n |-> i % Base] : n \in 0 .. MaxTargetLen + 1},
     payload : {[i \in 1..n |-> (i + 1) % Base] : n \in 0 .. MaxPayload + 1}]

\* Up to two frames of any kind, and up to one more than a batch may hold.
Batches ==
    {<<>>} \cup {<<f>> : f \in Frames} \cup {<<f, g>> : f, g \in Frames}
    \cup {[i \in 1..n |-> f] : n \in {Pow[CountBytes] - 1, Pow[CountBytes]}, f \in Frames}

\* An answer that is no sample, and one that is.
Bad == {[answered |-> FALSE, status |-> 0, body |-> "none", time |-> 0],
        [answered |-> TRUE, status |-> 403, body |-> "text", time |-> 0],
        [answered |-> TRUE, status |-> 200, body |-> "json", time |-> 0]}
Good(t) == [answered |-> TRUE, status |-> 200, body |-> "text", time |-> t]

\* The two attempts at one host; of two samples the first is the slower one.
Attempts == {<<b, b>> : b \in Bad}
            \cup {<<b, Good(t)>> : b \in Bad, t \in Times}
            \cup {<<Good(p[1]), Good(p[2])>> : p \in {q \in Times \X Times : q[2] <= q[1]}}

\* Ordinary days around the day of 23 hours and the day of 25.
Days == <<Day, Day - 1, Day, Day + 1, Day>>

NoCount == date = 1 /\ hour = 0 /\ midnight = 1 /\ dailyCount = 0 /\ dailyResetAt = 0
           /\ scriptCount = 0 /\ errLogged = FALSE /\ today = 0

Init ==
    \/ subject = "batch" /\ batch \in Batches /\ attempts = <<>> /\ NoCount /\ KickInit
    \/ subject = "probe" /\ batch = <<>> /\ NoCount /\ KickInit
       /\ \E n \in 1..ProbedHosts : attempts \in [1..n -> Attempts]
    \/ subject = "count" /\ batch = <<>> /\ attempts = <<>> /\ QuotaInit /\ KickInit
    \/ subject = "kick" /\ batch = <<>> /\ attempts = <<>> /\ NoCount /\ KickInit

Next ==
    /\ \/ subject = "count" /\ QuotaNext /\ UNCHANGED kickVars
       \/ subject = "kick" /\ KickNext /\ UNCHANGED quotaVars
    /\ UNCHANGED <<subject, batch, attempts>>

Spec == Init /\ [][Next]_vars

-----------------------------------------------------------------------------
(* Properties. *)

ClientID == [i \in 1..IDLen |-> i % Base]

\* The forms in which the body of an encoded batch may arrive: as it was sent,
\* or with the padding of an older peer and white space around it.
Arrivals(body) ==
    {before \o body \o pads \o after :
        before, after \in {<<>>, <<Char("space")>>},
        pads \in {<<>>, <<Char("pad")>>, <<Char("pad"), Char("pad")>>}}

\* What an older peer makes of the same batch: DEFLATE instead of zstd.
OldBody(id, frames) ==
    LET raws == [i \in 1..Len(frames) |-> Marshal(frames[i]).raw]
    IN  <<Text(Seal("k", [flag |-> Flate, body |-> Packed(Flate, Plain(id, raws))]))>>

\* A marshalled frame tells where it ends: followed by other bytes it is read
\* back as it was and all of it is consumed, and cut short anywhere it is
\* refused rather than read as a shorter frame.
SelfDelimiting(f) ==
    LET m == Marshal(f)
    IN  m.ok => /\ Unmarshal(m.raw \o <<0, Base - 1>>)
                   = [ok |-> TRUE, used |-> Len(m.raw), frame |-> f]
                /\ \A n \in 0 .. Len(m.raw) - 1 : Unmarshal(SubSeq(m.raw, 1, n)) = Failed

\* What the codec makes of the frames of the client id, packed or not.
RoundTrips(id, frames, shrinks) ==
    LET sent == [ok |-> TRUE, clientID |-> id, frames |-> frames]
        fine == /\ Len(frames) <= Pow[CountBytes] - 1
                /\ \A i \in 1..Len(frames) : /\ Len(frames[i].target) <= MaxTargetLen
                                             /\ Len(frames[i].payload) <= MaxPayload
        encoded == EncodeBatch("k", id, frames, shrinks)
    IN  /\ encoded.ok <=> fine
        /\ fine => /\ \A body \in Arrivals(encoded.body) \cup Arrivals(OldBody(id, frames)) :
                          DecodeBatch("k", body) = sent
                   /\ DecodeBatch("other", encoded.body) = Failed

\* A batch whose frames are within the limits arrives as it was sent, whichever
\* way it was packed and padded; one frame beyond a limit, or one frame too
\* many, fails the whole batch, and nothing that was encoded is ever refused
\* or read as something else: the limits of the two sides agree.  Each frame
\* in it tells where it ends, so that none is read into the next one.
BatchRoundTrip ==
    subject = "batch" =>
        /\ \A i \in 1..Len(batch) : SelfDelimiting(batch[i])
        /\ \A shrinks \in BOOLEAN : RoundTrips(ClientID, batch, shrinks)

\* What the probe makes of the attempts at each host.
KeepsGoodHosts(tries) ==
    LET n       == Len(tries)
        kept    == filterFrontedClientsByProbe(tries, TRUE)
        good    == {i \in 1..n : Ok(Samples(tries[i]))}
        slow(i) == Latency(Samples(tries[i]))
    IN  /\ kept # {}
        /\ good = {} => kept = 1..n
        /\ good # {} /\ n > 1 => kept \subseteq good
        /\ \A i \in good \ kept :
               /\ Cardinality({j \in kept : slow(j) < slow(i)}) >= 2
               /\ \E j \in kept : slow(i) > 3 * slow(j)
        /\ \A i \in good : (\A j \in good : slow(i) <= slow(j)) => i \in kept

\* The client never goes on without hosts, and a probe only ever removes a bad
\* one: a host that failed, when another did not, or a host that took more than
\* three times as long as a host that is kept, when two faster ones are kept.
\* The fastest host is always kept.
ProbeKeepsGoodHosts == subject = "probe" => KeepsGoodHosts(attempts)

=============================================================================
