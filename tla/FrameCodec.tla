----------------------------- MODULE FrameCodec -----------------------------
(***************************************************************************)
(* The encoding of frames and of batches (internal/frame/frame.go and      *)
(* crypto.go) as operators on sequences of bytes.                          *)
(*                                                                         *)
(* The layout is the one of the code; the widths of its fields, the range  *)
(* of a byte and the limits are constants, so that TLC can enumerate what  *)
(* lies at and beyond them.  AES-GCM, zstd, DEFLATE and base64 are library *)
(* code: a sealed text opens with the key it was sealed with, a packed     *)
(* text unpacks to what was packed, and of the base64 text only its ends   *)
(* are seen, where padding and white space may stand.                      *)
(***************************************************************************)
EXTENDS Naturals, Sequences, SequencesExt

CONSTANTS
    Base,          \* number of values of a byte
    IDLen,         \* SessionIDLen and ClientIDLen
    SeqBytes,      \* bytes of a sequence number
    LenBytes,      \* bytes of payload_len and of a frame's length prefix
    CountBytes,    \* bytes of frame_count
    MaxTargetLen,  \* maxTargetLen
    MaxPayload,    \* maxPayloadSize
    CompressMin    \* compressMinSize

ASSUME ByteAssumption  == Base \in Nat \ {0, 1}
ASSUME WidthAssumption == {IDLen, SeqBytes, LenBytes, CountBytes} \subseteq Nat \ {0}

\* Powers of Base: a field of k bytes holds the numbers below Pow[k].
Pow[k \in Nat] == IF k = 0 THEN 1 ELSE Base * Pow[k - 1]

\* A target's length fits its byte, and a frame's length its prefix.
ASSUME LimitAssumption == /\ {MaxTargetLen, MaxPayload, CompressMin} \subseteq Nat
                          /\ MaxTargetLen < Base
                          /\ IDLen + SeqBytes + 2 + MaxTargetLen + LenBytes + MaxPayload
                             < Pow[LenBytes]

Byte  == 0 .. Base - 1
Frame == [id : [1..IDLen -> Byte], seq : 0 .. Pow[SeqBytes] - 1, flags : Byte,
          target : Seq(Byte), payload : Seq(Byte)]

\* The result of a call that returned an error.
Failed == [ok |-> FALSE]

\* n in w bytes, the most significant first; higher digits are cut off.
BigEndian(n, w) == [i \in 1..w |-> (n \div Pow[w - i]) % Base]

Value(bytes) ==
    LET upTo[i \in 0..Len(bytes)] == IF i = 0 THEN 0 ELSE Base * upTo[i - 1] + bytes[i]
    IN  upTo[Len(bytes)]

\* The n bytes from offset off, and the number they stand for.
Field(data, off, n) == SubSeq(data, off + 1, off + n)
Number(data, off, n) == Value(Field(data, off, n))

-----------------------------------------------------------------------------
(* Frames. *)

\* Mutant: a target of one byte too many passes, and its length wraps around.
FitsOneOver(f) == Len(f.target) <= MaxTargetLen + 1 /\ Len(f.payload) <= MaxPayload

Fits(f) == Len(f.target) <= MaxTargetLen /\ Len(f.payload) <= MaxPayload

Marshal(f) ==
    IF ~Fits(f) THEN Failed
    ELSE [ok |-> TRUE,
          raw |-> f.id \o BigEndian(f.seq, SeqBytes) \o <<f.flags>>
                  \o <<Len(f.target) % Base>> \o f.target
                  \o BigEndian(Len(f.payload), LenBytes) \o f.payload]

\* Offsets of the fields behind the session id and the sequence number.
FlagsAt  == IDLen + SeqBytes
TargetAt == FlagsAt + 2

PayloadLen(data, at) == Number(data, at, LenBytes)

Unmarshal(data) ==
    LET tlen  == data[FlagsAt + 2]
        lenAt == TargetAt + tlen
        plen  == PayloadLen(data, lenAt)
        end   == lenAt + LenBytes + plen
    IN  IF \/ Len(data) < TargetAt + LenBytes
           \/ Len(data) < lenAt + LenBytes
           \/ plen > MaxPayload
           \/ Len(data) < end
        THEN Failed
        ELSE [ok |-> TRUE, used |-> end,
              frame |-> [id |-> Field(data, 0, IDLen),
                         seq |-> Number(data, IDLen, SeqBytes),
                         flags |-> data[FlagsAt + 1],
                         target |-> Field(data, TargetAt, tlen),
                         payload |-> Field(data, lenAt + LenBytes, plen)]]

-----------------------------------------------------------------------------
(* Batches. *)

Raw   == 0
Flate == 1
Zstd  == 2

\* Library code: packing, sealing, and the text a body consists of.
Packed(by, bytes) == [by |-> by, content |-> bytes]
Seal(key, input)  == [key |-> key, input |-> input]
Open(key, sealed) == IF sealed.key = key THEN [ok |-> TRUE, input |-> sealed.input] ELSE Failed
Text(sealed)      == [char |-> "text", sealed |-> sealed]
Char(c)           == [char |-> c]

\* The plain text: client id, number of frames, and each frame behind its
\* length.
Plain(clientID, raws) ==
    clientID \o BigEndian(Len(raws), CountBytes)
    \o FlattenSeq([i \in 1..Len(raws) |-> BigEndian(Len(raws[i]), LenBytes) \o raws[i]])

\* shrinks: what zstd makes of the plain text is shorter than it.
EncodeBatch(key, clientID, frames, shrinks) ==
    LET raws  == [i \in 1..Len(frames) |-> Marshal(frames[i])]
        plain == Plain(clientID, [i \in 1..Len(frames) |-> raws[i].raw])
        packs == Len(plain) >= CompressMin /\ shrinks
        input == IF packs THEN [flag |-> Zstd, body |-> Packed(Zstd, plain)]
                          ELSE [flag |-> Raw, body |-> Packed(Raw, plain)]
    IN  IF \/ Len(frames) >= Pow[CountBytes]
           \/ \E i \in 1..Len(frames) : ~raws[i].ok
        THEN Failed
        ELSE [ok |-> TRUE, body |-> <<Text(Seal(key, input))>>]

\* body without the characters c at its end, and without those at its start.
TrimRight(body, c) ==
    LET other == {i \in 1..Len(body) : body[i].char # c}
    IN  SubSeq(body, 1, IF other = {} THEN 0 ELSE CHOOSE i \in other : \A j \in other : j <= i)

TrimSpace(body) == Reverse(TrimRight(Reverse(TrimRight(body, "space")), "space"))

Trimmed(body) == TrimRight(TrimSpace(body), "pad")

\* One frame of the plain text, behind the ones in acc.
DecodeNext(plain, acc) ==
    LET flen  == Number(plain, acc.off, LenBytes)
        start == acc.off + LenBytes
        f     == Unmarshal(Field(plain, start, flen))
    IN  IF \/ ~acc.ok
           \/ Len(plain) < start
           \/ Len(plain) < start + flen
           \/ ~f.ok
        THEN Failed
        ELSE [ok |-> TRUE, off |-> start + flen, frames |-> Append(acc.frames, f.frame)]

DecodePlain(plain) ==
    LET first == [ok |-> TRUE, off |-> IDLen + CountBytes, frames |-> <<>>]
        count == Number(plain, IDLen, CountBytes)
        after[i \in 0..count] == IF i = 0 THEN first ELSE DecodeNext(plain, after[i - 1])
        all   == after[count]
    IN  IF Len(plain) < IDLen + CountBytes \/ ~all.ok THEN Failed
        ELSE [ok |-> TRUE, clientID |-> Field(plain, 0, IDLen), frames |-> all.frames]

DecodeBatch(key, body) ==
    LET text   == Trimmed(body)
        opened == Open(key, text[1].sealed)
        input  == opened.input
    IN  IF body = <<>>
        THEN [ok |-> TRUE, clientID |-> [i \in 1..IDLen |-> 0], frames |-> <<>>]
        ELSE IF \/ Len(text) # 1 \/ text[1].char # "text"
                \/ ~opened.ok
                \/ input.flag \notin {Raw, Flate, Zstd}
                \/ input.body.by # input.flag
        THEN Failed
        ELSE DecodePlain(input.body.content)

=============================================================================
