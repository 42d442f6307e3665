------------------------------- MODULE WsFrame -------------------------------
(***************************************************************************)
(* The WebSocket frame parser of packages/ohn-ws/src/ohn-ws.js, and a user *)
(* of it that keeps the bytes of a connection in a buffer: a chunk is      *)
(* appended when it arrives, parseFrame looks at the front of the buffer,  *)
(* null means wait for more, and a frame is cut off once it was taken.     *)
(* parseFrame unmasks in place and leaves the mask bit set, so a byte must *)
(* be unmasked once and only once however the stream is cut into chunks.   *)
(*                                                                         *)
(* Data: the bytes of lengths are digits of base FrameRadix (256 in the    *)
(* code), the lengths that announce an extended length are ExtLen and      *)
(* ExtLen + 1 (126 and 127 in the code), and a byte of a mask or a payload *)
(* is a bit, since the bits of a byte are unmasked independently.          *)
(***************************************************************************)
EXTENDS Integers, Sequences

CONSTANTS
    FrameRadix, \* 256
    ExtLen,     \* 126
    Frames,     \* frames a peer may send
    MaxFrames   \* bound on the frames of a connection, of the model only

\* FrameRadix to the n, for as many digits as a length may have.
Power(n) ==
    LET power[k \in 0..8] == IF k = 0 THEN 1 ELSE FrameRadix * power[k - 1]
    IN  power[n]

ASSUME FrameAssumption ==
    /\ FrameRadix \in Nat \ {0, 1} /\ ExtLen \in 1..126 /\ MaxFrames \in Nat
    /\ \A f \in Frames : /\ f.fin \in BOOLEAN /\ f.opcode \in 0..15
                         /\ f.mask = <<>> \/ f.mask \in [1..4 -> {0, 1}]
                         /\ f.payload \in Seq({0, 1}) /\ Len(f.payload) < Power(8)

VARIABLES
    sent,       \* the frames the peer sends, in order
    wire,       \* their bytes that have not arrived yet
    received,   \* the bytes that have arrived and were not cut off
    incomplete, \* parseFrame returned null and nothing has arrived since
    taken       \* the frames the user got

frameVars == <<sent, wire, received, incomplete, taken>>

-----------------------------------------------------------------------------
(***************************************************************************)
(* The peer (external): RFC 6455 with the shortest length that fits.       *)
(***************************************************************************)
Digits(value, n) == [d \in 1..n |-> (value \div Power(n - d)) % FrameRadix]
Xor(a, b) == (a + b) % 2

Form(n) == IF n < ExtLen THEN 0 ELSE IF n < Power(2) THEN 2 ELSE 8

ShortLength(n) == IF Form(n) = 0 THEN n ELSE IF Form(n) = 2 THEN ExtLen ELSE ExtLen + 1

FirstBytes(f) ==
    <<(IF f.fin THEN 128 ELSE 0) + f.opcode,
      (IF f.mask = <<>> THEN 0 ELSE 128) + ShortLength(Len(f.payload))>>

Masked(f) ==
    [k \in 1..Len(f.payload) |->
        IF f.mask = <<>> THEN f.payload[k] ELSE Xor(f.payload[k], f.mask[((k - 1) % 4) + 1])]

Encode(f) ==
    FirstBytes(f) \o (Digits(Len(f.payload), Form(Len(f.payload))) \o (f.mask \o Masked(f)))

\* The bytes of the k-th frame and those after it.
Stream(fs, k) ==
    LET from[n \in Nat] == IF n > Len(fs) THEN <<>> ELSE Encode(fs[n]) \o from[n + 1]
    IN  from[k]

-----------------------------------------------------------------------------
(***************************************************************************)
(* parseFrame                                                              *)
(***************************************************************************)
Byte(b, k) == b[k + 1]
ReadUInt(b, from, n) ==
    LET value[d \in 0..n] == IF d = 0 THEN 0 ELSE value[d - 1] * FrameRadix + Byte(b, from + d - 1)
    IN  value[n]

\* Where the parts of the frame at the front of the buffer lie.
ExtBytes(b) ==
    LET len7 == Byte(b, 1) % 128
    IN  IF len7 = ExtLen THEN 2 ELSE IF len7 = ExtLen + 1 THEN 8 ELSE 0
HasMask(b) == Byte(b, 1) >= 128
PayloadStart(b) == 2 + ExtBytes(b) + IF HasMask(b) THEN 4 ELSE 0

\* high * 0x100000000 + low, with eight bytes
PayloadLength(b) ==
    IF ExtBytes(b) = 0 THEN Byte(b, 1) % 128
    ELSE IF ExtBytes(b) = 2 THEN ReadUInt(b, 2, 2)
    ELSE ReadUInt(b, 2, 4) * Power(4) + ReadUInt(b, 6, 4)

\* "short" stands for each of the returns of null, all of them before the
\* payload is touched.
Short == [short |-> TRUE]

Header(b) ==
    IF \/ Len(b) < 2
       \/ Len(b) < 2 + ExtBytes(b)
       \/ Len(b) < PayloadStart(b)
       \/ Len(b) < PayloadStart(b) + PayloadLength(b)
    THEN Short
    ELSE [short |-> FALSE, fin |-> Byte(b, 0) >= 128, opcode |-> Byte(b, 0) % 16,
          masked |-> HasMask(b), payloadStart |-> PayloadStart(b), payloadLength |-> PayloadLength(b)]

\* Fault: the byte of the mask is chosen by the position in the frame.
UnmaskByPosition(b, h) ==
    [k \in 1..Len(b) |->
        IF h.masked /\ k - 1 - h.payloadStart \in 0..(h.payloadLength - 1)
        THEN Xor(b[k], Byte(b, h.payloadStart - 4 + ((k - 1) % 4))) ELSE b[k]]

\* buffer[payloadStart + i] ^= maskKey[i & 3], for every i of the payload.
Unmask(b, h) ==
    [k \in 1..Len(b) |->
        LET n == k - 1 - h.payloadStart
        IN  IF h.masked /\ n \in 0..(h.payloadLength - 1)
            THEN Xor(b[k], Byte(b, h.payloadStart - 4 + (n % 4))) ELSE b[k]]

-----------------------------------------------------------------------------
FrameInit ==
    /\ sent \in UNION {[1..n -> Frames] : n \in 1..MaxFrames}
    /\ wire = Stream(sent, 1)
    /\ received = <<>>
    /\ incomplete = TRUE
    /\ taken = <<>>

\* A chunk of any size arrives.
Receive ==
    \E n \in 1..Len(wire) :
        /\ received' = received \o SubSeq(wire, 1, n)
        /\ wire' = SubSeq(wire, n + 1, Len(wire))
        /\ incomplete' = FALSE
        /\ UNCHANGED <<sent, taken>>

\* parseFrame returns null: nothing may have changed.
ParseNull ==
    /\ ~incomplete
    /\ Header(received).short
    /\ incomplete' = TRUE
    /\ UNCHANGED <<sent, wire, received, taken>>

\* parseFrame returns a frame; the user takes the payload and cuts it off.
ParseFrame ==
    /\ ~incomplete
    /\ LET h == Header(received)
           end == h.payloadStart + h.payloadLength
           b == Unmask(received, h)
       IN  /\ ~h.short
           /\ taken' = Append(taken, [fin |-> h.fin, opcode |-> h.opcode,
                                      payload |-> SubSeq(b, h.payloadStart + 1, end)])
           /\ received' = SubSeq(b, end + 1, Len(b))
    /\ UNCHANGED <<sent, wire, incomplete>>

FrameNext == Receive \/ ParseNull \/ ParseFrame

FrameSpec == FrameInit /\ [][FrameNext]_frameVars

-----------------------------------------------------------------------------
(***************************************************************************)
(* Properties                                                              *)
(***************************************************************************)
Plain(f) == [fin |-> f.fin, opcode |-> f.opcode, payload |-> f.payload]

\* The user gets the frames that were sent, in order and unmasked, whatever
\* the sizes of the chunks: no payload byte is unmasked twice or not at all,
\* and no frame begins where another has not ended.  null is returned only
\* while the next frame has not arrived in full, and what has arrived is then
\* still the frame as it was sent.
FramesAsSent ==
    /\ Len(taken) <= Len(sent)
    /\ \A n \in DOMAIN taken : taken[n] = Plain(sent[n])
    /\ incomplete =>
          /\ received \o wire = Stream(sent, Len(taken) + 1)
          /\ Len(taken) < Len(sent) => Len(received) < Len(Encode(sent[Len(taken) + 1]))

=============================================================================
