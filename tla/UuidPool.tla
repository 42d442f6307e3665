------------------------------ MODULE UuidPool ------------------------------
(***************************************************************************)
(* The UUID generators of packages/ohn-uuid/src/ohn-uuid.js.  Both draw    *)
(* sixteen bytes at a time from one pool of entropy that is refilled when  *)
(* it is used up, and each writes its result into one buffer that all its  *)
(* callers share.  A call is modelled byte by byte, because the reading    *)
(* offset and the writing index have to stay in step.                      *)
(*                                                                         *)
(* Data: a byte of entropy is known by the fill that produced it and its   *)
(* offset in the pool; a character by what may stand there.                *)
(***************************************************************************)
EXTENDS Integers

CONSTANTS
    PoolIds,    \* identifiers one fill serves: 4096 in the code
    MaxFills    \* bound on the number of fills, of the model only

ASSUME PoolAssumption == PoolIds \in Nat \ {0} /\ MaxFills \in Nat

VARIABLES
    poolOffset,   \* poolOffset: the next byte of the pool
    fills,        \* how often the pool has been filled
    call,         \* the generator that is running, or "idle"
    i,            \* its loop counter
    outIndex,     \* where generateUUIDv4 writes next
    outBuffer,    \* the shared text result
    rawBuffer,    \* the shared binary result
    lastRead      \* history: fill and offset of the last byte read

uuidVars == <<poolOffset, fills, call, i, outIndex, outBuffer, rawBuffer, lastRead>>

POOL_SIZE == 16 * PoolIds
Hyphens == {8, 13, 18, 23}

\* What a position of a result holds, and the byte of entropy behind it.
Never == <<0, 0>>
Blank == [ch |-> "blank", from |-> Never]
Hyphen == [ch |-> "-", from |-> Never]
Digit(c) == [ch |-> c, from |-> <<fills, poolOffset>>]

\* Version and variant are forced into bytes 6 and 8; the rest is entropy.
HighNibble(k) == CASE k = 6 -> "4" [] k = 8 -> "8..b" [] OTHER -> "hex"

UuidInit ==
    /\ poolOffset = POOL_SIZE
    /\ fills = 0
    /\ call = "idle"
    /\ i = 0
    /\ outIndex = 0
    /\ outBuffer = [p \in 0..35 |-> IF p \in Hyphens THEN Hyphen ELSE Blank]
    /\ rawBuffer = [p \in 0..15 |-> Blank]
    /\ lastRead = Never

-----------------------------------------------------------------------------
\* Fault: one byte is read beyond the pool before it is filled again.
ExhaustedLate == poolOffset > POOL_SIZE

\* A pool that is used up is filled again, and only then.
Exhausted == poolOffset >= POOL_SIZE

Refill ==
    /\ Exhausted => fills < MaxFills
    /\ fills' = IF Exhausted THEN fills + 1 ELSE fills
    /\ poolOffset' = IF Exhausted THEN 0 ELSE poolOffset

\* The exported fillEntropy, called by a user of the package.
FillEntropy ==
    /\ call = "idle"
    /\ Refill
    /\ UNCHANGED <<call, i, outIndex, outBuffer, rawBuffer, lastRead>>

\* generateUUIDv4 and generateUUIDv4Raw: entry.
Begin(generator) ==
    /\ call = "idle"
    /\ Refill
    /\ call' = generator
    /\ i' = 0
    /\ outIndex' = 0
    /\ UNCHANGED <<outBuffer, rawBuffer, lastRead>>

\* pool[poolOffset++]
TakeByte ==
    /\ i < 16
    /\ i' = i + 1
    /\ poolOffset' = poolOffset + 1
    /\ lastRead' = <<fills, poolOffset>>

\* Fault: the hyphens are written over.
SkipNothing(p) == p

\* Two characters, after a hyphen that stands in the way.
SkipHyphen(p) == IF p \in Hyphens THEN p + 1 ELSE p

TextByte ==
    /\ call = "text"
    /\ TakeByte
    /\ LET p == SkipHyphen(outIndex)
       IN  /\ outBuffer' = [outBuffer EXCEPT ![p] = Digit(HighNibble(i)), ![p + 1] = Digit("hex")]
           /\ outIndex' = p + 2
    /\ UNCHANGED <<fills, call, rawBuffer>>

RawByte ==
    /\ call = "raw"
    /\ TakeByte
    /\ rawBuffer' = [rawBuffer EXCEPT ![i] = Digit(HighNibble(i))]
    /\ UNCHANGED <<fills, call, outIndex, outBuffer>>

\* The loop ends: the caller gets a reference to the shared buffer.
Return ==
    /\ call # "idle"
    /\ i = 16
    /\ call' = "idle"
    /\ UNCHANGED <<poolOffset, fills, i, outIndex, outBuffer, rawBuffer, lastRead>>

UuidNext ==
    \/ FillEntropy
    \/ \E generator \in {"text", "raw"} : Begin(generator)
    \/ TextByte
    \/ RawByte
    \/ Return

UuidSpec == UuidInit /\ [][UuidNext]_uuidVars

-----------------------------------------------------------------------------
(***************************************************************************)
(* Properties                                                              *)
(***************************************************************************)
\* A read is later than the last one: in the same fill further on, or in a
\* later fill.
Later(new, old) == new[1] > old[1] \/ (new[1] = old[1] /\ new[2] > old[2])

\* No byte of entropy goes into two results, and every byte read lies in the
\* pool: refilling happens exactly at the boundary (fillEntropy's test, and
\* two generators that advance one offset).
EntropyReadOnce ==
    [][lastRead' # lastRead => Later(lastRead', lastRead) /\ lastRead'[2] \in 0 .. POOL_SIZE - 1]_uuidVars

\* The bytes of one identifier: sixteen, consecutive, of one fill, read in
\* the order they are written.
OneDraw(source) ==
    \A k \in 0..15 : /\ source[k][1] = source[0][1]
                     /\ source[k][2] = source[0][2] + k

\* Where the byte k of an identifier stands in the text form.
TextPlace(k) == 2 * k + (IF k < 4 THEN 0 ELSE IF k < 6 THEN 1 ELSE IF k < 8 THEN 2 ELSE IF k < 10 THEN 3 ELSE 4)

\* A result that a caller holds while no call runs is one whole identifier:
\* hyphens, version and variant where the format wants them, both nibbles of
\* sixteen bytes of a single draw, nothing left over from an earlier result.
TextWhole ==
    (call # "text" /\ outBuffer[0] # Blank) =>
        /\ \A p \in 0..35 : CASE p \in Hyphens -> outBuffer[p] = Hyphen
                              [] p = 14        -> outBuffer[p].ch = "4"
                              [] p = 19        -> outBuffer[p].ch = "8..b"
                              [] OTHER         -> outBuffer[p].ch = "hex"
        /\ \A k \in 0..15 : outBuffer[TextPlace(k)].from = outBuffer[TextPlace(k) + 1].from
        /\ OneDraw([k \in 0..15 |-> outBuffer[TextPlace(k)].from])

RawWhole ==
    (call # "raw" /\ rawBuffer[0] # Blank) =>
        /\ \A k \in 0..15 : rawBuffer[k].ch = HighNibble(k)
        /\ OneDraw([k \in 0..15 |-> rawBuffer[k].from])

UuidWhole == TextWhole /\ RawWhole

=============================================================================
